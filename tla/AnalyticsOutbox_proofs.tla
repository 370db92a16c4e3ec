----------------------- MODULE AnalyticsOutbox_proofs -----------------------
(***************************************************************************)
(* Machine-checked proofs about AnalyticsOutbox, for any set of facts, any *)
(* number of instances, any batch size, number of attempts and faults.     *)
(***************************************************************************)
EXTENDS AnalyticsOutbox, FiniteSetTheorems, TLAPS

(***************************************************************************)
(* The inductive invariant.  A fact whose lease never ran out under the    *)
(* work is locked while someone works on it, and not settled yet; so that  *)
(* nobody else claims it.  A publisher never holds a count of attempts     *)
(* that is above the failures that happened, which carries over to what it *)
(* stores.  A publisher that is about to mark a fact has delivered it.     *)
(***************************************************************************)
PlaceInv ==
    \A i \in Instance : at[i] \in {"idle", "claim"} => current[i] = {}

LeaseInv ==
    \A f \in Fact \ overrun, i \in Instance :
        Working(i, f) => lease[f] = "held" /\ f \notin published \cup dead

FailureInv ==
    /\ DeadLetterEarned
    /\ \A f \in Fact : attempts[f] <= failures[f]
    /\ \A i \in Instance, f \in Fact : Working(i, f) =>
           /\ at[i] \in {"send", "mark"} => seen[i] <= failures[f]
           /\ at[i] = "fail" => seen[i] < failures[f]

Marking(f) == \E i \in Instance : Working(i, f) /\ at[i] = "mark"

DeliveryInv ==
    /\ \A f \in Fact : f \in published \/ Marking(f) => deliveries[f] > 0
    /\ \A f \in Fact \ (overrun \cup unsure) :
           /\ deliveries[f] <= 1
           /\ deliveries[f] = 1 => f \in published \/ Marking(f)

OutboxInv ==
    /\ TypeOK
    /\ PlaceInv
    /\ WorkIsExclusive
    /\ OneOutcome
    /\ LeaseInv
    /\ FailureInv
    /\ DeliveryInv

-----------------------------------------------------------------------------
LEMMA InvInit == Init => OutboxInv
    BY DEF Init, OutboxInv, TypeOK, Place, PlaceInv, WorkIsExclusive, OneOutcome,
           LeaseInv, FailureInv, DeadLetterEarned, DeliveryInv, Marking, Working

LEMMA TypeStep == TypeOK /\ [Next]_vars => TypeOK'
<1> SUFFICES ASSUME TypeOK, [Next]_vars
             PROVE  TypeOK'
    OBVIOUS
<1> USE DEF TypeOK, Place
<1>1. ASSUME NEW f \in Fact, Enqueue(f)
      PROVE  TypeOK'
    BY <1>1 DEF Enqueue, Stay, history
<1>2. ASSUME NEW f \in Fact, LeaseLapses(f)
      PROVE  TypeOK'
    BY <1>2 DEF LeaseLapses, Stay, history
<1>3. ASSUME NEW f \in Fact, LeaseOverrun(f)
      PROVE  TypeOK'
    BY <1>3 DEF LeaseOverrun, Fault, Stay
<1>4. ASSUME NEW f \in Fact, BackoffElapses(f)
      PROVE  TypeOK'
    BY <1>4 DEF BackoffElapses, Stay, history
<1>5. ASSUME NEW i \in Instance, Poll(i)
      PROVE  TypeOK'
  <2>1. Oldest({f \in due : Claimable(f)}) \subseteq enqueued
    BY DEF Oldest, Claimable
  <2> QED
    BY <1>5, <2>1 DEF Poll, Goto, table, history
<1>6. ASSUME NEW i \in Instance, Claim(i)
      PROVE  TypeOK'
  <2> DEFINE f == First(batch[i])
  <2>1. /\ batch' \in [Instance -> SUBSET enqueued]
        /\ UNCHANGED <<enqueued, published, dead, attempts, due, seen, history>>
    BY <1>6 DEF Claim
  <2>2. CASE Claimable(f)
    <3>1. f \in enqueued /\ f \in Fact
      BY <2>2 DEF Claimable
    <3>2. /\ lease' = [lease EXCEPT ![f] = "held"]
          /\ current' = [current EXCEPT ![i] = {f}]
          /\ at' = [at EXCEPT ![i] = "read"]
      BY <1>6, <2>2 DEF Claim, Goto
    <3> HIDE DEF f
    <3> QED
      BY <2>1, <3>1, <3>2 DEF history
  <2>3. CASE ~Claimable(f)
    BY <1>6, <2>1, <2>3 DEF Claim, Goto, history
  <2> QED
    BY <2>2, <2>3
<1>7. ASSUME NEW i \in Instance, NEW f \in Fact, Read(i, f)
      PROVE  TypeOK'
    BY <1>7 DEF Read, Goto, table, history
<1>8. ASSUME NEW i \in Instance, NEW f \in Fact, SendAcked(i, f)
      PROVE  TypeOK'
    BY <1>8 DEF SendAcked, Goto, table
<1>9. ASSUME NEW i \in Instance, NEW f \in Fact, SendFailed(i, f)
      PROVE  TypeOK'
    BY <1>9 DEF SendFailed, Goto, table
<1>10. ASSUME NEW i \in Instance, NEW f \in Fact, SendLost(i, f)
       PROVE  TypeOK'
    BY <1>10 DEF SendLost, Fault, Goto, table
<1>11. ASSUME NEW i \in Instance, NEW f \in Fact, MarkPublished(i, f)
       PROVE  TypeOK'
  <2>1. f \in enqueued
    BY <1>11 DEF MarkPublished, Working
  <2> QED
    BY <1>11, <2>1 DEF MarkPublished, Proceed, Goto, history
<1>12. ASSUME NEW i \in Instance, NEW f \in Fact, MarkFails(i, f)
       PROVE  TypeOK'
    BY <1>12 DEF MarkFails, Fault, Goto, table
<1>13. ASSUME NEW i \in Instance, NEW f \in Fact, RecordFailure(i, f)
       PROVE  TypeOK'
  <2>1. f \in enqueued
    BY <1>13 DEF RecordFailure, Working
  <2> QED
    BY <1>13, <2>1 DEF RecordFailure, AttemptsAfter, Proceed, Goto, history
<1>14. ASSUME NEW i \in Instance, Abandon(i)
       PROVE  TypeOK'
    BY <1>14 DEF Abandon, Fault, Goto, table
<1>15. CASE UNCHANGED vars
    BY <1>15 DEF vars
<1> QED
    BY <1>1, <1>2, <1>3, <1>4, <1>5, <1>6, <1>7, <1>8, <1>9, <1>10, <1>11,
       <1>12, <1>13, <1>14, <1>15 DEF Next, InstanceStep, Publish

-----------------------------------------------------------------------------
(* A failure that is about to be recorded has happened.                    *)
LEMMA FailureHappens ==
    ASSUME TypeOK, FailureInv, NEW i \in Instance, NEW f \in Fact,
           Working(i, f), at[i] \in {"send", "mark"}, Goto(i, "fail"),
           failures' = [failures EXCEPT ![f] = @ + 1],
           UNCHANGED <<attempts, dead, current, seen>>
    PROVE  FailureInv'
<1>1. /\ failures'[f] = failures[f] + 1 /\ seen[i] <= failures[f]
      /\ \A g \in Fact : failures[g] \in Nat /\ failures'[g] \in Nat
                         /\ failures[g] <= failures'[g] /\ attempts[g] \in Nat
    BY DEF TypeOK, FailureInv
<1>2. \A k \in Instance : seen[k] \in Nat /\ (k # i => at'[k] = at[k])
    BY DEF TypeOK, Goto
<1>3. at'[i] = "fail" /\ MaxAttempts \in Nat
    BY OutboxAssumption DEF TypeOK, Goto
<1>4. DeadLetterEarned'
    BY <1>1, <1>3 DEF FailureInv, DeadLetterEarned, TypeOK
<1>5. \A g \in Fact : attempts[g] <= failures'[g]
    BY <1>1 DEF FailureInv
<1>6. ASSUME NEW k \in Instance, NEW g \in Fact, Working(k, g)
      PROVE  /\ at'[k] \in {"send", "mark"} => seen[k] <= failures'[g]
             /\ at'[k] = "fail" => seen[k] < failures'[g]
  <2>1. CASE k = i
    <3>1. g = f
      BY <1>6, <2>1 DEF Working, TypeOK
    <3> QED
      BY <3>1, <2>1, <1>1, <1>2, <1>3
  <2>2. CASE k # i
    <3>1. /\ at[k] \in {"send", "mark"} => seen[k] <= failures[g]
          /\ at[k] = "fail" => seen[k] < failures[g]
      BY <1>6 DEF FailureInv
    <3> QED
      BY <3>1, <2>2, <1>1, <1>2
  <2> QED
    BY <2>1, <2>2
<1> QED
    BY <1>4, <1>5, <1>6 DEF FailureInv, Working

(* What is recorded was seen, plus one, and is covered by the failures;    *)
(* MaxAttempts of them are needed to give a fact up.                       *)
LEMMA FailureRecorded ==
    ASSUME TypeOK, FailureInv, NEW i \in Instance, NEW f \in Fact,
           RecordFailure(i, f)
    PROVE  FailureInv'
<1>1. /\ attempts'[f] = seen[i] + 1 /\ seen[i] < failures[f]
      /\ seen[i] \in Nat /\ failures[f] \in Nat
      /\ \A g \in Fact : g # f => attempts'[g] = attempts[g]
      /\ UNCHANGED failures
    BY DEF RecordFailure, AttemptsAfter, history, TypeOK, FailureInv
<1>2. /\ \A k \in Instance : k # i => /\ at'[k] = at[k] /\ seen'[k] = seen[k]
                                      /\ current'[k] = current[k]
      /\ current'[i] = {}
    BY DEF RecordFailure, Proceed, Goto, TypeOK
<1>3. dead' = dead \/ (dead' = dead \cup {f} /\ seen[i] + 1 >= MaxAttempts)
    BY DEF RecordFailure, AttemptsAfter
<1>4. DeadLetterEarned'
    BY <1>1, <1>3, OutboxAssumption DEF FailureInv, DeadLetterEarned
<1>5. (\A g \in Fact : attempts[g] <= failures[g])'
    BY <1>1 DEF FailureInv
<1>6. (\A k \in Instance, g \in Fact : Working(k, g) =>
           /\ at[k] \in {"send", "mark"} => seen[k] <= failures[g]
           /\ at[k] = "fail" => seen[k] < failures[g])'
    BY <1>1, <1>2 DEF FailureInv, Working
<1> QED
    BY <1>4, <1>5, <1>6 DEF FailureInv

LEMMA InvStep == OutboxInv /\ [Next]_vars => OutboxInv'
<1> SUFFICES ASSUME OutboxInv, [Next]_vars
             PROVE  OutboxInv'
    OBVIOUS
<1>a. TypeOK /\ TypeOK'
    BY TypeStep DEF OutboxInv
<1> USE <1>a DEF OutboxInv, TypeOK, Working, Goto, Stay, Proceed, table, history
<1>1. ASSUME NEW f \in Fact, Enqueue(f)
      PROVE  OutboxInv'
  <2>1. PlaceInv'
    BY <1>1 DEF Enqueue, PlaceInv
  <2>2. WorkIsExclusive'
    BY <1>1 DEF Enqueue, WorkIsExclusive, LeaseInv
  <2>3. OneOutcome'
    BY <1>1 DEF Enqueue, OneOutcome, LeaseInv
  <2>4. LeaseInv'
    BY <1>1 DEF Enqueue, LeaseInv, WorkIsExclusive, OneOutcome
  <2>5. FailureInv'
    BY <1>1 DEF Enqueue, FailureInv, DeadLetterEarned
  <2>6. DeliveryInv'
    BY <1>1 DEF Enqueue, DeliveryInv, Marking, LeaseInv, WorkIsExclusive
  <2> QED
    BY <2>1, <2>2, <2>3, <2>4, <2>5, <2>6
<1>2. ASSUME NEW f \in Fact, LeaseLapses(f)
      PROVE  OutboxInv'
  <2>1. PlaceInv'
    BY <1>2 DEF LeaseLapses, PlaceInv
  <2>2. WorkIsExclusive'
    BY <1>2 DEF LeaseLapses, WorkIsExclusive, LeaseInv
  <2>3. OneOutcome'
    BY <1>2 DEF LeaseLapses, OneOutcome, LeaseInv
  <2>4. LeaseInv'
    BY <1>2 DEF LeaseLapses, LeaseInv, WorkIsExclusive, OneOutcome
  <2>5. FailureInv'
    BY <1>2 DEF LeaseLapses, FailureInv, DeadLetterEarned
  <2>6. DeliveryInv'
    BY <1>2 DEF LeaseLapses, DeliveryInv, Marking, LeaseInv, WorkIsExclusive
  <2> QED
    BY <2>1, <2>2, <2>3, <2>4, <2>5, <2>6
<1>3. ASSUME NEW f \in Fact, LeaseOverrun(f)
      PROVE  OutboxInv'
  <2>1. PlaceInv'
    BY <1>3 DEF LeaseOverrun, PlaceInv
  <2>2. WorkIsExclusive'
    BY <1>3 DEF LeaseOverrun, WorkIsExclusive, LeaseInv
  <2>3. OneOutcome'
    BY <1>3 DEF LeaseOverrun, OneOutcome, LeaseInv
  <2>4. LeaseInv'
    BY <1>3 DEF LeaseOverrun, LeaseInv, WorkIsExclusive, OneOutcome
  <2>5. FailureInv'
    BY <1>3 DEF LeaseOverrun, FailureInv, DeadLetterEarned
  <2>6. DeliveryInv'
    BY <1>3 DEF LeaseOverrun, DeliveryInv, Marking, LeaseInv, WorkIsExclusive
  <2> QED
    BY <2>1, <2>2, <2>3, <2>4, <2>5, <2>6
<1>4. ASSUME NEW f \in Fact, BackoffElapses(f)
      PROVE  OutboxInv'
  <2>1. PlaceInv'
    BY <1>4 DEF BackoffElapses, PlaceInv
  <2>2. WorkIsExclusive'
    BY <1>4 DEF BackoffElapses, WorkIsExclusive, LeaseInv
  <2>3. OneOutcome'
    BY <1>4 DEF BackoffElapses, OneOutcome, LeaseInv
  <2>4. LeaseInv'
    BY <1>4 DEF BackoffElapses, LeaseInv, WorkIsExclusive, OneOutcome
  <2>5. FailureInv'
    BY <1>4 DEF BackoffElapses, FailureInv, DeadLetterEarned
  <2>6. DeliveryInv'
    BY <1>4 DEF BackoffElapses, DeliveryInv, Marking, LeaseInv, WorkIsExclusive
  <2> QED
    BY <2>1, <2>2, <2>3, <2>4, <2>5, <2>6
<1>5. ASSUME NEW i \in Instance, Poll(i)
      PROVE  OutboxInv'
  <2>1. PlaceInv'
    BY <1>5 DEF Poll, PlaceInv
  <2>2. WorkIsExclusive'
    BY <1>5 DEF Poll, WorkIsExclusive, LeaseInv
  <2>3. OneOutcome'
    BY <1>5 DEF Poll, OneOutcome, LeaseInv
  <2>4. LeaseInv'
    BY <1>5 DEF Poll, LeaseInv, WorkIsExclusive, OneOutcome
  <2>5. FailureInv'
    BY <1>5 DEF Poll, FailureInv, DeadLetterEarned
  <2>6. DeliveryInv'
    BY <1>5 DEF Poll, DeliveryInv, Marking, LeaseInv, WorkIsExclusive
  <2> QED
    BY <2>1, <2>2, <2>3, <2>4, <2>5, <2>6
<1>6. ASSUME NEW i \in Instance, Claim(i)
      PROVE  OutboxInv'
  <2>1. PlaceInv'
    BY <1>6 DEF Claim, Claimable, PlaceInv
  <2>2. WorkIsExclusive'
    BY <1>6 DEF Claim, Claimable, WorkIsExclusive, LeaseInv
  <2>3. OneOutcome'
    BY <1>6 DEF Claim, Claimable, OneOutcome, LeaseInv
  <2>4. LeaseInv'
    BY <1>6 DEF Claim, Claimable, LeaseInv, WorkIsExclusive, OneOutcome
  <2>5. FailureInv'
    BY <1>6 DEF Claim, Claimable, FailureInv, DeadLetterEarned
  <2>6. DeliveryInv'
    BY <1>6 DEF Claim, Claimable, DeliveryInv, Marking, LeaseInv, WorkIsExclusive
  <2> QED
    BY <2>1, <2>2, <2>3, <2>4, <2>5, <2>6
<1>7. ASSUME NEW i \in Instance, NEW f \in Fact, Read(i, f)
      PROVE  OutboxInv'
  <2>1. PlaceInv'
    BY <1>7 DEF Read, PlaceInv
  <2>2. WorkIsExclusive'
    BY <1>7 DEF Read, WorkIsExclusive, LeaseInv
  <2>3. OneOutcome'
    BY <1>7 DEF Read, OneOutcome, LeaseInv
  <2>4. LeaseInv'
    BY <1>7 DEF Read, LeaseInv, WorkIsExclusive, OneOutcome
  <2>5. FailureInv'
    BY <1>7 DEF Read, FailureInv, DeadLetterEarned
  <2>6. DeliveryInv'
    BY <1>7 DEF Read, DeliveryInv, Marking, LeaseInv, WorkIsExclusive
  <2> QED
    BY <2>1, <2>2, <2>3, <2>4, <2>5, <2>6
<1>8. ASSUME NEW i \in Instance, NEW f \in Fact, SendAcked(i, f)
      PROVE  OutboxInv'
  <2>1. PlaceInv'
    BY <1>8 DEF SendAcked, PlaceInv
  <2>2. WorkIsExclusive'
    BY <1>8 DEF SendAcked, WorkIsExclusive, LeaseInv
  <2>3. OneOutcome'
    BY <1>8 DEF SendAcked, OneOutcome, LeaseInv
  <2>4. LeaseInv'
    BY <1>8 DEF SendAcked, LeaseInv, WorkIsExclusive, OneOutcome
  <2>5. FailureInv'
    BY <1>8 DEF SendAcked, FailureInv, DeadLetterEarned
  <2>6. DeliveryInv'
    BY <1>8 DEF SendAcked, DeliveryInv, Marking, LeaseInv, WorkIsExclusive
  <2> QED
    BY <2>1, <2>2, <2>3, <2>4, <2>5, <2>6
<1>9. ASSUME NEW i \in Instance, NEW f \in Fact, SendFailed(i, f)
      PROVE  OutboxInv'
  <2>1. PlaceInv'
    BY <1>9 DEF SendFailed, PlaceInv
  <2>2. WorkIsExclusive'
    BY <1>9 DEF SendFailed, WorkIsExclusive, LeaseInv
  <2>3. OneOutcome'
    BY <1>9 DEF SendFailed, OneOutcome, LeaseInv
  <2>4. LeaseInv'
    BY <1>9 DEF SendFailed, LeaseInv, WorkIsExclusive, OneOutcome
  <2>5. FailureInv'
    BY <1>9, FailureHappens DEF SendFailed
  <2>6. DeliveryInv'
    BY <1>9 DEF SendFailed, DeliveryInv, Marking, LeaseInv, WorkIsExclusive
  <2> QED
    BY <2>1, <2>2, <2>3, <2>4, <2>5, <2>6
<1>10. ASSUME NEW i \in Instance, NEW f \in Fact, SendLost(i, f)
       PROVE  OutboxInv'
  <2>1. PlaceInv'
    BY <1>10 DEF SendLost, PlaceInv
  <2>2. WorkIsExclusive'
    BY <1>10 DEF SendLost, WorkIsExclusive, LeaseInv
  <2>3. OneOutcome'
    BY <1>10 DEF SendLost, OneOutcome, LeaseInv
  <2>4. LeaseInv'
    BY <1>10 DEF SendLost, LeaseInv, WorkIsExclusive, OneOutcome
  <2>5. FailureInv'
    BY <1>10, FailureHappens DEF SendLost
  <2>6. DeliveryInv'
    BY <1>10 DEF SendLost, DeliveryInv, Marking, LeaseInv, WorkIsExclusive
  <2> QED
    BY <2>1, <2>2, <2>3, <2>4, <2>5, <2>6
<1>11. ASSUME NEW i \in Instance, NEW f \in Fact, MarkPublished(i, f)
       PROVE  OutboxInv'
  <2>1. PlaceInv'
    BY <1>11 DEF MarkPublished, PlaceInv
  <2>2. WorkIsExclusive'
    BY <1>11 DEF MarkPublished, WorkIsExclusive, LeaseInv
  <2>3. OneOutcome'
    BY <1>11 DEF MarkPublished, OneOutcome, LeaseInv
  <2>4. LeaseInv'
    BY <1>11 DEF MarkPublished, LeaseInv, WorkIsExclusive, OneOutcome
  <2>5. FailureInv'
    BY <1>11 DEF MarkPublished, FailureInv, DeadLetterEarned
  <2>6. DeliveryInv'
    BY <1>11 DEF MarkPublished, DeliveryInv, Marking, LeaseInv, WorkIsExclusive
  <2> QED
    BY <2>1, <2>2, <2>3, <2>4, <2>5, <2>6
<1>12. ASSUME NEW i \in Instance, NEW f \in Fact, MarkFails(i, f)
       PROVE  OutboxInv'
  <2>1. PlaceInv'
    BY <1>12 DEF MarkFails, PlaceInv
  <2>2. WorkIsExclusive'
    BY <1>12 DEF MarkFails, WorkIsExclusive, LeaseInv
  <2>3. OneOutcome'
    BY <1>12 DEF MarkFails, OneOutcome, LeaseInv
  <2>4. LeaseInv'
    BY <1>12 DEF MarkFails, LeaseInv, WorkIsExclusive, OneOutcome
  <2>5. FailureInv'
    BY <1>12, FailureHappens DEF MarkFails
  <2>6. DeliveryInv'
    BY <1>12 DEF MarkFails, DeliveryInv, Marking, LeaseInv, WorkIsExclusive
  <2> QED
    BY <2>1, <2>2, <2>3, <2>4, <2>5, <2>6
<1>13. ASSUME NEW i \in Instance, NEW f \in Fact, RecordFailure(i, f)
       PROVE  OutboxInv'
  <2>1. PlaceInv'
    BY <1>13 DEF RecordFailure, PlaceInv
  <2>2. WorkIsExclusive'
    BY <1>13 DEF RecordFailure, WorkIsExclusive, LeaseInv
  <2>3. OneOutcome'
    BY <1>13 DEF RecordFailure, OneOutcome, LeaseInv
  <2>4. LeaseInv'
    BY <1>13 DEF RecordFailure, LeaseInv, WorkIsExclusive, OneOutcome
  <2>5. FailureInv'
    BY <1>13, FailureRecorded
  <2>6. DeliveryInv'
    BY <1>13 DEF RecordFailure, DeliveryInv, Marking, LeaseInv, WorkIsExclusive
  <2> QED
    BY <2>1, <2>2, <2>3, <2>4, <2>5, <2>6
<1>14. ASSUME NEW i \in Instance, Abandon(i)
       PROVE  OutboxInv'
  <2>1. PlaceInv'
    BY <1>14 DEF Abandon, PlaceInv
  <2>2. WorkIsExclusive'
    BY <1>14 DEF Abandon, WorkIsExclusive, LeaseInv
  <2>3. OneOutcome'
    BY <1>14 DEF Abandon, OneOutcome, LeaseInv
  <2>4. LeaseInv'
    BY <1>14 DEF Abandon, LeaseInv, WorkIsExclusive, OneOutcome
  <2>5. FailureInv'
    BY <1>14 DEF Abandon, FailureInv, DeadLetterEarned
  <2>6. DeliveryInv'
    BY <1>14 DEF Abandon, DeliveryInv, Marking, LeaseInv, WorkIsExclusive
  <2> QED
    BY <2>1, <2>2, <2>3, <2>4, <2>5, <2>6
<1>15. CASE UNCHANGED vars
    BY <1>15 DEF vars, PlaceInv, WorkIsExclusive, OneOutcome, LeaseInv,
       FailureInv, DeadLetterEarned, DeliveryInv, Marking
<1> QED
    BY <1>1, <1>2, <1>3, <1>4, <1>5, <1>6, <1>7, <1>8, <1>9, <1>10, <1>11,
       <1>12, <1>13, <1>14, <1>15 DEF Next, InstanceStep, Publish

LEMMA Invariance == Spec => []OutboxInv
    BY InvInit, InvStep, PTL DEF Spec

(***************************************************************************)
(* The theorems.                                                           *)
(***************************************************************************)

(* Facts, batches, leases and counters keep their types; what is published *)
(* or dead was enqueued, and a publisher only holds facts that were.       *)
THEOREM OutboxTypeCorrect == Spec => []TypeOK
<1>1. OutboxInv => TypeOK
    BY DEF OutboxInv
<1> QED
    BY <1>1, Invariance, PTL

(* Nobody works on a fact of somebody else, unless a lease ran out.        *)
THEOREM WorkExclusive == Spec => []WorkIsExclusive
<1>1. OutboxInv => WorkIsExclusive
    BY DEF OutboxInv
<1> QED
    BY <1>1, Invariance, PTL

(* A dead-lettered fact has failed MaxAttempts times, whatever the         *)
(* interleaving of publishers that outlived their leases.                  *)
THEOREM DeadLettersEarned == Spec => []DeadLetterEarned
<1>1. OutboxInv => DeadLetterEarned
    BY DEF OutboxInv, FailureInv
<1> QED
    BY <1>1, Invariance, PTL

(* No fact is both published and dead-lettered, unless a lease ran out.    *)
THEOREM OutcomesExclusive == Spec => []OneOutcome
<1>1. OutboxInv => OneOutcome
    BY DEF OutboxInv
<1> QED
    BY <1>1, Invariance, PTL

-----------------------------------------------------------------------------
(***************************************************************************)
(* What repetitions cost.  Publishers that hold a fact and have not        *)
(* delivered it will deliver it once more: those deliveries are counted in *)
(* advance.  While a fact is not published, one delivery is covered by the *)
(* lease if somebody works under it, and each of the others by a fault;    *)
(* a publisher that gives up with its failure recorded leaves a free lease *)
(* and one delivery less to come.  A published fact is not claimed again.  *)
(***************************************************************************)
Undelivered(f) == {i \in Instance : Working(i, f) /\ at[i] # "mark"}

ToCome(f) == Cardinality(Undelivered(f))

Held(f) == lease[f] = "held" /\ \E i \in Instance : Working(i, f)

Cover(f) == IF f \in published \/ Held(f) THEN 1 ELSE 0

Paid(f) == /\ IsFiniteSet(Undelivered(f))
           /\ deliveries[f] + ToCome(f) <= Cover(f) + faults

PaidInv == \A f \in Fact : Paid(f)

LEMMA Counts ==
    ASSUME TypeOK, NEW f \in Fact, Paid(f)
    PROVE  deliveries[f] \in Nat /\ ToCome(f) \in Nat /\ faults \in Nat
    BY FS_CardinalityType DEF TypeOK, Paid, ToCome

(* A publisher comes to a delivery, or has it behind.                      *)
LEMMA OneMore ==
    ASSUME NEW f \in Fact, NEW i \in Instance, IsFiniteSet(Undelivered(f)),
           Undelivered(f)' = Undelivered(f) \cup {i}
    PROVE  /\ IsFiniteSet(Undelivered(f))'
           /\ ToCome(f)' = IF i \in Undelivered(f) THEN ToCome(f)
                                                   ELSE ToCome(f) + 1
    BY FS_AddElement DEF ToCome

LEMMA OneLess ==
    ASSUME NEW f \in Fact, NEW i \in Instance, IsFiniteSet(Undelivered(f)),
           Undelivered(f)' = Undelivered(f) \ {i}
    PROVE  /\ IsFiniteSet(Undelivered(f))'
           /\ ToCome(f)' = IF i \in Undelivered(f) THEN ToCome(f) - 1
                                                   ELSE ToCome(f)
    BY FS_RemoveElement DEF ToCome

(* A step that changes no delivery of the fact, to come or past, may take  *)
(* the cover of the lease away if it is a fault.                           *)
LEMMA PaidKept ==
    ASSUME TypeOK, TypeOK', NEW f \in Fact, Paid(f),
           Undelivered(f)' = Undelivered(f), deliveries'[f] = deliveries[f],
           f \in published => f \in published',
           \/ /\ Held(f) => Held(f)' \/ f \in published'
              /\ faults' = faults
           \/ faults' = faults + 1
    PROVE  Paid(f)'
<1>1. ToCome(f)' = ToCome(f) /\ IsFiniteSet(Undelivered(f))'
    BY DEF ToCome, Paid
<1> QED
    BY <1>1, Counts DEF Paid, Cover

LEMMA PaidStep ==
    ASSUME OutboxInv, PaidInv, [Next]_vars
    PROVE  PaidInv'
<1> SUFFICES ASSUME NEW g \in Fact
             PROVE  Paid(g)'
    BY DEF PaidInv
<1>t. /\ TypeOK /\ TypeOK' /\ PlaceInv
      /\ Paid(g) /\ IsFiniteSet(Undelivered(g))
      /\ deliveries[g] \in Nat /\ ToCome(g) \in Nat /\ faults \in Nat
    BY TypeStep, Counts DEF OutboxInv, PaidInv, Paid
<1>1. ASSUME NEW f \in Fact, Enqueue(f) \/ BackoffElapses(f) \/ LeaseLapses(f)
      PROVE  Paid(g)'
  <2>1. /\ Undelivered(g)' = Undelivered(g) /\ (Held(g) => Held(g)')
        /\ UNCHANGED <<deliveries, published, faults>>
    BY <1>1, <1>t
    DEF Enqueue, BackoffElapses, LeaseLapses, Stay, history, Undelivered,
        Held, Working, TypeOK
  <2> QED
    BY <1>t, <2>1, PaidKept
<1>2. ASSUME NEW f \in Fact, LeaseOverrun(f)
      PROVE  Paid(g)'
  <2>1. /\ Undelivered(g)' = Undelivered(g) /\ faults' = faults + 1
        /\ UNCHANGED <<deliveries, published>>
    BY <1>2 DEF LeaseOverrun, Fault, Stay, Undelivered, Working
  <2> QED
    BY <1>t, <2>1, PaidKept
<1>3. ASSUME NEW i \in Instance, Poll(i)
      PROVE  Paid(g)'
  <2>1. /\ Undelivered(g)' = Undelivered(g) /\ (Held(g) => Held(g)')
        /\ UNCHANGED <<deliveries, published, faults>>
    BY <1>3, <1>t
    DEF Poll, Goto, table, history, Undelivered, Held, Working, PlaceInv,
        TypeOK
  <2> QED
    BY <1>t, <2>1, PaidKept
\* A claim takes the fact from nobody who is covered by the lease.
<1>4. ASSUME NEW i \in Instance, Claim(i)
      PROVE  Paid(g)'
  <2> DEFINE f == First(batch[i])
  <2>1. at[i] = "claim" /\ current[i] = {} /\ UNCHANGED <<published, history>>
    BY <1>4, <1>t DEF Claim, PlaceInv
  <2>2. CASE g = f /\ Claimable(f)
    <3>1. /\ lease' = [lease EXCEPT ![g] = "held"] /\ lease[g] # "held"
          /\ current' = [current EXCEPT ![i] = {g}] /\ g \notin published
          /\ at' = [at EXCEPT ![i] = "read"]
      BY <1>4, <2>2 DEF Claim, Claimable, Goto
    <3>2. /\ i \notin Undelivered(g)
          /\ Undelivered(g)' = Undelivered(g) \cup {i}
          /\ ~Held(g) /\ Held(g)'
      BY <1>t, <2>1, <3>1 DEF Undelivered, Working, Held, TypeOK
    <3>3. IsFiniteSet(Undelivered(g))' /\ ToCome(g)' = ToCome(g) + 1
      BY <1>t, <3>2, OneMore
    <3>4. Cover(g) = 0 /\ Cover(g)' = 1
      BY <2>1, <3>1, <3>2 DEF Cover
    <3>5. deliveries[g] + ToCome(g) <= Cover(g) + faults
      BY <1>t DEF Paid
    <3> QED
      BY <1>t, <2>1, <3>3, <3>4, <3>5 DEF Paid, history
  <2>3. CASE g # f \/ ~Claimable(f)
    <3>1. /\ \A k \in Instance : Working(k, g)' = Working(k, g)
          /\ \A k \in Instance : Working(k, g) => at'[k] = at[k]
          /\ lease'[g] = lease[g]
      BY <1>4, <1>t, <2>1, <2>3 DEF Claim, Goto, Working, TypeOK
    <3>2. Undelivered(g)' = Undelivered(g) /\ (Held(g) => Held(g)')
      BY <3>1 DEF Undelivered, Held
    <3> QED
      BY <1>t, <2>1, <3>2, PaidKept DEF history
  <2> QED
    BY <2>2, <2>3
<1>5. ASSUME NEW i \in Instance, NEW f \in Fact, Read(i, f) \/ SendFailed(i, f)
      PROVE  Paid(g)'
  <2>1. /\ Undelivered(g)' = Undelivered(g) /\ (Held(g) => Held(g)')
        /\ UNCHANGED <<deliveries, published, faults>>
    BY <1>5, <1>t
    DEF Read, SendFailed, Goto, table, history, Undelivered, Held, Working,
        TypeOK
  <2> QED
    BY <1>t, <2>1, PaidKept
\* What was to come has come.
<1>6. ASSUME NEW i \in Instance, NEW f \in Fact, SendAcked(i, f)
      PROVE  Paid(g)'
  <2>1. /\ at[i] = "send" /\ current[i] = {f}
        /\ at' = [at EXCEPT ![i] = "mark"]
        /\ deliveries' = [deliveries EXCEPT ![f] = @ + 1]
        /\ UNCHANGED <<published, lease, current, faults>>
    BY <1>6, <1>t DEF SendAcked, Goto, table, Working, TypeOK
  <2>2. Held(g) => Held(g)'
    BY <2>1 DEF Held, Working
  <2>3. CASE g = f
    <3>1. i \in Undelivered(g) /\ Undelivered(g)' = Undelivered(g) \ {i}
      BY <1>t, <2>1, <2>3 DEF Undelivered, Working, TypeOK
    <3>2. deliveries'[g] = deliveries[g] + 1
      BY <1>t, <2>1, <2>3 DEF TypeOK
    <3>3. IsFiniteSet(Undelivered(g))' /\ ToCome(g)' = ToCome(g) - 1
      BY <1>t, <3>1, OneLess
    <3>4. Cover(g) <= Cover(g)' /\ Cover(g) \in Nat /\ Cover(g)' \in Nat
      BY <2>1, <2>2 DEF Cover
    <3>5. deliveries[g] + ToCome(g) <= Cover(g) + faults
      BY <1>t DEF Paid
    <3> QED
      BY <1>t, <2>1, <3>2, <3>3, <3>4, <3>5 DEF Paid
  <2>4. CASE g # f
    <3>1. Undelivered(g)' = Undelivered(g) /\ deliveries'[g] = deliveries[g]
      BY <1>t, <2>1, <2>4 DEF Undelivered, Working, TypeOK
    <3> QED
      BY <1>t, <2>1, <2>2, <3>1, PaidKept
  <2> QED
    BY <2>3, <2>4
<1>7. ASSUME NEW i \in Instance, NEW f \in Fact, SendLost(i, f)
      PROVE  Paid(g)'
  <2>1. /\ Undelivered(g)' = Undelivered(g) /\ faults' = faults + 1
        /\ deliveries'[g] \in {deliveries[g], deliveries[g] + 1}
        /\ (Held(g) => Held(g)') /\ UNCHANGED published
    BY <1>7, <1>t
    DEF SendLost, Fault, Goto, table, Undelivered, Held, Working, TypeOK
  <2>2. ToCome(g)' = ToCome(g)
    BY <2>1 DEF ToCome
  <2> QED
    BY <1>t, <2>1, <2>2 DEF Paid, Cover
<1>8. ASSUME NEW i \in Instance, NEW f \in Fact, MarkPublished(i, f)
      PROVE  Paid(g)'
  <2>1. /\ at[i] = "mark" /\ current[i] = {f}
        /\ current' = [current EXCEPT ![i] = {}]
        /\ \A k \in Instance \ {i} : at'[k] = at[k]
        /\ lease' = [lease EXCEPT ![f] = "free"]
        /\ published' = published \cup {f} /\ UNCHANGED <<deliveries, faults>>
    BY <1>8, <1>t DEF MarkPublished, Proceed, Goto, history, Working, TypeOK
  <2>2. /\ Undelivered(g)' = Undelivered(g)
        /\ Held(g) => Held(g)' \/ g \in published'
    BY <1>t, <2>1 DEF Undelivered, Held, Working, TypeOK
  <2> QED
    BY <1>t, <2>1, <2>2, PaidKept
\* The delivery will be repeated, at the price of the write that failed.
<1>9. ASSUME NEW i \in Instance, NEW f \in Fact, MarkFails(i, f)
      PROVE  Paid(g)'
  <2>1. /\ at[i] = "mark" /\ current[i] = {f}
        /\ at' = [at EXCEPT ![i] = "fail"] /\ faults' = faults + 1
        /\ UNCHANGED <<deliveries, published, lease, current>>
    BY <1>9, <1>t DEF MarkFails, Fault, Goto, table, Working, TypeOK
  <2>2. Held(g) => Held(g)'
    BY <2>1 DEF Held, Working
  <2>3. CASE g = f
    <3>1. Undelivered(g)' = Undelivered(g) \cup {i}
      BY <1>t, <2>1, <2>3 DEF Undelivered, Working, TypeOK
    <3> QED
      BY <1>t, <2>1, <2>2, <3>1, OneMore DEF Paid, Cover
  <2>4. CASE g # f
    <3>1. Undelivered(g)' = Undelivered(g)
      BY <1>t, <2>1, <2>4 DEF Undelivered, Working, TypeOK
    <3> QED
      BY <1>t, <2>1, <3>1, PaidKept
  <2> QED
    BY <2>3, <2>4
\* The free lease covers the next delivery, the publisher makes none.
<1>10. ASSUME NEW i \in Instance, NEW f \in Fact, RecordFailure(i, f)
       PROVE  Paid(g)'
  <2>1. /\ at[i] = "fail" /\ current[i] = {f}
        /\ current' = [current EXCEPT ![i] = {}]
        /\ \A k \in Instance \ {i} : at'[k] = at[k]
        /\ lease' = [lease EXCEPT ![f] = "free"]
        /\ UNCHANGED <<deliveries, published, faults>>
    BY <1>10, <1>t DEF RecordFailure, Proceed, Goto, history, Working, TypeOK
  <2>2. CASE g = f
    <3>1. i \in Undelivered(g) /\ Undelivered(g)' = Undelivered(g) \ {i}
      BY <1>t, <2>1, <2>2 DEF Undelivered, Working, TypeOK
    <3> QED
      BY <1>t, <2>1, <3>1, OneLess DEF Paid, Cover
  <2>3. CASE g # f
    <3>1. Undelivered(g)' = Undelivered(g) /\ (Held(g) => Held(g)')
      BY <1>t, <2>1, <2>3 DEF Undelivered, Held, Working, TypeOK
    <3> QED
      BY <1>t, <2>1, <3>1, PaidKept
  <2> QED
    BY <2>2, <2>3
<1>11. ASSUME NEW i \in Instance, Abandon(i)
       PROVE  Paid(g)'
  <2>1. /\ current' = [current EXCEPT ![i] = {}]
        /\ \A k \in Instance \ {i} : at'[k] = at[k]
        /\ faults' = faults + 1 /\ UNCHANGED <<deliveries, published>>
    BY <1>11, <1>t DEF Abandon, Fault, Goto, table, TypeOK
  <2>2. Undelivered(g)' = Undelivered(g) \ {i}
    BY <1>t, <2>1 DEF Undelivered, Working, TypeOK
  <2>3. IsFiniteSet(Undelivered(g))' /\ ToCome(g)' \in {ToCome(g), ToCome(g) - 1}
    BY <1>t, <2>2, OneLess
  <2>4. Cover(g) \in {0, 1} /\ Cover(g)' \in {0, 1}
    BY DEF Cover
  <2>5. deliveries[g] + ToCome(g) <= Cover(g) + faults
    BY <1>t DEF Paid
  <2> QED
    BY <1>t, <2>1, <2>3, <2>4, <2>5 DEF Paid
<1>12. CASE UNCHANGED vars
  <2>1. /\ Undelivered(g)' = Undelivered(g) /\ (Held(g) => Held(g)')
        /\ UNCHANGED <<deliveries, published, faults>>
    BY <1>12 DEF vars, Undelivered, Held, Working
  <2> QED
    BY <1>t, <2>1, PaidKept
<1> QED
    BY <1>1, <1>2, <1>3, <1>4, <1>5, <1>6, <1>7, <1>8, <1>9, <1>10, <1>11,
       <1>12 DEF Next, InstanceStep, Publish

LEMMA PaidInvariant == Spec => []PaidInv
<1>1. Init => PaidInv
  <2> SUFFICES ASSUME Init, NEW f \in Fact
               PROVE  Paid(f)
    BY DEF PaidInv
  <2>1. Undelivered(f) = {} /\ deliveries[f] = 0 /\ faults = 0
    BY DEF Init, Undelivered, Working
  <2> QED
    BY <2>1, FS_EmptySet DEF Paid, ToCome, Cover
<1> QED
    BY <1>1, PaidStep, Invariance, PTL DEF Spec

(* Each fault costs at most one repetition.  Without an overrun and        *)
(* without an unrecorded delivery, the broker gets a fact at most once,    *)
(* and exactly once if it counts as published.                             *)
THEOREM DeliveredAtMostOnce == Spec => []DeliveredOnce
<1>1. OutboxInv /\ PaidInv => DeliveredOnce
  <2> SUFFICES ASSUME OutboxInv, NEW f \in Fact, Paid(f)
               PROVE  /\ deliveries[f] <= 1 + faults
                      /\ f \notin overrun \cup unsure =>
                             /\ deliveries[f] <= 1
                             /\ f \in published => deliveries[f] = 1
    BY DEF DeliveredOnce, PaidInv, Paid
  <2>1. deliveries[f] <= 1 + faults
    BY Counts DEF OutboxInv, Paid, Cover
  <2> QED
    BY <2>1 DEF OutboxInv, DeliveryInv, TypeOK
<1> QED
    BY <1>1, Invariance, PaidInvariant, PTL

-----------------------------------------------------------------------------
(***************************************************************************)
(* The outbox implements FactDelivery: every step is a step of the         *)
(* abstract delivery, or leaves its variables alone.                       *)
(***************************************************************************)
Delivered == {f \in Fact : deliveries[f] > 0}

LEMMA OutcomeKept ==
    ASSUME UNCHANGED <<enqueued, published, dead, deliveries>>
    PROVE  UNCHANGED Delivery!vars
    BY DEF Delivery!vars, Outcome

(* A step that delivers f, which is in the outbox.                         *)
LEMMA DeliverMaps ==
    ASSUME TypeOK, NEW f \in enqueued, UNCHANGED <<enqueued, published, dead>>,
           deliveries' = [deliveries EXCEPT ![f] = @ + 1]
    PROVE  Delivery!Deliver(f)
<1>1. f \in Fact /\ Outcome(f) # "none"
    BY DEF TypeOK, Outcome
<1>2. deliveries'[f] > 0 /\ \A g \in Fact \ {f} : deliveries'[g] = deliveries[g]
    BY <1>1 DEF TypeOK
<1>3. Delivered' = Delivered \cup {f}
    BY <1>1, <1>2 DEF Delivered
<1>4. UNCHANGED [g \in Fact |-> Outcome(g)]
    BY DEF Outcome
<1> QED
    BY <1>1, <1>3, <1>4 DEF Delivery!Deliver, Delivered

LEMMA RefinementStep ==
    ASSUME TypeOK, DeliveryInv, [Next]_vars
    PROVE  [Delivery!Next]_(Delivery!vars)
<1>1. ASSUME NEW f \in Fact, Enqueue(f)
      PROVE  Delivery!Record(f)
  <2>1. Outcome(f) = "none" /\ f \notin published' /\ f \notin dead'
    BY <1>1 DEF TypeOK, Enqueue, Outcome
  <2>2. [g \in Fact |-> Outcome(g)]'
          = [[g \in Fact |-> Outcome(g)] EXCEPT ![f] = "pending"]
    BY <1>1, <2>1 DEF Enqueue, Outcome
  <2> QED
    BY <1>1, <2>1, <2>2 DEF Delivery!Record, Enqueue, history
<1>2. ASSUME NEW i \in Instance, NEW f \in Fact, SendAcked(i, f) \/ SendLost(i, f)
      PROVE  Delivery!Deliver(f)
  <2>1. f \in enqueued
    BY <1>2 DEF TypeOK, SendAcked, SendLost, Working
  <2> QED
    BY <1>2, <2>1, DeliverMaps DEF SendAcked, SendLost, table
<1>3. ASSUME NEW i \in Instance, NEW f \in Fact, MarkPublished(i, f)
      PROVE  [Delivery!Next]_(Delivery!vars)
  <2>1. f \in enqueued /\ deliveries[f] > 0
    BY <1>3 DEF TypeOK, DeliveryInv, Marking, MarkPublished, Working
  <2>2. UNCHANGED <<enqueued, dead, deliveries>> /\ published' = published \cup {f}
    BY <1>3 DEF MarkPublished, history
  <2>3. CASE f \in published
    BY <2>2, <2>3, OutcomeKept
  <2>4. CASE f \notin published
    <3>1. Outcome(f) \in {"pending", "dead"}
      BY <2>1, <2>4 DEF Outcome
    <3>2. [g \in Fact |-> Outcome(g)]'
            = [[g \in Fact |-> Outcome(g)] EXCEPT ![f] = "published"]
      BY <2>2 DEF Outcome
    <3>3. Delivery!Acknowledge(f)
      BY <2>1, <2>2, <3>1, <3>2 DEF Delivery!Acknowledge
    <3> QED
      BY <3>3 DEF Delivery!Next
  <2> QED
    BY <2>3, <2>4
<1>4. ASSUME NEW i \in Instance, NEW f \in Fact, RecordFailure(i, f)
      PROVE  [Delivery!Next]_(Delivery!vars)
  <2>1. f \in enqueued /\ UNCHANGED <<enqueued, published, deliveries>>
    BY <1>4 DEF TypeOK, RecordFailure, Working, history
  <2>2. CASE dead' = dead \/ f \in published \cup dead
    <3>1. dead' = dead \/ dead' = dead \cup {f}
      BY <1>4 DEF RecordFailure
    <3>2. \A g \in Fact : Outcome(g)' = Outcome(g)
      BY <2>1, <2>2, <3>1 DEF Outcome
    <3> QED
      BY <2>1, <3>2 DEF Delivery!vars
  <2>3. CASE dead' # dead /\ f \notin published \cup dead
    <3>1. dead' = dead \cup {f}
      BY <1>4, <2>3 DEF RecordFailure
    <3>2. Outcome(f) = "pending"
      BY <2>1, <2>3 DEF Outcome
    <3>3. [g \in Fact |-> Outcome(g)]'
            = [[g \in Fact |-> Outcome(g)] EXCEPT ![f] = "dead"]
      BY <2>1, <2>3, <3>1 DEF Outcome
    <3>4. Delivery!GiveUp(f)
      BY <2>1, <3>2, <3>3 DEF Delivery!GiveUp
    <3> QED
      BY <3>4 DEF Delivery!Next
  <2> QED
    BY <2>2, <2>3
\* The other steps touch neither the outcome nor the broker.
<1>5. ASSUME UNCHANGED <<enqueued, published, dead, deliveries>>
      PROVE  [Delivery!Next]_(Delivery!vars)
    BY <1>5, OutcomeKept
<1>6. ASSUME NEW f \in Fact, LeaseLapses(f) \/ LeaseOverrun(f) \/ BackoffElapses(f)
      PROVE  UNCHANGED <<enqueued, published, dead, deliveries>>
    BY <1>6 DEF LeaseLapses, LeaseOverrun, BackoffElapses, history
<1>7. ASSUME NEW i \in Instance, Poll(i) \/ Claim(i) \/ Abandon(i)
      PROVE  UNCHANGED <<enqueued, published, dead, deliveries>>
    BY <1>7 DEF Poll, Claim, Abandon, table, history
<1>8. ASSUME NEW i \in Instance, NEW f \in Fact,
             Read(i, f) \/ SendFailed(i, f) \/ MarkFails(i, f)
      PROVE  UNCHANGED <<enqueued, published, dead, deliveries>>
    BY <1>8 DEF Read, SendFailed, MarkFails, table, history
<1>9. UNCHANGED vars => UNCHANGED <<enqueued, published, dead, deliveries>>
    BY DEF vars
<1> QED
    BY <1>1, <1>2, <1>3, <1>4, <1>5, <1>6, <1>7, <1>8, <1>9
       DEF Next, InstanceStep, Publish, Delivery!Next

(* The outbox delivers what FactDelivery promises.                         *)
THEOREM OutboxRefinesDelivery == Spec => ImplementsFactDelivery
<1>1. Init => Delivery!Init
    BY DEF Init, Delivery!Init, Outcome
<1>2. OutboxInv /\ [Next]_vars => [Delivery!Next]_(Delivery!vars)
    BY RefinementStep DEF OutboxInv
<1> QED
    BY <1>1, <1>2, Invariance, PTL DEF Spec, ImplementsFactDelivery, Delivery!Spec
=============================================================================
