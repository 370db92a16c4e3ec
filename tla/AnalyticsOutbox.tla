--------------------------- MODULE AnalyticsOutbox ---------------------------
(***************************************************************************)
(* The transactional outbox of analytics facts.                            *)
(*                                                                         *)
(* AnalyticsOutboxService.enqueue inserts a fact in the transaction of the *)
(* change it reports.  In every instance of the service an                 *)
(* AnalyticsOutboxPublisher wakes up each second, lists the oldest facts   *)
(* that are due and not locked, and for each of them takes a lease         *)
(* (lockedAt, worth 60 seconds), reads the row, sends it to the broker and *)
(* stores the result.  Neither the result nor the release of the lease     *)
(* looks at who holds it, so that a publisher that outlives its lease      *)
(* writes over the work of the one that took over.                         *)
(***************************************************************************)
EXTENDS Naturals, FiniteSets

CONSTANTS
    Fact,         \* the facts, numbered by their createdAt
    Instance,     \* the instances of the service
    BatchSize,    \* candidates listed at a time (50)
    MaxAttempts,  \* failures after which a fact is dead-lettered (10)
    MaxFaults     \* bound on lost answers, failed writes, crashes, overruns

ASSUME OutboxAssumption ==
    /\ Fact \subseteq Nat
    /\ BatchSize \in Nat \ {0}
    /\ MaxAttempts \in Nat \ {0}
    /\ MaxFaults \in Nat

VARIABLES
    \* The table:
    enqueued,    \* the facts in the outbox
    published,   \* those with publishedAt
    dead,        \* those with deadLetteredAt
    attempts,    \* failures counted
    lease,       \* lockedAt: null, recent, or over 60 seconds old
    due,         \* facts whose nextAttemptAt has passed
    \* The instances:
    at,          \* where each publisher stands
    batch,       \* the candidates it has not come to yet
    current,     \* the fact it works on: {} or a singleton
    seen,        \* the attempts it read from the row
    \* The world, and history:
    deliveries,  \* how often the broker received each fact
    failures,    \* how often sending or storing the result failed
    faults,      \* the faults so far
    overrun,     \* facts whose lease ran out while being worked on
    unsure       \* facts whose delivery the publisher did not get to record

table   == <<enqueued, published, dead, attempts, lease, due>>
history == <<deliveries, failures, faults, overrun, unsure>>
vars    == <<enqueued, published, dead, attempts, lease, due, at, batch,
             current, seen, deliveries, failures, faults, overrun, unsure>>

Place == {"idle", "claim", "read", "send", "mark", "fail"}

TypeOK ==
    /\ enqueued \subseteq Fact
    /\ published \subseteq enqueued
    /\ dead \subseteq enqueued
    /\ attempts \in [Fact -> Nat]
    /\ lease \in [Fact -> {"free", "held", "stale"}]
    /\ due \subseteq Fact
    /\ at \in [Instance -> Place]
    /\ batch \in [Instance -> SUBSET enqueued]
    /\ current \in [Instance -> {{}} \cup {{f} : f \in enqueued}]
    /\ seen \in [Instance -> Nat]
    /\ deliveries \in [Fact -> Nat]
    /\ failures \in [Fact -> Nat]
    /\ faults \in Nat
    /\ overrun \subseteq Fact
    /\ unsure \subseteq Fact

Init ==
    /\ enqueued = {} /\ published = {} /\ dead = {} /\ due = {}
    /\ attempts = [f \in Fact |-> 0]
    /\ lease = [f \in Fact |-> "free"]
    /\ at = [i \in Instance |-> "idle"]
    /\ batch = [i \in Instance |-> {}]
    /\ current = [i \in Instance |-> {}]
    /\ seen = [i \in Instance |-> 0]
    /\ deliveries = [f \in Fact |-> 0]
    /\ failures = [f \in Fact |-> 0]
    /\ faults = 0 /\ overrun = {} /\ unsure = {}

(* Neither published nor dead-lettered, and not locked by a live lease.    *)
\* Fault: a claim looks at the lease only.
ClaimableSettled(f) == f \in enqueued /\ lease[f] # "held"

\* Fault: a lease is never taken over.
ClaimableFree(f) == f \in enqueued \ (published \cup dead) /\ lease[f] = "free"

\* Fault: a claim does not look at the lease.
ClaimableLocked(f) == f \in enqueued \ (published \cup dead)

Claimable(f) ==
    /\ f \in enqueued \ (published \cup dead)
    /\ lease[f] # "held"

\* Faults: a failure counts twice, or counts down.
AttemptsAfterTwice(n) == n + 2
AttemptsAfterDown(n)  == n - 1

(* const attempts = record.attempts + 1 *)
AttemptsAfter(n) == n + 1

Working(i, f) == f \in current[i]

Oldest(S) == {f \in S : Cardinality({g \in S : g < f}) < BatchSize}

First(S) == CHOOSE f \in S : \A g \in S : f <= g

Goto(i, place) == at' = [at EXCEPT ![i] = place]

(* The next candidate, or the end of the round.                            *)
Proceed(i) ==
    /\ Goto(i, IF batch[i] = {} THEN "idle" ELSE "claim")
    /\ current' = [current EXCEPT ![i] = {}]
    /\ seen' = [seen EXCEPT ![i] = 0]
    /\ UNCHANGED batch

Stay == UNCHANGED <<at, batch, current, seen>>

(* A fault happens now, within the bound.                                  *)
Fault ==
    /\ faults < MaxFaults
    /\ faults' = faults + 1

-----------------------------------------------------------------------------
(* enqueue: nextAttemptAt is the time of the insertion. *)
Enqueue(f) ==
    /\ f \notin enqueued
    /\ enqueued' = enqueued \cup {f}
    /\ due' = due \cup {f}
    /\ UNCHANGED <<published, dead, attempts, lease, history>>
    /\ Stay

(* publishReady: one round at a time in each instance. *)
Poll(i) ==
    LET candidates == Oldest({f \in due : Claimable(f)}) IN
    /\ at[i] = "idle"
    /\ candidates # {}
    /\ batch' = [batch EXCEPT ![i] = candidates]
    /\ Goto(i, "claim")
    /\ UNCHANGED <<table, history, current, seen>>

(* The conditional update that takes the lease looks at the row again, but *)
(* not at nextAttemptAt; a candidate that is taken is passed over.         *)
Claim(i) ==
    LET f == First(batch[i])  left == batch[i] \ {f} IN
    /\ at[i] = "claim"
    /\ batch' = [batch EXCEPT ![i] = left]
    /\ IF Claimable(f)
       THEN /\ lease' = [lease EXCEPT ![f] = "held"]
            /\ current' = [current EXCEPT ![i] = {f}]
            /\ Goto(i, "read")
       ELSE /\ Goto(i, IF left = {} THEN "idle" ELSE "claim")
            /\ UNCHANGED <<lease, current>>
    /\ UNCHANGED <<enqueued, published, dead, attempts, due, seen, history>>

(* publish: the row is read, *)
Read(i, f) ==
    /\ at[i] = "read" /\ Working(i, f)
    /\ seen' = [seen EXCEPT ![i] = attempts[f]]
    /\ Goto(i, "send")
    /\ UNCHANGED <<table, history, batch, current>>

(* sent and acknowledged, *)
SendAcked(i, f) ==
    /\ at[i] = "send" /\ Working(i, f)
    /\ deliveries' = [deliveries EXCEPT ![f] = @ + 1]
    /\ Goto(i, "mark")
    /\ UNCHANGED <<table, failures, faults, overrun, unsure, batch, current, seen>>

(* or refused, *)
\* Fault: the error of the broker client is swallowed.
SendFailedSilently(i, f) ==
    /\ at[i] = "send" /\ Working(i, f)
    /\ Goto(i, "mark")
    /\ UNCHANGED <<table, history, batch, current, seen>>

SendFailed(i, f) ==
    /\ at[i] = "send" /\ Working(i, f)
    /\ failures' = [failures EXCEPT ![f] = @ + 1]
    /\ Goto(i, "fail")
    /\ UNCHANGED <<table, deliveries, faults, overrun, unsure, batch, current, seen>>

(* or received by the broker while the answer is lost. *)
SendLost(i, f) ==
    /\ at[i] = "send" /\ Working(i, f)
    /\ Fault
    /\ deliveries' = [deliveries EXCEPT ![f] = @ + 1]
    /\ failures' = [failures EXCEPT ![f] = @ + 1]
    /\ unsure' = unsure \cup {f}
    /\ Goto(i, "fail")
    /\ UNCHANGED <<table, overrun, batch, current, seen>>

(* The success is stored by id, without looking at the row. *)
MarkPublished(i, f) ==
    /\ at[i] = "mark" /\ Working(i, f)
    /\ published' = published \cup {f}
    /\ lease' = [lease EXCEPT ![f] = "free"]
    /\ Proceed(i)
    /\ UNCHANGED <<enqueued, dead, attempts, due, history>>

(* The write that stores the success is inside the try block: when it      *)
(* fails, the delivery is recorded as a failure.                           *)
MarkFails(i, f) ==
    /\ at[i] = "mark" /\ Working(i, f)
    /\ Fault
    /\ failures' = [failures EXCEPT ![f] = @ + 1]
    /\ unsure' = unsure \cup {f}
    /\ Goto(i, "fail")
    /\ UNCHANGED <<table, deliveries, overrun, batch, current, seen>>

(* The failure is stored by id, counted from the attempts that were read.  *)
RecordFailure(i, f) ==
    LET count == AttemptsAfter(seen[i]) IN
    /\ at[i] = "fail" /\ Working(i, f)
    /\ attempts' = [attempts EXCEPT ![f] = count]
    /\ lease' = [lease EXCEPT ![f] = "free"]
    /\ IF count >= MaxAttempts
       THEN dead' = dead \cup {f} /\ UNCHANGED due
       ELSE due' = due \ {f} /\ UNCHANGED dead
    /\ Proceed(i)
    /\ UNCHANGED <<enqueued, published, history>>

(* The round ends early: the process stops, or a database call outside the *)
(* try block rejects.  The lease stays.                                    *)
Abandon(i) ==
    /\ at[i] # "idle"
    /\ Fault
    /\ unsure' = IF at[i] = "mark" THEN unsure \cup current[i] ELSE unsure
    /\ Goto(i, "idle")
    /\ batch' = [batch EXCEPT ![i] = {}]
    /\ current' = [current EXCEPT ![i] = {}]
    /\ seen' = [seen EXCEPT ![i] = 0]
    /\ UNCHANGED <<table, deliveries, failures, overrun>>

(* 60 seconds pass since the lease was taken: nobody works on the fact any *)
(* more, or somebody still does.                                           *)
LeaseLapses(f) ==
    /\ lease[f] = "held"
    /\ \A i \in Instance : ~Working(i, f)
    /\ lease' = [lease EXCEPT ![f] = "stale"]
    /\ UNCHANGED <<enqueued, published, dead, attempts, due, history>>
    /\ Stay

LeaseOverrun(f) ==
    /\ lease[f] = "held"
    /\ \E i \in Instance : Working(i, f)
    /\ Fault
    /\ lease' = [lease EXCEPT ![f] = "stale"]
    /\ overrun' = overrun \cup {f}
    /\ UNCHANGED <<enqueued, published, dead, attempts, due, deliveries,
                   failures, unsure>>
    /\ Stay

(* nextAttemptAt passes: 2 ^ attempts seconds, at most five minutes. *)
BackoffElapses(f) ==
    /\ f \in enqueued \ due
    /\ due' = due \cup {f}
    /\ UNCHANGED <<enqueued, published, dead, attempts, lease, history>>
    /\ Stay

Publish(i, f) ==
    \/ Read(i, f)
    \/ SendAcked(i, f) \/ SendFailed(i, f) \/ SendLost(i, f)
    \/ MarkPublished(i, f) \/ MarkFails(i, f)
    \/ RecordFailure(i, f)

InstanceStep(i) == Poll(i) \/ Claim(i) \/ \E f \in Fact : Publish(i, f)

Next ==
    \/ \E f \in Fact : \/ Enqueue(f) \/ LeaseLapses(f) \/ LeaseOverrun(f)
                       \/ BackoffElapses(f)
    \/ \E i \in Instance : InstanceStep(i) \/ Abandon(i)

Spec == Init /\ [][Next]_vars

(* The timer fires, a started round goes on (the broker client answers or  *)
(* times out), and time passes.                                            *)
FairSpec ==
    /\ Spec
    /\ \A i \in Instance : WF_vars(InstanceStep(i))
    /\ \A f \in Fact : WF_vars(LeaseLapses(f)) /\ WF_vars(BackoffElapses(f))

-----------------------------------------------------------------------------
(* Nobody else works on a fact, however many instances poll the same rows, *)
(* unless its lease ran out under the work.                                *)
WorkIsExclusive ==
    \A f \in Fact \ overrun, i, k \in Instance :
        Working(i, f) /\ Working(k, f) => i = k

(* Each fault - a lost answer, a failed write, a crash, a lease that ran   *)
(* out - costs at most one repetition of a fact, however many instances    *)
(* then work on it: and none when its own lease held and its deliveries    *)
(* were recorded; a fact that counts as published was then delivered once. *)
DeliveredOnce ==
    \A f \in Fact :
        /\ deliveries[f] <= 1 + faults
        /\ f \notin overrun \cup unsure =>
               /\ deliveries[f] <= 1
               /\ f \in published => deliveries[f] = 1

(* A fact is dead-lettered only when sending or storing failed MaxAttempts *)
(* times, stale counts and lost updates included.                          *)
DeadLetterEarned == \A f \in dead : failures[f] >= MaxAttempts

(* A fact is not both published and dead-lettered, unless its lease ran    *)
(* out under the work.                                                     *)
OneOutcome == \A f \in Fact \ overrun : ~(f \in published /\ f \in dead)

(* Every fact is published or dead-lettered in the end: crashed publishers *)
(* leave no lock behind for ever, failing facts starve no other.           *)
EventuallySettled ==
    \A f \in Fact : f \in enqueued ~> f \in published \cup dead

(* The outbox implements FactDelivery.                                     *)
Outcome(f) == IF f \in published THEN "published"
              ELSE IF f \in dead THEN "dead"
              ELSE IF f \in enqueued THEN "pending" ELSE "none"

Delivery == INSTANCE FactDelivery
                WITH outcome <- [f \in Fact |-> Outcome(f)],
                     delivered <- {f \in Fact : deliveries[f] > 0}

ImplementsFactDelivery == Delivery!Spec
=============================================================================
