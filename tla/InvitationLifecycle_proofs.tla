---------------------- MODULE InvitationLifecycle_proofs ----------------------
(***************************************************************************)
(* Machine-checked proofs about InvitationLifecycle, for any set of        *)
(* invitations, any number of concurrent requests and any number of them   *)
(* that die half-way.                                                      *)
(***************************************************************************)
EXTENDS InvitationLifecycle, TLAPS

(***************************************************************************)
(* The inductive invariant.  The properties alone are not inductive: what  *)
(* a handler writes depends on what it read some steps before, so the      *)
(* invariant records what a request in flight has seen and may still rely  *)
(* on when it writes.                                                      *)
(***************************************************************************)

(* Invitations that own their contact details and were never rejected.     *)
Reachable == Invitation \ (Child \cup rejected)

(* What holds of the table: the properties to be proved; a YES of a        *)
(* reachable invitation comes with its pending contact; an account came    *)
(* out of the confirmation chain.                                          *)
TableInv ==
    /\ StatusMatchesAnswer
    /\ FactsMatchAnswer
    /\ OnlyAcceptedAreHanded
    /\ \A i \in Reachable : row[i].choice = "YES" => row[i].contact
    /\ \A i \in Invitation : row[i].guest => i \in handed \cup Child

Approving == {"grant", "persist", "tail"}

(* What holds of a request in flight.  A reply carries the status that     *)
(* belongs to its answer; an approval past its read knows the YES and the  *)
(* pending contact to be still there, and the account that it grants       *)
(* access to; after the write, what it holds of the row is true; a staging *)
(* knows which guests had said YES.                                        *)
RequestInv(q) ==
    LET j == job[q]  i == j.target IN
    /\ at[q] = "reply" =>
           /\ j.answer \in Answer
           /\ j.status \in {"APPROVAL_STAGED", StatusFor(j.answer)}
    /\ at[q] \in Approving =>
           /\ i \notin clobbered => row[i].choice = "YES"
           /\ i \in Reachable => row[i].contact
    /\ at[q] = "grant" => row[i].guest
    /\ at[q] = "tail" =>
           /\ i \in Reachable => j.contact
           /\ j.linked => row[i].guest
    /\ at[q] = "stage" =>
           \A k \in j.accepted \ clobbered : row[k].choice = "YES"

LifecycleInv ==
    /\ TypeOK
    /\ TableInv
    /\ \A q \in Request : RequestInv(q)
    /\ ApprovedAreServed

-----------------------------------------------------------------------------
(* The helper operators return what their types promise.                   *)
LEMMA StatusForType ==
    ASSUME NEW answer \in Answer
    PROVE  /\ StatusFor(answer) \in Status
           /\ StatusFor(answer) \in {"ACCEPTED", "APPROVED"} => answer = "YES"
           /\ StatusFor(answer) = "DECLINED" => answer = "NO"
    BY DEF StatusFor, Answer, Status

LEMMA ResultingStatusType ==
    ASSUME NEW answer \in Answer, NEW status \in Status
    PROVE  /\ ResultingStatus(status, answer) \in Status
           /\ \/ ResultingStatus(status, answer) = "APPROVAL_STAGED"
              \/ ResultingStatus(status, answer) = StatusFor(answer)
    BY StatusForType DEF ResultingStatus, Status

LEMMA NoJobType == NoJob \in Job
    BY LifecycleAssumption DEF NoJob, Job, Choice, Status

(* What a request knows of its target, and that it has one.                *)
RequestsOK ==
    /\ at \in [Request -> Place]
    /\ job \in [Request -> Job]
    /\ \A q \in Request : at[q] \notin {"idle", "stage"} => job[q].target # None

LEMMA GotoType ==
    ASSUME RequestsOK, NEW q \in Request, NEW place \in Place, NEW j \in Job,
           place \notin {"idle", "stage"} => j.target # None,
           Goto(q, place, j)
    PROVE  RequestsOK'
    BY DEF RequestsOK, Goto

LEMMA DoneType ==
    ASSUME RequestsOK, NEW q \in Request, Done(q)
    PROVE  RequestsOK'
    BY GotoType, NoJobType DEF Done, Place

(***************************************************************************)
(* Type correctness.                                                       *)
(***************************************************************************)
LEMMA TypeInit == Init => TypeOK
<1> SUFFICES ASSUME Init
             PROVE  TypeOK
    OBVIOUS
<1>1. NewRows \subseteq Row
  <2>1. NewRow \in Row /\ PendingPlusOne \in Row /\ StaffPlusOne \in Row
    BY DEF NewRow, PendingPlusOne, StaffPlusOne, Row, Choice, Answer, Status
  <2>2. RsvpPlusOne \in Row
    BY <2>1 DEF RsvpPlusOne, Row
  <2> QED
    BY <2>1, <2>2 DEF NewRows
<1>2. row \in [Invitation -> Row]
    BY <1>1 DEF Init
<1>3. job \in [Request -> Job] /\ at \in [Request -> Place]
    BY NoJobType DEF Init, Place
<1> QED
    BY <1>2, <1>3 DEF Init, TypeOK, Choice

LEMMA TypeStep == TypeOK /\ [Next]_vars => TypeOK'
<1> SUFFICES ASSUME TypeOK, [Next]_vars
             PROVE  TypeOK'
    OBVIOUS
<1>a. RequestsOK
    BY DEF TypeOK, RequestsOK
<1>b. ASSUME RequestsOK', row' \in [Invitation -> Row],
             fact' \in [Invitation -> Choice], handed' \subseteq Invitation,
             granted' \subseteq Invitation, faults' \in Nat,
             rejected' \subseteq Invitation, clobbered' \subseteq Invitation
      PROVE  TypeOK'
    BY <1>b DEF TypeOK, RequestsOK
<1>c. ASSUME RequestsOK', UNCHANGED <<db, faults, history>>
      PROVE  TypeOK'
    BY <1>b, <1>c DEF TypeOK, db, history
<1>1. ASSUME NEW q \in Request, NEW i \in Invitation, NEW answer \in Answer,
             NEW auto \in BOOLEAN, ReplyRead(q, i, answer, auto)
      PROVE  TypeOK'
  <2> DEFINE j == [NoJob EXCEPT !.target = i, !.answer = answer,
                      !.status = ResultingStatus(row[i].status, answer),
                      !.auto = auto /\ answer = "YES"
                                    /\ row[i].status # "APPROVAL_STAGED"]
  <2>1. row[i].status \in Status
    BY DEF TypeOK, Row
  <2>2. j \in Job /\ j.target # None
    BY <2>1, ResultingStatusType, LifecycleAssumption DEF NoJob, Job, Choice, Status
  <2> QED
    BY <1>1, <1>a, <1>c, <2>2, GotoType DEF ReplyRead, Place
<1>2. ASSUME NEW q \in Request, NEW known \in BOOLEAN, ReplyCommit(q, known)
      PROVE  TypeOK'
  <2> DEFINE i == job[q].target
  <2>1. i \in Invitation /\ job[q].answer \in Choice /\ job[q].status \in Status
    BY <1>2 DEF ReplyCommit, TypeOK, Job
  <2>2. row' \in [Invitation -> Row]
    BY <1>2, <2>1 DEF ReplyCommit, TypeOK, Row
  <2>3. fact' \in [Invitation -> Choice]
    BY <1>2, <2>1 DEF ReplyCommit, TypeOK, FactAfter
  <2> DEFINE j == [NoJob EXCEPT !.target = i, !.auto = TRUE]
  <2>4. j \in Job /\ j.target # None
    BY <2>1, LifecycleAssumption DEF NoJob, Job, Choice, Status
  <2>5. Goto(q, "approve", j) \/ Done(q)
    BY <1>2 DEF ReplyCommit
  <2>6. RequestsOK'
    BY <1>a, <2>4, <2>5, GotoType, DoneType DEF Place
  <2> QED
    BY <1>2, <1>b, <2>1, <2>2, <2>3, <2>6 DEF ReplyCommit, TypeOK
<1>3. ASSUME NEW q \in Request, NEW i \in Invitation, ApproveRequest(q, i)
      PROVE  TypeOK'
  <2> DEFINE j == [NoJob EXCEPT !.target = i]
  <2>1. j \in Job /\ j.target # None
    BY LifecycleAssumption DEF NoJob, Job, Choice, Status
  <2> QED
    BY <1>3, <1>a, <1>c, <2>1, GotoType DEF ApproveRequest, Place
<1>4. ASSUME NEW q \in Request, ApproveRead(q)
      PROVE  TypeOK'
  <2>1. job[q].target # None /\ job[q] \in Job
    BY <1>4 DEF ApproveRead, TypeOK
  <2>2. row[job[q].target].guest \in BOOLEAN
    BY <2>1 DEF TypeOK, Job, Row
  <2>3. [job[q] EXCEPT !.linked = row[job[q].target].guest] \in Job
    BY <2>1, <2>2 DEF Job
  <2> QED
    BY <1>4, <1>a, <1>c, <2>1, <2>3, GotoType, DoneType DEF ApproveRead, Place, Job
<1>5. ASSUME NEW q \in Request, NEW succeeds \in BOOLEAN, Grant(q, succeeds)
      PROVE  TypeOK'
  <2>1. job[q].target # None /\ job[q] \in Job
    BY <1>5 DEF Grant, TypeOK
  <2>2. RequestsOK'
    BY <1>5, <1>a, <2>1, GotoType, DoneType DEF Grant, Place
  <2> QED
    BY <1>5, <1>b, <2>1, <2>2 DEF Grant, TypeOK, history, Job
<1>6. ASSUME NEW q \in Request, ApprovePersist(q)
      PROVE  TypeOK'
  <2>1. job[q].target \in Invitation /\ job[q] \in Job
    BY <1>6 DEF ApprovePersist, TypeOK, Job
  <2>2. row' \in [Invitation -> Row]
    BY <1>6, <2>1 DEF ApprovePersist, TypeOK, Row, Status
  <2>3. [job[q] EXCEPT !.linked = row[job[q].target].guest,
                       !.contact = row[job[q].target].contact] \in Job
    BY <2>1 DEF Job, TypeOK, Row
  <2>4. RequestsOK'
    BY <1>6, <1>a, <2>1, <2>3, LifecycleAssumption, GotoType
       DEF ApprovePersist, Place, Job
  <2> QED
    BY <1>6, <1>b, <2>2, <2>4 DEF ApprovePersist, TypeOK, history
<1>7. ASSUME NEW q \in Request, NEW scheduled \in BOOLEAN, ApproveTail(q, scheduled)
      PROVE  TypeOK'
  <2>1. job[q].target \in Invitation
    BY <1>7 DEF ApproveTail, TypeOK, Job
  <2>2. RequestsOK'
    BY <1>7, <1>a, DoneType DEF ApproveTail
  <2> QED
    BY <1>7, <1>b, <2>1, <2>2 DEF ApproveTail, TypeOK, history
<1>8. ASSUME NEW q \in Request, NEW i \in Invitation, RejectRead(q, i)
      PROVE  TypeOK'
  <2> DEFINE j == [NoJob EXCEPT !.target = i]
  <2>1. j \in Job /\ j.target # None
    BY LifecycleAssumption DEF NoJob, Job, Choice, Status
  <2> QED
    BY <1>8, <1>a, <1>c, <2>1, GotoType DEF RejectRead, Place
<1>9. ASSUME NEW q \in Request, RejectCommit(q)
      PROVE  TypeOK'
  <2>1. job[q].target \in Invitation
    BY <1>9 DEF RejectCommit, TypeOK, Job
  <2>2. row' \in [Invitation -> Row]
    BY <1>9, <2>1 DEF RejectCommit, TypeOK, Row, Status
  <2>3. RequestsOK'
    BY <1>9, <1>a, DoneType DEF RejectCommit
  <2> QED
    BY <1>9, <1>b, <2>1, <2>2, <2>3 DEF RejectCommit, TypeOK
<1>10. ASSUME NEW q \in Request, NEW picked \in SUBSET Invitation,
              NEW staging \in BOOLEAN, StageRead(q, picked, staging)
       PROVE  TypeOK'
  <2> DEFINE j == [NoJob EXCEPT !.picked = picked, !.staging = staging,
                      !.accepted = {i \in picked : row[i].choice = "YES"}]
  <2>1. j \in Job
    BY DEF NoJob, Job, Choice, Status
  <2> QED
    BY <1>10, <1>a, <1>c, <2>1, GotoType DEF StageRead, Place
<1>11. ASSUME NEW q \in Request, StageCommit(q)
       PROVE  TypeOK'
  <2>1. \A i \in Invitation, st \in Status : [row[i] EXCEPT !.status = st] \in Row
    BY DEF TypeOK, Row
  <2>2. row' \in [Invitation -> Row]
    BY <1>11, <2>1 DEF StageCommit, TypeOK, UnstagedStatus, Status
  <2>3. RequestsOK'
    BY <1>11, <1>a, DoneType DEF StageCommit
  <2> QED
    BY <1>11, <1>b, <2>2, <2>3 DEF StageCommit, TypeOK, history
<1>12. ASSUME NEW i \in Invitation, LinkGuest(i)
       PROVE  TypeOK'
  <2>1. row' \in [Invitation -> Row]
    BY <1>12 DEF LinkGuest, TypeOK, Row
  <2>2. RequestsOK'
    BY <1>12, <1>a DEF LinkGuest, RequestsOK
  <2> QED
    BY <1>12, <1>b, <2>1, <2>2 DEF LinkGuest, TypeOK, history
<1>13. ASSUME NEW q \in Request, Fail(q)
       PROVE  TypeOK'
  <2>1. RequestsOK'
    BY <1>13, <1>a, DoneType DEF Fail
  <2> QED
    BY <1>13, <1>b, <2>1 DEF Fail, TypeOK, db, history
<1>14. ASSUME UNCHANGED vars
       PROVE  TypeOK'
    BY <1>14 DEF vars, TypeOK
<1> QED
    BY <1>1, <1>2, <1>3, <1>4, <1>5, <1>6, <1>7, <1>8, <1>9, <1>10, <1>11,
       <1>12, <1>13, <1>14 DEF Next, Arrive, Continue

(* Every variable keeps its type, and a request past its first read has a  *)
(* target.                                                                 *)
THEOREM TypeCorrect == Spec => []TypeOK
    BY TypeInit, TypeStep, PTL DEF Spec

-----------------------------------------------------------------------------
(***************************************************************************)
(* What no step undoes: a YES is only taken back by a reply that clobbers  *)
(* it, a pending contact only by a rejection, an account by nothing.       *)
(***************************************************************************)
Monotone ==
    /\ clobbered \subseteq clobbered'
    /\ rejected \subseteq rejected'
    /\ \A i \in Invitation :
         /\ i \notin clobbered' /\ row[i].choice = "YES" => row'[i].choice = "YES"
         /\ i \notin rejected' /\ row[i].contact => row'[i].contact
         /\ row[i].guest => row'[i].guest

LEMMA StepMonotone ==
    ASSUME TypeOK, [Next]_vars
    PROVE  Monotone
<1>1. ASSUME NEW q \in Request, NEW known \in BOOLEAN, ReplyCommit(q, known)
      PROVE  Monotone
  <2> DEFINE i == job[q].target
  <2>1. i \in Invitation
    BY <1>1 DEF ReplyCommit, TypeOK, Job
  <2>2. /\ \A k \in Invitation \ {i} : row'[k] = row[k]
        /\ row'[i].contact = (row[i].contact \/ job[q].answer = "YES")
        /\ row'[i].guest = row[i].guest
    BY <1>1, <2>1 DEF ReplyCommit, TypeOK, Row
  <2>3. i \notin clobbered' => row[i].choice # "YES"
    BY <1>1, <2>1 DEF ReplyCommit, Final
  <2> QED
    BY <1>1, <2>2, <2>3 DEF ReplyCommit, Monotone
<1>2. ASSUME NEW q \in Request, ApprovePersist(q)
      PROVE  Monotone
    BY <1>2 DEF ApprovePersist, Monotone, TypeOK, Job, Row, history
<1>3. ASSUME NEW q \in Request, RejectCommit(q)
      PROVE  Monotone
    BY <1>3 DEF RejectCommit, Monotone, TypeOK, Job, Row
<1>4. ASSUME NEW q \in Request, StageCommit(q)
      PROVE  Monotone
    BY <1>4 DEF StageCommit, Monotone, TypeOK, Job, Row, history
<1>5. ASSUME NEW i \in Invitation, LinkGuest(i)
      PROVE  Monotone
    BY <1>5 DEF LinkGuest, Monotone, TypeOK, Row, history
<1>6. ASSUME UNCHANGED <<row, rejected, clobbered>>
      PROVE  Monotone
    BY <1>6 DEF Monotone
<1> QED
    BY <1>1, <1>2, <1>3, <1>4, <1>5, <1>6
       DEF Next, Arrive, Continue, ReplyRead, ApproveRequest, ApproveRead, Grant,
           ApproveTail, RejectRead, StageRead, Fail, db, history, vars

(* A request that does not move keeps what it knows.                       *)
LEMMA BystanderKeeps ==
    ASSUME TypeOK, Monotone, NEW p \in Request, RequestInv(p),
           at'[p] = at[p], job'[p] = job[p]
    PROVE  RequestInv(p)'
<1>1. job[p].target # None => job[p].target \in Invitation
    BY DEF TypeOK, Job
<1>2. job[p].accepted \subseteq Invitation
    BY DEF TypeOK, Job
<1>3. at[p] \in Approving \cup {"reply"} => job[p].target \in Invitation
    BY <1>1 DEF TypeOK, Approving
<1> QED
    BY <1>2, <1>3 DEF RequestInv, Monotone, Reachable, Approving

(* Neither does one that is finished know anything.                        *)
LEMMA IdleKnowsNothing ==
    ASSUME NEW p \in Request, at'[p] = "idle"
    PROVE  RequestInv(p)'
    BY DEF RequestInv, Approving

(* A step of one request, q, keeps every request's knowledge as soon as it *)
(* keeps that of q.                                                        *)
LEMMA OneMoves ==
    ASSUME LifecycleInv, [Next]_vars, NEW q \in Request, NEW place, NEW j,
           Goto(q, place, j), RequestInv(q)'
    PROVE  \A p \in Request : RequestInv(p)'
<1>1. Monotone
    BY StepMonotone DEF LifecycleInv
<1>2. ASSUME NEW p \in Request, p # q
      PROVE  RequestInv(p)'
    BY <1>1, <1>2, BystanderKeeps DEF Goto, LifecycleInv, TypeOK
<1> QED
    BY <1>2

LEMMA OneIsDone ==
    ASSUME LifecycleInv, [Next]_vars, NEW q \in Request, Done(q)
    PROVE  \A p \in Request : RequestInv(p)'
<1>1. at'[q] = "idle"
    BY DEF Done, Goto, LifecycleInv, TypeOK
<1> QED
    BY <1>1, IdleKnowsNothing, OneMoves DEF Done

(* Steps that leave the table, the hand-overs and the tails of approvals   *)
(* alone cannot disturb the rest.                                          *)
LEMMA TableKept ==
    ASSUME LifecycleInv, UNCHANGED <<row, fact, handed, rejected, clobbered>>
    PROVE  TableInv'
    BY DEF LifecycleInv, TableInv, StatusMatchesAnswer, FactsMatchAnswer,
           OnlyAcceptedAreHanded, Reachable

LEMMA ServedKept ==
    ASSUME LifecycleInv, UNCHANGED <<row, handed, faults, rejected>>,
           NEW q \in Request, at[q] # "tail", NEW place, NEW j, Goto(q, place, j)
    PROVE  ApprovedAreServed'
<1>1. ASSUME NEW i \in Invitation, HandingOver(i)
      PROVE  HandingOver(i)'
    BY <1>1 DEF HandingOver, Goto, LifecycleInv, TypeOK
<1> QED
    BY <1>1 DEF LifecycleInv, ApprovedAreServed

-----------------------------------------------------------------------------
(***************************************************************************)
(* The main invariant: it holds initially and every action preserves it.   *)
(***************************************************************************)
LEMMA InvInit == Init => LifecycleInv
<1> SUFFICES ASSUME Init
             PROVE  LifecycleInv
    OBVIOUS
<1>1. TypeOK
    BY TypeInit
<1>2. \A i \in Invitation :
        /\ ~row[i].guest
        /\ row[i].choice \in {"NONE", "YES"}
        /\ row[i].status = (IF row[i].choice = "YES" THEN "ACCEPTED" ELSE "PENDING")
        /\ i \notin Child /\ row[i].choice = "YES" => row[i].contact
  <2> SUFFICES ASSUME NEW i \in Invitation
               PROVE  /\ ~row[i].guest
                      /\ row[i].choice \in {"NONE", "YES"}
                      /\ row[i].status = (IF row[i].choice = "YES" THEN "ACCEPTED" ELSE "PENDING")
                      /\ i \notin Child /\ row[i].choice = "YES" => row[i].contact
      OBVIOUS
  <2>1. CASE row[i] = NewRow
      BY <2>1 DEF NewRow
  <2>2. CASE row[i] = StaffPlusOne
      BY <2>2 DEF StaffPlusOne
  <2>3. CASE row[i] = RsvpPlusOne
    <3>1. i \in Child
      BY <2>3 DEF Init
    <3> QED
      BY <2>3, <3>1 DEF RsvpPlusOne, StaffPlusOne
  <2>4. CASE row[i] = PendingPlusOne
      BY <2>4 DEF PendingPlusOne, NewRow
  <2> QED
      BY <2>1, <2>2, <2>3, <2>4 DEF Init, NewRows
<1>3. TableInv
    BY <1>2 DEF Init, TableInv, StatusMatchesAnswer, FactsMatchAnswer,
                OnlyAcceptedAreHanded, Reachable
<1>4. \A q \in Request : RequestInv(q)
    BY DEF Init, RequestInv, Approving
<1>5. ApprovedAreServed
    BY <1>2 DEF ApprovedAreServed
<1> QED
    BY <1>1, <1>3, <1>4, <1>5 DEF LifecycleInv

LEMMA InvStep == LifecycleInv /\ [Next]_vars => LifecycleInv'
<1> SUFFICES ASSUME LifecycleInv, [Next]_vars
             PROVE  LifecycleInv'
    OBVIOUS
<1>a. TypeOK
    BY DEF LifecycleInv
<1>b. TypeOK'
    BY <1>a, TypeStep
<1>c. SUFFICES TableInv' /\ (\A q \in Request : RequestInv(q)') /\ ApprovedAreServed'
    BY <1>b DEF LifecycleInv
<1>d. Monotone
    BY <1>a, StepMonotone
\* A reply that has only read: it carries the status of its answer.
<1>1. ASSUME NEW q \in Request, NEW i \in Invitation, NEW answer \in Answer,
             NEW auto \in BOOLEAN, ReplyRead(q, i, answer, auto)
      PROVE  TableInv' /\ (\A p \in Request : RequestInv(p)') /\ ApprovedAreServed'
  <2> DEFINE j == [NoJob EXCEPT !.target = i, !.answer = answer,
                      !.status = ResultingStatus(row[i].status, answer),
                      !.auto = auto /\ answer = "YES"
                                    /\ row[i].status # "APPROVAL_STAGED"]
  <2>1. Goto(q, "reply", j) /\ at[q] = "idle" /\ UNCHANGED <<db, faults, history>>
    BY <1>1 DEF ReplyRead
  <2>2. j.answer = answer /\ j.status = ResultingStatus(row[i].status, answer)
    BY DEF NoJob
  <2>3. row[i].status \in Status
    BY <1>a DEF TypeOK, Row
  <2>4. job'[q] = j /\ at'[q] = "reply"
    BY <2>1, <1>a DEF Goto, TypeOK
  <2> HIDE DEF j
  <2>5. RequestInv(q)'
    BY <2>2, <2>3, <2>4, ResultingStatusType DEF RequestInv, Approving
  <2>6. \A p \in Request : RequestInv(p)'
    BY <2>1, <2>5, OneMoves
  <2> QED
    BY <2>1, <2>6, TableKept, ServedKept DEF db, history
\* The transaction of a reply: unless it clobbers an answer, the row now
\* says what the request carried.
<1>2. ASSUME NEW q \in Request, NEW known \in BOOLEAN, ReplyCommit(q, known)
      PROVE  TableInv' /\ (\A p \in Request : RequestInv(p)') /\ ApprovedAreServed'
  <2> DEFINE i == job[q].target
  <2>1. i \in Invitation /\ at[q] = "reply"
    BY <1>2, <1>a DEF ReplyCommit, TypeOK, Job
  <2>2. /\ job[q].answer \in Answer
        /\ job[q].status \in {"APPROVAL_STAGED", StatusFor(job[q].answer)}
    BY <2>1 DEF LifecycleInv, RequestInv
  <2>3. /\ \A k \in Invitation \ {i} : row'[k] = row[k] /\ fact'[k] = fact[k]
        /\ row'[i].choice = job[q].answer
        /\ row'[i].status = job[q].status
        /\ row'[i].contact = (row[i].contact \/ job[q].answer = "YES")
        /\ row'[i].guest = row[i].guest
        /\ fact'[i] = FactAfter(job[q].answer, fact[i])
    BY <1>2, <1>a, <2>1 DEF ReplyCommit, TypeOK, Row
  <2>4. /\ handed' = handed /\ rejected' = rejected
        /\ clobbered \subseteq clobbered'
        /\ i \notin clobbered' => i \notin clobbered /\ row[i].choice \notin Final
    BY <1>2 DEF ReplyCommit
  <2>5. TableInv'
    <3>1. StatusMatchesAnswer'
      BY <2>2, <2>3, <2>4, StatusForType
         DEF LifecycleInv, TableInv, StatusMatchesAnswer, Final
    <3>2. FactsMatchAnswer'
      <4>1. i \notin clobbered' /\ fact'[i] # "NONE" => fact'[i] = row'[i].choice
        <5> SUFFICES ASSUME i \notin clobbered', fact'[i] # "NONE"
                     PROVE  fact'[i] = job[q].answer
            BY <2>3
        <5>1. fact[i] # "NONE" => fact[i] = row[i].choice
            BY <2>1, <2>4 DEF LifecycleInv, TableInv, FactsMatchAnswer
        <5>2. fact[i] \in {"NONE", "MAYBE"}
            BY <1>a, <2>1, <2>4, <5>1 DEF TypeOK, Choice, Answer, Final
        <5>3. CASE job[q].answer \in Final
            BY <2>3, <5>3 DEF FactAfter
        <5>4. CASE job[q].answer = "MAYBE"
            BY <2>3, <5>2, <5>4 DEF FactAfter, Final
        <5> QED
            BY <2>2, <5>3, <5>4 DEF Answer, Final
      <4> QED
        BY <2>3, <2>4, <4>1 DEF LifecycleInv, TableInv, FactsMatchAnswer
    <3>3. OnlyAcceptedAreHanded'
      BY <2>3, <2>4, <1>a DEF LifecycleInv, TableInv, OnlyAcceptedAreHanded, Final, TypeOK
    <3>4. \A k \in Reachable' : row'[k].choice = "YES" => row'[k].contact
      BY <2>3, <2>4 DEF LifecycleInv, TableInv, Reachable
    <3>5. \A k \in Invitation : row'[k].guest => k \in handed' \cup Child
      BY <2>3, <2>4 DEF LifecycleInv, TableInv
    <3> QED
      BY <3>1, <3>2, <3>3, <3>4, <3>5 DEF TableInv
  <2> DEFINE j == [NoJob EXCEPT !.target = i, !.auto = TRUE]
  <2>6. Goto(q, "approve", j) \/ Done(q)
    BY <1>2 DEF ReplyCommit
  <2>7. \A p \in Request : RequestInv(p)'
    <3>1. CASE Goto(q, "approve", j)
      <4>1. at'[q] = "approve"
        BY <3>1, <1>a DEF Goto, TypeOK
      <4>2. RequestInv(q)'
        BY <4>1 DEF RequestInv, Approving
      <4> QED
        BY <3>1, <4>2, OneMoves
    <3>2. CASE Done(q)
      BY <3>2, OneIsDone
    <3> QED
      BY <2>6, <3>1, <3>2
  <2>8. ApprovedAreServed'
    <3>1. ASSUME NEW k \in Invitation, HandingOver(k)
          PROVE  HandingOver(k)'
      BY <2>1, <2>6, <3>1, <1>a DEF HandingOver, Goto, Done, TypeOK
    <3>2. job[q].status # "APPROVED"
      BY <2>2 DEF StatusFor, Answer
    <3> QED
      BY <1>2, <2>3, <2>4, <3>1, <3>2 DEF LifecycleInv, ApprovedAreServed, ReplyCommit
  <2> QED
    BY <2>5, <2>7, <2>8
<1>3. ASSUME NEW q \in Request, NEW i \in Invitation, ApproveRequest(q, i)
      PROVE  TableInv' /\ (\A p \in Request : RequestInv(p)') /\ ApprovedAreServed'
  <2>1. /\ Goto(q, "approve", [NoJob EXCEPT !.target = i])
        /\ at[q] = "idle" /\ UNCHANGED <<db, faults, history>>
    BY <1>3 DEF ApproveRequest
  <2>2. at'[q] = "approve"
    BY <2>1, <1>a DEF Goto, TypeOK
  <2>3. RequestInv(q)'
    BY <2>2 DEF RequestInv, Approving
  <2> QED
    BY <2>1, <2>3, OneMoves, TableKept, ServedKept DEF db, history
\* An approval that goes on has seen the YES, and with it the contact.
<1>4. ASSUME NEW q \in Request, ApproveRead(q)
      PROVE  TableInv' /\ (\A p \in Request : RequestInv(p)') /\ ApprovedAreServed'
  <2> DEFINE i == job[q].target
  <2>1. i \in Invitation /\ at[q] = "approve" /\ UNCHANGED <<db, faults, history>>
    BY <1>4, <1>a DEF ApproveRead, TypeOK, Job
  <2>2. CASE MayApprove(row[i])
    <3> DEFINE place == IF row[i].guest THEN "grant" ELSE "persist"
               j == [job[q] EXCEPT !.linked = row[i].guest]
    <3>1. Goto(q, place, j)
      BY <1>4, <2>2 DEF ApproveRead
    <3>2. /\ at'[q] \in {"grant", "persist"} /\ job'[q].target = i
          /\ at'[q] = "grant" => row[i].guest
      BY <3>1, <2>1, <1>a DEF Goto, TypeOK, Job
    <3>3. row[i].choice = "YES" /\ (i \in Reachable => row[i].contact)
      BY <2>1, <2>2 DEF MayApprove, LifecycleInv, TableInv, Reachable
    <3>4. RequestInv(q)'
      BY <2>1, <3>2, <3>3 DEF RequestInv, Approving, Reachable, db, history
    <3> QED
      BY <2>1, <3>1, <3>4, OneMoves, TableKept, ServedKept DEF db, history
  <2>3. CASE ~MayApprove(row[i])
    <3>1. Done(q)
      BY <1>4, <2>3 DEF ApproveRead
    <3> QED
      BY <2>1, <3>1, OneIsDone, TableKept, ServedKept DEF db, history, Done
  <2> QED
    BY <2>2, <2>3
<1>5. ASSUME NEW q \in Request, NEW succeeds \in BOOLEAN, Grant(q, succeeds)
      PROVE  TableInv' /\ (\A p \in Request : RequestInv(p)') /\ ApprovedAreServed'
  <2>1. at[q] = "grant" /\ UNCHANGED <<row, fact, handed, faults, history>>
    BY <1>5 DEF Grant
  <2>2. CASE succeeds
    <3>1. Goto(q, "persist", job[q])
      BY <1>5, <2>2 DEF Grant
    <3>2. at'[q] = "persist" /\ job'[q] = job[q]
      BY <3>1, <1>a DEF Goto, TypeOK
    <3>3. RequestInv(q)'
      BY <2>1, <3>2 DEF LifecycleInv, RequestInv, Approving, Reachable, history
    <3> QED
      BY <2>1, <3>1, <3>3, OneMoves, TableKept, ServedKept DEF history
  <2>3. CASE ~succeeds
    <3>1. Done(q)
      BY <1>5, <2>3 DEF Grant
    <3> QED
      BY <2>1, <3>1, OneIsDone, TableKept, ServedKept DEF history, Done
  <2> QED
    BY <2>2, <2>3
\* The approval is stored over a YES, and its request hands over next.
<1>6. ASSUME NEW q \in Request, ApprovePersist(q)
      PROVE  TableInv' /\ (\A p \in Request : RequestInv(p)') /\ ApprovedAreServed'
  <2> DEFINE i == job[q].target
             j == [job[q] EXCEPT !.linked = row[i].guest, !.contact = row[i].contact]
  <2>1. i \in Invitation /\ at[q] = "persist"
    BY <1>6, <1>a DEF ApprovePersist, TypeOK, Job
  <2>2. /\ i \notin clobbered => row[i].choice = "YES"
        /\ i \in Reachable => row[i].contact
    BY <2>1 DEF LifecycleInv, RequestInv, Approving
  <2>3. /\ \A k \in Invitation \ {i} : row'[k] = row[k]
        /\ row'[i].choice = row[i].choice /\ row'[i].contact = row[i].contact
        /\ row'[i].guest = row[i].guest /\ row'[i].status = "APPROVED"
    BY <1>6, <1>a, <2>1 DEF ApprovePersist, TypeOK, Row
  <2>4. UNCHANGED <<fact, handed, rejected, clobbered, faults>>
    BY <1>6 DEF ApprovePersist, history
  <2>a. /\ \A k \in Invitation : /\ row'[k].choice = row[k].choice
                                 /\ row'[k].contact = row[k].contact
                                 /\ row'[k].guest = row[k].guest
        /\ \A k \in Invitation : k # i => row'[k].status = row[k].status
    BY <2>1, <2>3
  <2>5. TableInv'
    <3>1. StatusMatchesAnswer'
      BY <2>1, <2>2, <2>3, <2>4, <2>a DEF LifecycleInv, TableInv, StatusMatchesAnswer
    <3>2. FactsMatchAnswer'
      BY <2>4, <2>a DEF LifecycleInv, TableInv, FactsMatchAnswer
    <3>3. OnlyAcceptedAreHanded'
      BY <1>a, <2>4, <2>a DEF LifecycleInv, TableInv, OnlyAcceptedAreHanded, TypeOK
    <3>4. (\A k \in Reachable : row[k].choice = "YES" => row[k].contact)'
      BY <2>4, <2>a DEF LifecycleInv, TableInv, Reachable
    <3>5. (\A k \in Invitation : row[k].guest => k \in handed \cup Child)'
      BY <2>4, <2>a DEF LifecycleInv, TableInv
    <3> QED
      BY <3>1, <3>2, <3>3, <3>4, <3>5 DEF TableInv
  <2>6. Goto(q, "tail", j)
    BY <1>6 DEF ApprovePersist
  <2>7. /\ at'[q] = "tail" /\ job'[q].target = i
        /\ job'[q].linked = row[i].guest /\ job'[q].contact = row[i].contact
    BY <2>6, <1>a DEF Goto, TypeOK, Job
  <2>8. RequestInv(q)'
    BY <2>2, <2>3, <2>4, <2>7 DEF RequestInv, Approving, Reachable
  <2>9. ApprovedAreServed'
    <3>1. ASSUME NEW k, k = i
          PROVE  HandingOver(k)'
      BY <2>7, <3>1 DEF HandingOver
    <3>2. ASSUME NEW k \in Invitation, HandingOver(k)
          PROVE  HandingOver(k)'
      BY <2>1, <2>6, <3>2, <1>a DEF HandingOver, Goto, TypeOK
    <3>3. ASSUME NEW k \in Invitation \ (Child \cup rejected),
                 row'[k].status = "APPROVED", faults = 0
          PROVE  k \in handed \/ HandingOver(k)'
      <4>1. CASE k = i
        BY <3>1, <4>1
      <4>2. CASE k # i
        <5>1. k \in handed \/ HandingOver(k)
          BY <2>a, <3>3, <4>2 DEF LifecycleInv, ApprovedAreServed
        <5> QED
          BY <3>2, <3>3, <5>1
      <4> QED
        BY <4>1, <4>2
    <3> QED
      BY <2>4, <3>3 DEF ApprovedAreServed
  <2> QED
    BY <2>5, <2>6, <2>8, <2>9, OneMoves
\* The hand-over: what the request does not hand over is not approved any
\* more, or has an account already.
<1>7. ASSUME NEW q \in Request, NEW scheduled \in BOOLEAN, ApproveTail(q, scheduled)
      PROVE  TableInv' /\ (\A p \in Request : RequestInv(p)') /\ ApprovedAreServed'
  <2> DEFINE i == job[q].target
  <2>1. i \in Invitation /\ at[q] = "tail" /\ Done(q)
    BY <1>7, <1>a DEF ApproveTail, TypeOK, Job
  <2>2. /\ i \notin clobbered => row[i].choice = "YES"
        /\ i \in Reachable => job[q].contact
        /\ job[q].linked => row[i].guest
    BY <2>1 DEF LifecycleInv, RequestInv, Approving
  <2>3. /\ handed \subseteq handed' /\ handed' \subseteq handed \cup {i}
        /\ ~job[q].linked /\ job[q].contact /\ Actionable(row[i]) => i \in handed'
        /\ UNCHANGED <<row, fact, faults, rejected, clobbered>>
    BY <1>7 DEF ApproveTail, history
  <2>4. TableInv'
    BY <2>1, <2>2, <2>3
       DEF LifecycleInv, TableInv, StatusMatchesAnswer, FactsMatchAnswer,
           OnlyAcceptedAreHanded, Reachable
  <2>5. ASSUME NEW k \in Invitation, HandingOver(k), k # i
        PROVE  HandingOver(k)'
    BY <2>1, <2>5, <1>a DEF HandingOver, Done, Goto, TypeOK
  <2>6. i \in Reachable /\ row[i].status = "APPROVED" => i \in handed'
    <3>1. row[i].guest => i \in handed \cup Child
      BY <2>1 DEF LifecycleInv, TableInv
    <3> QED
      BY <2>1, <2>2, <2>3, <3>1 DEF Actionable, Reachable
  <2>7. ApprovedAreServed'
    BY <2>3, <2>5, <2>6 DEF LifecycleInv, ApprovedAreServed, Reachable
  <2> QED
    BY <2>1, <2>4, <2>7, OneIsDone
<1>8. ASSUME NEW q \in Request, NEW i \in Invitation, RejectRead(q, i)
      PROVE  TableInv' /\ (\A p \in Request : RequestInv(p)') /\ ApprovedAreServed'
  <2>1. /\ Goto(q, "reject", [NoJob EXCEPT !.target = i])
        /\ at[q] = "idle" /\ UNCHANGED <<db, faults, history>>
    BY <1>8 DEF RejectRead
  <2>2. at'[q] = "reject"
    BY <2>1, <1>a DEF Goto, TypeOK
  <2>3. RequestInv(q)'
    BY <2>2 DEF RequestInv, Approving
  <2> QED
    BY <2>1, <2>3, OneMoves, TableKept, ServedKept DEF db, history
<1>9. ASSUME NEW q \in Request, RejectCommit(q)
      PROVE  TableInv' /\ (\A p \in Request : RequestInv(p)') /\ ApprovedAreServed'
  <2> DEFINE i == job[q].target
  <2>1. i \in Invitation /\ at[q] = "reject" /\ Done(q)
    BY <1>9, <1>a DEF RejectCommit, TypeOK, Job
  <2>2. /\ \A k \in Invitation \ {i} : row'[k] = row[k]
        /\ row'[i].choice = row[i].choice
        /\ row'[i].guest = row[i].guest /\ row'[i].status = "REJECTED"
    BY <1>9, <1>a, <2>1 DEF RejectCommit, TypeOK, Row
  <2>3. /\ UNCHANGED <<fact, handed, clobbered, faults>>
        /\ rejected' = rejected \cup {i}
    BY <1>9 DEF RejectCommit
  <2>a. /\ \A k \in Invitation : /\ row'[k].choice = row[k].choice
                                 /\ row'[k].guest = row[k].guest
        /\ \A k \in Invitation : k # i => row'[k] = row[k]
    BY <2>1, <2>2
  <2>4. TableInv'
    <3>1. StatusMatchesAnswer'
      BY <2>2, <2>3, <2>a DEF LifecycleInv, TableInv, StatusMatchesAnswer
    <3>2. FactsMatchAnswer'
      BY <2>3, <2>a DEF LifecycleInv, TableInv, FactsMatchAnswer
    <3>3. OnlyAcceptedAreHanded'
      BY <1>a, <2>3, <2>a DEF LifecycleInv, TableInv, OnlyAcceptedAreHanded, TypeOK
    <3>4. (\A k \in Reachable : row[k].choice = "YES" => row[k].contact)'
      BY <2>1, <2>3, <2>a DEF LifecycleInv, TableInv, Reachable
    <3>5. (\A k \in Invitation : row[k].guest => k \in handed \cup Child)'
      BY <2>3, <2>a DEF LifecycleInv, TableInv
    <3> QED
      BY <3>1, <3>2, <3>3, <3>4, <3>5 DEF TableInv
  <2>5. ASSUME NEW k \in Invitation, HandingOver(k)
        PROVE  HandingOver(k)'
    BY <2>1, <2>5, <1>a DEF HandingOver, Done, Goto, TypeOK
  <2>6. ApprovedAreServed'
    BY <2>2, <2>3, <2>5 DEF LifecycleInv, ApprovedAreServed
  <2> QED
    BY <2>1, <2>4, <2>6, OneIsDone
\* A staging remembers who had said YES.
<1>10. ASSUME NEW q \in Request, NEW picked \in SUBSET Invitation,
              NEW staging \in BOOLEAN, StageRead(q, picked, staging)
       PROVE  TableInv' /\ (\A p \in Request : RequestInv(p)') /\ ApprovedAreServed'
  <2> DEFINE j == [NoJob EXCEPT !.picked = picked, !.staging = staging,
                      !.accepted = {i \in picked : row[i].choice = "YES"}]
  <2>1. Goto(q, "stage", j) /\ at[q] = "idle" /\ UNCHANGED <<db, faults, history>>
    BY <1>10 DEF StageRead
  <2>2. j.accepted = {i \in picked : row[i].choice = "YES"}
    BY DEF NoJob
  <2>3. at'[q] = "stage" /\ job'[q] = j
    BY <2>1, <1>a DEF Goto, TypeOK
  <2>4. RequestInv(q)'
    BY <2>1, <2>2, <2>3 DEF RequestInv, Approving, db
  <2> QED
    BY <2>1, <2>4, OneMoves, TableKept, ServedKept DEF db, history
<1>11. ASSUME NEW q \in Request, StageCommit(q)
       PROVE  TableInv' /\ (\A p \in Request : RequestInv(p)') /\ ApprovedAreServed'
  <2>1. at[q] = "stage" /\ Done(q) /\ UNCHANGED <<fact, handed, faults, history>>
    BY <1>11 DEF StageCommit
  <2>2. ASSUME NEW i \in Invitation
        PROVE  /\ row'[i].choice = row[i].choice /\ row'[i].contact = row[i].contact
               /\ row'[i].guest = row[i].guest
               /\ \/ row'[i].status = row[i].status
                  \/ row'[i].status \in {"APPROVAL_STAGED", "PENDING"}
                  \/ row'[i].status = "ACCEPTED" /\ i \in job[q].accepted
    <3>1. row[i] \in Row
      BY <1>a DEF TypeOK
    <3> QED
      BY <1>11, <3>1 DEF StageCommit, UnstagedStatus, Row
  <2>3. \A i \in job[q].accepted \ clobbered : row[i].choice = "YES"
    BY <2>1 DEF LifecycleInv, RequestInv
  <2>4. StatusMatchesAnswer'
    BY <2>1, <2>2, <2>3 DEF LifecycleInv, TableInv, StatusMatchesAnswer, history
  <2>5. TableInv'
    BY <2>1, <2>2, <2>4 DEF LifecycleInv, TableInv, FactsMatchAnswer,
       OnlyAcceptedAreHanded, Reachable, history, TypeOK
  <2>6. ASSUME NEW k \in Invitation, HandingOver(k)
        PROVE  HandingOver(k)'
    BY <2>1, <2>6, <1>a DEF HandingOver, Done, Goto, TypeOK
  <2>7. ApprovedAreServed'
    BY <2>1, <2>2, <2>6 DEF LifecycleInv, ApprovedAreServed, history
  <2> QED
    BY <2>1, <2>5, <2>7, OneIsDone
<1>12. ASSUME NEW i \in Invitation, LinkGuest(i)
       PROVE  TableInv' /\ (\A p \in Request : RequestInv(p)') /\ ApprovedAreServed'
  <2>1. /\ \A k \in Invitation \ {i} : row'[k] = row[k]
        /\ row'[i].choice = row[i].choice /\ row'[i].contact = row[i].contact
        /\ row'[i].status = row[i].status /\ i \in handed \cup Child
    BY <1>12, <1>a DEF LinkGuest, TypeOK, Row
  <2>2. UNCHANGED <<fact, handed, at, job, faults, rejected, clobbered>>
    BY <1>12 DEF LinkGuest, history
  <2>3. TableInv'
    BY <2>1, <2>2, <1>a DEF LifecycleInv, TableInv, StatusMatchesAnswer, FactsMatchAnswer,
       OnlyAcceptedAreHanded, Reachable, TypeOK
  <2>4. \A p \in Request : RequestInv(p)'
    BY <2>2, <1>a, <1>d, BystanderKeeps DEF LifecycleInv
  <2>5. ApprovedAreServed'
    BY <2>1, <2>2 DEF LifecycleInv, ApprovedAreServed, HandingOver
  <2> QED
    BY <2>3, <2>4, <2>5
<1>13. ASSUME NEW q \in Request, Fail(q)
       PROVE  TableInv' /\ (\A p \in Request : RequestInv(p)') /\ ApprovedAreServed'
  <2>1. Done(q) /\ UNCHANGED <<db, history>> /\ faults' = faults + 1
    BY <1>13 DEF Fail
  <2>2. faults' # 0
    BY <2>1, <1>a DEF TypeOK
  <2> QED
    BY <2>1, <2>2, OneIsDone, TableKept DEF ApprovedAreServed, db, history
<1>14. ASSUME UNCHANGED vars
       PROVE  TableInv' /\ (\A p \in Request : RequestInv(p)') /\ ApprovedAreServed'
  <2>1. \A p \in Request : RequestInv(p)'
    BY <1>14, <1>a, <1>d, BystanderKeeps DEF vars, LifecycleInv
  <2>2. ApprovedAreServed'
    BY <1>14 DEF vars, LifecycleInv, ApprovedAreServed, HandingOver
  <2> QED
    BY <1>14, <2>1, <2>2, TableKept DEF vars
<1> QED
    BY <1>1, <1>2, <1>3, <1>4, <1>5, <1>6, <1>7, <1>8, <1>9, <1>10, <1>11,
       <1>12, <1>13, <1>14 DEF Next, Arrive, Continue

LEMMA Invariance == Spec => []LifecycleInv
    BY InvInit, InvStep, PTL DEF Spec

(***************************************************************************)
(* The theorems.                                                           *)
(***************************************************************************)

(* An invitation is accepted or approved only with a YES, and declined     *)
(* only with a NO, unless a concurrent reply overwrote the answer.         *)
THEOREM StatusCorrect == Spec => []StatusMatchesAnswer
<1>1. LifecycleInv => StatusMatchesAnswer
    BY DEF LifecycleInv, TableInv
<1> QED
    BY <1>1, Invariance, PTL

(* The facts in the analytics outbox agree with the table.                 *)
THEOREM FactsCorrect == Spec => []FactsMatchAnswer
<1>1. LifecycleInv => FactsMatchAnswer
    BY DEF LifecycleInv, TableInv
<1> QED
    BY <1>1, Invariance, PTL

(* Nothing is reserved or scheduled for a guest who has not said YES.      *)
THEOREM OnlyAcceptedHanded == Spec => []OnlyAcceptedAreHanded
<1>1. LifecycleInv => OnlyAcceptedAreHanded
    BY DEF LifecycleInv, TableInv
<1> QED
    BY <1>1, Invariance, PTL

(* Access to the event is granted to accounts of guests who said YES, and  *)
(* the YES stands, outside double replies: although the grant is an HTTP   *)
(* call made some steps after the RSVP and the account were read.          *)
OnlyAcceptedAreAdmitted ==
    \A i \in granted :
        row[i].guest /\ (i \notin clobbered => row[i].choice = "YES")

THEOREM OnlyAcceptedAdmitted == Spec => []OnlyAcceptedAreAdmitted
<1>1. Init => OnlyAcceptedAreAdmitted
    BY DEF Init, OnlyAcceptedAreAdmitted
<1>2. LifecycleInv /\ OnlyAcceptedAreAdmitted /\ [Next]_vars
      => OnlyAcceptedAreAdmitted'
  <2> SUFFICES ASSUME LifecycleInv, OnlyAcceptedAreAdmitted, [Next]_vars,
                      NEW i \in granted'
               PROVE  /\ row'[i].guest
                      /\ i \notin clobbered' => row'[i].choice = "YES"
    BY DEF OnlyAcceptedAreAdmitted
  <2>t. TypeOK /\ Monotone
    BY StepMonotone DEF LifecycleInv
  <2>1. ASSUME i \notin granted
        PROVE  \E q \in Request : at[q] = "grant" /\ job[q].target = i
    BY <2>1
    DEF Next, Arrive, Continue, ReplyRead, ReplyCommit, ApproveRequest,
        ApproveRead, Grant, ApprovePersist, ApproveTail, RejectRead,
        RejectCommit, StageRead, StageCommit, LinkGuest, Fail, db, vars
  <2>2. /\ i \in Invitation /\ row[i].guest
        /\ i \notin clobbered => row[i].choice = "YES"
    BY <2>1, <2>t DEF OnlyAcceptedAreAdmitted, LifecycleInv, TypeOK, Job,
                      RequestInv, Approving
  <2> QED
    BY <2>2, <2>t DEF Monotone
<1> QED
    BY <1>1, <1>2, Invariance, PTL DEF Spec

(* Approval reaches the guest, unless the invitation was rejected before,  *)
(* has no contact of its own, or a request died half-way.                  *)
THEOREM ApprovalReachesGuest == Spec => []ApprovedAreServed
<1>1. LifecycleInv => ApprovedAreServed
    BY DEF LifecycleInv
<1> QED
    BY <1>1, Invariance, PTL

-----------------------------------------------------------------------------
(***************************************************************************)
(* The split handlers implement GuestAnswer.                               *)
(***************************************************************************)
Approved == {i \in Invitation : row[i].status = "APPROVED"}
Guests   == {i \in Invitation : row[i].guest}
Answers  == [i \in Invitation |-> row[i].choice]

(* Steps that leave answers, accounts and contested invitations alone.     *)
LEMMA AnswersKept ==
    ASSUME TypeOK, UNCHANGED <<fact, handed, granted, clobbered>>,
           \A i \in Invitation : /\ row'[i].choice = row[i].choice
                                 /\ row'[i].guest = row[i].guest
    PROVE  UNCHANGED <<Answers, fact, handed, Guests, granted, clobbered>>
    BY DEF Answers, Guests

(* A reply: the answer of i, its fact and its status are written together. *)
LEMMA ReplyMaps ==
    ASSUME LifecycleInv, NEW q \in Request, NEW known \in BOOLEAN,
           ReplyCommit(q, known)
    PROVE  \E i \in Invitation, a \in Answer :
               Answered!Reply(i, a) \/ Answered!Contest(i, a)
<1>0. PICK i \in Invitation, a \in Answer :
          i = job[q].target /\ a = job[q].answer
    BY DEF LifecycleInv, TypeOK, Job, ReplyCommit, RequestInv
<1>1. /\ i \in Invitation /\ a \in Answer
      /\ job[q].status \in {"APPROVAL_STAGED", StatusFor(a)}
    BY <1>0 DEF LifecycleInv, TypeOK, Job, ReplyCommit, RequestInv
<1>2. job[q].status # "APPROVED"
    BY <1>1 DEF StatusFor, Answer
<1>3. /\ row' = [row EXCEPT ![i].choice = a, ![i].status = job[q].status,
                            ![i].contact = @ \/ a = "YES"]
      /\ fact' = [fact EXCEPT ![i] = FactAfter(a, @)]
      /\ clobbered' = IF row[i].choice \in Final THEN clobbered \cup {i}
                                                 ELSE clobbered
      /\ UNCHANGED <<handed, granted>>
    BY <1>0 DEF ReplyCommit
<1>t. row \in [Invitation -> Row] /\ fact \in [Invitation -> Choice]
    BY DEF LifecycleInv, TypeOK
<1>4. /\ row'[i].choice = a /\ row'[i].guest = row[i].guest
      /\ row'[i].status # "APPROVED"
      /\ \A k \in Invitation \ {i} : row'[k] = row[k]
    BY <1>1, <1>2, <1>3, <1>t DEF Row
<1>5. Answers' = [Answers EXCEPT ![i] = a]
    BY <1>1, <1>4 DEF Answers
<1>6. Guests' = Guests
    BY <1>1, <1>4 DEF Guests
<1>7. Approved' = Approved \ {i}
    BY <1>1, <1>4 DEF Approved
<1>8. fact' = [fact EXCEPT ![i] = IF a \in Final THEN a ELSE @]
    BY <1>3 DEF FactAfter
<1>9. Answered!Given(i, a)
    BY <1>3, <1>5, <1>6, <1>8
    DEF Answered!Given, Answered!Final, Final, Answers, Guests
<1>10. CASE row[i].choice \notin Final /\ i \notin clobbered
  <2>1. row[i].status # "APPROVED"
    BY <1>1, <1>10 DEF LifecycleInv, TableInv, StatusMatchesAnswer, Final
  <2>2. Approved' = Approved /\ clobbered' = clobbered
    BY <1>3, <1>7, <1>10, <2>1 DEF Approved
  <2>3. Answered!Reply(i, a)
    BY <1>1, <1>9, <1>10, <2>2
    DEF Answered!Reply, Answered!Final, Final, Approved
  <2> QED
    BY <1>1, <2>3
<1>11. CASE row[i].choice \in Final \/ i \in clobbered
  <2>1. clobbered' = clobbered \cup {i}
    BY <1>3, <1>11
  <2>2. Answered!Contest(i, a)
    BY <1>1, <1>7, <1>9, <1>11, <2>1
    DEF Answered!Contest, Answered!Final, Final, Approved
  <2> QED
    BY <1>1, <2>2
<1> QED
    BY <1>10, <1>11

LEMMA ApproveMaps ==
    ASSUME LifecycleInv, NEW q \in Request, ApprovePersist(q)
    PROVE  \E i \in Invitation : Answered!Approve(i)
<1> DEFINE i == job[q].target
<1>1. i \in Invitation /\ (i \notin clobbered => row[i].choice = "YES")
    BY DEF LifecycleInv, TypeOK, Job, ApprovePersist, RequestInv, Approving
<1>2. /\ row' = [row EXCEPT ![i].status = "APPROVED"]
      /\ UNCHANGED <<fact, handed, granted, clobbered>>
    BY DEF ApprovePersist, history
<1>3. /\ row'[i].status = "APPROVED"
      /\ \A k \in Invitation \ {i} : row'[k] = row[k]
      /\ \A k \in Invitation : /\ row'[k].choice = row[k].choice
                               /\ row'[k].guest = row[k].guest
    BY <1>1, <1>2 DEF LifecycleInv, TypeOK, Row
<1> HIDE DEF i
<1>4. Approved' = Approved \cup {i}
    BY <1>1, <1>3 DEF Approved
<1>5. UNCHANGED <<Answers, fact, handed, Guests, granted, clobbered>>
    BY <1>2, <1>3, AnswersKept DEF LifecycleInv
<1>6. Answered!Accepted(i)
    BY <1>1 DEF Answered!Accepted
<1> QED
    BY <1>1, <1>4, <1>5, <1>6
    DEF Answered!Approve, Answers, Approved, Guests

LEMMA HandOverMaps ==
    ASSUME LifecycleInv, NEW q \in Request, NEW scheduled \in BOOLEAN,
           ApproveTail(q, scheduled)
    PROVE  \/ \E i \in Invitation : Answered!HandOver(i)
           \/ UNCHANGED <<row, fact, handed, granted, clobbered>>
<1> DEFINE i == job[q].target
<1>1. i \in Invitation /\ (i \notin clobbered => row[i].choice = "YES")
    BY DEF LifecycleInv, TypeOK, Job, ApproveTail, RequestInv, Approving
<1>2. /\ handed' = handed \/ handed' = handed \cup {i}
      /\ UNCHANGED <<row, fact, granted, clobbered>>
    BY DEF ApproveTail, history
<1>3. handed' = handed \cup {i} => Answered!HandOver(i)
    BY <1>1, <1>2 DEF Answered!HandOver, Answered!Accepted
<1> QED
    BY <1>1, <1>2, <1>3

(* Only the guest's own account is granted access: what ApproveRead saw.   *)
LEMMA GrantMaps ==
    ASSUME LifecycleInv, NEW q \in Request, NEW succeeds \in BOOLEAN,
           Grant(q, succeeds)
    PROVE  \/ \E i \in Invitation : Answered!Admit(i)
           \/ UNCHANGED <<row, fact, handed, granted, clobbered>>
<1>0. PICK i \in Invitation : i = job[q].target
    BY DEF LifecycleInv, TypeOK, Job, Grant
<1>1. (i \notin clobbered => row[i].choice = "YES") /\ row[i].guest
    BY <1>0 DEF LifecycleInv, Grant, RequestInv, Approving
<1>2. /\ granted' = granted \/ granted' = granted \cup {i}
      /\ UNCHANGED <<row, fact, handed, clobbered>>
    BY <1>0 DEF Grant, history
<1>3. granted' = granted \cup {i} => Answered!Admit(i)
    BY <1>1, <1>2 DEF Answered!Admit, Answered!Accepted
<1> QED
    BY <1>2, <1>3

(* Rejections and stagings: no status becomes APPROVED.                    *)
LEMMA WithdrawMaps ==
    ASSUME LifecycleInv, UNCHANGED <<fact, handed, granted, clobbered>>,
           \A i \in Invitation :
               /\ row'[i].choice = row[i].choice
               /\ row'[i].guest = row[i].guest
               /\ row'[i].status = "APPROVED" => row[i].status = "APPROVED"
    PROVE  Answered!Withdraw
<1>1. UNCHANGED <<Answers, fact, handed, Guests, granted, clobbered>>
    BY AnswersKept DEF LifecycleInv
<1>2. Approved' \in SUBSET Approved
    BY DEF Approved
<1> QED
    BY <1>1, <1>2 DEF Answered!Withdraw, Answers, Approved, Guests

LEMMA AnswerStep ==
    ASSUME LifecycleInv, [Next]_vars
    PROVE  [Answered!Next]_(Answered!vars)
<1>t. row \in [Invitation -> Row] /\ job \in [Request -> Job]
    BY DEF LifecycleInv, TypeOK
<1>1. ASSUME NEW q \in Request, NEW known \in BOOLEAN, ReplyCommit(q, known)
      PROVE  Answered!Next
    BY <1>1, ReplyMaps DEF Answered!Next, Answered!Answer, Answer
<1>2. ASSUME NEW q \in Request, ApprovePersist(q)
      PROVE  Answered!Next
    BY <1>2, ApproveMaps DEF Answered!Next
<1>3. ASSUME UNCHANGED <<row, fact, handed, granted, clobbered>>
      PROVE  UNCHANGED Answered!vars
    BY <1>3 DEF Answered!vars
<1>4. ASSUME NEW q \in Request, NEW scheduled \in BOOLEAN,
             ApproveTail(q, scheduled)
      PROVE  [Answered!Next]_(Answered!vars)
    BY <1>3, <1>4, HandOverMaps DEF Answered!Next
<1>5. ASSUME NEW q \in Request, RejectCommit(q)
      PROVE  Answered!Next
  <2> DEFINE i == job[q].target
  <2>1. /\ row' = [row EXCEPT ![i].status = "REJECTED", ![i].contact = FALSE]
        /\ UNCHANGED <<fact, handed, granted, clobbered>>
    BY <1>5 DEF RejectCommit
  <2>2. \A k \in Invitation :
            /\ row'[k].choice = row[k].choice
            /\ row'[k].guest = row[k].guest
            /\ row'[k].status = "APPROVED" => row[k].status = "APPROVED"
    BY <2>1, <1>t DEF Row
  <2> QED
    BY <2>1, <2>2, WithdrawMaps DEF Answered!Next
<1>6. ASSUME NEW q \in Request, StageCommit(q)
      PROVE  Answered!Next
  <2>1. UNCHANGED <<fact, handed, granted, clobbered>>
    BY <1>6 DEF StageCommit, history
  <2>2. ASSUME NEW k \in Invitation
        PROVE  \/ row'[k] = row[k]
               \/ \E s \in {"APPROVAL_STAGED", "ACCEPTED", "PENDING"} :
                      row'[k] = [row[k] EXCEPT !.status = s]
    BY <1>6 DEF StageCommit, UnstagedStatus
  <2>3. \A k \in Invitation :
            /\ row'[k].choice = row[k].choice
            /\ row'[k].guest = row[k].guest
            /\ row'[k].status = "APPROVED" => row[k].status = "APPROVED"
    BY <2>2, <1>t DEF Row
  <2> QED
    BY <2>1, <2>3, WithdrawMaps DEF Answered!Next
<1>7. ASSUME NEW i \in Invitation, LinkGuest(i)
      PROVE  Answered!Next
  <2>1. /\ i \in handed \cup Child /\ row' = [row EXCEPT ![i].guest = TRUE]
        /\ UNCHANGED <<fact, handed, granted, clobbered>>
    BY <1>7 DEF LinkGuest, history
  <2>2. /\ row'[i].guest
        /\ \A k \in Invitation : /\ row'[k].choice = row[k].choice
                                 /\ row'[k].status = row[k].status
        /\ \A k \in Invitation \ {i} : row'[k] = row[k]
    BY <2>1, <1>t DEF Row
  <2>3. Guests' = Guests \cup {i} /\ UNCHANGED <<Answers, Approved>>
    BY <2>2 DEF Guests, Answers, Approved
  <2>4. Answered!Register(i)
    BY <2>1, <2>3 DEF Answered!Register, Answers, Approved, Guests
  <2> QED
    BY <2>4 DEF Answered!Next
\* The other steps change requests only.
<1>8. ASSUME NEW q \in Request, Arrive(q) \/ Fail(q)
      PROVE  UNCHANGED <<row, fact, handed, granted, clobbered>>
    BY <1>8
    DEF Arrive, Fail, ReplyRead, ApproveRequest, RejectRead, StageRead, db,
        history
<1>9. ASSUME NEW q \in Request, ApproveRead(q)
      PROVE  UNCHANGED <<row, fact, handed, granted, clobbered>>
    BY <1>9 DEF ApproveRead, db, history
<1>10. ASSUME NEW q \in Request, NEW succeeds \in BOOLEAN,
              Grant(q, succeeds)
       PROVE  [Answered!Next]_(Answered!vars)
    BY <1>3, <1>10, GrantMaps DEF Answered!Next
<1>11. UNCHANGED vars => UNCHANGED <<row, fact, handed, granted, clobbered>>
    BY DEF vars
<1> QED
    BY <1>1, <1>2, <1>3, <1>4, <1>5, <1>6, <1>7, <1>8, <1>9, <1>10, <1>11
    DEF Next, Continue

(* However the handlers interleave, it is as if each answer, approval,     *)
(* hand-over and grant happened in one step, outside double replies.       *)
THEOREM LifecycleRefinesAnswer == Spec => ImplementsGuestAnswer
<1>1. Init => Answered!Init
  <2> SUFFICES ASSUME Init PROVE Answered!Init
    OBVIOUS
  <2>1. \A i \in Invitation : /\ row[i].choice \in {"NONE", "YES"}
                              /\ row[i].status # "APPROVED"
                              /\ ~row[i].guest
    BY DEF Init, NewRows, NewRow, PendingPlusOne, StaffPlusOne, RsvpPlusOne
  <2> QED
    BY <2>1 DEF Init, Answered!Init
<1>2. LifecycleInv /\ [Next]_vars => [Answered!Next]_(Answered!vars)
    BY AnswerStep
<1> QED
    BY <1>1, <1>2, Invariance, PTL DEF Spec, ImplementsGuestAnswer, Answered!Spec

-----------------------------------------------------------------------------
(***************************************************************************)
(* Double replies are the one way to lose a final answer: of requests that *)
(* are served one at a time, none answers over a YES or a NO.              *)
(***************************************************************************)
OneAtATime == \A p, q \in Request : p = q

(* What the only request read of its target still holds.                   *)
UnansweredInv ==
    \A q \in Request : at[q] = "reply" => row[job[q].target].choice \notin Final

(* A request that has moved on is not about to store a reply.              *)
LEMMA NothingToStore ==
    ASSUME TypeOK, OneAtATime, NEW q \in Request, NEW place, NEW j,
           Goto(q, place, j), place # "reply"
    PROVE  UnansweredInv'
    BY DEF TypeOK, OneAtATime, Goto, UnansweredInv

LEMMA UnansweredStep ==
    ASSUME LifecycleInv, OneAtATime, UnansweredInv, [Next]_vars
    PROVE  UnansweredInv'
<1>t. TypeOK
    BY DEF LifecycleInv
<1>1. ASSUME NEW q \in Request, NEW i \in Invitation, NEW answer \in Answer,
             NEW auto \in BOOLEAN, ReplyRead(q, i, answer, auto)
      PROVE  UnansweredInv'
  <2> DEFINE j == [NoJob EXCEPT !.target = i, !.answer = answer,
                      !.status = ResultingStatus(row[i].status, answer),
                      !.auto = auto /\ answer = "YES"
                                    /\ row[i].status # "APPROVAL_STAGED"]
  <2>1. /\ Goto(q, "reply", j) /\ row[i].choice \notin Final /\ row' = row
        /\ j.target = i
    BY <1>1 DEF ReplyRead, db, NoJob
  <2> HIDE DEF j
  <2>2. job'[q].target = i /\ \A p \in Request : p = q
    BY <2>1, <1>t DEF Goto, TypeOK, OneAtATime
  <2> QED
    BY <2>1, <2>2 DEF UnansweredInv
<1>2. ASSUME NEW q \in Request, Done(q)
      PROVE  UnansweredInv'
    BY <1>2, <1>t, NothingToStore DEF Done
<1>3. ASSUME NEW q \in Request,
             Arrive(q) \/ Continue(q) \/ Fail(q),
             ~ \E i \in Invitation, answer \in Answer, auto \in BOOLEAN :
                   ReplyRead(q, i, answer, auto)
      PROVE  \/ Done(q)
             \/ \E place \in Place \ {"reply"} : \E j : Goto(q, place, j)
  <2>1. CASE Arrive(q)
    BY <2>1, <1>3 DEF Arrive, ApproveRequest, RejectRead, StageRead, Place
  <2>2. CASE Fail(q)
    BY <2>2 DEF Fail
  <2>3. ASSUME NEW known \in BOOLEAN, ReplyCommit(q, known)
        PROVE  Done(q) \/ \E j : Goto(q, "approve", j)
    BY <2>3 DEF ReplyCommit
  <2>4. CASE ApproveRead(q)
    BY <2>4 DEF ApproveRead, Place
  <2>5. ASSUME NEW succeeds \in BOOLEAN, Grant(q, succeeds)
        PROVE  Done(q) \/ \E j : Goto(q, "persist", j)
    BY <2>5 DEF Grant
  <2>6. CASE ApprovePersist(q)
    BY <2>6 DEF ApprovePersist, Place
  <2>7. CASE RejectCommit(q) \/ StageCommit(q)
             \/ \E scheduled \in BOOLEAN : ApproveTail(q, scheduled)
    BY <2>7 DEF RejectCommit, StageCommit, ApproveTail
  <2> QED
    BY <1>3, <2>1, <2>2, <2>3, <2>4, <2>5, <2>6, <2>7 DEF Continue, Place
<1>4. ASSUME NEW i \in Invitation, LinkGuest(i)
      PROVE  UnansweredInv'
  <2>1. UNCHANGED <<at, job>> /\ row' = [row EXCEPT ![i].guest = TRUE]
    BY <1>4 DEF LinkGuest
  <2>2. \A k \in Invitation : row'[k].choice = row[k].choice
    BY <2>1, <1>t DEF TypeOK, Row
  <2>3. \A q \in Request : at[q] = "reply" => job[q].target \in Invitation
    BY <1>t DEF TypeOK, Job
  <2> QED
    BY <2>1, <2>2, <2>3 DEF UnansweredInv
<1>5. UNCHANGED vars => UnansweredInv'
    BY DEF UnansweredInv, vars
<1> QED
    BY <1>1, <1>2, <1>3, <1>4, <1>5, <1>t, NothingToStore DEF Next

(* "Prevent double RSVP" is what reply() does as long as requests do not   *)
(* overlap: then a YES or a NO is never answered again.                    *)
THEOREM SerialAnswersAreFinal == OneAtATime => (Spec => AnswerIsFinal)
<1> SUFFICES ASSUME OneAtATime PROVE Spec => AnswerIsFinal
    OBVIOUS
<1>1. Init => UnansweredInv
    BY DEF Init, UnansweredInv
<1>2. LifecycleInv /\ UnansweredInv /\ [Next]_vars => UnansweredInv'
    BY UnansweredStep
<1>3. LifecycleInv /\ UnansweredInv /\ [Next]_vars
      => [\A i \in Invitation :
            row[i].choice \in Final => row'[i].choice = row[i].choice]_vars
  <2> SUFFICES ASSUME LifecycleInv, UnansweredInv, Next, NEW i \in Invitation,
                      row[i].choice \in Final
               PROVE  row'[i].choice = row[i].choice
    BY DEF LifecycleInv
  <2>t. TypeOK
    BY DEF LifecycleInv
  <2>1. ASSUME NEW q \in Request, NEW known \in BOOLEAN, ReplyCommit(q, known)
        PROVE  row'[i].choice = row[i].choice
    <3>1. job[q].target # i /\ job[q].target \in Invitation
      BY <2>1, <2>t DEF ReplyCommit, UnansweredInv, TypeOK, Job
    <3> QED
      BY <2>1, <2>t, <3>1 DEF ReplyCommit, TypeOK
  <2>2. ASSUME NEW q \in Request, ApprovePersist(q) \/ RejectCommit(q)
        PROVE  row'[i].choice = row[i].choice
    BY <2>2, <2>t DEF ApprovePersist, RejectCommit, TypeOK, Row
  <2>3. ASSUME NEW q \in Request, StageCommit(q)
        PROVE  row'[i].choice = row[i].choice
    BY <2>3, <2>t DEF StageCommit, TypeOK, Row
  <2>4. ASSUME NEW k \in Invitation, LinkGuest(k)
        PROVE  row'[i].choice = row[i].choice
    BY <2>4, <2>t DEF LinkGuest, TypeOK, Row
  <2>5. ASSUME NEW q \in Request,
               \/ Arrive(q) \/ Fail(q) \/ ApproveRead(q)
               \/ \E succeeds \in BOOLEAN : Grant(q, succeeds)
               \/ \E scheduled \in BOOLEAN : ApproveTail(q, scheduled)
        PROVE  row' = row
    BY <2>5 DEF Arrive, Fail, ApproveRead, Grant, ApproveTail, ReplyRead,
                ApproveRequest, RejectRead, StageRead, db
  <2> QED
    BY <2>1, <2>2, <2>3, <2>4, <2>5 DEF Next, Continue
<1> QED
    BY <1>1, <1>2, <1>3, Invariance, PTL DEF Spec, AnswerIsFinal
=============================================================================
