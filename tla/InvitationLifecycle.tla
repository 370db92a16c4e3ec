------------------------- MODULE InvitationLifecycle -------------------------
(***************************************************************************)
(* The RSVP and approval life of invitations.                              *)
(*                                                                         *)
(* A guest's reply (GuestWriteService.reply), an administrator's approval  *)
(* or rejection (AdminWriteService.approve) and bulk staging               *)
(* (AdminWriteService.bulkStage) are asynchronous request handlers of one  *)
(* Node process, or of several replicas, over one PostgreSQL table.  Each  *)
(* of them reads the invitation, validates what it read, and only later    *)
(* writes the row back by its id, without looking at it again: every       *)
(* handler is therefore split at its awaits, and any other handler may run *)
(* between the read and the write.                                         *)
(*                                                                         *)
(* A row keeps what the decisions depend on: the guest's answer            *)
(* (rsvpChoice), the status, whether a pending contact is attached         *)
(* (pendingContactId) and whether a guest account is linked                *)
(* (guestProfileId).  Names, phone numbers, notes and seats are left out.  *)
(***************************************************************************)
EXTENDS Naturals, FiniteSets

CONSTANTS
    Invitation,  \* the invitations of one event
    Child,       \* those that are plus-ones created by their parent's RSVP
    Request,     \* slots for requests in flight
    None,        \* "no invitation": the target of an idle request
    MaxFaults    \* bound on the requests that die half-way

ASSUME LifecycleAssumption ==
    /\ Child \subseteq Invitation
    /\ None \notin Invitation
    /\ MaxFaults \in Nat

(* RsvpChoice; "NONE" is a null column: the guest has not answered. *)
Answer == {"YES", "NO", "MAYBE"}
Choice == Answer \cup {"NONE"}
Final  == {"YES", "NO"}

Status == {"PENDING", "ACCEPTED", "APPROVAL_STAGED", "DECLINED", "CANCELED",
           "REJECTED", "APPROVED"}

Row == [choice : Choice, status : Status, contact : BOOLEAN, guest : BOOLEAN]

(* An invitation created by an administrator, and the kinds of plus-one:   *)
(* one added by staff is accepted at once, one added by a guest may have   *)
(* to answer first, and both get a pending contact of their own; one       *)
(* created along with the parent's RSVP (Child) does not: its details      *)
(* travel in the parent's pending contact.                                 *)
NewRow         == [choice |-> "NONE", status |-> "PENDING",
                   contact |-> FALSE, guest |-> FALSE]
PendingPlusOne == [NewRow EXCEPT !.contact = TRUE]
StaffPlusOne   == [choice |-> "YES", status |-> "ACCEPTED",
                   contact |-> TRUE, guest |-> FALSE]
RsvpPlusOne    == [StaffPlusOne EXCEPT !.contact = FALSE]
NewRows == {NewRow, PendingPlusOne, StaffPlusOne, RsvpPlusOne}

(***************************************************************************)
(* RsvpDomain.decide, and the status reply() finally stores.               *)
(***************************************************************************)
CanAnswer(previous, answer) == previous = answer => answer \notin Final

\* Fault: a new RSVP state leaks into the status column.
StatusForTentative(answer) ==
    CASE answer = "YES"   -> "ACCEPTED"
      [] answer = "NO"    -> "DECLINED"
      [] answer = "MAYBE" -> "TENTATIVE"

StatusFor(answer) ==
    CASE answer = "YES"   -> "ACCEPTED"
      [] answer = "NO"    -> "DECLINED"
      [] answer = "MAYBE" -> "PENDING"

ResultingStatus(status, answer) ==
    IF status = "APPROVAL_STAGED" /\ answer = "YES"
    THEN "APPROVAL_STAGED" ELSE StatusFor(answer)

(* The status an unstaged invitation falls back to. *)
UnstagedStatus(accepted) == IF accepted THEN "ACCEPTED" ELSE "PENDING"

(* What the outbox says of the answer: YES and NO leave a fact. *)
\* Fault: every reply reports an acceptance.
FactAfterAlwaysAccepted(answer, last) == IF answer \in Answer THEN "YES" ELSE last

FactAfter(answer, last) == IF answer \in Final THEN answer ELSE last

(* Approval needs a YES and is not repeated. *)
\* Fault: the RSVP is not looked at.
MayApproveUnanswered(r) == r.status # "APPROVED"

\* Fault: only the status that an RSVP leaves behind can be approved.
MayApproveAccepted(r) == r.choice = "YES" /\ r.status = "ACCEPTED"

MayApprove(r) == r.choice = "YES" /\ r.status # "APPROVED"

(* The confirmation chain takes an invitation without an account only      *)
(* while it is approved or accepted.                                       *)
\* Fault: the status is the one before the approval.
ActionableAccepted(r) == r.status = "ACCEPTED" /\ ~r.guest

Actionable(r) == r.status \in {"APPROVED", "ACCEPTED"} /\ ~r.guest

-----------------------------------------------------------------------------
VARIABLES
    row,       \* the invitation table
    fact,      \* the last accepted/declined fact in the analytics outbox
    handed,    \* invitations handed to the confirmation chain: a seat was
               \* requested, a confirmation sent or a ticket job scheduled
    granted,   \* invitations whose account was granted event access
    at,        \* where each request in flight stands
    job,       \* what each request in flight holds in its local variables
    faults,    \* the requests that died so far
    rejected,  \* history: invitations that were ever rejected
    clobbered  \* history: invitations a reply answered over a final answer
               \* that it had not seen

db      == <<row, fact, handed, granted>>
history == <<rejected, clobbered>>
vars    == <<row, fact, handed, granted, at, job, faults, rejected, clobbered>>

Place == {"idle", "reply", "approve", "grant", "persist", "tail", "reject",
          "stage"}

(* target: the invitation; answer: the guest's choice; status: the status  *)
(* computed from the row that was read; auto: an approval follows;         *)
(* linked, contact: guestProfileId and pendingContactId as last read;      *)
(* picked, accepted: bulkStage's invitations, and those it read with YES;  *)
(* staging: the direction of bulkStage.                                    *)
Job == [target : Invitation \cup {None}, answer : Choice, status : Status,
        auto : BOOLEAN, linked : BOOLEAN, contact : BOOLEAN,
        picked : SUBSET Invitation, accepted : SUBSET Invitation,
        staging : BOOLEAN]

NoJob == [target |-> None, answer |-> "NONE", status |-> "PENDING",
          auto |-> FALSE, linked |-> FALSE, contact |-> FALSE,
          picked |-> {}, accepted |-> {}, staging |-> FALSE]

TypeOK ==
    /\ row \in [Invitation -> Row]
    /\ fact \in [Invitation -> Choice]
    /\ handed \subseteq Invitation
    /\ granted \subseteq Invitation
    /\ at \in [Request -> Place]
    /\ job \in [Request -> Job]
    /\ faults \in Nat
    /\ rejected \subseteq Invitation
    /\ clobbered \subseteq Invitation
    /\ \A q \in Request : at[q] \notin {"idle", "stage"} => job[q].target # None

Init ==
    /\ row \in {r \in [Invitation -> NewRows] :
                    \A i \in Invitation : r[i] = RsvpPlusOne <=> i \in Child}
    /\ fact = [i \in Invitation |-> "NONE"]
    /\ handed = {} /\ granted = {}
    /\ at = [q \in Request |-> "idle"]
    /\ job = [q \in Request |-> NoJob]
    /\ faults = 0 /\ rejected = {} /\ clobbered = {}

Goto(q, place, j) ==
    /\ at' = [at EXCEPT ![q] = place]
    /\ job' = [job EXCEPT ![q] = j]

Done(q) == Goto(q, "idle", NoJob)

-----------------------------------------------------------------------------
(***************************************************************************)
(* reply(): read and validate, then one transaction, then, for an accepted *)
(* invitation under automatic approval, the approval an administrator      *)
(* would have made.                                                        *)
(***************************************************************************)

(* The row and the settings are read before the transaction is opened.     *)
(* auto is autoApproveOnAccept: a flag of the row or the event's approval  *)
(* mode, which may change at any time.                                     *)
ReplyRead(q, i, answer, auto) ==
    /\ at[q] = "idle"
    /\ row[i].choice \notin Final
    /\ CanAnswer(row[i].choice, answer)
    /\ Goto(q, "reply",
            [NoJob EXCEPT !.target = i, !.answer = answer,
                !.status = ResultingStatus(row[i].status, answer),
                !.auto = auto /\ answer = "YES"
                              /\ row[i].status # "APPROVAL_STAGED"])
    /\ UNCHANGED <<db, faults, history>>

(* The transaction: the row is overwritten by id, YES attaches a pending   *)
(* contact, and YES and NO leave an outbox fact.  An invitation without an *)
(* inviting user cannot be approved automatically: reply() throws then,    *)
(* with the answer already committed.                                      *)
ReplyCommit(q, inviterKnown) ==
    LET j == job[q]  i == j.target IN
    /\ at[q] = "reply"
    /\ row' = [row EXCEPT ![i].choice = j.answer, ![i].status = j.status,
                          ![i].contact = @ \/ j.answer = "YES"]
    /\ fact' = [fact EXCEPT ![i] = FactAfter(j.answer, @)]
    /\ clobbered' = IF row[i].choice \in Final THEN clobbered \cup {i}
                                               ELSE clobbered
    /\ IF j.auto /\ inviterKnown
       THEN Goto(q, "approve", [NoJob EXCEPT !.target = i, !.auto = TRUE])
       ELSE Done(q)
    /\ UNCHANGED <<handed, granted, faults, rejected>>

-----------------------------------------------------------------------------
(***************************************************************************)
(* approve(approve = true): bulkApprove runs it for one invitation after   *)
(* the other, reply() runs it after an accepted RSVP.                      *)
(***************************************************************************)
ApproveRequest(q, i) ==
    /\ at[q] = "idle"
    /\ Goto(q, "approve", [NoJob EXCEPT !.target = i])
    /\ UNCHANGED <<db, faults, history>>

(* A refused approval throws; an account that is linked already is granted *)
(* access before the approval is stored.                                   *)
ApproveRead(q) ==
    LET j == job[q]  r == row[j.target] IN
    /\ at[q] = "approve"
    /\ IF MayApprove(r)
       THEN Goto(q, IF r.guest THEN "grant" ELSE "persist",
                 [j EXCEPT !.linked = r.guest])
       ELSE Done(q)
    /\ UNCHANGED <<db, faults, history>>

(* The HTTP call to the event service: it fails, and the approval ends     *)
(* there, or access is granted.                                            *)
Grant(q, succeeds) ==
    /\ at[q] = "grant"
    /\ IF succeeds
       THEN /\ granted' = granted \cup {job[q].target}
            /\ Goto(q, "persist", job[q])
       ELSE /\ Done(q)
            /\ UNCHANGED granted
    /\ UNCHANGED <<row, fact, handed, faults, history>>

(* The status is overwritten by id; the updated row is what the rest of    *)
(* the handler goes by.                                                    *)
ApprovePersist(q) ==
    LET i == job[q].target IN
    /\ at[q] = "persist"
    /\ row' = [row EXCEPT ![i].status = "APPROVED"]
    /\ Goto(q, "tail", [job[q] EXCEPT !.linked = row[i].guest,
                                      !.contact = row[i].contact])
    /\ UNCHANGED <<fact, handed, granted, faults, history>>

(* An invitation without an account goes to the confirmation chain, by a   *)
(* delayed ticket job when the release is scheduled, else at once and only *)
(* if the row, read again, is still actionable.  Without a pending contact *)
(* the handler throws MissingPendingContactException.                      *)
ApproveTail(q, scheduled) ==
    LET j == job[q]  i == j.target IN
    /\ at[q] = "tail"
    /\ handed' = IF ~j.linked /\ j.contact /\ (scheduled \/ Actionable(row[i]))
                 THEN handed \cup {i} ELSE handed
    /\ Done(q)
    /\ UNCHANGED <<row, fact, granted, faults, history>>

-----------------------------------------------------------------------------
(* approve(approve = false): the pending contact is dropped. *)
RejectRead(q, i) ==
    /\ at[q] = "idle"
    /\ row[i].status # "REJECTED"
    /\ Goto(q, "reject", [NoJob EXCEPT !.target = i])
    /\ UNCHANGED <<db, faults, history>>

RejectCommit(q) ==
    LET i == job[q].target IN
    /\ at[q] = "reject"
    /\ row' = [row EXCEPT ![i].status = "REJECTED", ![i].contact = FALSE]
    /\ rejected' = rejected \cup {i}
    /\ Done(q)
    /\ UNCHANGED <<fact, handed, granted, faults, clobbered>>

-----------------------------------------------------------------------------
(* bulkStage(): all the invitations are validated, then one transaction    *)
(* writes them all, from what was read before it.                          *)
Stageable(staging) ==
    IF staging THEN {"PENDING", "ACCEPTED"} ELSE {"APPROVAL_STAGED"}

StageRead(q, picked, staging) ==
    /\ at[q] = "idle"
    /\ picked # {}
    /\ \A i \in picked : row[i].status \in Stageable(staging)
    /\ Goto(q, "stage",
            [NoJob EXCEPT !.picked = picked, !.staging = staging,
                !.accepted = {i \in picked : row[i].choice = "YES"}])
    /\ UNCHANGED <<db, faults, history>>

StageCommit(q) ==
    LET j == job[q] IN
    /\ at[q] = "stage"
    /\ row' = [i \in Invitation |->
                 IF i \notin j.picked THEN row[i]
                 ELSE [row[i] EXCEPT !.status =
                         IF j.staging THEN "APPROVAL_STAGED"
                                      ELSE UnstagedStatus(i \in j.accepted)]]
    /\ Done(q)
    /\ UNCHANGED <<fact, handed, granted, faults, history>>

-----------------------------------------------------------------------------
(* InvitationWriteService.addGuestId, called when the confirmation chain   *)
(* has produced an account: of an invitation that was handed to it, or of  *)
(* a plus-one that travels in its parent's pending contact.                *)
LinkGuest(i) ==
    /\ i \in handed \cup Child
    /\ ~row[i].guest
    /\ row' = [row EXCEPT ![i].guest = TRUE]
    /\ UNCHANGED <<fact, handed, granted, at, job, faults, history>>

(* A request dies between two steps: the process stops, or a database or   *)
(* broker call throws.  What was committed stays.                          *)
Fail(q) ==
    /\ at[q] # "idle"
    /\ faults < MaxFaults
    /\ faults' = faults + 1
    /\ Done(q)
    /\ UNCHANGED <<db, history>>

Continue(q) ==
    \/ \E known \in BOOLEAN : ReplyCommit(q, known)
    \/ ApproveRead(q)
    \/ \E succeeds \in BOOLEAN : Grant(q, succeeds)
    \/ ApprovePersist(q)
    \/ \E scheduled \in BOOLEAN : ApproveTail(q, scheduled)
    \/ RejectCommit(q)
    \/ StageCommit(q)

Arrive(q) ==
    \/ \E i \in Invitation, answer \in Answer, auto \in BOOLEAN :
           ReplyRead(q, i, answer, auto)
    \/ \E i \in Invitation : ApproveRequest(q, i) \/ RejectRead(q, i)
    \/ \E picked \in SUBSET Invitation, staging \in BOOLEAN :
           StageRead(q, picked, staging)

Next ==
    \/ \E q \in Request : Arrive(q) \/ Continue(q) \/ Fail(q)
    \/ \E i \in Invitation : LinkGuest(i)

Spec == Init /\ [][Next]_vars

(* A handler that has started goes on: the event loop runs every resumed   *)
(* handler.  Nobody is bound to send a request.                            *)
FairSpec == Spec /\ \A q \in Request : WF_vars(Continue(q))

-----------------------------------------------------------------------------
(***************************************************************************)
(* Correctness.  "Clobbered" invitations are those whose final answer a    *)
(* concurrent reply overwrote; AnswerIsFinal below says that there are     *)
(* none, which the code does not achieve.                                  *)
(***************************************************************************)

(* The status never contradicts the answer: an invitation is accepted or   *)
(* approved only with a YES and declined only with a NO, whatever admin    *)
(* handlers write back from rows read earlier (approve, bulkStage).        *)
StatusMatchesAnswer ==
    \A i \in Invitation \ clobbered :
        /\ row[i].status \in {"ACCEPTED", "APPROVED"} => row[i].choice = "YES"
        /\ row[i].status = "DECLINED" => row[i].choice = "NO"

(* The facts reported to analytics agree with the table: the last accepted *)
(* or declined fact of an invitation is its answer.                        *)
FactsMatchAnswer ==
    \A i \in Invitation \ clobbered :
        fact[i] # "NONE" => fact[i] = row[i].choice

(* No seat is reserved and no ticket scheduled for a guest who has not     *)
(* said YES.                                                               *)
OnlyAcceptedAreHanded ==
    \A i \in handed \ clobbered : row[i].choice = "YES"

(* An approval is at work on the hand-over of i. *)
HandingOver(i) == \E q \in Request : at[q] = "tail" /\ job[q].target = i

(* Approval reaches the guest: unless a request died half-way, an approved *)
(* invitation that was never rejected, and that owns its contact details,  *)
(* has been handed to the confirmation chain or is just being handed.      *)
ApprovedAreServed ==
    \A i \in Invitation \ (Child \cup rejected) :
        row[i].status = "APPROVED" /\ faults = 0
            => i \in handed \/ HandingOver(i)

AutoApproving(i) ==
    \E q \in Request : at[q] = "approve" /\ job[q].auto /\ job[q].target = i

(* Automatic approval is continuous from the guest's perspective: once the *)
(* YES of a reply with auto-approval is committed, the invitation becomes  *)
(* APPROVED, unless the request dies, another reply clobbers the answer or *)
(* an administrator rejects the invitation.                                *)
AutoApprovalCompletes ==
    \A i \in Invitation :
        AutoApproving(i) ~>
            \/ row[i].status = "APPROVED"
            \/ faults > 0
            \/ i \in clobbered \cup rejected

(* The split handlers implement the atomic ones of GuestAnswer: however    *)
(* replies, approvals, rejections and stagings interleave, it is as if     *)
(* each answer, its fact, each approval, hand-over and grant happened in   *)
(* one step at the time of its write, outside double replies.              *)
Answered == INSTANCE GuestAnswer
                WITH answer     <- [i \in Invitation |-> row[i].choice],
                     reported   <- fact,
                     approved   <- {i \in Invitation :
                                        row[i].status = "APPROVED"},
                     registered <- {i \in Invitation : row[i].guest},
                     admitted   <- granted,
                     contested  <- clobbered

ImplementsGuestAnswer == Answered!Spec

-----------------------------------------------------------------------------
(***************************************************************************)
(* What the repository's comments, tests and README say and the code does  *)
(* not do.                                                                 *)
(***************************************************************************)

(* "Prevent double RSVP" (reply): a YES or a NO is never answered again.   *)
AnswerIsFinal ==
    [][\A i \in Invitation :
          row[i].choice \in Final => row'[i].choice = row[i].choice]_vars

(* "Guest profile exists - event access already granted on approval" (the  *)
(* branch of approve that skips the confirmation).                         *)
SkippedConfirmationWasGranted ==
    \A q \in Request :
        at[q] = "tail" /\ job[q].linked => job[q].target \in granted
=============================================================================
