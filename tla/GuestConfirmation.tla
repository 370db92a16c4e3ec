------------------------- MODULE GuestConfirmation -------------------------
(***************************************************************************)
(* The confirmation chain of one invitation: seat, link, account.          *)
(*                                                                         *)
(* An approval hands the invitation to the chain.  Without a known seat a  *)
(* seat is requested (requestSeatReservation, topic seat.reserve); the     *)
(* seat service answers, and seat.reserved makes sendFirstConfirmation     *)
(* store the pending contact in the cache under a new token, write the     *)
(* token to the row, publish notification.confirmGuest with it, and        *)
(* schedule reminders.  A delayed ticket job does the same at the release  *)
(* time.  Reminders, administrators and guests ask for resends.  Jobs take *)
(* a lock that expires after 60 seconds, resends a cool-down key.          *)
(*                                                                         *)
(* Handlers run concurrently, in several processes, and are split at each  *)
(* await after which something they read may have changed.  The messages   *)
(* and jobs of one invitation that carry the same fields are one element   *)
(* of their topic: it is there, or it is not.                              *)
(***************************************************************************)
EXTENDS Naturals, FiniteSets

CONSTANTS
    Run,         \* slots for handlers in flight
    None,        \* the holder of a free lock
    Orphan,      \* the holder of a lock whose process stopped
    MaxCalls,    \* bound on the calls of administrators and guests
    MaxTokens,   \* bound on the pending contacts stored in the cache
    MaxResends,  \* reminders allowed: a setting of the event, or 2
    MaxPresets,  \* reminders scheduled with a confirmation, at most
    MaxFaults    \* bound on failures and repeated messages

ASSUME ConfirmationAssumption ==
    /\ {None, Orphan} \cap Run = {}
    /\ None # Orphan
    /\ MaxCalls \in Nat
    /\ MaxTokens \in Nat \ {0}
    /\ MaxResends \in Nat
    /\ MaxPresets \in Nat
    /\ MaxFaults \in Nat

Token == 1..MaxTokens
NoToken == 0

(* What is known of the seat when a confirmation is sent: nothing, the one *)
(* an administrator chose or a stored contact names, or the reserved one.  *)
Seat == {"none", "known", "reserved"}

(* The locks of ticket jobs and of reminders.                              *)
Key == {"ticket", "remind"}

VARIABLES
    row,        \* the invitation
    cache,      \* tokens with a pending contact in the cache
    issued,     \* tokens issued so far
    sent,       \* the seat of the confirmation published with each token
    marker,     \* the sign-up marker for the authentication service
    requested,  \* a seat.reserve message is under way
    reserved,   \* a seat.reserved message is under way
    jobs,       \* the delayed ticket jobs, by the seat they carry
    reminders,  \* the number of reminder jobs pending
    cooldown,   \* the cool-down key is in the cache
    lock,       \* who holds each lock
    at, job,    \* where each run stands, and its local variables
    \* The seat service and the notification service:
    held,       \* a seat is reserved for the invitation
    notified,   \* tokens whose link was delivered
    \* History:
    calls,      \* calls of administrators and guests so far
    faults,     \* faults so far
    rejected,   \* a rejection was under way at some time
    noSeat,     \* the seat service had no seat at some time
    overran,    \* runs that outlived their lock
    expired,    \* a lock expired under a run at some time
    reminded    \* resends made by reminders

topics  == <<requested, reserved, jobs, reminders>>
outside == <<held, notified>>
others  == <<faults, rejected, noSeat, expired, reminded>>
history == <<calls, others>>
vars    == <<row, cache, issued, sent, marker, requested, reserved, jobs,
             reminders, cooldown, lock, at, job, held, notified, calls,
             faults, rejected, noSeat, overran, expired, reminded>>

(* anchor: pendingContactId, set and cleared together with the payload;    *)
(* seated: the stored payload names a seat.  resendConfirmation and its    *)
(* tests read such a seat, but no code of this service stores one.         *)
Row == [exists : BOOLEAN, status : {"ACCEPTED", "APPROVED", "REJECTED"},
        guest : BOOLEAN, anchor : {NoToken} \cup Token, resends : Nat,
        seated : BOOLEAN]

Place == {"idle", "approve", "reject", "first", "anchor", "persist", "emit",
          "schedule", "reserve", "request", "ticket", "remind", "resend",
          "check", "cool", "mark"}

(* key: the lock taken; resend: persistSend counts the resend.             *)
Job == [seat : Seat, token : {NoToken} \cup Token, key : Key \cup {"none"},
        resend : BOOLEAN]
NoJob == [seat |-> "none", token |-> NoToken, key |-> "none",
          resend |-> FALSE]

TypeOK ==
    /\ row \in Row
    /\ cache \subseteq Token
    /\ issued \in {NoToken} \cup Token
    /\ sent \in [Token -> Seat \cup {"unsent"}]
    /\ marker \in BOOLEAN /\ cooldown \in BOOLEAN
    /\ requested \in BOOLEAN /\ reserved \in BOOLEAN
    /\ jobs \subseteq Seat
    /\ reminders \in Nat
    /\ lock \in [Key -> Run \cup {None, Orphan}]
    /\ at \in [Run -> Place]
    /\ job \in [Run -> Job]
    /\ held \in BOOLEAN
    /\ notified \subseteq Token
    /\ calls \in Nat /\ faults \in Nat
    /\ rejected \in BOOLEAN /\ noSeat \in BOOLEAN /\ expired \in BOOLEAN
    /\ overran \subseteq Run
    /\ reminded \in Nat

(* An accepted invitation, its contact stored by the reply.                *)
Init ==
    /\ row \in {[exists |-> TRUE, status |-> "ACCEPTED", guest |-> FALSE,
                 anchor |-> 1, resends |-> 0, seated |-> s] : s \in BOOLEAN}
    /\ cache = {1} /\ issued = 1
    /\ sent = [t \in Token |-> "unsent"]
    /\ marker = FALSE /\ cooldown = FALSE
    /\ requested = FALSE /\ reserved = FALSE /\ jobs = {} /\ reminders = 0
    /\ lock = [k \in Key |-> None]
    /\ at = [r \in Run |-> "idle"] /\ job = [r \in Run |-> NoJob]
    /\ held = FALSE /\ notified = {}
    /\ calls = 0 /\ faults = 0 /\ overran = {} /\ reminded = 0
    /\ rejected = FALSE /\ noSeat = FALSE /\ expired = FALSE

-----------------------------------------------------------------------------
(* The guards.                                                             *)
\* Fault: an approval does not count.
ActionableUnapproved ==
    row.exists /\ ~row.guest /\ row.status = "ACCEPTED"

Actionable ==
    row.exists /\ ~row.guest /\ row.status \in {"APPROVED", "ACCEPTED"}

HasContact == row.anchor # NoToken

\* Fault: one reminder too many.
UnderCapInclusive == row.resends <= MaxResends

UnderCap == row.resends < MaxResends

(* sendFirstConfirmationOrReserve *)
\* Fault: the confirmation is sent at once.
FirstStepUnseated(seat) == "first"

FirstStep(seat) == IF seat = "none" THEN "reserve" ELSE "first"

-----------------------------------------------------------------------------
Goto(r, place, j) ==
    /\ at' = [at EXCEPT ![r] = place]
    /\ job' = [job EXCEPT ![r] = j]
    /\ UNCHANGED <<lock, overran>>

(* releaseLock: only the lock that the run still holds.                    *)
\* Fault: whoever holds it.
ReleasedBlindly(r) ==
    [k \in Key |-> IF job[r].key = k THEN None ELSE lock[k]]

Released(r) == [k \in Key |-> IF lock[k] = r THEN None ELSE lock[k]]

Finish(r) ==
    /\ at' = [at EXCEPT ![r] = "idle"]
    /\ job' = [job EXCEPT ![r] = NoJob]
    /\ overran' = overran \ {r}

End(r) == Finish(r) /\ lock' = Released(r)

(* A run starts with a lock, or does nothing when the lock is taken.       *)
StartLocked(r, k, seat) ==
    IF lock[k] = None
    THEN /\ lock' = [lock EXCEPT ![k] = r]
         /\ at' = [at EXCEPT ![r] = k]
         /\ job' = [job EXCEPT ![r] = [NoJob EXCEPT !.key = k, !.seat = seat]]
         /\ UNCHANGED overran
    ELSE UNCHANGED <<lock, at, job, overran>>

Fault == faults < MaxFaults /\ faults' = faults + 1

(* One more call by an administrator or a guest.                           *)
Called == calls < MaxCalls /\ calls' = calls + 1

(* A message or job is handled once, or, by a fault, again later.          *)
Redelivery(again) ==
    /\ IF again THEN Fault ELSE UNCHANGED faults
    /\ UNCHANGED <<calls, rejected, noSeat, expired, reminded>>

-----------------------------------------------------------------------------
(* approve, by administrators.  A seat may be chosen; with a release time  *)
(* ahead the chain starts later, from a delayed job.                       *)
ApproveRead(r, seat) ==
    /\ at[r] = "idle" /\ row.exists /\ row.status # "APPROVED"
    /\ Goto(r, "approve", [NoJob EXCEPT !.seat = seat])
    /\ Called
    /\ UNCHANGED <<row, cache, issued, sent, marker, topics, cooldown, outside,
                   others>>

ApproveStore(r, scheduled) ==
    /\ at[r] = "approve"
    /\ row' = IF row.exists THEN [row EXCEPT !.status = "APPROVED"] ELSE row
    /\ IF row.exists /\ ~row.guest /\ HasContact
       THEN IF scheduled
            THEN End(r) /\ jobs' = jobs \cup {job[r].seat}
            ELSE /\ Goto(r, FirstStep(job[r].seat), job[r])
                 /\ UNCHANGED jobs
       ELSE End(r) /\ UNCHANGED jobs
    /\ UNCHANGED <<cache, issued, sent, marker, requested, reserved, reminders,
                   cooldown, outside, history>>

RejectDrop(r) ==
    /\ at[r] = "idle" /\ row.exists /\ row.status # "REJECTED"
    /\ cache' = cache \ {row.anchor}
    /\ rejected' = TRUE
    /\ Goto(r, "reject", NoJob)
    /\ Called
    /\ UNCHANGED <<row, issued, sent, marker, topics, cooldown, outside, faults,
                   noSeat, expired, reminded>>

\* Fault: the guest is taken to have declined.
RejectStoreDeclined(r) ==
    /\ at[r] = "reject"
    /\ row' = IF row.exists
              THEN [row EXCEPT !.status = "DECLINED", !.anchor = NoToken]
              ELSE row
    /\ End(r)
    /\ UNCHANGED <<cache, issued, sent, marker, topics, cooldown, outside,
                   history>>

RejectStore(r) ==
    /\ at[r] = "reject"
    /\ row' = IF row.exists
              THEN [row EXCEPT !.status = "REJECTED", !.anchor = NoToken]
              ELSE row
    /\ End(r)
    /\ UNCHANGED <<cache, issued, sent, marker, topics, cooldown, outside,
                   history>>

(* The row goes, and nothing else.                                         *)
Delete ==
    /\ row.exists
    /\ row' = [row EXCEPT !.exists = FALSE]
    /\ UNCHANGED <<cache, issued, sent, marker, topics, cooldown, lock, at, job,
                   outside, overran, history>>

-----------------------------------------------------------------------------
(* sendFirstConfirmation, and the part of resendConfirmation like it.      *)
FirstRead(r) ==
    /\ at[r] = "first"
    /\ IF Actionable /\ HasContact THEN Goto(r, "anchor", job[r]) ELSE End(r)
    /\ UNCHANGED <<row, cache, issued, sent, marker, topics, cooldown, outside,
                   history>>

\* Fault: the contact moves to the new token.
ReanchorInPlace(r) ==
    /\ at[r] = "anchor"
    /\ issued < MaxTokens
    /\ issued' = issued + 1
    /\ cache' = (cache \ {row.anchor}) \cup {issued + 1}
    /\ Goto(r, "persist", [job[r] EXCEPT !.token = issued + 1])
    /\ UNCHANGED <<row, sent, marker, topics, cooldown, outside, history>>

ReAnchor(r) ==
    /\ at[r] = "anchor"
    /\ issued < MaxTokens
    /\ issued' = issued + 1
    /\ cache' = cache \cup {issued + 1}
    /\ Goto(r, "persist", [job[r] EXCEPT !.token = issued + 1])
    /\ UNCHANGED <<row, sent, marker, topics, cooldown, outside, history>>

(* At the bound the call to the cache fails, and the run with it.          *)
CacheRefuses(r) ==
    /\ at[r] = "anchor" /\ issued = MaxTokens
    /\ End(r)
    /\ UNCHANGED <<row, cache, issued, sent, marker, topics, cooldown, outside,
                   history>>

PersistSend(r) ==
    /\ at[r] = "persist"
    /\ IF row.exists
       THEN /\ row' = [row EXCEPT !.anchor = job[r].token,
                      !.resends = IF job[r].resend THEN @ + 1 ELSE @]
            /\ Goto(r, "emit", job[r])
       ELSE End(r) /\ UNCHANGED row
    /\ UNCHANGED <<cache, issued, sent, marker, topics, cooldown, outside,
                   history>>

(* A run that holds the reminder lock is a reminder.                       *)
CountReminder(r) ==
    /\ reminded' = IF job[r].key = "remind" THEN reminded + 1 ELSE reminded
    /\ UNCHANGED <<calls, faults, rejected, noSeat, expired>>

EmitConfirmGuest(r) ==
    /\ at[r] = "emit"
    /\ sent' = [sent EXCEPT ![job[r].token] = job[r].seat]
    /\ IF job[r].resend THEN End(r) ELSE Goto(r, "schedule", job[r])
    /\ CountReminder(r)
    /\ UNCHANGED <<row, cache, issued, marker, topics, cooldown, outside>>

ScheduleReminders(r, n) ==
    /\ at[r] = "schedule"
    /\ reminders' = reminders + n
    /\ End(r)
    /\ UNCHANGED <<row, cache, issued, sent, marker, requested, reserved, jobs,
                   cooldown, outside, history>>

(* requestSeatReservation *)
ReserveRead(r) ==
    /\ at[r] = "reserve"
    /\ IF Actionable THEN Goto(r, "request", job[r]) ELSE End(r)
    /\ UNCHANGED <<row, cache, issued, sent, marker, topics, cooldown, outside,
                   history>>

RequestSeat(r) ==
    /\ at[r] = "request"
    /\ requested' = TRUE
    /\ End(r)
    /\ CountReminder(r)
    /\ UNCHANGED <<row, cache, issued, sent, marker, reserved, jobs, reminders,
                   cooldown, outside>>

-----------------------------------------------------------------------------
(* resendConfirmation: asked for by administrators (the bulk operation     *)
(* asks for one invitation after the other), by guests, or by a reminder.  *)
ResendAsk(r) ==
    /\ at[r] = "idle"
    /\ Goto(r, "resend", NoJob)
    /\ Called
    /\ UNCHANGED <<row, cache, issued, sent, marker, topics, cooldown, outside,
                   others>>

ResendRead(r, ended) ==
    /\ at[r] = "resend"
    /\ IF Actionable /\ ~ended /\ HasContact
       THEN Goto(r, "check", [job[r] EXCEPT
                !.seat = IF row.seated THEN "known" ELSE "none"])
       ELSE End(r)
    /\ UNCHANGED <<row, cache, issued, sent, marker, topics, cooldown, outside,
                   history>>

CheckCooldown(r) ==
    /\ at[r] = "check"
    /\ IF cooldown THEN End(r) ELSE Goto(r, "cool", job[r])
    /\ UNCHANGED <<row, cache, issued, sent, marker, topics, cooldown, outside,
                   history>>

SetCooldown(r) ==
    /\ at[r] = "cool"
    /\ cooldown' = TRUE
    /\ IF job[r].seat = "known"
       THEN Goto(r, "anchor", [job[r] EXCEPT !.resend = TRUE])
       ELSE Goto(r, "reserve", job[r])
    /\ UNCHANGED <<row, cache, issued, sent, marker, topics, outside, history>>

CooldownEnds ==
    /\ cooldown
    /\ cooldown' = FALSE
    /\ UNCHANGED <<row, cache, issued, sent, marker, topics, lock, at, job,
                   outside, overran, history>>

-----------------------------------------------------------------------------
(* Delayed jobs.                                                           *)
FireTicket(r, seat, again) ==
    /\ at[r] = "idle" /\ seat \in jobs
    /\ jobs' = IF again THEN jobs ELSE jobs \ {seat}
    /\ StartLocked(r, "ticket", seat)
    /\ Redelivery(again)
    /\ UNCHANGED <<row, cache, issued, sent, marker, requested, reserved,
                   reminders, cooldown, outside>>

TicketRead(r) ==
    /\ at[r] = "ticket"
    /\ IF row.exists /\ row.status = "APPROVED" /\ ~row.guest /\ HasContact
       THEN Goto(r, FirstStep(job[r].seat), job[r])
       ELSE End(r)
    /\ UNCHANGED <<row, cache, issued, sent, marker, topics, cooldown, outside,
                   history>>

FireReminder(r, again) ==
    /\ at[r] = "idle" /\ reminders > 0
    /\ reminders' = IF again THEN reminders ELSE reminders - 1
    /\ StartLocked(r, "remind", "none")
    /\ Redelivery(again)
    /\ UNCHANGED <<row, cache, issued, sent, marker, requested, reserved, jobs,
                   cooldown, outside>>

(* skip: reminders are disabled, the job is early, or the event has ended. *)
RemindRead(r, skip) ==
    /\ at[r] = "remind"
    /\ IF ~skip /\ Actionable /\ UnderCap /\ HasContact
       THEN Goto(r, "resend", job[r])
       ELSE End(r)
    /\ UNCHANGED <<row, cache, issued, sent, marker, topics, cooldown, outside,
                   history>>

-----------------------------------------------------------------------------
(* Messages.  seat.reservationFailed is logged, and starts nothing.        *)
HandleReserved(r, again) ==
    /\ at[r] = "idle" /\ reserved
    /\ reserved' = again
    /\ Goto(r, "first", [NoJob EXCEPT !.seat = "reserved"])
    /\ Redelivery(again)
    /\ UNCHANGED <<row, cache, issued, sent, marker, requested, jobs, reminders,
                   cooldown, outside>>

(* invitation.addGuestId, published after a guest has used a link.         *)
\* Fault: a link to an invitation that is gone counts as made.
LinkGuestSilently(r) ==
    /\ at[r] = "idle" /\ notified # {}
    /\ row' = IF row.exists THEN [row EXCEPT !.guest = TRUE] ELSE row
    /\ Goto(r, "mark", NoJob)
    /\ UNCHANGED <<cache, issued, sent, marker, topics, cooldown, outside,
                   history>>

LinkGuest(r) ==
    /\ at[r] = "idle" /\ notified # {}
    /\ row.exists
    /\ row' = [row EXCEPT !.guest = TRUE]
    /\ Goto(r, "mark", NoJob)
    /\ UNCHANGED <<cache, issued, sent, marker, topics, cooldown, outside,
                   history>>

WriteMarker(r) ==
    /\ at[r] = "mark"
    /\ marker' = TRUE
    /\ End(r)
    /\ UNCHANGED <<row, cache, issued, sent, topics, cooldown, outside, history>>

(* The repair script asks for a seat after reading the row.                *)
Reconcile(r) ==
    /\ at[r] = "idle" /\ Actionable /\ HasContact
    /\ Goto(r, "request", NoJob)
    /\ Called
    /\ UNCHANGED <<row, cache, issued, sent, marker, topics, cooldown, outside,
                   others>>

-----------------------------------------------------------------------------
(* The other services: an invitation keeps the seat it was given; a link   *)
(* is delivered with the contact, which then leaves the cache.             *)
SeatReserves ==
    /\ requested
    /\ requested' = FALSE
    /\ held' = TRUE /\ reserved' = TRUE
    /\ UNCHANGED <<row, cache, issued, sent, marker, jobs, reminders, cooldown,
                   lock, at, job, notified, overran, history>>

SeatUnavailable ==
    /\ requested /\ ~held
    /\ requested' = FALSE
    /\ noSeat' = TRUE
    /\ UNCHANGED <<row, cache, issued, sent, marker, reserved, jobs, reminders,
                   cooldown, lock, at, job, outside, calls, faults, overran,
                   rejected, expired, reminded>>

Notify(t) ==
    /\ sent[t] # "unsent" /\ t \in cache
    /\ cache' = cache \ {t}
    /\ notified' = notified \cup {t}
    /\ UNCHANGED <<row, issued, sent, marker, topics, cooldown, lock, at, job,
                   held, overran, history>>

-----------------------------------------------------------------------------
(* A call fails, and the run with it; or the process stops, and the lock   *)
(* is nobody's until it expires.                                           *)
Fail(r, stops) ==
    /\ at[r] # "idle"
    /\ Fault
    /\ IF stops
       THEN /\ Finish(r)
            /\ lock' = [k \in Key |-> IF lock[k] = r THEN Orphan ELSE lock[k]]
       ELSE End(r)
    /\ UNCHANGED <<row, cache, issued, sent, marker, topics, cooldown, outside,
                   calls, rejected, noSeat, expired, reminded>>

OrphanExpires(k) ==
    /\ lock[k] = Orphan
    /\ lock' = [lock EXCEPT ![k] = None]
    /\ UNCHANGED <<row, cache, issued, sent, marker, topics, cooldown, at, job,
                   outside, overran, history>>

(* A run that takes more than 60 seconds loses its lock and goes on.       *)
LockExpires(k) ==
    /\ lock[k] \in Run
    /\ overran' = overran \cup {lock[k]}
    /\ expired' = TRUE
    /\ lock' = [lock EXCEPT ![k] = None]
    /\ UNCHANGED <<row, cache, issued, sent, marker, topics, cooldown, at, job,
                   outside, calls, faults, rejected, noSeat, reminded>>

-----------------------------------------------------------------------------
(* What a run does once started, failures aside.                           *)
Continue(r) ==
    \/ \E b \in BOOLEAN :
          ApproveStore(r, b) \/ ResendRead(r, b) \/ RemindRead(r, b)
    \/ \E n \in 0..MaxPresets : ScheduleReminders(r, n)
    \/ RejectStore(r)   \/ FirstRead(r)        \/ ReAnchor(r)
    \/ CacheRefuses(r)  \/ PersistSend(r)      \/ EmitConfirmGuest(r)
    \/ ReserveRead(r)   \/ RequestSeat(r)      \/ CheckCooldown(r)
    \/ SetCooldown(r)   \/ TicketRead(r)       \/ WriteMarker(r)

Start(r) ==
    \/ \E seat \in {"none", "known"} : ApproveRead(r, seat)
    \/ \E seat \in Seat, again \in BOOLEAN : FireTicket(r, seat, again)
    \/ \E again \in BOOLEAN : FireReminder(r, again) \/ HandleReserved(r, again)
    \/ RejectDrop(r) \/ ResendAsk(r) \/ LinkGuest(r) \/ Reconcile(r)

Next ==
    \/ \E r \in Run : Start(r) \/ Continue(r)
    \/ \E r \in Run, stops \in BOOLEAN : Fail(r, stops)
    \/ \E t \in Token : Notify(t)
    \/ \E k \in Key : OrphanExpires(k) \/ LockExpires(k)
    \/ SeatReserves \/ SeatUnavailable \/ Delete \/ CooldownEnds

Spec == Init /\ [][Next]_vars

(* Handlers are resumed and locks expire; the seat service answers.  Jobs  *)
(* and answers are taken up although every slot may be busy at times (the  *)
(* slots are a bound of the model).                                        *)
Fairness ==
    /\ \A r \in Run : WF_vars(Continue(r))
    /\ \A k \in Key : WF_vars(OrphanExpires(k))
    /\ WF_vars(SeatReserves \/ SeatUnavailable)
    /\ SF_vars(\E r \in Run : HandleReserved(r, FALSE))
    /\ \A seat \in Seat : SF_vars(\E r \in Run : FireTicket(r, seat, FALSE))

FairSpec == Spec /\ Fairness

-----------------------------------------------------------------------------
(* A link is published only for a seat: one that was known beforehand, or  *)
(* one the seat service holds for the invitation.  This is the contract of *)
(* guest-seat-reservation.ts, across every path that sends a confirmation. *)
SeatBeforeLink ==
    \A t \in Token :
       /\ sent[t] # "none"
       /\ sent[t] = "reserved" => held

(* Without a rejection, every published token leads to a contact until its *)
(* link has been delivered, however many confirmations are sent at once:   *)
(* reanchorPendingContact never withdraws what an earlier send announced.  *)
LinksResolve ==
    ~rejected => \A t \in Token : sent[t] # "unsent" => t \in cache \cup notified

(* Two jobs of one kind are at work at once only if one of them has        *)
(* outlived its lock: a run that ends late leaves the lock of the next one *)
(* alone, and a stopped process blocks only until the lock expires.        *)
LockExclusive ==
    \A r, s \in Run \ overran :
       r # s /\ job[r].key # "none" => job[r].key # job[s].key

(* Where the stored contact names a seat, and unless a lock expired under  *)
(* a reminder, reminders send no more than the allowed number, whatever    *)
(* administrators and guests send meanwhile.                               *)
CountedRemindersAreCapped == row.seated /\ ~expired => reminded <= MaxResends

(* The marker the authentication service polls is written only for an      *)
(* invitation whose guest was linked, even if it is deleted meanwhile.     *)
MarkerProvesLink == marker => row.guest

(* An approved invitation gets its link, or is registered, unless it is    *)
(* deleted or rejected, no seat is free, or a call fails: no interleaving  *)
(* of approvals, jobs, resends and answers loses the confirmation.         *)
EventuallyConfirmed ==
    (row.exists /\ row.status = "APPROVED") ~>
       \/ \E t \in Token : sent[t] # "unsent"
       \/ row.guest \/ ~row.exists \/ rejected \/ noSeat \/ faults > 0

(* The chain implements GuestRegistration: in whatever order its handlers, *)
(* jobs, messages and retries interleave, a seat comes before a link, each *)
(* link has a token of its own and is delivered once, a guest comes        *)
(* through a delivered link, and the marker comes last.                    *)
Registration == INSTANCE GuestRegistration
                    WITH reserved   <- held,
                         link       <- sent,
                         delivered  <- notified,
                         listed     <- row.exists,
                         registered <- row.guest,
                         marked     <- marker

ImplementsRegistration == Registration!Spec
=============================================================================
