---------------------- MODULE GuestConfirmation_proofs ----------------------
(***************************************************************************)
(* Machine-checked proofs about GuestConfirmation, for any number of       *)
(* handlers, tokens, calls, reminders and faults.                          *)
(***************************************************************************)
EXTENDS GuestConfirmation, TLAPS

(* The type invariant, in two parts: the runs with their locks, the rest.  *)
ControlOK ==
    /\ lock \in [Key -> Run \cup {None, Orphan}]
    /\ at \in [Run -> Place]
    /\ job \in [Run -> Job]
    /\ overran \subseteq Run

DataOK ==
    /\ row \in Row
    /\ cache \subseteq Token
    /\ issued \in {NoToken} \cup Token
    /\ sent \in [Token -> Seat \cup {"unsent"}]
    /\ marker \in BOOLEAN /\ cooldown \in BOOLEAN
    /\ requested \in BOOLEAN /\ reserved \in BOOLEAN
    /\ jobs \subseteq Seat
    /\ reminders \in Nat
    /\ held \in BOOLEAN
    /\ notified \subseteq Token
    /\ calls \in Nat /\ faults \in Nat
    /\ rejected \in BOOLEAN /\ noSeat \in BOOLEAN /\ expired \in BOOLEAN
    /\ reminded \in Nat

(* A run holds the lock of its kind unless it has outlived it, and a lock  *)
(* is held for that kind only; a finished run is not late any more.        *)
LockInv ==
    /\ \A k \in Key : lock[k] \in Run =>
           job[lock[k]].key = k /\ lock[k] \notin overran
    /\ \A r \in Run : at[r] = "idle" => job[r].key = "none" /\ r \notin overran
    /\ \A r \in Run \ overran : job[r].key # "none" => lock[job[r].key] = r

(* Whatever names a reserved seat was started by the seat service, and a   *)
(* run that has begun to send has a seat.                                  *)
Sending == {"first", "anchor", "persist", "emit"}

SeatInv ==
    /\ SeatBeforeLink
    /\ reserved \/ "reserved" \in jobs => held
    /\ \A r \in Run : /\ job[r].seat = "reserved" => held
                      /\ at[r] \in Sending => job[r].seat # "none"

(* Unless there was a rejection, a token that was issued to a run leads to *)
(* a contact before it is published.                                       *)
TokenInv ==
    ~rejected =>
       /\ \A t \in Token : sent[t] # "unsent" => t \in cache \cup notified
       /\ \A r \in Run : at[r] \in {"persist", "emit"} =>
             job[r].token \in cache \cup notified

MarkInv ==
    /\ marker => row.guest
    /\ \A r \in Run : at[r] = "mark" => row.guest

(* While no lock has expired, one reminder at most is at work.  Where the  *)
(* stored contact names a seat it is counted before it is sent; so that a  *)
(* reminder past the cap's check leaves room for itself.                   *)
Reminding(place, j) ==
    /\ place \in {"remind", "resend", "check", "cool", "anchor", "persist",
                  "emit"}
    /\ place # "remind" => reminded < MaxResends
    /\ place \in {"check", "cool"} => j.seat = "known"
    /\ place \in {"anchor", "persist", "emit"} => j.resend
    /\ place = "emit" => reminded < row.resends

CapInv ==
    /\ ~expired => overran = {}
    /\ row.seated /\ ~expired =>
          /\ reminded <= row.resends
          /\ reminded <= MaxResends
          /\ \A r \in Run : job[r].key = "remind" => Reminding(at[r], job[r])

ConfirmationInv ==
    /\ ControlOK
    /\ DataOK
    /\ LockInv
    /\ SeatInv
    /\ TokenInv
    /\ MarkInv
    /\ CapInv

-----------------------------------------------------------------------------
(* Types.                                                                  *)
LEMMA TypeParts == TypeOK <=> ControlOK /\ DataOK
    BY DEF TypeOK, ControlOK, DataOK

LEMMA NoJobType == NoJob \in Job
    BY DEF NoJob, Job, Seat, NoToken, Key

LEMMA GotoType ==
    ASSUME ControlOK, NEW r \in Run, NEW place \in Place, NEW j \in Job,
           Goto(r, place, j)
    PROVE  ControlOK'
    BY DEF ControlOK, Goto

LEMMA FinishType ==
    ASSUME ControlOK, NEW r \in Run, Finish(r)
    PROVE  /\ at' \in [Run -> Place]
           /\ job' \in [Run -> Job]
           /\ overran' \subseteq Run
    BY NoJobType DEF ControlOK, Finish, Place

LEMMA EndType ==
    ASSUME ControlOK, NEW r \in Run, End(r)
    PROVE  ControlOK'
    BY FinishType DEF ControlOK, End, Released

LEMMA JobType ==
    ASSUME NEW j \in Job
    PROVE  /\ j.seat \in Seat /\ j.key \in Key \cup {"none"}
           /\ j.token \in {NoToken} \cup Token /\ j.resend \in BOOLEAN
           /\ \A seat \in Seat : [j EXCEPT !.seat = seat] \in Job
           /\ \A token \in Token : [j EXCEPT !.token = token] \in Job
           /\ [j EXCEPT !.resend = TRUE] \in Job
           /\ \A k \in Key, seat \in Seat :
                  [j EXCEPT !.key = k, !.seat = seat] \in Job
    BY DEF Job

LEMMA StartType ==
    ASSUME ControlOK, NEW r \in Run, NEW k \in Key, NEW seat \in Seat,
           StartLocked(r, k, seat)
    PROVE  ControlOK'
<1>1. k \in Place
    BY DEF Key, Place
<1>2. [NoJob EXCEPT !.key = k, !.seat = seat] \in Job
    BY NoJobType, JobType
<1> QED
    BY <1>1, <1>2 DEF ControlOK, StartLocked

LEMMA RowType ==
    ASSUME DataOK
    PROVE  /\ row.anchor \in {NoToken} \cup Token /\ row.resends \in Nat
           /\ row.exists \in BOOLEAN /\ row.guest \in BOOLEAN
           /\ row.seated \in BOOLEAN
           /\ [row EXCEPT !.status = "APPROVED"] \in Row
           /\ [row EXCEPT !.status = "REJECTED", !.anchor = NoToken] \in Row
           /\ [row EXCEPT !.exists = FALSE] \in Row
           /\ [row EXCEPT !.guest = TRUE] \in Row
           /\ \A t \in {NoToken} \cup Token, n \in Nat :
                 [row EXCEPT !.anchor = t, !.resends = n] \in Row
    BY DEF DataOK, Row

LEMMA IssueType ==
    ASSUME DataOK, issued < MaxTokens
    PROVE  issued + 1 \in Token
    BY ConfirmationAssumption DEF DataOK, Token, NoToken

LEMMA ControlStep == ControlOK /\ DataOK /\ [Next]_vars => ControlOK'
<1> SUFFICES ASSUME ControlOK, DataOK, [Next]_vars
             PROVE  ControlOK'
    OBVIOUS
<1>0. ASSUME NEW r \in Run
      PROVE  job[r] \in Job
    BY DEF ControlOK
<1>1. ASSUME NEW r \in Run,
             \/ \E seat \in {"none", "known"} : ApproveRead(r, seat)
             \/ \E b \in BOOLEAN : ApproveStore(r, b)
             \/ RejectDrop(r)
             \/ RejectStore(r)
      PROVE  ControlOK'
    BY <1>0, <1>1, NoJobType, JobType, GotoType, EndType
    DEF ApproveRead, ApproveStore, FirstStep, RejectDrop, RejectStore, Place,
        Seat
<1>2. ASSUME NEW r \in Run,
             \/ FirstRead(r)
             \/ ReAnchor(r)
             \/ CacheRefuses(r)
             \/ PersistSend(r)
             \/ EmitConfirmGuest(r)
             \/ \E n \in 0..MaxPresets : ScheduleReminders(r, n)
      PROVE  ControlOK'
    BY <1>0, <1>2, JobType, IssueType, GotoType, EndType
    DEF FirstRead, ReAnchor, CacheRefuses, PersistSend, EmitConfirmGuest,
        ScheduleReminders, Place
<1>3. ASSUME NEW r \in Run,
             \/ ReserveRead(r)
             \/ RequestSeat(r)
             \/ ResendAsk(r)
             \/ \E b \in BOOLEAN : ResendRead(r, b)
             \/ CheckCooldown(r)
             \/ SetCooldown(r)
      PROVE  ControlOK'
    BY <1>0, <1>3, NoJobType, JobType, GotoType, EndType
    DEF ReserveRead, RequestSeat, ResendAsk, ResendRead, CheckCooldown,
        SetCooldown, Place, Seat
<1>4. ASSUME NEW r \in Run,
             \/ \E seat \in Seat, again \in BOOLEAN : FireTicket(r, seat, again)
             \/ TicketRead(r)
             \/ \E again \in BOOLEAN : FireReminder(r, again)
             \/ \E b \in BOOLEAN : RemindRead(r, b)
      PROVE  ControlOK'
    BY <1>0, <1>4, GotoType, EndType, StartType
    DEF FireTicket, TicketRead, FirstStep, FireReminder, RemindRead, Place,
        Seat, Key
<1>5. ASSUME NEW r \in Run,
             \/ \E again \in BOOLEAN : HandleReserved(r, again)
             \/ LinkGuest(r)
             \/ WriteMarker(r)
             \/ Reconcile(r)
      PROVE  ControlOK'
    BY <1>5, NoJobType, JobType, GotoType, EndType
    DEF HandleReserved, LinkGuest, WriteMarker, Reconcile, Place, Seat
<1>6. ASSUME NEW r \in Run, NEW stops \in BOOLEAN, Fail(r, stops)
      PROVE  ControlOK'
    BY <1>6, FinishType, EndType DEF Fail, ControlOK
<1>7. CASE \/ SeatReserves \/ SeatUnavailable \/ Delete \/ CooldownEnds
           \/ \E t \in Token : Notify(t)
    BY <1>7
    DEF SeatReserves, SeatUnavailable, Delete, CooldownEnds, Notify, ControlOK
<1>8. CASE \E k \in Key : OrphanExpires(k) \/ LockExpires(k)
    BY <1>8 DEF OrphanExpires, LockExpires, ControlOK
<1>9. CASE UNCHANGED vars
    BY <1>9 DEF vars, ControlOK
<1> QED
    BY <1>1, <1>2, <1>3, <1>4, <1>5, <1>6, <1>7, <1>8, <1>9
    DEF Next, Start, Continue

LEMMA DataStep == ControlOK /\ DataOK /\ [Next]_vars => DataOK'
<1> SUFFICES ASSUME ControlOK, DataOK, [Next]_vars
             PROVE  DataOK'
    OBVIOUS
<1>0. ASSUME NEW r \in Run
      PROVE  job[r].seat \in Seat /\ job[r].token \in {NoToken} \cup Token
    BY JobType DEF ControlOK
<1>1. ASSUME NEW r \in Run,
             \/ \E seat \in {"none", "known"} : ApproveRead(r, seat)
             \/ \E b \in BOOLEAN : ApproveStore(r, b)
             \/ RejectDrop(r)
             \/ RejectStore(r)
      PROVE  DataOK'
  <2>1. CASE \E seat \in {"none", "known"} : ApproveRead(r, seat)
    BY <2>1 DEF ApproveRead, Called, DataOK, topics, outside, others, history
  <2>2. CASE \E b \in BOOLEAN : ApproveStore(r, b)
    BY <1>0, RowType, <2>2
    DEF ApproveStore, DataOK, topics, outside, others, history
  <2>3. CASE RejectDrop(r)
    BY <2>3 DEF RejectDrop, Called, DataOK, topics, outside, others, history
  <2>4. CASE RejectStore(r)
    BY <1>0, RowType, <2>4
    DEF RejectStore, DataOK, topics, outside, others, history
  <2> QED
    BY <1>1, <2>1, <2>2, <2>3, <2>4
<1>2. ASSUME NEW r \in Run,
             \/ FirstRead(r)
             \/ CacheRefuses(r)
             \/ PersistSend(r)
             \/ EmitConfirmGuest(r)
             \/ \E n \in 0..MaxPresets : ScheduleReminders(r, n)
      PROVE  DataOK'
  <2>1. CASE FirstRead(r)
    BY <1>0, RowType, ConfirmationAssumption, <2>1
    DEF FirstRead, DataOK, topics, outside, others, history
  <2>2. CASE CacheRefuses(r)
    BY <1>0, RowType, ConfirmationAssumption, <2>2
    DEF CacheRefuses, DataOK, topics, outside, others, history
  <2>3. CASE PersistSend(r)
    <3>1. job[r].token \in {NoToken} \cup Token
      BY <1>0
    <3>2. row' \in Row
      <4>1. CASE row.exists
        <5> DEFINE n == IF job[r].resend THEN row.resends + 1 ELSE row.resends
        <5>1. row' = [row EXCEPT !.anchor = job[r].token, !.resends = n]
          BY <2>3, <4>1 DEF PersistSend
        <5>2. row.resends \in Nat
          BY RowType
        <5>3. n \in Nat
          BY <5>2
        <5> HIDE DEF n
        <5> QED
          BY <3>1, <5>1, <5>3, RowType
      <4>2. CASE ~row.exists
        BY <2>3, <4>2 DEF PersistSend, DataOK
      <4> QED
        BY <4>1, <4>2
    <3> QED
      BY <2>3, <3>2 DEF PersistSend, DataOK, topics, outside, others, history
  <2>4. CASE EmitConfirmGuest(r)
    <3>1. sent' \in [Token -> Seat \cup {"unsent"}]
      BY <1>0, <2>4 DEF EmitConfirmGuest, DataOK
    <3>2. reminded' \in Nat
      BY <2>4 DEF EmitConfirmGuest, CountReminder, DataOK
    <3> QED
      BY <2>4, <3>1, <3>2
      DEF EmitConfirmGuest, CountReminder, DataOK, topics, outside
  <2>5. CASE \E n \in 0..MaxPresets : ScheduleReminders(r, n)
    BY ConfirmationAssumption, <2>5
    DEF ScheduleReminders, DataOK, topics, outside, others, history
  <2> QED
    BY <1>2, <2>1, <2>2, <2>3, <2>4, <2>5
<1>3. ASSUME NEW r \in Run,
             \/ ReserveRead(r)
             \/ RequestSeat(r)
             \/ ResendAsk(r)
             \/ \E b \in BOOLEAN : ResendRead(r, b)
             \/ CheckCooldown(r)
             \/ SetCooldown(r)
      PROVE  DataOK'
  <2>1. CASE ReserveRead(r)
    BY <2>1 DEF ReserveRead, DataOK, topics, outside, others, history
  <2>2. CASE RequestSeat(r)
    BY <2>2
    DEF RequestSeat, CountReminder, DataOK, topics, outside, others, history
  <2>3. CASE ResendAsk(r)
    BY <2>3 DEF ResendAsk, Called, DataOK, topics, outside, others, history
  <2>4. CASE \E b \in BOOLEAN : ResendRead(r, b)
    BY <2>4 DEF ResendRead, DataOK, topics, outside, others, history
  <2>5. CASE CheckCooldown(r)
    BY <2>5 DEF CheckCooldown, DataOK, topics, outside, others, history
  <2>6. CASE SetCooldown(r)
    BY <2>6 DEF SetCooldown, DataOK, topics, outside, others, history
  <2> QED
    BY <1>3, <2>1, <2>2, <2>3, <2>4, <2>5, <2>6
<1>4. ASSUME NEW r \in Run,
             \/ \E seat \in Seat, again \in BOOLEAN : FireTicket(r, seat, again)
             \/ TicketRead(r)
             \/ \E again \in BOOLEAN : FireReminder(r, again)
             \/ \E b \in BOOLEAN : RemindRead(r, b)
      PROVE  DataOK'
    BY <1>4
    DEF FireTicket, TicketRead, FireReminder, RemindRead, Redelivery, Fault,
        DataOK, topics, outside, others, history
<1>5. ASSUME NEW r \in Run,
             \/ \E again \in BOOLEAN : HandleReserved(r, again)
             \/ LinkGuest(r)
             \/ WriteMarker(r)
             \/ Reconcile(r)
             \/ \E stops \in BOOLEAN : Fail(r, stops)
      PROVE  DataOK'
  <2>1. CASE \E again \in BOOLEAN : HandleReserved(r, again)
    BY <2>1
    DEF HandleReserved, Redelivery, Fault, DataOK, topics, outside, others,
        history
  <2>2. CASE LinkGuest(r)
    BY RowType, <2>2 DEF LinkGuest, DataOK, topics, outside, others, history
  <2>3. CASE WriteMarker(r)
    BY RowType, <2>3 DEF WriteMarker, DataOK, topics, outside, others, history
  <2>4. CASE Reconcile(r)
    BY <2>4 DEF Reconcile, Called, DataOK, topics, outside, others, history
  <2>5. CASE \E stops \in BOOLEAN : Fail(r, stops)
    BY <2>5 DEF Fail, Fault, DataOK, topics, outside, others, history
  <2> QED
    BY <1>5, <2>1, <2>2, <2>3, <2>4, <2>5
<1>6. CASE \/ SeatReserves \/ SeatUnavailable \/ Delete \/ CooldownEnds
           \/ \E t \in Token : Notify(t)
           \/ \E k \in Key : OrphanExpires(k) \/ LockExpires(k)
  <2>1. CASE SeatReserves \/ SeatUnavailable
    BY RowType, <2>1
    DEF SeatReserves, SeatUnavailable, DataOK, topics, outside, others, history
  <2>2. CASE Delete
    BY RowType, <2>2 DEF Delete, DataOK, topics, outside, others, history
  <2>3. CASE CooldownEnds
    BY RowType, <2>3 DEF CooldownEnds, DataOK, topics, outside, others, history
  <2>4. CASE \E t \in Token : Notify(t)
    BY RowType, <2>4 DEF Notify, DataOK, topics, outside, others, history
  <2>5. CASE \E k \in Key : OrphanExpires(k) \/ LockExpires(k)
    BY RowType, <2>5
    DEF OrphanExpires, LockExpires, DataOK, topics, outside, others, history
  <2> QED
    BY <1>6, <2>1, <2>2, <2>3, <2>4, <2>5
<1>7. ASSUME NEW r \in Run, ReAnchor(r)
      PROVE  DataOK'
    BY <1>7, IssueType DEF ReAnchor, DataOK, topics, outside, others, history
<1>8. CASE UNCHANGED vars
    BY <1>8 DEF vars, DataOK
<1> QED
    BY <1>1, <1>2, <1>3, <1>4, <1>5, <1>6, <1>7, <1>8 DEF Next, Start, Continue

-----------------------------------------------------------------------------
(* Locks, seats, tokens, the marker and the cap.                           *)
LEMMA Exclusive == LockInv => LockExclusive
    BY DEF LockInv, LockExclusive

LEMMA LockStart ==
    ASSUME ControlOK, LockInv, NEW r \in Run, at[r] = "idle",
           NEW k \in Key, NEW seat \in Seat, StartLocked(r, k, seat)
    PROVE  LockInv'
<1>1. CASE lock[k] = None
  <2>1. /\ job' = [job EXCEPT ![r] = [NoJob EXCEPT !.key = k, !.seat = seat]]
        /\ at' = [at EXCEPT ![r] = k]
        /\ lock' = [lock EXCEPT ![k] = r]
        /\ overran' = overran
    BY <1>1 DEF StartLocked
  <2>2. /\ job'[r].key = k /\ at'[r] # "idle"
        /\ \A s \in Run \ {r} : job'[s] = job[s] /\ at'[s] = at[s]
    BY <2>1 DEF ControlOK, NoJob, Key
  <2>3. /\ lock'[k] = r
        /\ \A x \in Key \ {k} : lock'[x] = lock[x] /\ lock[x] # r
    BY <2>1 DEF ControlOK, LockInv, Key
  <2>4. r \notin overran /\ \A x \in Key : x # "none"
    BY DEF LockInv, Key
  <2>5. \A s \in Run \ overran : s # r /\ job[s].key # "none" => job[s].key # k
    BY <1>1, ConfirmationAssumption DEF LockInv, ControlOK
  <2>6. \A s \in Run : job[s].key \in Key \cup {"none"}
    BY JobType DEF ControlOK
  <2> QED
    BY <2>1, <2>2, <2>3, <2>4, <2>5, <2>6 DEF LockInv
<1>2. CASE lock[k] # None
    BY <1>2 DEF StartLocked, LockInv
<1> QED
    BY <1>1, <1>2

(* A run keeps what SeatInv says of it when its job gets a harmless seat.  *)
LEMMA SeatGoto ==
    ASSUME ControlOK, SeatInv, NEW r \in Run, NEW place, NEW j,
           Goto(r, place, j), j.seat = "reserved" => held,
           place \in Sending => j.seat # "none",
           UNCHANGED <<sent, reserved, jobs, held>>
    PROVE  SeatInv'
    BY DEF ControlOK, SeatInv, SeatBeforeLink, Goto

LEMMA SeatStart ==
    ASSUME ControlOK, SeatInv, NEW r \in Run, NEW k \in Key, NEW seat \in Seat,
           StartLocked(r, k, seat), seat = "reserved" => held,
           jobs' \subseteq jobs, UNCHANGED <<sent, reserved, held>>
    PROVE  SeatInv'
<1>1. CASE lock[k] = None
  <2>1. \A s \in Run \ {r} : job'[s] = job[s] /\ at'[s] = at[s]
    BY <1>1 DEF StartLocked, ControlOK
  <2>2. job'[r].seat = seat /\ at'[r] \notin Sending
    BY <1>1 DEF StartLocked, ControlOK, NoJob, Key, Sending
  <2> QED
    BY <2>1, <2>2 DEF SeatInv, SeatBeforeLink
<1>2. CASE lock[k] # None
    BY <1>2 DEF StartLocked, SeatInv, SeatBeforeLink
<1> QED
    BY <1>1, <1>2

LEMMA LockStep == ControlOK /\ LockInv /\ [Next]_vars => LockInv'
<1> SUFFICES ASSUME ControlOK, LockInv, [Next]_vars
             PROVE  LockInv'
    OBVIOUS
<1>1. ASSUME NEW r \in Run,
             \/ \E seat \in {"none", "known"} : ApproveRead(r, seat)
             \/ \E b \in BOOLEAN : ApproveStore(r, b)
             \/ RejectDrop(r)
             \/ RejectStore(r)
      PROVE  LockInv'
    BY <1>1, ConfirmationAssumption
    DEF ApproveRead, ApproveStore, FirstStep, RejectDrop,
        RejectStore, LockInv, ControlOK, Job, Key, Place, Goto,
        Finish, End, Released, NoJob
<1>2. ASSUME NEW r \in Run,
             \/ FirstRead(r)
             \/ ReAnchor(r)
             \/ CacheRefuses(r)
             \/ PersistSend(r)
             \/ EmitConfirmGuest(r)
             \/ \E n \in 0..MaxPresets : ScheduleReminders(r, n)
      PROVE  LockInv'
    BY <1>2, ConfirmationAssumption
    DEF FirstRead, ReAnchor, CacheRefuses, PersistSend,
        EmitConfirmGuest, CountReminder, ScheduleReminders, LockInv,
        ControlOK, Job, Key, Place, Goto, Finish, End, Released,
        NoJob
<1>3. ASSUME NEW r \in Run,
             \/ ReserveRead(r)
             \/ RequestSeat(r)
             \/ ResendAsk(r)
             \/ \E b \in BOOLEAN : ResendRead(r, b)
             \/ CheckCooldown(r)
             \/ SetCooldown(r)
      PROVE  LockInv'
    BY <1>3, ConfirmationAssumption
    DEF ReserveRead, RequestSeat, CountReminder, ResendAsk,
        ResendRead, CheckCooldown, SetCooldown, LockInv, ControlOK,
        Job, Key, Place, Goto, Finish, End, Released, NoJob
<1>4. ASSUME NEW r \in Run,
             \/ \E seat \in Seat, again \in BOOLEAN : FireTicket(r, seat, again)
             \/ \E again \in BOOLEAN : FireReminder(r, again)
      PROVE  LockInv'
  <2>1. CASE \E seat \in Seat, again \in BOOLEAN : FireTicket(r, seat, again)
      BY <2>1, LockStart DEF FireTicket, Key
  <2>2. CASE \E again \in BOOLEAN : FireReminder(r, again)
      BY <2>2, LockStart DEF FireReminder, Key, Seat
  <2> QED
    BY <1>4, <2>1, <2>2
<1>5. ASSUME NEW r \in Run,
             \/ TicketRead(r)
             \/ \E b \in BOOLEAN : RemindRead(r, b)
      PROVE  LockInv'
    BY <1>5, ConfirmationAssumption
    DEF TicketRead, FirstStep, RemindRead, LockInv, ControlOK, Job,
        Key, Place, Goto, Finish, End, Released, NoJob
<1>6. ASSUME NEW r \in Run,
             \/ \E again \in BOOLEAN : HandleReserved(r, again)
             \/ LinkGuest(r)
             \/ WriteMarker(r)
             \/ Reconcile(r)
      PROVE  LockInv'
    BY <1>6, ConfirmationAssumption
    DEF HandleReserved, Redelivery, LinkGuest, WriteMarker,
        Reconcile, LockInv, ControlOK, Job, Key, Place, Goto,
        Finish, End, Released, NoJob
<1>7. ASSUME NEW r \in Run, \E stops \in BOOLEAN : Fail(r, stops)
      PROVE  LockInv'
    BY <1>7, ConfirmationAssumption
    DEF Fail, LockInv, ControlOK, Job, Key, Place, Goto, Finish,
        End, Released, NoJob
<1>8. CASE \/ SeatReserves \/ SeatUnavailable \/ Delete \/ CooldownEnds
           \/ \E t \in Token : Notify(t)
           \/ \E k \in Key : OrphanExpires(k) \/ LockExpires(k)
    BY <1>8, ConfirmationAssumption
    DEF SeatReserves, SeatUnavailable, Delete, CooldownEnds, Notify,
        OrphanExpires, LockExpires, LockInv, ControlOK, Job, Key,
        Place, Goto, Finish, End, Released, NoJob
<1>9. CASE UNCHANGED vars
    BY <1>9 DEF vars, LockInv, ControlOK, Job, Key, Place
<1> QED
    BY <1>1, <1>2, <1>3, <1>4, <1>5, <1>6, <1>7, <1>8, <1>9
    DEF Next, Start, Continue

LEMMA SeatStep == ControlOK /\ DataOK /\ SeatInv /\ [Next]_vars => SeatInv'
<1> SUFFICES ASSUME ControlOK, DataOK, SeatInv, [Next]_vars
             PROVE  SeatInv'
    OBVIOUS
<1>1. ASSUME NEW r \in Run,
             \/ \E seat \in {"none", "known"} : ApproveRead(r, seat)
             \/ \E b \in BOOLEAN : ApproveStore(r, b)
             \/ RejectDrop(r)
             \/ RejectStore(r)
      PROVE  SeatInv'
    BY <1>1
    DEF ApproveRead, ApproveStore, FirstStep, RejectDrop,
        RejectStore, SeatInv, SeatBeforeLink, Sending, ControlOK,
        DataOK, Seat, topics, outside, history, others, Goto,
        Finish, End, Released, NoJob
<1>2. ASSUME NEW r \in Run,
             \/ FirstRead(r)
             \/ ReAnchor(r)
             \/ CacheRefuses(r)
             \/ PersistSend(r)
             \/ EmitConfirmGuest(r)
             \/ \E n \in 0..MaxPresets : ScheduleReminders(r, n)
      PROVE  SeatInv'
  <2>1. CASE FirstRead(r)
      BY <2>1
      DEF FirstRead, SeatInv, SeatBeforeLink, Sending, ControlOK,
          DataOK, Seat, topics, outside, history, others, Goto,
          Finish, End, Released, NoJob
  <2>2. CASE ReAnchor(r)
      BY <2>2
      DEF ReAnchor, SeatInv, SeatBeforeLink, Sending, ControlOK,
          DataOK, Seat, topics, outside, history, others, Goto,
          Finish, End, Released, NoJob
  <2>3. CASE CacheRefuses(r)
      BY <2>3
      DEF CacheRefuses, SeatInv, SeatBeforeLink, Sending, ControlOK,
          DataOK, Seat, topics, outside, history, others, Goto,
          Finish, End, Released, NoJob
  <2>4. CASE PersistSend(r)
      BY <2>4
      DEF PersistSend, SeatInv, SeatBeforeLink, Sending, ControlOK,
          DataOK, Seat, topics, outside, history, others, Goto,
          Finish, End, Released, NoJob
  <2>5. CASE EmitConfirmGuest(r)
      BY <2>5
      DEF EmitConfirmGuest, CountReminder, SeatInv, SeatBeforeLink,
          Sending, ControlOK, DataOK, Seat, topics, outside, history,
          others, Goto, Finish, End, Released, NoJob
  <2>6. CASE \E n \in 0..MaxPresets : ScheduleReminders(r, n)
      BY <2>6
      DEF ScheduleReminders, SeatInv, SeatBeforeLink, Sending,
          ControlOK, DataOK, Seat, topics, outside, history, others,
          Goto, Finish, End, Released, NoJob
  <2> QED
    BY <1>2, <2>1, <2>2, <2>3, <2>4, <2>5, <2>6
<1>3. ASSUME NEW r \in Run,
             \/ ReserveRead(r)
             \/ RequestSeat(r)
             \/ ResendAsk(r)
             \/ \E b \in BOOLEAN : ResendRead(r, b)
             \/ CheckCooldown(r)
             \/ SetCooldown(r)
      PROVE  SeatInv'
  <2>1. CASE ReserveRead(r)
      BY <2>1
      DEF ReserveRead, SeatInv, SeatBeforeLink, Sending, ControlOK,
          DataOK, Seat, topics, outside, history, others, Goto,
          Finish, End, Released, NoJob
  <2>2. CASE RequestSeat(r)
      BY <2>2
      DEF RequestSeat, CountReminder, SeatInv, SeatBeforeLink,
          Sending, ControlOK, DataOK, Seat, topics, outside, history,
          others, Goto, Finish, End, Released, NoJob
  <2>3. CASE ResendAsk(r)
      BY <2>3
      DEF ResendAsk, SeatInv, SeatBeforeLink, Sending, ControlOK,
          DataOK, Seat, topics, outside, history, others, Goto,
          Finish, End, Released, NoJob
  <2>4. CASE \E b \in BOOLEAN : ResendRead(r, b)
    <3>1. PICK b \in BOOLEAN : ResendRead(r, b)
      BY <2>4
    <3>2. UNCHANGED <<sent, reserved, jobs, held>>
      BY <3>1 DEF ResendRead, topics, outside
    <3>3. CASE Actionable /\ ~b /\ HasContact
      <4> DEFINE j == [job[r] EXCEPT !.seat =
                          IF row.seated THEN "known" ELSE "none"]
      <4>1. Goto(r, "check", j)
        BY <3>1, <3>3 DEF ResendRead
      <4>2. j.seat # "reserved"
        BY JobType DEF ControlOK, Job
      <4> HIDE DEF j
      <4> QED
        BY <3>2, <4>1, <4>2, SeatGoto DEF Sending
    <3>4. CASE ~(Actionable /\ ~b /\ HasContact)
      BY <3>1, <3>2, <3>4
      DEF ResendRead, ControlOK, SeatInv, SeatBeforeLink, Sending, End,
          Finish, NoJob
    <3> QED
      BY <3>3, <3>4
  <2>5. CASE CheckCooldown(r)
      BY <2>5
      DEF CheckCooldown, SeatInv, SeatBeforeLink, Sending, ControlOK,
          DataOK, Seat, topics, outside, history, others, Goto,
          Finish, End, Released, NoJob
  <2>6. CASE SetCooldown(r)
    <3>1. UNCHANGED <<sent, reserved, jobs, held>>
      BY <2>6 DEF SetCooldown, topics, outside
    <3>2. CASE job[r].seat = "known"
      <4> DEFINE j == [job[r] EXCEPT !.resend = TRUE]
      <4>1. Goto(r, "anchor", j)
        BY <2>6, <3>2 DEF SetCooldown
      <4>2. j.seat = "known"
        BY <3>2 DEF ControlOK, Job
      <4> HIDE DEF j
      <4> QED
        BY <3>1, <4>1, <4>2, SeatGoto DEF Sending
    <3>3. CASE job[r].seat # "known"
      <4>1. Goto(r, "reserve", job[r])
        BY <2>6, <3>3 DEF SetCooldown
      <4> QED
        BY <3>1, <4>1, SeatGoto DEF Sending, SeatInv
    <3> QED
      BY <3>2, <3>3
  <2> QED
    BY <1>3, <2>1, <2>2, <2>3, <2>4, <2>5, <2>6
<1>4. ASSUME NEW r \in Run,
             \/ \E seat \in Seat, again \in BOOLEAN : FireTicket(r, seat, again)
             \/ \E again \in BOOLEAN : FireReminder(r, again)
      PROVE  SeatInv'
  <2>1. CASE \E seat \in Seat, again \in BOOLEAN : FireTicket(r, seat, again)
      BY <2>1, SeatStart DEF FireTicket, Key, SeatInv, outside
  <2>2. CASE \E again \in BOOLEAN : FireReminder(r, again)
      BY <2>2, SeatStart DEF FireReminder, Key, Seat, outside
  <2> QED
    BY <1>4, <2>1, <2>2
<1>5. ASSUME NEW r \in Run,
             \/ TicketRead(r)
             \/ \E b \in BOOLEAN : RemindRead(r, b)
      PROVE  SeatInv'
    BY <1>5
    DEF TicketRead, FirstStep, RemindRead, SeatInv, SeatBeforeLink,
        Sending, ControlOK, DataOK, Seat, topics, outside, history,
        others, Goto, Finish, End, Released, NoJob
<1>6. ASSUME NEW r \in Run,
             \/ \E again \in BOOLEAN : HandleReserved(r, again)
             \/ LinkGuest(r)
             \/ WriteMarker(r)
             \/ Reconcile(r)
      PROVE  SeatInv'
    BY <1>6
    DEF HandleReserved, Redelivery, LinkGuest, WriteMarker,
        Reconcile, SeatInv, SeatBeforeLink, Sending, ControlOK,
        DataOK, Seat, topics, outside, history, others, Goto,
        Finish, End, Released, NoJob
<1>7. ASSUME NEW r \in Run, \E stops \in BOOLEAN : Fail(r, stops)
      PROVE  SeatInv'
    BY <1>7
    DEF Fail, SeatInv, SeatBeforeLink, Sending, ControlOK, DataOK,
        Seat, topics, outside, history, others, Goto, Finish, End,
        Released, NoJob
<1>8. CASE \/ SeatReserves \/ SeatUnavailable \/ Delete \/ CooldownEnds
           \/ \E t \in Token : Notify(t)
           \/ \E k \in Key : OrphanExpires(k) \/ LockExpires(k)
    BY <1>8
    DEF SeatReserves, SeatUnavailable, Delete, CooldownEnds, Notify,
        OrphanExpires, LockExpires, SeatInv, SeatBeforeLink,
        Sending, ControlOK, DataOK, Seat, topics, outside, history,
        others, Goto, Finish, End, Released, NoJob
<1>9. CASE UNCHANGED vars
    BY <1>9
    DEF vars, SeatInv, SeatBeforeLink, Sending, ControlOK, DataOK, Seat,
        topics, outside, history, others
<1> QED
    BY <1>1, <1>2, <1>3, <1>4, <1>5, <1>6, <1>7, <1>8, <1>9
    DEF Next, Start, Continue

LEMMA TokenStep == ControlOK /\ DataOK /\ TokenInv /\ [Next]_vars => TokenInv'
<1> SUFFICES ASSUME ControlOK, DataOK, TokenInv, [Next]_vars
             PROVE  TokenInv'
    OBVIOUS
<1>1. ASSUME NEW r \in Run,
             \/ \E seat \in {"none", "known"} : ApproveRead(r, seat)
             \/ \E b \in BOOLEAN : ApproveStore(r, b)
             \/ RejectDrop(r)
             \/ RejectStore(r)
      PROVE  TokenInv'
    BY <1>1
    DEF ApproveRead, ApproveStore, FirstStep, RejectDrop,
        RejectStore, TokenInv, ControlOK, DataOK, Seat, outside,
        history, others, Goto, Finish, End, Released, NoJob
<1>2. ASSUME NEW r \in Run,
             \/ FirstRead(r)
             \/ ReAnchor(r)
             \/ CacheRefuses(r)
             \/ PersistSend(r)
             \/ EmitConfirmGuest(r)
             \/ \E n \in 0..MaxPresets : ScheduleReminders(r, n)
      PROVE  TokenInv'
  <2>1. CASE FirstRead(r)
      BY <2>1
      DEF FirstRead, TokenInv, ControlOK, DataOK, Seat, outside,
          history, others, Goto, Finish, End, Released, NoJob
  <2>2. CASE ReAnchor(r)
      BY <2>2
      DEF ReAnchor, TokenInv, ControlOK, DataOK, Seat, outside,
          history, others, Goto, Finish, End, Released, NoJob
  <2>3. CASE CacheRefuses(r)
      BY <2>3
      DEF CacheRefuses, TokenInv, ControlOK, DataOK, Seat, outside,
          history, others, Goto, Finish, End, Released, NoJob
  <2>4. CASE PersistSend(r)
      BY <2>4
      DEF PersistSend, TokenInv, ControlOK, DataOK, Seat, outside,
          history, others, Goto, Finish, End, Released, NoJob
  <2>5. CASE EmitConfirmGuest(r)
      BY <2>5
      DEF EmitConfirmGuest, CountReminder, TokenInv, ControlOK,
          DataOK, Seat, outside, history, others, Goto, Finish, End,
          Released, NoJob
  <2>6. CASE \E n \in 0..MaxPresets : ScheduleReminders(r, n)
      BY <2>6
      DEF ScheduleReminders, TokenInv, ControlOK, DataOK, Seat,
          outside, history, others, Goto, Finish, End, Released, NoJob
  <2> QED
    BY <1>2, <2>1, <2>2, <2>3, <2>4, <2>5, <2>6
<1>3. ASSUME NEW r \in Run,
             \/ ReserveRead(r)
             \/ RequestSeat(r)
             \/ ResendAsk(r)
             \/ \E b \in BOOLEAN : ResendRead(r, b)
             \/ CheckCooldown(r)
             \/ SetCooldown(r)
      PROVE  TokenInv'
    BY <1>3
    DEF ReserveRead, RequestSeat, CountReminder, ResendAsk,
        ResendRead, CheckCooldown, SetCooldown, TokenInv, ControlOK,
        DataOK, Seat, outside, history, others, Goto, Finish, End,
        Released, NoJob
<1>4. ASSUME NEW r \in Run,
             \/ \E seat \in Seat, again \in BOOLEAN : FireTicket(r, seat, again)
             \/ \E again \in BOOLEAN : FireReminder(r, again)
      PROVE  TokenInv'
    BY <1>4
    DEF FireTicket, FireReminder, StartLocked, Redelivery, TokenInv,
        ControlOK, DataOK, Seat, outside, history, others, Goto,
        Finish, End, Released, NoJob
<1>5. ASSUME NEW r \in Run,
             \/ TicketRead(r)
             \/ \E b \in BOOLEAN : RemindRead(r, b)
      PROVE  TokenInv'
    BY <1>5
    DEF TicketRead, FirstStep, RemindRead, TokenInv, ControlOK,
        DataOK, Seat, outside, history, others, Goto, Finish, End,
        Released, NoJob
<1>6. ASSUME NEW r \in Run,
             \/ \E again \in BOOLEAN : HandleReserved(r, again)
             \/ LinkGuest(r)
             \/ WriteMarker(r)
             \/ Reconcile(r)
      PROVE  TokenInv'
    BY <1>6
    DEF HandleReserved, Redelivery, LinkGuest, WriteMarker,
        Reconcile, TokenInv, ControlOK, DataOK, Seat, outside,
        history, others, Goto, Finish, End, Released, NoJob
<1>7. ASSUME NEW r \in Run, \E stops \in BOOLEAN : Fail(r, stops)
      PROVE  TokenInv'
    BY <1>7
    DEF Fail, TokenInv, ControlOK, DataOK, Seat, outside, history,
        others, Goto, Finish, End, Released, NoJob
<1>8. CASE \/ SeatReserves \/ SeatUnavailable \/ Delete \/ CooldownEnds
           \/ \E t \in Token : Notify(t)
           \/ \E k \in Key : OrphanExpires(k) \/ LockExpires(k)
    BY <1>8
    DEF SeatReserves, SeatUnavailable, Delete, CooldownEnds, Notify,
        OrphanExpires, LockExpires, TokenInv, ControlOK, DataOK,
        Seat, outside, history, others, Goto, Finish, End, Released,
        NoJob
<1>9. CASE UNCHANGED vars
    BY <1>9
    DEF vars, TokenInv, ControlOK, DataOK, Seat, outside, history, others
<1> QED
    BY <1>1, <1>2, <1>3, <1>4, <1>5, <1>6, <1>7, <1>8, <1>9
    DEF Next, Start, Continue

LEMMA MarkStep == ControlOK /\ DataOK /\ MarkInv /\ [Next]_vars => MarkInv'
<1> SUFFICES ASSUME ControlOK, DataOK, MarkInv, [Next]_vars
             PROVE  MarkInv'
    OBVIOUS
<1>1. ASSUME NEW r \in Run,
             \/ \E seat \in {"none", "known"} : ApproveRead(r, seat)
             \/ \E b \in BOOLEAN : ApproveStore(r, b)
             \/ RejectDrop(r)
             \/ RejectStore(r)
      PROVE  MarkInv'
  <2>1. CASE \E seat \in {"none", "known"} : ApproveRead(r, seat)
      BY <2>1
      DEF ApproveRead, MarkInv, ControlOK, DataOK, Row, Goto, Finish,
          End, Released, NoJob
  <2>2. CASE \E b \in BOOLEAN : ApproveStore(r, b)
      BY <2>2
      DEF ApproveStore, FirstStep, MarkInv, ControlOK, DataOK, Row,
          Goto, Finish, End, Released, NoJob
  <2>3. CASE RejectDrop(r)
      BY <2>3
      DEF RejectDrop, MarkInv, ControlOK, DataOK, Row, Goto, Finish,
          End, Released, NoJob
  <2>4. CASE RejectStore(r)
      BY <2>4
      DEF RejectStore, MarkInv, ControlOK, DataOK, Row, Goto, Finish,
          End, Released, NoJob
  <2> QED
    BY <1>1, <2>1, <2>2, <2>3, <2>4
<1>2. ASSUME NEW r \in Run,
             \/ FirstRead(r)
             \/ ReAnchor(r)
             \/ CacheRefuses(r)
             \/ PersistSend(r)
             \/ EmitConfirmGuest(r)
             \/ \E n \in 0..MaxPresets : ScheduleReminders(r, n)
      PROVE  MarkInv'
  <2>1. CASE FirstRead(r)
      BY <2>1
      DEF FirstRead, MarkInv, ControlOK, DataOK, Row, Goto, Finish,
          End, Released, NoJob
  <2>2. CASE ReAnchor(r)
      BY <2>2
      DEF ReAnchor, MarkInv, ControlOK, DataOK, Row, Goto, Finish,
          End, Released, NoJob
  <2>3. CASE CacheRefuses(r)
      BY <2>3
      DEF CacheRefuses, MarkInv, ControlOK, DataOK, Row, Goto, Finish,
          End, Released, NoJob
  <2>4. CASE PersistSend(r)
      BY <2>4
      DEF PersistSend, MarkInv, ControlOK, DataOK, Row, Goto, Finish,
          End, Released, NoJob
  <2>5. CASE EmitConfirmGuest(r)
      BY <2>5
      DEF EmitConfirmGuest, CountReminder, MarkInv, ControlOK, DataOK,
          Row, Goto, Finish, End, Released, NoJob
  <2>6. CASE \E n \in 0..MaxPresets : ScheduleReminders(r, n)
      BY <2>6
      DEF ScheduleReminders, MarkInv, ControlOK, DataOK, Row, Goto,
          Finish, End, Released, NoJob
  <2> QED
    BY <1>2, <2>1, <2>2, <2>3, <2>4, <2>5, <2>6
<1>3. ASSUME NEW r \in Run,
             \/ ReserveRead(r)
             \/ RequestSeat(r)
             \/ ResendAsk(r)
             \/ \E b \in BOOLEAN : ResendRead(r, b)
             \/ CheckCooldown(r)
             \/ SetCooldown(r)
      PROVE  MarkInv'
    BY <1>3
    DEF ReserveRead, RequestSeat, CountReminder, ResendAsk,
        ResendRead, CheckCooldown, SetCooldown, MarkInv, ControlOK,
        DataOK, Row, Goto, Finish, End, Released, NoJob
<1>4. ASSUME NEW r \in Run,
             \/ \E seat \in Seat, again \in BOOLEAN : FireTicket(r, seat, again)
             \/ \E again \in BOOLEAN : FireReminder(r, again)
      PROVE  MarkInv'
  <2>1. CASE \E seat \in Seat, again \in BOOLEAN : FireTicket(r, seat, again)
      BY <2>1
      DEF FireTicket, StartLocked, Redelivery, MarkInv, ControlOK,
          DataOK, Row, Goto, Finish, End, Released, NoJob
  <2>2. CASE \E again \in BOOLEAN : FireReminder(r, again)
      BY <2>2
      DEF FireReminder, StartLocked, Redelivery, MarkInv, ControlOK,
          DataOK, Row, Goto, Finish, End, Released, NoJob
  <2> QED
    BY <1>4, <2>1, <2>2
<1>5. ASSUME NEW r \in Run,
             \/ TicketRead(r)
             \/ \E b \in BOOLEAN : RemindRead(r, b)
      PROVE  MarkInv'
    BY <1>5
    DEF TicketRead, FirstStep, RemindRead, MarkInv, ControlOK,
        DataOK, Row, Goto, Finish, End, Released, NoJob
<1>6. ASSUME NEW r \in Run,
             \/ \E again \in BOOLEAN : HandleReserved(r, again)
             \/ LinkGuest(r)
             \/ WriteMarker(r)
             \/ Reconcile(r)
      PROVE  MarkInv'
    BY <1>6
    DEF HandleReserved, Redelivery, LinkGuest, WriteMarker,
        Reconcile, MarkInv, ControlOK, DataOK, Row, Goto, Finish,
        End, Released, NoJob
<1>7. ASSUME NEW r \in Run, \E stops \in BOOLEAN : Fail(r, stops)
      PROVE  MarkInv'
    BY <1>7
    DEF Fail, MarkInv, ControlOK, DataOK, Row, Goto, Finish, End,
        Released, NoJob
<1>8. CASE \/ SeatReserves \/ SeatUnavailable \/ Delete \/ CooldownEnds
           \/ \E t \in Token : Notify(t)
           \/ \E k \in Key : OrphanExpires(k) \/ LockExpires(k)
    BY <1>8
    DEF SeatReserves, SeatUnavailable, Delete, CooldownEnds, Notify,
        OrphanExpires, LockExpires, MarkInv, ControlOK, DataOK, Row,
        Goto, Finish, End, Released, NoJob
<1>9. CASE UNCHANGED vars
    BY <1>9 DEF vars, MarkInv, ControlOK, DataOK, Row
<1> QED
    BY <1>1, <1>2, <1>3, <1>4, <1>5, <1>6, <1>7, <1>8, <1>9
    DEF Next, Start, Continue

LEMMA CapGoto ==
    ASSUME ControlOK, CapInv, NEW r \in Run, NEW place, NEW j,
           Goto(r, place, j), UNCHANGED <<row, expired, reminded>>,
           row.seated /\ ~expired /\ j.key = "remind" => Reminding(place, j)
    PROVE  CapInv'
    BY DEF ControlOK, CapInv, Reminding, Goto

LEMMA CapEnd ==
    ASSUME ControlOK, CapInv, NEW r \in Run, End(r),
           UNCHANGED <<row, expired, reminded>>
    PROVE  CapInv'
    BY DEF ControlOK, CapInv, Reminding, End, Finish, NoJob


LEMMA CapStep ==
    ControlOK /\ DataOK /\ LockInv /\ CapInv /\ [Next]_vars => CapInv'
<1> SUFFICES ASSUME ControlOK, DataOK, LockInv, CapInv, [Next]_vars
             PROVE  CapInv'
    OBVIOUS
<1>1. ASSUME NEW r \in Run,
             \/ \E seat \in {"none", "known"} : ApproveRead(r, seat)
             \/ \E b \in BOOLEAN : ApproveStore(r, b)
             \/ RejectDrop(r)
             \/ RejectStore(r)
      PROVE  CapInv'
  <2>1. CASE \E seat \in {"none", "known"} : ApproveRead(r, seat)
      BY <2>1, ConfirmationAssumption
      DEF ApproveRead, CapInv, Reminding, ControlOK, DataOK, Row,
          others, history, Goto, Finish, End, Released, NoJob
  <2>2. CASE \E b \in BOOLEAN : ApproveStore(r, b)
      BY <2>2, ConfirmationAssumption
      DEF ApproveStore, FirstStep, CapInv, Reminding, ControlOK,
          DataOK, Row, others, history, Goto, Finish, End, Released,
          NoJob
  <2>3. CASE RejectDrop(r)
      BY <2>3, ConfirmationAssumption
      DEF RejectDrop, CapInv, Reminding, ControlOK, DataOK, Row,
          others, history, Goto, Finish, End, Released, NoJob
  <2>4. CASE RejectStore(r)
      BY <2>4, ConfirmationAssumption
      DEF RejectStore, CapInv, Reminding, ControlOK, DataOK, Row,
          others, history, Goto, Finish, End, Released, NoJob
  <2> QED
    BY <1>1, <2>1, <2>2, <2>3, <2>4
<1>2. ASSUME NEW r \in Run,
             \/ FirstRead(r)
             \/ ReAnchor(r)
             \/ CacheRefuses(r)
             \/ PersistSend(r)
             \/ EmitConfirmGuest(r)
             \/ \E n \in 0..MaxPresets : ScheduleReminders(r, n)
      PROVE  CapInv'
  <2>1. CASE FirstRead(r)
      BY <2>1, ConfirmationAssumption
      DEF FirstRead, CapInv, Reminding, ControlOK, DataOK, Row,
          others, history, Goto, Finish, End, Released, NoJob
  <2>2. CASE ReAnchor(r)
      BY <2>2, ConfirmationAssumption
      DEF ReAnchor, CapInv, Reminding, ControlOK, DataOK, Row, others,
          history, Goto, Finish, End, Released, NoJob
  <2>3. CASE CacheRefuses(r)
      BY <2>3, ConfirmationAssumption
      DEF CacheRefuses, CapInv, Reminding, ControlOK, DataOK, Row,
          others, history, Goto, Finish, End, Released, NoJob
  <2>4. CASE PersistSend(r)
    <3>1. CASE row.exists
      <4>1. /\ at' = [at EXCEPT ![r] = "emit"]
            /\ job' = [job EXCEPT ![r] = job[r]]
            /\ UNCHANGED <<overran, expired, reminded>>
        BY <2>4, <3>1 DEF PersistSend, Goto, history, others
      <4>2. /\ row'.seated = row.seated /\ row'.resends \in Nat
            /\ row.resends \in Nat /\ row'.resends >= row.resends
            /\ job[r].resend => row'.resends = row.resends + 1
        <5> DEFINE n == IF job[r].resend THEN row.resends + 1 ELSE row.resends
        <5>1. row' = [row EXCEPT !.anchor = job[r].token, !.resends = n]
          BY <2>4, <3>1 DEF PersistSend
        <5>2. row.resends \in Nat
          BY DEF DataOK, Row
        <5>3. /\ n \in Nat /\ n >= row.resends
              /\ job[r].resend => n = row.resends + 1
          BY <5>2
        <5> HIDE DEF n
        <5>4. row'.resends = n /\ row'.seated = row.seated
          BY <5>1 DEF DataOK, Row
        <5> QED
          BY <5>2, <5>3, <5>4
      <4>3. /\ at[r] = "persist" /\ at'[r] = "emit" /\ job' = job
            /\ \A s \in Run \ {r} : at'[s] = at[s]
        BY <2>4, <4>1 DEF PersistSend, ControlOK
      <4>4. reminded \in Nat
        BY DEF DataOK
      <4> QED
        BY <4>1, <4>2, <4>3, <4>4, ConfirmationAssumption DEF CapInv, Reminding
    <3>2. CASE ~row.exists
      BY <2>4, <3>2, CapEnd DEF PersistSend, history, others
    <3> QED
      BY <3>1, <3>2
  <2>5. CASE EmitConfirmGuest(r)
    <3>1. /\ UNCHANGED <<row, expired>> /\ at[r] = "emit"
          /\ overran' \subseteq overran
      BY <2>5 DEF EmitConfirmGuest, CountReminder, Goto, End, Finish
    <3>2. CASE job[r].key = "remind" /\ row.seated /\ ~expired
      <4>1. job[r].resend /\ reminded < row.resends /\ reminded < MaxResends
        BY <3>1, <3>2 DEF CapInv, Reminding
      <4>2. End(r) /\ reminded' = reminded + 1
        BY <2>5, <3>2, <4>1 DEF EmitConfirmGuest, CountReminder
      <4>3. \A s \in Run \ {r} : job[s].key # "remind"
        BY <3>2, Exclusive DEF LockExclusive, CapInv
      <4>4. \A s \in Run : job'[s].key # "remind"
        BY <4>2, <4>3 DEF End, Finish, NoJob, ControlOK
      <4>5. row.resends \in Nat /\ reminded \in Nat
        BY DEF DataOK, Row
      <4> QED
        BY <3>1, <3>2, <4>1, <4>2, <4>4, <4>5, ConfirmationAssumption
        DEF CapInv
    <3>3. CASE job[r].key # "remind"
      <4>1. UNCHANGED reminded
        BY <2>5, <3>3 DEF EmitConfirmGuest, CountReminder
      <4>2. CASE job[r].resend
        BY <2>5, <3>1, <4>1, <4>2, CapEnd DEF EmitConfirmGuest
      <4>3. CASE ~job[r].resend
        BY <2>5, <3>1, <3>3, <4>1, <4>3, CapGoto DEF EmitConfirmGuest
      <4> QED
        BY <4>2, <4>3
    <3>4. CASE ~(row.seated /\ ~expired)
      BY <3>1, <3>4 DEF CapInv
    <3> QED
      BY <3>2, <3>3, <3>4
  <2>6. CASE \E n \in 0..MaxPresets : ScheduleReminders(r, n)
      BY <2>6, ConfirmationAssumption
      DEF ScheduleReminders, CapInv, Reminding, ControlOK, DataOK,
          Row, others, history, Goto, Finish, End, Released, NoJob
  <2> QED
    BY <1>2, <2>1, <2>2, <2>3, <2>4, <2>5, <2>6
<1>3. ASSUME NEW r \in Run,
             \/ ReserveRead(r)
             \/ RequestSeat(r)
             \/ ResendAsk(r)
             \/ \E b \in BOOLEAN : ResendRead(r, b)
             \/ CheckCooldown(r)
             \/ SetCooldown(r)
      PROVE  CapInv'
  <2>1. CASE ReserveRead(r)
      BY <2>1, ConfirmationAssumption
      DEF ReserveRead, CapInv, Reminding, ControlOK, DataOK, Row,
          others, history, Goto, Finish, End, Released, NoJob
  <2>2. CASE RequestSeat(r)
      BY <2>2, ConfirmationAssumption
      DEF RequestSeat, CountReminder, CapInv, Reminding, ControlOK,
          DataOK, Row, others, history, Goto, Finish, End, Released,
          NoJob
  <2>3. CASE ResendAsk(r)
      BY <2>3, ConfirmationAssumption
      DEF ResendAsk, CapInv, Reminding, ControlOK, DataOK, Row,
          others, history, Goto, Finish, End, Released, NoJob
  <2>4. CASE \E b \in BOOLEAN : ResendRead(r, b)
    <3>1. PICK b \in BOOLEAN : ResendRead(r, b)
      BY <2>4
    <3>2. UNCHANGED <<row, expired, reminded>> /\ at[r] = "resend"
      BY <3>1 DEF ResendRead, history, others
    <3>3. CASE Actionable /\ ~b /\ HasContact
      <4> DEFINE j == [job[r] EXCEPT !.seat =
                          IF row.seated THEN "known" ELSE "none"]
      <4>1. Goto(r, "check", j)
        BY <3>1, <3>3 DEF ResendRead
      <4>2. j.key = job[r].key /\ (row.seated => j.seat = "known")
        BY DEF ControlOK, Job
      <4> HIDE DEF j
      <4>3. row.seated /\ ~expired /\ j.key = "remind" => Reminding("check", j)
        BY <3>2, <4>2 DEF CapInv, Reminding
      <4> QED
        BY <3>2, <4>1, <4>3, CapGoto
    <3>4. CASE ~(Actionable /\ ~b /\ HasContact)
      BY <3>1, <3>2, <3>4, CapEnd DEF ResendRead
    <3> QED
      BY <3>3, <3>4
  <2>5. CASE CheckCooldown(r)
      BY <2>5, ConfirmationAssumption
      DEF CheckCooldown, CapInv, Reminding, ControlOK, DataOK, Row,
          others, history, Goto, Finish, End, Released, NoJob
  <2>6. CASE SetCooldown(r)
    <3>1. UNCHANGED <<row, expired, reminded>> /\ at[r] = "cool"
      BY <2>6 DEF SetCooldown, history, others
    <3>2. CASE job[r].seat = "known"
      <4> DEFINE j == [job[r] EXCEPT !.resend = TRUE]
      <4>1. Goto(r, "anchor", j)
        BY <2>6, <3>2 DEF SetCooldown
      <4>2. j.key = job[r].key /\ j.resend
        BY DEF ControlOK, Job
      <4> HIDE DEF j
      <4>3. row.seated /\ ~expired /\ j.key = "remind" => Reminding("anchor", j)
        BY <3>1, <4>2 DEF CapInv, Reminding
      <4> QED
        BY <3>1, <4>1, <4>3, CapGoto
    <3>3. CASE job[r].seat # "known"
      <4>1. Goto(r, "reserve", job[r])
        BY <2>6, <3>3 DEF SetCooldown
      <4>2. ~(row.seated /\ ~expired /\ job[r].key = "remind")
        BY <3>1, <3>3 DEF CapInv, Reminding
      <4> QED
        BY <3>1, <4>1, <4>2, CapGoto
    <3> QED
      BY <3>2, <3>3
  <2> QED
    BY <1>3, <2>1, <2>2, <2>3, <2>4, <2>5, <2>6
<1>4. ASSUME NEW r \in Run,
             \/ \E seat \in Seat, again \in BOOLEAN : FireTicket(r, seat, again)
             \/ \E again \in BOOLEAN : FireReminder(r, again)
      PROVE  CapInv'
  <2>1. CASE \E seat \in Seat, again \in BOOLEAN : FireTicket(r, seat, again)
    <3>1. UNCHANGED <<row, expired, reminded>>
      BY <2>1 DEF FireTicket, Redelivery
    <3>2. PICK seat \in Seat : StartLocked(r, "ticket", seat)
      BY <2>1 DEF FireTicket
    <3>3. CASE lock["ticket"] = None
      <4>1. /\ overran' = overran /\ job'[r].key = "ticket"
            /\ \A s \in Run \ {r} : job'[s] = job[s] /\ at'[s] = at[s]
        BY <3>2, <3>3 DEF StartLocked, ControlOK, NoJob
      <4> QED
        BY <3>1, <4>1 DEF CapInv, Reminding
    <3>4. CASE lock["ticket"] # None
      BY <3>1, <3>2, <3>4 DEF StartLocked, CapInv, Reminding
    <3> QED
      BY <3>3, <3>4
  <2>2. CASE \E again \in BOOLEAN : FireReminder(r, again)
      BY <2>2, ConfirmationAssumption
      DEF FireReminder, StartLocked, Redelivery, CapInv, Reminding,
          ControlOK, DataOK, Row, others, history, Goto, Finish, End,
          Released, NoJob
  <2> QED
    BY <1>4, <2>1, <2>2
<1>5. ASSUME NEW r \in Run,
             \/ TicketRead(r)
             \/ \E b \in BOOLEAN : RemindRead(r, b)
      PROVE  CapInv'
  <2>1. CASE TicketRead(r)
      BY <2>1, ConfirmationAssumption
      DEF TicketRead, FirstStep, CapInv, Reminding, ControlOK, DataOK,
          Row, others, history, Goto, Finish, End, Released, NoJob
  <2>2. CASE \E b \in BOOLEAN : RemindRead(r, b)
    <3>1. UNCHANGED <<row, expired, reminded>> /\ at[r] = "remind"
      BY <2>2 DEF RemindRead, history, others
    <3>2. CASE End(r)
      BY <3>1, <3>2, CapEnd
    <3>3. CASE UnderCap /\ Goto(r, "resend", job[r])
      <4>1. row.resends \in Nat /\ reminded \in Nat
        BY DEF DataOK, Row
      <4>2. row.seated /\ ~expired => reminded < MaxResends
        BY <3>3, <4>1, ConfirmationAssumption DEF UnderCap, CapInv
      <4> QED
        BY <3>1, <3>3, <4>2, CapGoto DEF Reminding
    <3> QED
      BY <2>2, <3>2, <3>3 DEF RemindRead
  <2> QED
    BY <1>5, <2>1, <2>2
<1>6. ASSUME NEW r \in Run,
             \/ \E again \in BOOLEAN : HandleReserved(r, again)
             \/ LinkGuest(r)
             \/ WriteMarker(r)
             \/ Reconcile(r)
      PROVE  CapInv'
  <2>1. CASE \E again \in BOOLEAN : HandleReserved(r, again)
      BY <2>1, ConfirmationAssumption
      DEF HandleReserved, Redelivery, CapInv, Reminding, ControlOK,
          DataOK, Row, others, history, Goto, Finish, End, Released,
          NoJob
  <2>2. CASE LinkGuest(r)
      BY <2>2, ConfirmationAssumption
      DEF LinkGuest, CapInv, Reminding, ControlOK, DataOK, Row,
          others, history, Goto, Finish, End, Released, NoJob
  <2>3. CASE WriteMarker(r)
      BY <2>3, ConfirmationAssumption
      DEF WriteMarker, CapInv, Reminding, ControlOK, DataOK, Row,
          others, history, Goto, Finish, End, Released, NoJob
  <2>4. CASE Reconcile(r)
      BY <2>4, ConfirmationAssumption
      DEF Reconcile, CapInv, Reminding, ControlOK, DataOK, Row,
          others, history, Goto, Finish, End, Released, NoJob
  <2> QED
    BY <1>6, <2>1, <2>2, <2>3, <2>4
<1>7. ASSUME NEW r \in Run, \E stops \in BOOLEAN : Fail(r, stops)
      PROVE  CapInv'
    BY <1>7, ConfirmationAssumption
    DEF Fail, CapInv, Reminding, ControlOK, DataOK, Row, others,
        history, Goto, Finish, End, Released, NoJob
<1>8. CASE \/ SeatReserves \/ SeatUnavailable \/ Delete \/ CooldownEnds
           \/ \E t \in Token : Notify(t)
           \/ \E k \in Key : OrphanExpires(k) \/ LockExpires(k)
    BY <1>8, ConfirmationAssumption
    DEF SeatReserves, SeatUnavailable, Delete, CooldownEnds, Notify,
        OrphanExpires, LockExpires, CapInv, Reminding, ControlOK,
        DataOK, Row, others, history, Goto, Finish, End, Released,
        NoJob
<1>9. CASE UNCHANGED vars
    BY <1>9
    DEF vars, CapInv, Reminding, ControlOK, DataOK, Row, others, history
<1> QED
    BY <1>1, <1>2, <1>3, <1>4, <1>5, <1>6, <1>7, <1>8, <1>9
    DEF Next, Start, Continue

-----------------------------------------------------------------------------
LEMMA InvInit == Init => ConfirmationInv
<1> SUFFICES ASSUME Init
             PROVE  ConfirmationInv
    OBVIOUS
<1> USE ConfirmationAssumption DEF Init
<1>1. ControlOK
    BY NoJobType DEF ControlOK, Place
<1>2. DataOK
  <2>1. 1 \in Token
      BY DEF Token
  <2>2. row \in Row
    <3>1. PICK s \in BOOLEAN :
              row = [exists |-> TRUE, status |-> "ACCEPTED", guest |-> FALSE,
                     anchor |-> 1, resends |-> 0, seated |-> s]
        OBVIOUS
    <3> QED
      BY <2>1, <3>1 DEF Row
  <2>3. cache \subseteq Token /\ issued \in {NoToken} \cup Token
      BY <2>1
  <2>4. sent \in [Token -> Seat \cup {"unsent"}]
      OBVIOUS
  <2> QED
    BY <2>2, <2>3, <2>4 DEF DataOK
<1>3. LockInv
    BY DEF LockInv, NoJob
<1>4. SeatInv
    BY DEF SeatInv, SeatBeforeLink, Sending, NoJob
<1>5. TokenInv
    BY DEF TokenInv
<1>6. MarkInv
    BY DEF MarkInv
<1>7. CapInv
    BY DEF CapInv, NoJob
<1> QED
    BY <1>1, <1>2, <1>3, <1>4, <1>5, <1>6, <1>7 DEF ConfirmationInv

LEMMA InvStep == ConfirmationInv /\ [Next]_vars => ConfirmationInv'
    BY ControlStep, DataStep, LockStep, SeatStep, TokenStep, MarkStep, CapStep
    DEF ConfirmationInv

LEMMA Invariance == Spec => []ConfirmationInv
    BY InvInit, InvStep, PTL DEF Spec

(* Every reachable state is well typed.                                    *)
THEOREM ConfirmationTypeCorrect == Spec => []TypeOK
<1>1. ConfirmationInv => TypeOK
    BY TypeParts DEF ConfirmationInv
<1> QED
    BY <1>1, Invariance, PTL

(* Two jobs of one kind exclude each other while their locks last: late    *)
(* releases, stopped processes and expiring locks included.                *)
THEOREM JobsExclusive == Spec => []LockExclusive
<1>1. ConfirmationInv => LockExclusive
    BY Exclusive DEF ConfirmationInv
<1> QED
    BY <1>1, Invariance, PTL

(* No confirmation link is published without a seat, on any path.          *)
THEOREM SeatComesFirst == Spec => []SeatBeforeLink
<1>1. ConfirmationInv => SeatBeforeLink
    BY DEF ConfirmationInv, SeatInv
<1> QED
    BY <1>1, Invariance, PTL

(* Without a rejection, every published token leads to a contact until its *)
(* link is delivered.                                                      *)
THEOREM TokensResolve == Spec => []LinksResolve
<1>1. ConfirmationInv => LinksResolve
    BY DEF ConfirmationInv, TokenInv, LinksResolve
<1> QED
    BY <1>1, Invariance, PTL

(* The sign-up marker is written only for an invitation with a guest.      *)
THEOREM MarkerIsEarned == Spec => []MarkerProvesLink
<1>1. ConfirmationInv => MarkerProvesLink
    BY DEF ConfirmationInv, MarkInv, MarkerProvesLink
<1> QED
    BY <1>1, Invariance, PTL

(* Counted reminders stay under their cap while no lock expires.           *)
THEOREM CountedRemindersCapped == Spec => []CountedRemindersAreCapped
<1>1. ConfirmationInv => CountedRemindersAreCapped
    BY DEF ConfirmationInv, CapInv, CountedRemindersAreCapped
<1> QED
    BY <1>1, Invariance, PTL

-----------------------------------------------------------------------------
(***************************************************************************)
(* The chain implements GuestRegistration.                                 *)
(*                                                                         *)
(* Tokens are issued once, each to one run; a run that is about to publish *)
(* its token is the first to do so; what was delivered has been published  *)
(* and has left the cache.                                                 *)
(***************************************************************************)
Holding(place) == place \in {"persist", "emit"}

FreshInv ==
    /\ \A t \in Token : t > issued => sent[t] = "unsent"
    /\ \A t \in cache \cup notified : t <= issued
    /\ \A t \in notified : sent[t] # "unsent" /\ t \notin cache
    /\ \A r \in Run : Holding(at[r]) =>
           /\ job[r].token \in Token /\ job[r].token <= issued
           /\ sent[job[r].token] = "unsent"
    /\ \A r, q \in Run :
           Holding(at[r]) /\ Holding(at[q]) /\ r # q =>
               job[r].token # job[q].token

LEMMA FreshInit == Init => FreshInv
    BY ConfirmationAssumption DEF Init, FreshInv, Holding, Token

(* What a run does that does not come to hold a token.                     *)
LEMMA FreshKept ==
    ASSUME ControlOK, DataOK, FreshInv,
           UNCHANGED <<issued, sent, notified>>, cache' \subseteq cache,
           \A r \in Run : Holding(at'[r]) =>
               Holding(at[r]) /\ job'[r].token = job[r].token
    PROVE  FreshInv'
    BY DEF FreshInv

LEMMA FreshStep == ControlOK /\ DataOK /\ FreshInv /\ [Next]_vars => FreshInv'
<1> SUFFICES ASSUME ControlOK, DataOK, FreshInv, [Next]_vars
             PROVE  FreshInv'
    OBVIOUS
<1>1. ASSUME NEW r \in Run,
             \/ \E seat \in {"none", "known"} : ApproveRead(r, seat)
             \/ \E b \in BOOLEAN : ApproveStore(r, b)
             \/ RejectDrop(r)
             \/ RejectStore(r)
             \/ FirstRead(r)
             \/ CacheRefuses(r)
             \/ \E n \in 0..MaxPresets : ScheduleReminders(r, n)
      PROVE  FreshInv'
    BY <1>1, FreshKept
    DEF ApproveRead, ApproveStore, FirstStep, RejectDrop, RejectStore,
        FirstRead, CacheRefuses, ScheduleReminders, Holding, ControlOK,
        outside, history, others, Goto, Finish, End, NoJob
<1>2. ASSUME NEW r \in Run, ReAnchor(r)
      PROVE  FreshInv'
  <2> DEFINE t == issued + 1
  <2>1. /\ issued < MaxTokens /\ issued' = t /\ cache' = cache \cup {t}
        /\ Goto(r, "persist", [job[r] EXCEPT !.token = t])
        /\ UNCHANGED <<sent, notified>>
    BY <1>2 DEF ReAnchor, outside
  <2>2. t \in Token /\ issued \in Nat
    BY <2>1, IssueType DEF DataOK, Token, NoToken
  <2>3. /\ Holding(at'[r]) /\ job'[r].token = t
        /\ \A q \in Run \ {r} : at'[q] = at[q] /\ job'[q] = job[q]
    BY <2>1 DEF Goto, ControlOK, Holding, Job
  <2>4. \A u \in Token : u \in Nat
    BY ConfirmationAssumption DEF Token
  <2>5. \A u \in Token : u <= issued => u <= t /\ u # t
    BY <2>2, <2>4
  <2>6. cache \subseteq Token /\ notified \subseteq Token
    BY DEF DataOK
  <2>a. \A u \in Token : u > t => u > issued
    BY <2>2, <2>4
  <2>b. sent[t] = "unsent" /\ t <= t
    BY <2>2 DEF FreshInv
  <2> HIDE DEF t
  <2>7. \A u \in Token : u > issued' => sent'[u] = "unsent"
    BY <2>1, <2>a DEF FreshInv
  <2>8. \A u \in cache' \cup notified' : u <= issued'
    BY <2>1, <2>5, <2>6, <2>b DEF FreshInv
  <2>9. \A u \in notified' : sent'[u] # "unsent" /\ u \notin cache'
    BY <2>1, <2>5, <2>6 DEF FreshInv
  <2>10. \A q \in Run : Holding(at'[q]) =>
             /\ job'[q].token \in Token /\ job'[q].token <= issued'
             /\ sent'[job'[q].token] = "unsent"
    BY <2>1, <2>2, <2>3, <2>5, <2>b DEF FreshInv
  <2>11. \A q, s \in Run :
             Holding(at'[q]) /\ Holding(at'[s]) /\ q # s =>
                 job'[q].token # job'[s].token
    BY <2>3, <2>5 DEF FreshInv
  <2> QED
    BY <2>7, <2>8, <2>9, <2>10, <2>11 DEF FreshInv
<1>3. ASSUME NEW r \in Run, PersistSend(r)
      PROVE  FreshInv'
    BY <1>3, FreshKept
    DEF PersistSend, Holding, ControlOK, outside, Goto, Finish, End
<1>4. ASSUME NEW r \in Run, EmitConfirmGuest(r)
      PROVE  FreshInv'
  <2> DEFINE t == job[r].token
  <2>1. /\ at[r] = "emit" /\ sent' = [sent EXCEPT ![t] = job[r].seat]
        /\ UNCHANGED <<issued, cache, notified>>
        /\ \A q \in Run \ {r} : at'[q] = at[q] /\ job'[q] = job[q]
        /\ ~Holding(at'[r])
    BY <1>4 DEF EmitConfirmGuest, outside, Goto, Finish, End, ControlOK, Holding
  <2>2. t \in Token /\ t <= issued /\ job[r].seat \in Seat
    BY <2>1, JobType DEF FreshInv, Holding, ControlOK
  <2>3. sent'[t] # "unsent" /\ \A u \in Token \ {t} : sent'[u] = sent[u]
    BY <2>1, <2>2 DEF DataOK, Seat
  <2>4. \A q \in Run \ {r} : Holding(at[q]) => job[q].token # t
    BY <2>1 DEF FreshInv, Holding
  <2>5. \A u \in Token : u > issued => u # t
    BY <2>2, ConfirmationAssumption DEF DataOK, Token, NoToken
  <2>6. notified \subseteq Token
    BY DEF DataOK
  <2> HIDE DEF t
  <2> QED
    BY <2>1, <2>2, <2>3, <2>4, <2>5, <2>6 DEF FreshInv
<1>5. ASSUME NEW r \in Run,
             \/ ReserveRead(r)
             \/ RequestSeat(r)
             \/ ResendAsk(r)
             \/ \E b \in BOOLEAN : ResendRead(r, b)
             \/ CheckCooldown(r)
             \/ SetCooldown(r)
      PROVE  FreshInv'
    BY <1>5, FreshKept
    DEF ReserveRead, RequestSeat, CountReminder, ResendAsk, ResendRead,
        CheckCooldown, SetCooldown, Holding, ControlOK, outside, history,
        others, Goto, Finish, End, NoJob
<1>6. ASSUME NEW r \in Run,
             \/ \E seat \in Seat, again \in BOOLEAN : FireTicket(r, seat, again)
             \/ \E again \in BOOLEAN : FireReminder(r, again)
      PROVE  FreshInv'
    BY <1>6, FreshKept
    DEF FireTicket, FireReminder, StartLocked, Key, Holding, ControlOK,
        outside, NoJob
<1>7. ASSUME NEW r \in Run,
             \/ TicketRead(r)
             \/ \E b \in BOOLEAN : RemindRead(r, b)
             \/ \E again \in BOOLEAN : HandleReserved(r, again)
             \/ LinkGuest(r)
             \/ WriteMarker(r)
             \/ Reconcile(r)
             \/ \E stops \in BOOLEAN : Fail(r, stops)
      PROVE  FreshInv'
    BY <1>7, FreshKept
    DEF TicketRead, FirstStep, RemindRead, HandleReserved, LinkGuest,
        WriteMarker, Reconcile, Fail, Holding, ControlOK, outside, history,
        others, Goto, Finish, End, NoJob
<1>8. ASSUME NEW t \in Token, Notify(t)
      PROVE  FreshInv'
    BY <1>8 DEF Notify, FreshInv, DataOK, Holding
<1>9. CASE \/ SeatReserves \/ SeatUnavailable \/ Delete \/ CooldownEnds
           \/ \E k \in Key : OrphanExpires(k) \/ LockExpires(k)
           \/ UNCHANGED vars
    BY <1>9, FreshKept
    DEF SeatReserves, SeatUnavailable, Delete, CooldownEnds, OrphanExpires,
        LockExpires, outside, vars
<1> QED
    BY <1>1, <1>2, <1>3, <1>4, <1>5, <1>6, <1>7, <1>8, <1>9
    DEF Next, Start, Continue

-----------------------------------------------------------------------------
(* Every step is a step of GuestRegistration, or leaves its state alone.   *)
Chain == <<held, sent, notified, row.exists, row.guest, marker>>

LEMMA ChainKept == UNCHANGED Chain => UNCHANGED Registration!vars
    BY DEF Chain, Registration!vars

LEMMA RegistrationStep ==
    ASSUME ConfirmationInv, FreshInv, [Next]_vars
    PROVE  [Registration!Next]_(Registration!vars)
<1> USE DEF ConfirmationInv
<1>1. ASSUME NEW r \in Run,
             \/ \E seat \in {"none", "known"} : ApproveRead(r, seat)
             \/ \E b \in BOOLEAN : ApproveStore(r, b)
             \/ RejectDrop(r)
             \/ RejectStore(r)
      PROVE  UNCHANGED Chain
    BY <1>1
    DEF ApproveRead, ApproveStore, RejectDrop, RejectStore, DataOK, Row,
        outside, Chain
<1>2. ASSUME NEW r \in Run,
             \/ FirstRead(r)
             \/ ReAnchor(r)
             \/ CacheRefuses(r)
             \/ PersistSend(r)
             \/ \E n \in 0..MaxPresets : ScheduleReminders(r, n)
      PROVE  UNCHANGED Chain
    BY <1>2
    DEF FirstRead, ReAnchor, CacheRefuses, PersistSend, ScheduleReminders,
        DataOK, Row, outside, Chain
<1>3. ASSUME NEW r \in Run, EmitConfirmGuest(r)
      PROVE  \E t \in Token, s \in {"known", "reserved"} :
                 Registration!Publish(t, s)
  <2> DEFINE t == job[r].token  s == job[r].seat
  <2>1. t \in Token /\ sent[t] = "unsent"
    BY <1>3 DEF FreshInv, Holding, EmitConfirmGuest
  <2>2. s \in {"known", "reserved"} /\ (s = "reserved" => held)
    BY <1>3, JobType DEF EmitConfirmGuest, SeatInv, Sending, ControlOK, Seat
  <2>3. Registration!Publish(t, s)
    BY <1>3, <2>1, <2>2 DEF EmitConfirmGuest, Registration!Publish, outside
  <2> QED
    BY <2>1, <2>2, <2>3
<1>4. ASSUME NEW r \in Run,
             \/ ReserveRead(r)
             \/ RequestSeat(r)
             \/ ResendAsk(r)
             \/ \E b \in BOOLEAN : ResendRead(r, b)
             \/ CheckCooldown(r)
             \/ SetCooldown(r)
             \/ \E seat \in Seat, again \in BOOLEAN : FireTicket(r, seat, again)
             \/ TicketRead(r)
             \/ \E again \in BOOLEAN : FireReminder(r, again)
             \/ \E b \in BOOLEAN : RemindRead(r, b)
             \/ \E again \in BOOLEAN : HandleReserved(r, again)
             \/ Reconcile(r)
             \/ \E stops \in BOOLEAN : Fail(r, stops)
      PROVE  UNCHANGED Chain
    BY <1>4
    DEF ReserveRead, RequestSeat, ResendAsk, ResendRead, CheckCooldown,
        SetCooldown, FireTicket, TicketRead, FireReminder, RemindRead,
        HandleReserved, Reconcile, Fail, outside, Chain
<1>5. ASSUME NEW r \in Run, LinkGuest(r)
      PROVE  Registration!Register
    BY <1>5 DEF LinkGuest, DataOK, Row, outside, Registration!Register
<1>6. ASSUME NEW r \in Run, WriteMarker(r)
      PROVE  Registration!Mark
    BY <1>6 DEF WriteMarker, MarkInv, outside, Registration!Mark
<1>7. ASSUME NEW t \in Token, Notify(t)
      PROVE  Registration!Deliver(t)
    BY <1>7 DEF Notify, FreshInv, Registration!Deliver
<1>8. SeatReserves => Registration!ReserveSeat
    BY DEF SeatReserves, Registration!ReserveSeat
<1>9. Delete => Registration!Unlist
    BY DEF Delete, DataOK, Row, outside, Registration!Unlist
<1>10. CASE \/ SeatUnavailable \/ CooldownEnds
            \/ \E k \in Key : OrphanExpires(k) \/ LockExpires(k)
            \/ UNCHANGED vars
    BY <1>10, ChainKept
    DEF SeatUnavailable, CooldownEnds, OrphanExpires, LockExpires, outside,
        vars, Chain
<1> QED
    BY <1>1, <1>2, <1>3, <1>4, <1>5, <1>6, <1>7, <1>8, <1>9, <1>10, ChainKept
    DEF Next, Start, Continue, Registration!Next

(* The chain keeps what GuestRegistration promises.                        *)
THEOREM ChainRefinesRegistration == Spec => ImplementsRegistration
<1>1. Init => Registration!Init
    BY DEF Init, Registration!Init
<1>2. ConfirmationInv /\ FreshInv /\ [Next]_vars
          => [Registration!Next]_(Registration!vars)
    BY RegistrationStep
<1>3. ConfirmationInv /\ FreshInv /\ [Next]_vars => FreshInv'
    BY FreshStep DEF ConfirmationInv
<1> QED
    BY <1>1, <1>2, <1>3, FreshInit, Invariance, PTL
    DEF Spec, ImplementsRegistration, Registration!Spec
=============================================================================
