----------------------- MODULE EventProjections_proofs -----------------------
(***************************************************************************)
(* Proofs about EventProjections, for all users, fields, handlers and      *)
(* bounds.                                                                 *)
(***************************************************************************)
EXTENDS EventProjections, TLAPS

Plain == {"access", "assigned", "removed", "owner"}

(* What is announced names a user where it should, and not the future.     *)
SentInv ==
    \A m \in sent : m.at <= now /\ (m.kind \in Plain => m.user \in User)

(* A suspended handler holds a message that is no older than the row it    *)
(* read.                                                                   *)
JobInv ==
    \A r \in Run : at[r] # "idle" =>
        /\ job[r] \in sent
        /\ at[r] \in {"upsert access", "upsert role", "drop old", "read new",
                      "upsert owner"} => job[r].user \in User
        /\ at[r] \in {"upsert access", "upsert role", "upsert owner",
                      "upsert settings"} => ~Stale(job[r], seen[r])

(* A row was made from a change that had occurred when it was written.     *)
RowInv ==
    /\ \A u \in User : role[u].from <= role[u].stamp
    /\ settings.stamp <= now
    /\ \A f \in Field : settings.from[f] <= settings.stamp

(* Where handlers did not overlap, the access row is the newest change.    *)
AccessInv == \A u \in User \ raced : access[u] = latest[u]

ProjectionInv == TypeOK /\ SentInv /\ JobInv /\ RowInv /\ AccessInv

-----------------------------------------------------------------------------
(* Announced messages are well formed.                                     *)
LEMMA AnnouncementsFit ==
    ASSUME TypeOK, NEW m \in Announcement
    PROVE  m \in Message /\ m.at = now /\ (m.kind \in Plain => m.user \in User)
  BY DEF TypeOK, Announcement, Message, Kind, Time, Plain

LEMMA Values ==
    /\ 0 \in Time /\ 1 \in Time
    /\ NoMessage \in Message
    /\ NoRole \in RoleRow
    /\ NoSettings \in SettingsRow
  <1>1. 0 \in Time /\ 1 \in Time
        BY ProjectionAssumption DEF Time
  <1> QED BY <1>1 DEF NoMessage, Message, Kind, NoRole, RoleRow, NoSettings,
              SettingsRow

LEMMA InitHolds == Init => ProjectionInv
  <1> SUFFICES ASSUME Init PROVE ProjectionInv
      OBVIOUS
  <1>a. /\ at \in [Run -> Place] /\ job \in [Run -> Message]
        /\ seen \in [Run -> Time] /\ left \in [Run -> SUBSET Table]
        BY Values DEF Init, Place
  <1>b. /\ access \in [User -> Time] /\ latest \in [User -> Time]
        /\ role \in [User -> RoleRow] /\ settings \in SettingsRow
        BY Values DEF Init
  <1>c. /\ now \in Time \ {0} /\ sent = {} /\ handled = {}
        /\ raced = {} /\ unread \in BOOLEAN /\ faults \in Nat
    <2>1. /\ now = 1 /\ unread = FALSE /\ faults = 0
          /\ sent = {} /\ handled = {} /\ raced = {}
          BY DEF Init
    <2>2. now \in Time \ {0} /\ faults \in Nat
          BY <2>1, Values
    <2> QED BY <2>1, <2>2, Zenon
  <1>1. TypeOK
        BY <1>a, <1>b, <1>c DEF TypeOK
  <1>2. SentInv /\ JobInv /\ AccessInv
        BY DEF Init, SentInv, JobInv, AccessInv
  <1>3. RowInv
        BY DEF Init, RowInv, NoRole, NoSettings
  <1> QED BY <1>1, <1>2, <1>3 DEF ProjectionInv

(* The parts of a handler's state.                                         *)
LEMMA GotoTypes ==
    ASSUME TypeOK, NEW r \in Run, NEW place \in Place, NEW m \in Message,
           NEW stamp \in Time, Goto(r, place, m, stamp)
    PROVE  /\ at' \in [Run -> Place] /\ job' \in [Run -> Message]
           /\ seen' \in [Run -> Time]
  BY DEF TypeOK, Goto

LEMMA ReleaseTypes ==
    ASSUME TypeOK, NEW r \in Run, Release(r)
    PROVE  /\ at' \in [Run -> Place] /\ job' \in [Run -> Message]
           /\ seen' \in [Run -> Time]
  BY Values DEF TypeOK, Release, Place

LEMMA RowTimes ==
    ASSUME TypeOK
    PROVE  /\ now \in Time
           /\ \A u \in User : role[u].from \in Time /\ role[u].stamp \in Time
           /\ settings.stamp \in Time
           /\ \A f \in Field : settings.from[f] \in Time
           /\ \A m \in Message : m.at \in Time /\ m.user \in User \cup {Nobody}
  BY DEF TypeOK, RoleRow, SettingsRow, Message

(* A delivery or a later step of a handler keeps the types.                *)
LEMMA DeliverTypes ==
    ASSUME TypeOK, SentInv, NEW r \in Run, NEW m \in sent, Deliver(r, m)
    PROVE  TypeOK'
  <1>0. m \in Message /\ m.at \in Time /\ now \in Time
        BY RowTimes DEF TypeOK
  <1>a. (m.kind \in Plain => m.user \in User) /\ sent \subseteq Message
        BY DEF SentInv, TypeOK
  <1>b. ASSUME Delivered(r, m, m.kind)
        PROVE  /\ now' \in Time \ {0} /\ sent' = sent /\ faults' \in Nat
        BY <1>b DEF Delivered, TypeOK
  <1>c. ASSUME Finish(r, m) \/ Goto(r, "wipe", m, 0)
        PROVE  /\ at' \in [Run -> Place] /\ job' \in [Run -> Message]
               /\ seen' \in [Run -> Time]
        BY <1>0, <1>c, GotoTypes, ReleaseTypes, Values DEF Finish, Place
  <1>d. ASSUME Finish(r, m) PROVE handled' \subseteq sent
        BY <1>d DEF Finish, TypeOK
  <1>1. CASE HandleUserAccessChanged(r, m)
    <2>1. m.kind = "access" /\ m.user \in User /\ Delivered(r, m, m.kind)
          BY <1>1, <1>a DEF HandleUserAccessChanged, Delivered, Plain
    <2>2. access[m.user] \in Time
          BY <2>1 DEF TypeOK
    <2>3. /\ at' \in [Run -> Place] /\ job' \in [Run -> Message]
          /\ seen' \in [Run -> Time] /\ handled' \subseteq sent
          BY <1>0, <1>1, <1>c, <1>d, <2>2, GotoTypes
          DEF HandleUserAccessChanged, Place, TypeOK
    <2>4. latest' \in [User -> Time]
          BY <1>0, <1>1 DEF HandleUserAccessChanged, AccessHandled, Later, TypeOK
    <2> QED BY <1>1, <1>a, <1>b, <2>1, <2>3, <2>4
            DEF HandleUserAccessChanged, tables, TypeOK
  <1>2. ASSUME NEW kind \in {"assigned", "removed"},
               NEW place \in {"upsert role", "delete role"},
               HandleRole(r, m, kind, place)
        PROVE  TypeOK'
    <2>1. m.kind = kind /\ m.user \in User /\ Delivered(r, m, m.kind)
          BY <1>2, <1>a DEF HandleRole, Delivered, Plain
    <2>2. role[m.user].stamp \in Time /\ role[m.user].from \in Time
          BY <2>1, RowTimes
    <2>3. /\ at' \in [Run -> Place] /\ job' \in [Run -> Message]
          /\ seen' \in [Run -> Time] /\ handled' \subseteq sent
      <3>1. CASE Goto(r, place, m, role[m.user].stamp) /\ UNCHANGED handled
        <4>1. place \in Place
              BY DEF Place
        <4> QED BY <1>0, <2>2, <3>1, <4>1, GotoTypes DEF TypeOK
      <3>2. CASE Finish(r, m)
            BY <3>2, <1>c, <1>d
      <3> QED BY <1>2, <3>1, <3>2 DEF HandleRole, Skip
    <2>4. unread' \in BOOLEAN
          BY <1>0, <1>2, <2>2 DEF HandleRole, Skip, TypeOK
    <2> QED BY <1>2, <1>a, <1>b, <2>1, <2>3, <2>4
            DEF HandleRole, tables, TypeOK
  <1>4. CASE HandleOwnerChanged(r, m)
    <2>1. Delivered(r, m, m.kind)
          BY <1>4 DEF HandleOwnerChanged, Delivered
    <2>2. /\ at' \in [Run -> Place] /\ job' \in [Run -> Message]
          /\ seen' \in [Run -> Time]
          BY <1>0, <1>4, GotoTypes, Values DEF HandleOwnerChanged, Place
    <2> QED BY <1>4, <1>a, <1>b, <2>1, <2>2
            DEF HandleOwnerChanged, tables, TypeOK
  <1>5. CASE HandleEventCreated(r, m)
    <2>1. Delivered(r, m, m.kind)
          BY <1>5 DEF HandleEventCreated, Delivered
    <2>2. settings' \in SettingsRow
          BY <1>0, <1>5 DEF HandleEventCreated, SettingsRow
    <2> QED BY <1>5, <1>a, <1>b, <1>c, <1>d, <2>1, <2>2
            DEF HandleEventCreated, TypeOK
  <1>6. CASE HandleEventUpdated(r, m)
    <2>1. Delivered(r, m, m.kind)
          BY <1>6 DEF HandleEventUpdated, Delivered
    <2>2. /\ at' \in [Run -> Place] /\ job' \in [Run -> Message]
          /\ seen' \in [Run -> Time] /\ handled' \subseteq sent
          BY <1>0, <1>6, <1>c, <1>d, GotoTypes, RowTimes
          DEF HandleEventUpdated, Skip, Place, TypeOK
    <2>3. unread' \in BOOLEAN
          BY <1>6 DEF HandleEventUpdated, Skip, TypeOK
    <2> QED BY <1>6, <1>a, <1>b, <2>1, <2>2, <2>3
            DEF HandleEventUpdated, tables, TypeOK
  <1>7. CASE HandleEventDeleted(r, m)
    <2>1. Delivered(r, m, m.kind)
          BY <1>7 DEF HandleEventDeleted, Delivered
    <2> QED BY <1>7, <1>a, <1>b, <1>c, <2>1
            DEF HandleEventDeleted, tables, TypeOK
  <1> QED BY <1>1, <1>2, <1>4, <1>5, <1>6, <1>7
          DEF Deliver, HandleRoleAssigned, HandleRoleRemoved

LEMMA ContinueTypes ==
    ASSUME TypeOK, SentInv, JobInv, NEW r \in Run, Continue(r) \/ Fail(r)
    PROVE  TypeOK'
  <1> DEFINE m == job[r]
  <1>0. m \in Message /\ m.at \in Time /\ now \in Time
        BY RowTimes DEF TypeOK
  <1>a. at[r] # "idle" => m \in sent
        BY DEF JobInv
  <1>b. at[r] \in {"upsert access", "upsert role", "read new", "upsert owner"}
            => m.user \in User
        BY DEF JobInv
  <1>c. ASSUME Release(r) \/ Goto(r, "read new", m, 0)
        PROVE  /\ at' \in [Run -> Place] /\ job' \in [Run -> Message]
               /\ seen' \in [Run -> Time]
        BY <1>0, <1>c, GotoTypes, ReleaseTypes, Values DEF Place
  <1>d. ASSUME Finish(r, m), at[r] # "idle" PROVE handled' \subseteq sent
        BY <1>a, <1>d DEF Finish, TypeOK
  <1>e. ASSUME NEW u, NEW row \in RoleRow, WriteRole(r, u, row)
        PROVE  role' \in [User -> RoleRow]
        BY <1>e DEF WriteRole, TypeOK
  <1>f. Written(m) \in RoleRow /\ NoRole \in RoleRow
        BY <1>0, Values DEF Written, RoleRow
  <1>1. CASE UpsertAccess(r)
    <2>1. m.user \in User
          BY <1>1, <1>b DEF UpsertAccess
    <2>2. /\ access' \in [User -> Time] /\ latest' \in [User -> Time]
          /\ raced' \subseteq User
          BY <1>0, <1>1, <2>1 DEF UpsertAccess, AccessHandled, Later, TypeOK
    <2>3. handled' \subseteq sent
          BY <1>1, <1>d DEF UpsertAccess
    <2>4. /\ at' \in [Run -> Place] /\ job' \in [Run -> Message]
          /\ seen' \in [Run -> Time]
          BY <1>1, <1>c DEF UpsertAccess, Finish
    <2> QED BY <1>1, <2>2, <2>3, <2>4 DEF UpsertAccess, TypeOK
  <1>2. ASSUME NEW u, NEW row \in RoleRow, WriteRole(r, u, row),
               at[r] # "idle", \/ Finish(r, m)
                               \/ Goto(r, "read new", m, 0) /\ UNCHANGED handled
        PROVE  TypeOK'
    <2>1. handled' \subseteq sent
          BY <1>2, <1>d DEF TypeOK
    <2>2. /\ at' \in [Run -> Place] /\ job' \in [Run -> Message]
          /\ seen' \in [Run -> Time]
          BY <1>2, <1>c DEF Finish
    <2> QED BY <1>2, <1>e, <2>1, <2>2 DEF WriteRole, TypeOK
  <1>3. CASE UpsertRole(r) \/ UpsertOwner(r)
        BY <1>2, <1>3, <1>f DEF UpsertRole, UpsertOwner
  <1>4. CASE DeleteRole(r) \/ DropOldOwner(r)
        BY <1>2, <1>4, <1>f DEF DeleteRole, DropOldOwner
  <1>5. CASE ReadNewOwner(r)
    <2>1. m.user \in User
          BY <1>5, <1>b DEF ReadNewOwner
    <2>2. handled' \subseteq sent /\ unread' \in BOOLEAN
          BY <1>5, <1>d DEF ReadNewOwner, Skip, TypeOK
    <2>3. /\ at' \in [Run -> Place] /\ job' \in [Run -> Message]
          /\ seen' \in [Run -> Time]
          BY <1>0, <1>5, <1>c, <2>1, RowTimes, GotoTypes
          DEF ReadNewOwner, Skip, Finish, Place
    <2> QED BY <1>5, <2>2, <2>3 DEF ReadNewOwner, tables, TypeOK
  <1>7. CASE UpsertSettings(r)
    <2>1. settings' \in SettingsRow
          BY <1>0, <1>7, RowTimes DEF UpsertSettings, Patched, SettingsRow
    <2>2. handled' \subseteq sent
          BY <1>7, <1>d DEF UpsertSettings
    <2>3. /\ at' \in [Run -> Place] /\ job' \in [Run -> Message]
          /\ seen' \in [Run -> Time]
          BY <1>7, <1>c DEF UpsertSettings, Finish
    <2> QED BY <1>7, <2>1, <2>2, <2>3 DEF UpsertSettings, TypeOK
  <1>8. ASSUME NEW t \in Table, Wipe(r, t) PROVE TypeOK'
    <2>1. /\ access' \in [User -> Time] /\ latest' \in [User -> Time]
          /\ role' \in [User -> RoleRow] /\ settings' \in SettingsRow
          BY <1>8, Values DEF Wipe, TypeOK
    <2>2. left' \in [Run -> SUBSET Table]
          BY <1>8 DEF Wipe, TypeOK
    <2>3. handled' \subseteq sent
          BY <1>8, <1>d DEF Wipe, TypeOK
    <2>4. /\ at' \in [Run -> Place] /\ job' \in [Run -> Message]
          /\ seen' \in [Run -> Time]
          BY <1>8, <1>c DEF Wipe, Finish, TypeOK
    <2> QED BY <1>8, <2>1, <2>2, <2>3, <2>4 DEF Wipe, TypeOK
  <1>9. CASE Fail(r)
    <2>1. /\ at' \in [Run -> Place] /\ job' \in [Run -> Message]
          /\ seen' \in [Run -> Time]
          BY <1>9, <1>c DEF Fail
    <2>2. left' \in [Run -> SUBSET Table] /\ faults' \in Nat
          BY <1>9 DEF Fail, TypeOK
    <2> QED BY <1>9, <2>1, <2>2 DEF Fail, tables, TypeOK
  <1> QED BY <1>1, <1>3, <1>4, <1>5, <1>7, <1>8, <1>9 DEF Continue

LEMMA StepTypes == TypeOK /\ SentInv /\ JobInv /\ [Next]_vars => TypeOK'
  <1> SUFFICES ASSUME TypeOK, SentInv, JobInv, [Next]_vars PROVE TypeOK'
      OBVIOUS
  <1>1. CASE Tick
        BY <1>1, ProjectionAssumption DEF Tick, TypeOK, Time, tables
  <1>2. ASSUME NEW m \in Announcement, Send(m) PROVE TypeOK'
        BY <1>2, AnnouncementsFit DEF Send, TypeOK, tables
  <1>3. ASSUME NEW r \in Run, NEW m \in sent, Deliver(r, m) PROVE TypeOK'
        BY <1>3, DeliverTypes
  <1>4. ASSUME NEW r \in Run, Continue(r) \/ Fail(r) PROVE TypeOK'
        BY <1>4, ContinueTypes
  <1>5. CASE UNCHANGED vars     BY <1>5 DEF vars, tables, TypeOK
  <1> QED BY <1>1, <1>2, <1>3, <1>4, <1>5 DEF Next
-----------------------------------------------------------------------------
(* What is announced.                                                      *)
LEMMA SentStep ==
    TypeOK /\ SentInv /\ [Next]_vars => SentInv' /\ sent \subseteq sent' /\ now <= now'
  <1> SUFFICES ASSUME TypeOK, SentInv, [Next]_vars
               PROVE  SentInv' /\ sent \subseteq sent' /\ now <= now'
      OBVIOUS
  <1>0. now \in Nat /\ \A m \in sent : m.at \in Nat
        BY RowTimes DEF TypeOK, Time
  <1>1. CASE Tick
    <2>1. now' = now + 1 /\ sent' = sent
          BY <1>1 DEF Tick
    <2> QED BY <1>0, <2>1 DEF SentInv
  <1>2. ASSUME NEW m \in Announcement, Send(m)
        PROVE  SentInv' /\ sent \subseteq sent' /\ now <= now'
        BY <1>0, <1>2, AnnouncementsFit DEF Send, SentInv
  <1>3. ASSUME UNCHANGED <<now, sent>>
        PROVE  SentInv' /\ sent \subseteq sent' /\ now <= now'
        BY <1>0, <1>3 DEF SentInv
  <1>4. ASSUME NEW r \in Run, NEW m \in sent, Deliver(r, m)
        PROVE  UNCHANGED <<now, sent>>
        BY <1>4
        DEF Deliver, HandleUserAccessChanged, HandleRoleAssigned,
            HandleRoleRemoved, HandleRole, HandleOwnerChanged,
            HandleEventCreated, HandleEventUpdated, HandleEventDeleted,
            Delivered
  <1>5. ASSUME NEW r \in Run, Continue(r) \/ Fail(r)
        PROVE  UNCHANGED <<now, sent>>
        BY <1>5
        DEF Continue, UpsertAccess, UpsertRole, DeleteRole, DropOldOwner,
            ReadNewOwner, UpsertOwner, UpsertSettings, Wipe, WriteRole, Fail
  <1>6. CASE UNCHANGED vars     BY <1>3, <1>6 DEF vars
  <1> QED BY <1>1, <1>2, <1>3, <1>4, <1>5, <1>6 DEF Next

(* A handler that is suspended, or resumed, still fits its message.        *)
JobFits(r) ==
    at[r] # "idle" =>
        /\ job[r] \in sent
        /\ at[r] \in {"upsert access", "upsert role", "drop old", "read new",
                      "upsert owner"} => job[r].user \in User
        /\ at[r] \in {"upsert access", "upsert role", "upsert owner",
                      "upsert settings"} => ~Stale(job[r], seen[r])

LEMMA GotoFits ==
    ASSUME TypeOK, NEW r \in Run, NEW place, NEW m \in sent, NEW stamp,
           Goto(r, place, m, stamp), JobInv, sent \subseteq sent',
           place \in {"upsert access", "upsert role", "drop old", "read new",
                     "upsert owner"} => m.user \in User,
           place \in {"upsert access", "upsert role", "upsert owner",
                     "upsert settings"} => ~Stale(m, stamp)
    PROVE  JobInv'
  <1> SUFFICES ASSUME NEW q \in Run PROVE JobFits(q)'
      BY DEF JobInv, JobFits
  <1>1. CASE q = r
        BY <1>1 DEF Goto, TypeOK, JobFits, Stale
  <1>2. CASE q # r
    <2>1. UNCHANGED <<at[q], job[q], seen[q]>>
          BY <1>2 DEF Goto, TypeOK
    <2> QED BY <2>1 DEF JobInv, JobFits, Stale
  <1> QED BY <1>1, <1>2

LEMMA ReleaseFits ==
    ASSUME TypeOK, NEW r \in Run, Release(r), JobInv, sent \subseteq sent'
    PROVE  JobInv'
  <1> SUFFICES ASSUME NEW q \in Run PROVE JobFits(q)'
      BY DEF JobInv, JobFits
  <1>1. CASE q = r
        BY <1>1 DEF Release, TypeOK, JobFits
  <1>2. CASE q # r
    <2>1. UNCHANGED <<at[q], job[q], seen[q]>>
          BY <1>2 DEF Release, TypeOK
    <2> QED BY <2>1 DEF JobInv, JobFits, Stale
  <1> QED BY <1>1, <1>2

LEMMA IdleFits ==
    ASSUME UNCHANGED <<at, job, seen>>, JobInv, sent \subseteq sent'
    PROVE  JobInv'
  BY DEF JobInv, Stale

LEMMA StepJobs == ProjectionInv /\ [Next]_vars => JobInv'
  <1> SUFFICES ASSUME ProjectionInv, [Next]_vars PROVE JobInv'
      OBVIOUS
  <1> USE DEF ProjectionInv
  <1>0. sent \subseteq sent'
        BY SentStep
  <1>1. CASE Tick \/ UNCHANGED vars \/ \E m \in Announcement : Send(m)
        BY <1>0, <1>1, IdleFits DEF Tick, Send, vars
  <1>2. ASSUME NEW r \in Run, NEW m \in sent, Deliver(r, m) PROVE JobInv'
    <2>0. m.kind \in Plain => m.user \in User
          BY DEF SentInv
    <2>1. CASE HandleUserAccessChanged(r, m)
          BY <1>0, <2>0, <2>1, GotoFits, ReleaseFits
          DEF HandleUserAccessChanged, Finish, Delivered, Plain
    <2>2. CASE HandleRole(r, m, "assigned", "upsert role")
          BY <1>0, <2>0, <2>2, GotoFits, ReleaseFits
          DEF HandleRole, Skip, Finish, Delivered, Plain
    <2>3. CASE HandleRole(r, m, "removed", "delete role")
          BY <1>0, <2>0, <2>3, GotoFits, ReleaseFits
          DEF HandleRole, Skip, Finish, Delivered, Plain
    <2>4. CASE HandleOwnerChanged(r, m)
          BY <1>0, <2>0, <2>4, GotoFits
          DEF HandleOwnerChanged, Delivered, Plain
    <2>5. CASE HandleEventCreated(r, m)
          BY <1>0, <2>5, ReleaseFits DEF HandleEventCreated, Finish
    <2>6. CASE HandleEventUpdated(r, m)
          BY <1>0, <2>6, GotoFits, ReleaseFits
          DEF HandleEventUpdated, Skip, Finish
    <2>7. CASE HandleEventDeleted(r, m)
          BY <1>0, <2>7, GotoFits DEF HandleEventDeleted
    <2> QED BY <1>2, <2>1, <2>2, <2>3, <2>4, <2>5, <2>6, <2>7
            DEF Deliver, HandleRoleAssigned, HandleRoleRemoved
  <1>3. ASSUME NEW r \in Run, Continue(r) \/ Fail(r) PROVE JobInv'
    <2>0. at[r] # "idle" => job[r] \in sent
          BY DEF JobInv
    <2>1. CASE \/ UpsertAccess(r) \/ UpsertRole(r) \/ DeleteRole(r)
               \/ UpsertOwner(r) \/ UpsertSettings(r) \/ Fail(r)
          BY <1>0, <2>1, ReleaseFits
          DEF UpsertAccess, UpsertRole, DeleteRole, UpsertOwner,
              UpsertSettings, Fail, Finish
    <2>2. CASE DropOldOwner(r)
      <3>1. Goto(r, "read new", job[r], 0) /\ job[r] \in sent
            BY <2>0, <2>2 DEF DropOldOwner
      <3>2. job[r].user \in User
            BY <2>2 DEF JobInv, DropOldOwner
      <3> QED BY <1>0, <3>1, <3>2, GotoFits
    <2>3. CASE ReadNewOwner(r)
      <3>1. job[r] \in sent /\ job[r].user \in User
            BY <2>3 DEF JobInv, ReadNewOwner
      <3> QED BY <1>0, <2>3, <3>1, GotoFits, ReleaseFits
              DEF ReadNewOwner, Skip, Finish
    <2>4. ASSUME NEW t \in Table, Wipe(r, t) PROVE JobInv'
          BY <1>0, <2>4, ReleaseFits, IdleFits DEF Wipe, Finish
    <2> QED BY <1>3, <2>1, <2>2, <2>3, <2>4 DEF Continue
  <1> QED BY <1>1, <1>2, <1>3 DEF Next

(* Rows are stamped no earlier than what they were made from.              *)
LEMMA StepRows == ProjectionInv /\ [Next]_vars => RowInv'
  <1> SUFFICES ASSUME ProjectionInv, [Next]_vars PROVE RowInv'
      OBVIOUS
  <1> USE DEF ProjectionInv
  <1>0. now \in Nat /\ \A m \in sent : m.at \in Nat /\ m.at <= now
        BY RowTimes DEF TypeOK, Time, SentInv
  <1>a. now <= now' /\ now' \in Nat /\ settings.stamp \in Nat
        BY SentStep, StepTypes, RowTimes DEF TypeOK, Time
  <1>1. ASSUME UNCHANGED <<role, settings>> PROVE RowInv'
        BY <1>0, <1>a, <1>1 DEF RowInv
  <1>2. ASSUME NEW r \in Run, NEW u, NEW row \in RoleRow, WriteRole(r, u, row),
               row.from <= row.stamp
        PROVE  RowInv'
        BY <1>2 DEF RowInv, WriteRole, TypeOK
  <1>3. ASSUME NEW r \in Run, NEW m \in sent, Deliver(r, m) PROVE RowInv'
    <2>1. CASE HandleEventCreated(r, m)
      <3>1. /\ m.at <= now
            /\ settings' = [from |-> [f \in Field |-> m.at], stamp |-> now]
            /\ UNCHANGED <<now, role>>
            BY <1>0, <2>1 DEF HandleEventCreated, Delivered
      <3> QED BY <1>0, <3>1 DEF RowInv
    <2>2. CASE ~HandleEventCreated(r, m)
      <3>1. UNCHANGED tables
            BY <1>3, <2>2
            DEF Deliver, HandleUserAccessChanged, HandleRoleAssigned,
                HandleRoleRemoved, HandleRole, HandleOwnerChanged,
                HandleEventUpdated, HandleEventDeleted
      <3> QED BY <1>1, <3>1 DEF tables
    <2> QED BY <2>1, <2>2
  <1>4. ASSUME NEW r \in Run, Continue(r) \/ Fail(r) PROVE RowInv'
    <2>0. at[r] # "idle" => /\ job[r].at \in Nat /\ job[r].at <= now
                            /\ Written(job[r]) \in RoleRow
          BY <1>0, RowTimes DEF JobInv, TypeOK, Written, RoleRow
    <2>1. CASE UpsertRole(r) \/ UpsertOwner(r)
      <3>1. Written(job[r]).from <= Written(job[r]).stamp
            BY <2>0, <2>1 DEF UpsertRole, UpsertOwner, Written
      <3> QED BY <1>2, <2>0, <2>1, <3>1 DEF UpsertRole, UpsertOwner
    <2>2. CASE DeleteRole(r) \/ DropOldOwner(r)
      <3>1. NoRole.from <= NoRole.stamp
            BY DEF NoRole
      <3> QED BY <1>2, <2>2, <3>1, Values DEF DeleteRole, DropOldOwner
    <2>3. CASE UpsertSettings(r)
      <3>1. \A f \in Field : settings.from[f] <= now
            BY <1>0, RowTimes DEF RowInv, Time
      <3>2. /\ settings' = [from |-> Patched(job[r]), stamp |-> now]
            /\ UNCHANGED <<now, role>> /\ job[r].at <= now
            BY <2>0, <2>3 DEF UpsertSettings
      <3>3. \A f \in Field : Patched(job[r])[f] <= now
            BY <3>1, <3>2 DEF Patched
      <3> QED BY <1>0, <3>2, <3>3 DEF RowInv
    <2>4. ASSUME NEW t \in Table, Wipe(r, t) PROVE RowInv'
      <3>1. /\ now' = now
            /\ role' = role \/ role' = [u \in User |-> NoRole]
            /\ settings' = settings \/ settings' = NoSettings
            BY <2>4 DEF Wipe
      <3> QED BY <1>0, <3>1 DEF RowInv, NoRole, NoSettings
    <2>5. CASE UpsertAccess(r) \/ ReadNewOwner(r) \/ Fail(r)
          BY <1>1, <2>5 DEF UpsertAccess, ReadNewOwner, Fail, tables
    <2> QED BY <1>4, <2>1, <2>2, <2>3, <2>4, <2>5 DEF Continue
  <1>5. CASE Tick \/ UNCHANGED vars \/ \E m \in Announcement : Send(m)
        BY <1>1, <1>5 DEF Tick, Send, vars, tables
  <1> QED BY <1>3, <1>4, <1>5 DEF Next

(* Only an upsert and a skipped older message touch the newest change.     *)
LEMMA StepAccess == ProjectionInv /\ [Next]_vars => AccessInv'
  <1> SUFFICES ASSUME ProjectionInv, [Next]_vars PROVE AccessInv'
      OBVIOUS
  <1> USE DEF ProjectionInv
  <1>0. /\ \A m \in sent : m.at \in Nat
        /\ \A u \in User : access[u] \in Nat /\ latest[u] \in Nat
        BY RowTimes DEF TypeOK, Time
  <1>1. ASSUME UNCHANGED <<access, latest, raced>> PROVE AccessInv'
        BY <1>1 DEF AccessInv
  <1>2. ASSUME NEW r \in Run, NEW m \in sent, HandleUserAccessChanged(r, m),
               Stale(m, access[m.user]), AccessHandled(m.user, m.at)
        PROVE  AccessInv'
    <2>1. UNCHANGED <<access, raced>>
          BY <1>2 DEF HandleUserAccessChanged, tables
    <2>2. ASSUME NEW u \in User \ raced PROVE latest'[u] = latest[u]
      <3>1. CASE u = m.user
        <4>1. m.at < access[u] /\ access[u] = latest[u]
              BY <1>2, <2>2, <3>1 DEF Stale, AccessInv
        <4> QED BY <1>0, <1>2, <3>1, <4>1 DEF AccessHandled, Later, TypeOK
      <3>2. CASE u # m.user
            BY <1>2, <3>2 DEF AccessHandled, TypeOK
      <3> QED BY <3>1, <3>2
    <2> QED BY <2>1, <2>2 DEF AccessInv
  <1>3. ASSUME NEW r \in Run, UpsertAccess(r) PROVE AccessInv'
    <2> DEFINE m == job[r]
    <2>0. m \in sent /\ m.user \in User /\ ~Stale(m, seen[r])
          BY <1>3 DEF JobInv, UpsertAccess
    <2>1. ASSUME NEW u \in User \ raced' PROVE access'[u] = latest'[u]
      <3>1. CASE u = m.user
        <4>1. access[u] = seen[r] /\ access[u] = latest[u]
              BY <1>3, <2>1, <3>1 DEF UpsertAccess, AccessInv
        <4>2. latest[u] = 0 \/ latest[u] <= m.at
              BY <1>0, <2>0, <4>1 DEF Stale
        <4>3. access'[u] = m.at /\ latest'[u] = Later(latest[u], m.at)
              BY <1>3, <3>1 DEF UpsertAccess, AccessHandled, TypeOK
        <4> QED BY <1>0, <2>0, <4>2, <4>3 DEF Later
      <3>2. CASE u # m.user
        <4>1. access'[u] = access[u] /\ latest'[u] = latest[u] /\ u \notin raced
              BY <1>3, <2>1, <3>2 DEF UpsertAccess, AccessHandled, TypeOK
        <4> QED BY <4>1 DEF AccessInv
      <3> QED BY <3>1, <3>2
    <2> QED BY <2>1 DEF AccessInv
  <1>4. ASSUME NEW r \in Run, NEW t \in Table, Wipe(r, t) PROVE AccessInv'
        BY <1>1, <1>4 DEF Wipe, AccessInv
  <1>5. ASSUME NEW r \in Run, NEW m \in sent, Deliver(r, m) PROVE AccessInv'
        BY <1>1, <1>2, <1>5
        DEF Deliver, HandleUserAccessChanged, HandleRoleAssigned,
            HandleRoleRemoved, HandleRole, HandleOwnerChanged,
            HandleEventCreated, HandleEventUpdated, HandleEventDeleted, tables
  <1>6. ASSUME NEW r \in Run, Continue(r) \/ Fail(r) PROVE AccessInv'
        BY <1>1, <1>3, <1>4, <1>6
        DEF Continue, UpsertRole, DeleteRole, DropOldOwner, ReadNewOwner,
            UpsertOwner, UpsertSettings, WriteRole, Fail, tables
  <1>7. CASE Tick \/ UNCHANGED vars \/ \E m \in Announcement : Send(m)
        BY <1>1, <1>7 DEF Tick, Send, vars, tables
  <1> QED BY <1>5, <1>6, <1>7 DEF Next

LEMMA ProjectionInvariant == Spec => []ProjectionInv
  <1>1. ProjectionInv /\ [Next]_vars => ProjectionInv'
        BY StepTypes, SentStep, StepJobs, StepRows, StepAccess
        DEF ProjectionInv
  <1> QED BY <1>1, InitHolds, PTL DEF Spec

-----------------------------------------------------------------------------
(* Every reachable state is well typed.                                    *)
THEOREM ProjectionTypeCorrect == Spec => []TypeOK
  <1>1. ProjectionInv => TypeOK
        BY DEF ProjectionInv
  <1> QED BY <1>1, ProjectionInvariant, PTL

(* In whatever order access changes arrive, and however often, a user's    *)
(* permissions are those of the newest one handled, unless two handlers of *)
(* the user overlapped.                                                    *)
THEOREM NewestPermissions == Spec => []PermissionsAreNewest
  <1>1. ProjectionInv => PermissionsAreNewest
    <2> SUFFICES ASSUME ProjectionInv PROVE PermissionsAreNewest
        OBVIOUS
    <2> QED BY DEF ProjectionInv, AccessInv, PermissionsAreNewest, Permissions
  <1> QED BY <1>1, ProjectionInvariant, PTL

(* An older role replaces a newer one only in a handler that read the row  *)
(* before its last write.                                                  *)
THEOREM RolesGoForward == Spec => RolesGoBackInRacesOnly
  <1>1. ASSUME ProjectionInv, [Next]_vars, NEW u \in User PROVE RoleOrder(u)
    <2> DEFINE Raced == \E r \in Run :
                   /\ at[r] \in {"upsert role", "upsert owner"}
                   /\ job[r].user = u /\ seen[r] # role[u].stamp
                   /\ at'[r] = "idle"
    <2> SUFFICES ASSUME RoleGoesBack(u) PROVE Raced
        BY DEF RoleOrder
    <2> USE <1>1 DEF ProjectionInv
    <2>0. /\ role[u].from \in Nat /\ role[u].stamp \in Nat
          /\ role[u].from <= role[u].stamp
          /\ role'[u].from < role[u].from /\ role'[u].stamp # 0
          BY RowTimes DEF RoleGoesBack, RowInv, Time
    <2>1. role'[u] # role[u] /\ role'[u] # NoRole
          BY <2>0 DEF NoRole
    <2>2. ASSUME NEW r \in Run, UpsertRole(r) \/ UpsertOwner(r) PROVE Raced
      <3>1. /\ at[r] \in {"upsert role", "upsert owner"} /\ at'[r] = "idle"
            /\ job[r].user = u /\ role'[u] = Written(job[r])
            BY <2>1, <2>2 DEF UpsertRole, UpsertOwner, WriteRole, Finish,
                              Release, TypeOK
      <3>2. job[r] \in sent /\ ~Stale(job[r], seen[r])
            BY <3>1 DEF JobInv
      <3>3. job[r].at \in Nat /\ job[r].at < role[u].from
        <4>1. job[r] \in Message
              BY <3>2 DEF TypeOK
        <4>2. job[r].at \in Nat
              BY <4>1, RowTimes DEF Time
        <4>3. role'[u].from = job[r].at
          <5>1. Written(job[r]).from = job[r].at
                BY DEF Written
          <5> QED BY <3>1, <5>1, Zenon
        <4> QED BY <2>0, <4>2, <4>3
      <3>4. seen[r] # role[u].stamp
            BY <2>0, <3>2, <3>3 DEF Stale
      <3> QED BY <3>1, <3>4
    <2>3. ASSUME NEW r \in Run, DeleteRole(r) \/ DropOldOwner(r) PROVE FALSE
          BY <2>1, <2>3 DEF DeleteRole, DropOldOwner, WriteRole, TypeOK
    <2>4. ASSUME NEW r \in Run, NEW t \in Table, Wipe(r, t) PROVE FALSE
          BY <2>1, <2>4 DEF Wipe
    <2>5. ASSUME NEW r \in Run, NEW m \in sent, Deliver(r, m) PROVE FALSE
          BY <2>1, <2>5
          DEF Deliver, HandleUserAccessChanged, HandleRoleAssigned,
              HandleRoleRemoved, HandleRole, HandleOwnerChanged,
              HandleEventCreated, HandleEventUpdated, HandleEventDeleted,
              tables
    <2>6. ASSUME NEW r \in Run, \/ UpsertAccess(r) \/ ReadNewOwner(r)
                                \/ UpsertSettings(r) \/ Fail(r)
          PROVE  FALSE
          BY <2>1, <2>6 DEF UpsertAccess, ReadNewOwner, UpsertSettings, Fail,
                            tables
    <2>7. ASSUME Tick \/ UNCHANGED vars \/ \E m \in Announcement : Send(m)
          PROVE  FALSE
          BY <2>1, <2>7 DEF Tick, Send, vars, tables
    <2> QED BY <2>2, <2>3, <2>4, <2>5, <2>6, <2>7 DEF Next, Continue
  <1>2. ProjectionInv /\ [Next]_vars => [\A u \in User : RoleOrder(u)]_vars
        BY <1>1
  <1> QED BY <1>2, ProjectionInvariant, PTL DEF Spec, RolesGoBackInRacesOnly

(* A setting goes back only by event.created, by a deletion, or in a       *)
(* handler that read the row before its last write.                        *)
THEOREM SettingsGoForward == Spec => SettingsGoBackByCreationOnly
  <1>1. ASSUME ProjectionInv, [Next]_vars PROVE SettingsOrder
    <2> USE <1>1 DEF ProjectionInv
    <2> SUFFICES ASSUME NEW f \in Field,
                        settings'.from[f] < settings.from[f]
                 PROVE  \/ settings' = NoSettings
                        \/ \E r \in Run, m \in sent : HandleEventCreated(r, m)
                        \/ \E r \in Run : /\ at[r] = "upsert settings"
                                          /\ seen[r] # settings.stamp
                                          /\ at'[r] = "idle"
        BY DEF SettingsOrder
    <2>0. /\ settings.from[f] \in Nat /\ settings.stamp \in Nat
          /\ settings.from[f] <= settings.stamp
          BY RowTimes DEF RowInv, Time
    <2>1. settings' # settings
          BY <2>0
    <2>2. ASSUME NEW r \in Run, UpsertSettings(r) PROVE seen[r] # settings.stamp
      <3>1. job[r] \in sent /\ ~Stale(job[r], seen[r])
            BY <2>2 DEF JobInv, UpsertSettings
      <3>2. job[r] \in Message
            BY <3>1 DEF TypeOK
      <3>3. job[r].at \in Nat
            BY <3>2, RowTimes DEF Time
      <3>4. settings'.from[f] = job[r].at \/ settings'.from[f] = settings.from[f]
            BY <2>2 DEF UpsertSettings, Patched
      <3> QED BY <2>0, <3>1, <3>3, <3>4 DEF Stale
    <2>3. ASSUME NEW r \in Run, UpsertSettings(r)
          PROVE  at[r] = "upsert settings" /\ at'[r] = "idle"
          BY <2>3 DEF UpsertSettings, Finish, Release, TypeOK
    <2>4. ASSUME NEW r \in Run, NEW t \in Table, Wipe(r, t)
          PROVE  settings' = NoSettings
          BY <2>1, <2>4 DEF Wipe
    <2>5. ASSUME NEW r \in Run, NEW m \in sent, Deliver(r, m)
          PROVE  HandleEventCreated(r, m)
          BY <2>1, <2>5
          DEF Deliver, HandleUserAccessChanged, HandleRoleAssigned,
              HandleRoleRemoved, HandleRole, HandleOwnerChanged,
              HandleEventUpdated, HandleEventDeleted, tables
    <2>6. ASSUME NEW r \in Run,
                 \/ UpsertAccess(r) \/ UpsertRole(r) \/ DeleteRole(r)
                 \/ DropOldOwner(r) \/ ReadNewOwner(r) \/ UpsertOwner(r)
                 \/ Fail(r)
          PROVE  FALSE
          BY <2>1, <2>6
          DEF UpsertAccess, UpsertRole, DeleteRole, DropOldOwner,
              ReadNewOwner, UpsertOwner, WriteRole, Fail, tables
    <2>7. ASSUME Tick \/ UNCHANGED vars \/ \E m \in Announcement : Send(m)
          PROVE  FALSE
          BY <2>1, <2>7 DEF Tick, Send, vars, tables
    <2> QED BY <2>2, <2>3, <2>4, <2>5, <2>6, <2>7 DEF Next, Continue
  <1> QED BY <1>1, ProjectionInvariant, PTL
          DEF Spec, SettingsGoBackByCreationOnly

-----------------------------------------------------------------------------
(***************************************************************************)
(* Overlapping handlers are the one way to write over a row unseen: while  *)
(* one handler is at work at a time, what it read still holds when it      *)
(* writes.                                                                 *)
(***************************************************************************)
OneAtATime == \A p, r \in Run : p = r

SeenInv ==
    \A r \in Run :
        /\ at[r] = "upsert access" => seen[r] = access[job[r].user]
        /\ at[r] \in {"upsert role", "upsert owner"} =>
               seen[r] = role[job[r].user].stamp
        /\ at[r] = "upsert settings" => seen[r] = settings.stamp

Writing == {"upsert access", "upsert role", "upsert owner", "upsert settings"}

(* The handler leaves for a place where nothing it read counts.            *)
LEMMA SeenAway ==
  ASSUME TypeOK, OneAtATime, NEW r \in Run, NEW place,
         at' = [at EXCEPT ![r] = place], place \notin Writing
  PROVE  SeenInv'
  BY DEF TypeOK, OneAtATime, SeenInv, Writing

(* The handler has just read the row it is going to write.                 *)
LEMMA SeenNow ==
  ASSUME TypeOK, OneAtATime, NEW r \in Run, NEW place, NEW m, NEW stamp,
         Goto(r, place, m, stamp), UNCHANGED tables,
         place = "upsert access" => stamp = access[m.user],
         place \in {"upsert role", "upsert owner"} =>
             stamp = role[m.user].stamp,
         place = "upsert settings" => stamp = settings.stamp
  PROVE  SeenInv'
  <1>1. /\ at'[r] = place /\ job'[r] = m /\ seen'[r] = stamp
        /\ \A p \in Run : p = r
        BY DEF TypeOK, OneAtATime, Goto
  <1> QED BY <1>1 DEF SeenInv, tables

LEMMA SeenStep ==
  ASSUME TypeOK, OneAtATime, SeenInv, [Next]_vars
  PROVE  SeenInv'
  <1>1. ASSUME NEW r \in Run, Release(r) PROVE SeenInv'
        BY <1>1, SeenAway DEF Release, Writing
  <1>2. ASSUME NEW r \in Run, NEW m \in sent, HandleUserAccessChanged(r, m)
        PROVE  SeenInv'
        BY <1>1, <1>2, SeenNow DEF HandleUserAccessChanged, Finish
  <1>3. ASSUME NEW r \in Run, NEW m \in sent, NEW kind, NEW place,
               HandleRole(r, m, kind, place),
               place \in {"upsert role", "delete role"}
        PROVE  SeenInv'
        BY <1>1, <1>3, SeenNow DEF HandleRole, Skip, Finish
  <1>4. ASSUME NEW r \in Run, NEW m \in sent, HandleOwnerChanged(r, m)
        PROVE  SeenInv'
    <2>1. PICK place \in {"read new", "drop old"} :
              at' = [at EXCEPT ![r] = place]
          BY <1>4 DEF HandleOwnerChanged, Goto
    <2> QED BY <2>1, SeenAway DEF Writing
  <1>5. ASSUME NEW r \in Run, NEW m \in sent, HandleEventUpdated(r, m)
        PROVE  SeenInv'
        BY <1>1, <1>5, SeenNow DEF HandleEventUpdated, Skip, Finish
  <1>6. ASSUME NEW r \in Run, NEW m \in sent,
               HandleEventCreated(r, m) \/ HandleEventDeleted(r, m)
        PROVE  SeenInv'
        BY <1>1, <1>6, SeenAway
        DEF HandleEventCreated, HandleEventDeleted, Finish, Goto, Writing
  <1>7. ASSUME NEW r \in Run,
               \/ UpsertAccess(r) \/ UpsertRole(r) \/ DeleteRole(r)
               \/ UpsertOwner(r) \/ UpsertSettings(r) \/ Fail(r)
        PROVE  SeenInv'
        BY <1>1, <1>7
        DEF UpsertAccess, UpsertRole, DeleteRole, UpsertOwner,
            UpsertSettings, Fail, Finish
  <1>8. ASSUME NEW r \in Run, DropOldOwner(r) PROVE SeenInv'
        BY <1>8, SeenAway DEF DropOldOwner, Goto, Writing
  <1>9. ASSUME NEW r \in Run, ReadNewOwner(r) PROVE SeenInv'
        BY <1>1, <1>9, SeenNow DEF ReadNewOwner, Skip, Finish
  <1>10. ASSUME NEW r \in Run, NEW t \in Table, Wipe(r, t) PROVE SeenInv'
    <2>1. at[r] = "wipe" /\ \A p \in Run : p = r
          BY <1>10 DEF Wipe, OneAtATime
    <2>2. Finish(r, job[r]) \/ at' = at
          BY <1>10 DEF Wipe
    <2> QED BY <1>1, <2>1, <2>2 DEF Finish, SeenInv
  <1>11. ASSUME Tick \/ UNCHANGED vars \/ \E m \in Announcement : Send(m)
         PROVE  SeenInv'
         BY <1>11 DEF Tick, Send, vars, tables, SeenInv
  <1> QED BY <1>2, <1>3, <1>4, <1>5, <1>6, <1>7, <1>8, <1>9, <1>10, <1>11
          DEF Next, Deliver, Continue, HandleRoleAssigned, HandleRoleRemoved

LEMMA SeenInvariant == OneAtATime => (Spec => [](ProjectionInv /\ SeenInv))
  <1> SUFFICES ASSUME OneAtATime PROVE Spec => [](ProjectionInv /\ SeenInv)
      OBVIOUS
  <1>1. Init => SeenInv
        BY DEF Init, SeenInv
  <1>2. ProjectionInv /\ SeenInv /\ [Next]_vars => SeenInv'
        BY SeenStep DEF ProjectionInv
  <1> QED BY <1>1, <1>2, ProjectionInvariant, PTL DEF Spec

(* While handlers do not overlap, an access row is always the newest       *)
(* change handled, in whatever order the messages come.                    *)
AccessIsNewest == \A u \in User : access[u] = latest[u]

THEOREM SerialAccessIsNewest == OneAtATime => (Spec => []AccessIsNewest)
  <1> SUFFICES ASSUME OneAtATime PROVE Spec => []AccessIsNewest
      OBVIOUS
  <1>1. Init => raced = {}
        BY DEF Init
  <1>2. SeenInv /\ raced = {} /\ [Next]_vars => (raced = {})'
    <2> SUFFICES ASSUME SeenInv, raced = {}, [Next]_vars PROVE raced' = {}
        OBVIOUS
    <2>1. ASSUME NEW r \in Run, UpsertAccess(r) PROVE raced' = {}
          BY <2>1 DEF UpsertAccess, SeenInv
    <2>2. ASSUME NEW r \in Run, NEW m \in sent, Deliver(r, m)
          PROVE  raced' = raced
          BY <2>2
          DEF Deliver, HandleUserAccessChanged, HandleRoleAssigned,
              HandleRoleRemoved, HandleRole, HandleOwnerChanged,
              HandleEventCreated, HandleEventUpdated, HandleEventDeleted
    <2>3. ASSUME NEW r \in Run,
                 \/ UpsertRole(r) \/ DeleteRole(r) \/ DropOldOwner(r)
                 \/ ReadNewOwner(r) \/ UpsertOwner(r) \/ UpsertSettings(r)
                 \/ Fail(r) \/ \E t \in Table : Wipe(r, t)
          PROVE  raced' = raced
          BY <2>3
          DEF UpsertRole, DeleteRole, DropOldOwner, ReadNewOwner,
              UpsertOwner, UpsertSettings, WriteRole, Fail, Wipe
    <2>4. ASSUME Tick \/ UNCHANGED vars \/ \E m \in Announcement : Send(m)
          PROVE  raced' = raced
          BY <2>4 DEF Tick, Send, vars
    <2> QED BY <2>1, <2>2, <2>3, <2>4 DEF Next, Continue
  <1>3. ProjectionInv /\ raced = {} => AccessIsNewest
        BY DEF ProjectionInv, AccessInv, AccessIsNewest
  <1> QED BY <1>1, <1>2, <1>3, SeenInvariant, PTL DEF Spec

(* While handlers do not overlap, no role is replaced by an older one.     *)
RolesNeverGoBack == [][\A u \in User : ~RoleGoesBack(u)]_vars

THEOREM SerialRolesGoForward == OneAtATime => (Spec => RolesNeverGoBack)
  <1> SUFFICES ASSUME OneAtATime PROVE Spec => RolesNeverGoBack
      OBVIOUS
  <1>1. /\ ProjectionInv /\ SeenInv
        /\ [Next]_vars /\ [\A u \in User : RoleOrder(u)]_vars
        => [\A u \in User : ~RoleGoesBack(u)]_vars
    <2> SUFFICES ASSUME SeenInv, \A u \in User : RoleOrder(u),
                        NEW u \in User, RoleGoesBack(u)
                 PROVE  FALSE
        BY DEF ProjectionInv
    <2>1. RoleOrder(u)
        OBVIOUS
    <2>2. PICK r \in Run : /\ at[r] \in {"upsert role", "upsert owner"}
                           /\ job[r].user = u /\ seen[r] # role[u].stamp
        BY <2>1 DEF RoleOrder
    <2>3. seen[r] = role[job[r].user].stamp
        BY <2>2 DEF SeenInv
    <2> QED BY <2>2, <2>3
  <1> QED BY <1>1, SeenInvariant, RolesGoForward, PTL
          DEF Spec, RolesGoBackInRacesOnly, RolesNeverGoBack
=============================================================================
