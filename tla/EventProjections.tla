-------------------------- MODULE EventProjections --------------------------
(***************************************************************************)
(* The projections of one event: who may do what (access), who has which   *)
(* role, and the event's settings.                                         *)
(*                                                                         *)
(* The event service owns these data and announces each change on a topic  *)
(* of its own; EventRoleHandler and EventSettingsHandler copy them into    *)
(* local tables.  Messages carry the time at which the change occurred.    *)
(* They may be delivered in any order, more than once, and by two          *)
(* instances at a time, and a handler looks at the row before it writes    *)
(* it, an await later.  An access row is compared by the occurredAt it     *)
(* stores; the other rows by updatedAt, the time at which they were        *)
(* written here, and event.created and a removed role are not compared at  *)
(* all or leave nothing to compare with.                                   *)
(***************************************************************************)
EXTENDS Naturals, FiniteSets

CONSTANTS
    User,        \* the users of the event
    Field,       \* the settings that change independently of each other
    Run,         \* handlers at work at a time
    Nobody,      \* no user: the event had no owner before
    MaxTime,     \* bound on the clock
    MaxSent,     \* bound on the messages of the event service
    MaxFaults    \* bound on handlers that die and on repeated deliveries

ASSUME ProjectionAssumption ==
    /\ Nobody \notin User
    /\ MaxTime \in Nat \ {0} /\ MaxSent \in Nat /\ MaxFaults \in Nat

VARIABLES
    now,         \* the clock, the same for both services
    sent,        \* messages of the event service
    handled,     \* messages that a handler finished
    \* The tables; a row with stamp 0 is not there:
    access,      \* occurredAt of each user's access row
    role,        \* each user's role row
    settings,    \* the settings row
    \* The handlers:
    at,          \* where each stands
    job,         \* the message it handles
    seen,        \* the stamp it read
    left,        \* the tables a deletion has not come to
    \* History:
    latest,      \* the newest access change handled since the last deletion
    raced,       \* users whose access row was written over unread
    unread,      \* a fresh message was skipped as stale
    faults

tables == <<access, role, settings>>
vars   == <<now, sent, handled, access, role, settings, at, job, seen, left,
            latest, raced, unread, faults>>

Time  == 0..MaxTime
Table == {"access", "role", "settings"}
Kind  == {"access", "assigned", "removed", "owner", "created", "updated",
          "deleted"}

Message == [kind : Kind, user : User \cup {Nobody}, old : User \cup {Nobody},
            fields : SUBSET Field, at : Time]
NoMessage == [kind |-> "created", user |-> Nobody, old |-> Nobody,
              fields |-> {}, at |-> 0]

\* What a row was made from (occurredAt of the message) and when it was written.
RoleRow     == [from : Time, stamp : Time]
SettingsRow == [from : [Field -> Time], stamp : Time]
NoRole      == [from |-> 0, stamp |-> 0]
NoSettings  == [from |-> [f \in Field |-> 0], stamp |-> 0]

Place == {"idle", "upsert access", "upsert role", "delete role",
          "drop old", "read new", "upsert owner", "upsert settings", "wipe"}

TypeOK ==
    /\ now \in Time \ {0}
    /\ sent \subseteq Message /\ handled \subseteq sent
    /\ access \in [User -> Time]
    /\ role \in [User -> RoleRow]
    /\ settings \in SettingsRow
    /\ at \in [Run -> Place] /\ job \in [Run -> Message]
    /\ seen \in [Run -> Time] /\ left \in [Run -> SUBSET Table]
    /\ latest \in [User -> Time] /\ raced \subseteq User
    /\ unread \in BOOLEAN /\ faults \in Nat

Init ==
    /\ now = 1 /\ sent = {} /\ handled = {}
    /\ access = [u \in User |-> 0]
    /\ role = [u \in User |-> NoRole]
    /\ settings = NoSettings
    /\ at = [r \in Run |-> "idle"] /\ job = [r \in Run |-> NoMessage]
    /\ seen = [r \in Run |-> 0] /\ left = [r \in Run |-> {}]
    /\ latest = [u \in User |-> 0] /\ raced = {}
    /\ unread = FALSE /\ faults = 0

-----------------------------------------------------------------------------
(* The event service and the clock.                                        *)
Tick ==
    /\ now < MaxTime /\ now' = now + 1
    /\ UNCHANGED <<sent, handled, tables, at, job, seen, left, latest, raced,
                   unread, faults>>

Announced(kind) == \E m \in sent : m.kind = kind

\* Nothing precedes the creation of an event and nothing follows its deletion;
\* an event may also have been created before this service came up.
Send(m) ==
    /\ Cardinality(sent) < MaxSent
    /\ m.at = now /\ m \notin sent
    /\ ~Announced("deleted")
    /\ m.kind = "created" => sent = {}
    /\ sent' = sent \cup {m}
    /\ UNCHANGED <<now, handled, tables, at, job, seen, left, latest, raced,
                   unread, faults>>

\* The messages with the fields their kind has.
Announcement ==
    LET Plain(kind, user, old, fields) ==
            [kind |-> kind, user |-> user, old |-> old, fields |-> fields,
             at |-> now]
    IN  {Plain(k, u, Nobody, {}) : k \in {"access", "assigned", "removed"},
                                   u \in User}
        \cup {Plain("owner", u, o, {}) : u \in User,
                                         o \in User \cup {Nobody}}
        \cup {Plain("updated", Nobody, Nobody, fs) : fs \in SUBSET Field \ {{}}}
        \cup {Plain("created", Nobody, Nobody, Field),
              Plain("deleted", Nobody, Nobody, {})}

-----------------------------------------------------------------------------
(* Handlers.                                                               *)
Goto(r, place, m, stamp) ==
    /\ at' = [at EXCEPT ![r] = place]
    /\ job' = [job EXCEPT ![r] = m]
    /\ seen' = [seen EXCEPT ![r] = stamp]

Release(r) ==
    /\ at' = [at EXCEPT ![r] = "idle"]
    /\ job' = [job EXCEPT ![r] = NoMessage]
    /\ seen' = [seen EXCEPT ![r] = 0]

\* The handler returns: the message is done with.
Finish(r, m) == Release(r) /\ handled' = handled \cup {m}

Later(a, b) == IF a < b THEN b ELSE a

InFlight(m) == \E r \in Run : at[r] # "idle" /\ job[r] = m

\* A delivery: the first, or, as a fault, one more.
Delivered(r, m, kind) ==
    LET again == m \in handled \/ InFlight(m)
    IN  /\ at[r] = "idle" /\ m \in sent /\ m.kind = kind
        /\ again => faults < MaxFaults
        /\ faults' = IF again THEN faults + 1 ELSE faults
        /\ UNCHANGED <<now, sent>>

\* Fault: every message is taken for a new one.
NeverStale(m, stamp) == stamp # 0 /\ m.at < 0

\* The test of the handlers that have one: an absent row is never newer.
Stale(m, stamp) == stamp # 0 /\ m.at < stamp

\* Fault: the message is acknowledged before it is known.
SkipUnknown(r, m, fresh) ==
    /\ Finish(r, job[r])
    /\ unread' = (unread \/ fresh)

\* The handler returns early; was the row really newer than the message?
Skip(r, m, fresh) ==
    /\ Finish(r, m)
    /\ unread' = (unread \/ fresh)

(* handleUserAccessChanged                                                 *)
AccessHandled(u, time) == latest' = [latest EXCEPT ![u] = Later(@, time)]

HandleUserAccessChanged(r, m) ==
    /\ Delivered(r, m, "access")
    /\ UNCHANGED <<tables, left, raced, unread>>
    /\ \/ /\ Stale(m, access[m.user])
          /\ Finish(r, m) /\ AccessHandled(m.user, m.at)
       \/ /\ ~Stale(m, access[m.user])
          /\ Goto(r, "upsert access", m, access[m.user])
          /\ UNCHANGED <<handled, latest>>

\* Fault: the row is stamped with the time of writing.
UpsertAccessStampsNow(r) ==
    LET m == job[r]
    IN  /\ at[r] = "upsert access"
        /\ access' = [access EXCEPT ![m.user] = now]
        /\ raced' = raced \cup {u \in {m.user} : access[u] # seen[r]}
        /\ AccessHandled(m.user, m.at) /\ Finish(r, m)
        /\ UNCHANGED <<now, sent, role, settings, left, unread, faults>>

UpsertAccess(r) ==
    LET m == job[r]
    IN  /\ at[r] = "upsert access"
        /\ access' = [access EXCEPT ![m.user] = m.at]
        /\ raced' = raced \cup {u \in {m.user} : access[u] # seen[r]}
        /\ AccessHandled(m.user, m.at) /\ Finish(r, m)
        /\ UNCHANGED <<now, sent, role, settings, left, unread, faults>>

(* handleRoleAssigned, handleRoleRemoved                                   *)
HandleRole(r, m, kind, place) ==
    /\ Delivered(r, m, kind)
    /\ UNCHANGED <<tables, left, latest, raced>>
    /\ \/ /\ Stale(m, role[m.user].stamp)
          /\ Skip(r, m, role[m.user].from < m.at)
       \/ /\ ~Stale(m, role[m.user].stamp)
          /\ Goto(r, place, m, role[m.user].stamp)
          /\ UNCHANGED <<handled, unread>>

HandleRoleAssigned(r, m) == HandleRole(r, m, "assigned", "upsert role")
HandleRoleRemoved(r, m)  == HandleRole(r, m, "removed", "delete role")

\* The updatedAt of a row is the time of its last write.
Written(m) == [from |-> m.at, stamp |-> now]

WriteRole(r, u, row) ==
    /\ role' = [role EXCEPT ![u] = row]
    /\ UNCHANGED <<now, sent, access, settings, left, latest, raced, unread,
                   faults>>

UpsertRole(r) ==
    /\ at[r] = "upsert role"
    /\ WriteRole(r, job[r].user, Written(job[r])) /\ Finish(r, job[r])

DeleteRole(r) ==
    /\ at[r] = "delete role"
    /\ WriteRole(r, job[r].user, NoRole) /\ Finish(r, job[r])

(* handleOwnerChanged: the old owner's role goes unless it is newer, then  *)
(* the new owner becomes ADMIN unless their role is newer.                 *)
HandleOwnerChanged(r, m) ==
    /\ Delivered(r, m, "owner")
    /\ UNCHANGED <<tables, handled, left, latest, raced, unread>>
    /\ LET keeps == m.old = Nobody \/ Stale(m, role[m.old].stamp)
       IN  Goto(r, IF keeps THEN "read new" ELSE "drop old", m, 0)

DropOldOwner(r) ==
    /\ at[r] = "drop old"
    /\ WriteRole(r, job[r].old, NoRole)
    /\ Goto(r, "read new", job[r], 0) /\ UNCHANGED handled

ReadNewOwner(r) ==
    LET m == job[r]
    IN  /\ at[r] = "read new"
        /\ UNCHANGED <<now, sent, tables, left, latest, raced, faults>>
        /\ \/ /\ Stale(m, role[m.user].stamp)
              /\ Skip(r, m, role[m.user].from < m.at)
           \/ /\ ~Stale(m, role[m.user].stamp)
              /\ Goto(r, "upsert owner", m, role[m.user].stamp)
              /\ UNCHANGED <<handled, unread>>

UpsertOwner(r) ==
    /\ at[r] = "upsert owner"
    /\ WriteRole(r, job[r].user, Written(job[r])) /\ Finish(r, job[r])

(* handleEventCreated: one upsert, whatever is there.                      *)
HandleEventCreated(r, m) ==
    /\ Delivered(r, m, "created")
    /\ settings' = [from |-> [f \in Field |-> m.at], stamp |-> now]
    /\ Finish(r, m)
    /\ UNCHANGED <<access, role, left, latest, raced, unread>>

(* handleEventUpdated: the fields of the message replace the row's.        *)
HandleEventUpdated(r, m) ==
    /\ Delivered(r, m, "updated")
    /\ UNCHANGED <<tables, left, latest, raced>>
    /\ \/ /\ Stale(m, settings.stamp)
          /\ Skip(r, m, \E f \in m.fields : settings.from[f] < m.at)
       \/ /\ ~Stale(m, settings.stamp)
          /\ Goto(r, "upsert settings", m, settings.stamp)
          /\ UNCHANGED <<handled, unread>>

Patched(m) ==
    [f \in Field |-> IF f \in m.fields THEN m.at ELSE settings.from[f]]

UpsertSettings(r) ==
    /\ at[r] = "upsert settings"
    /\ settings' = [from |-> Patched(job[r]), stamp |-> now]
    /\ Finish(r, job[r])
    /\ UNCHANGED <<now, sent, access, role, left, latest, raced, unread,
                   faults>>

(* handleEventDeleted: three deletes at once, which commit in any order.   *)
HandleEventDeleted(r, m) ==
    /\ Delivered(r, m, "deleted")
    /\ Goto(r, "wipe", m, 0)
    /\ left' = [left EXCEPT ![r] = Table]
    /\ UNCHANGED <<tables, handled, latest, raced, unread>>

Wipe(r, t) ==
    /\ at[r] = "wipe" /\ t \in left[r]
    /\ access' = IF t = "access" THEN [u \in User |-> 0] ELSE access
    /\ latest' = IF t = "access" THEN [u \in User |-> 0] ELSE latest
    /\ role' = IF t = "role" THEN [u \in User |-> NoRole] ELSE role
    /\ settings' = IF t = "settings" THEN NoSettings ELSE settings
    /\ left' = [left EXCEPT ![r] = @ \ {t}]
    /\ IF left[r] = {t} THEN Finish(r, job[r])
                        ELSE UNCHANGED <<at, job, seen, handled>>
    /\ UNCHANGED <<now, sent, raced, unread, faults>>

\* Fault: the message is acknowledged before the work is done.
FailAcknowledged(r) ==
    /\ at[r] # "idle" /\ faults < MaxFaults /\ faults' = faults + 1
    /\ Finish(r, job[r]) /\ left' = [left EXCEPT ![r] = {}]
    /\ UNCHANGED <<now, sent, tables, latest, raced, unread>>

\* A handler throws, or its process stops: the message will come again.
Fail(r) ==
    /\ at[r] # "idle" /\ faults < MaxFaults /\ faults' = faults + 1
    /\ Release(r) /\ left' = [left EXCEPT ![r] = {}]
    /\ UNCHANGED <<now, sent, handled, tables, latest, raced, unread>>

-----------------------------------------------------------------------------
Deliver(r, m) ==
    \/ HandleUserAccessChanged(r, m) \/ HandleRoleAssigned(r, m)
    \/ HandleRoleRemoved(r, m) \/ HandleOwnerChanged(r, m)
    \/ HandleEventCreated(r, m) \/ HandleEventUpdated(r, m)
    \/ HandleEventDeleted(r, m)

Continue(r) ==
    \/ UpsertAccess(r) \/ UpsertRole(r) \/ DeleteRole(r) \/ DropOldOwner(r)
    \/ ReadNewOwner(r) \/ UpsertOwner(r) \/ UpsertSettings(r)
    \/ \E t \in Table : Wipe(r, t)

Next ==
    \/ Tick
    \/ \E m \in Announcement : Send(m)
    \/ \E r \in Run : \/ \E m \in sent : Deliver(r, m)
                      \/ Continue(r)
                      \/ Fail(r)

Spec == Init /\ [][Next]_vars

DeliverNew ==
    \E r \in Run, m \in sent \ handled : ~InFlight(m) /\ Deliver(r, m)

\* Kafka delivers what was not handled, and a handler's calls return.
FairSpec ==
    /\ Spec
    /\ WF_vars(DeliverNew)
    /\ \A r \in Run : WF_vars(Continue(r))

-----------------------------------------------------------------------------
(* Properties.                                                             *)

(* InvitationEventRoleResolver.getPermissionsForUser: the access row, or   *)
(* else the defaults of the role.                                          *)
Permissions(u) ==
    IF access[u] # 0 THEN [source |-> "access", from |-> access[u]]
                     ELSE [source |-> "role", from |-> role[u].from]

(* Whatever the order in which access changes arrive, and however often,   *)
(* a user's permissions are those of the newest change handled since the   *)
(* event's projections were last deleted, and no role message overrides    *)
(* them: unless two handlers of one user overlapped.                       *)
PermissionsAreNewest ==
    \A u \in User \ raced :
        latest[u] # 0 =>
            Permissions(u) = [source |-> "access", from |-> latest[u]]

(* A role is replaced by an older one only by a handler that read the row  *)
(* before it was last written: the conservative comparison with updatedAt  *)
(* never takes an older message for a newer one.                           *)
RoleGoesBack(u) ==
    /\ role[u].stamp # 0 /\ role'[u].stamp # 0
    /\ role'[u].from < role[u].from

RoleOrder(u) ==
    RoleGoesBack(u) => \E r \in Run : /\ at[r] \in {"upsert role", "upsert owner"}
                                     /\ job[r].user = u
                                     /\ seen[r] # role[u].stamp
                                     /\ at'[r] = "idle"

RolesGoBackInRacesOnly == [][\A u \in User : RoleOrder(u)]_vars

(* A setting is replaced by an older one only by event.created, which is   *)
(* not compared, by a deletion, or by a handler that read the row before   *)
(* it was last written.                                                    *)
SettingsOrder ==
    (\E f \in Field : settings'.from[f] < settings.from[f]) =>
        \/ settings' = NoSettings
        \/ \E r \in Run, m \in sent : HandleEventCreated(r, m)
        \/ \E r \in Run : /\ at[r] = "upsert settings"
                          /\ seen[r] # settings.stamp
                          /\ at'[r] = "idle"

SettingsGoBackByCreationOnly == [][SettingsOrder]_vars

(* Every access change is, in the end, overtaken by its own or a newer     *)
(* row, in spite of reordering, repetition and handlers that die: until    *)
(* the event is deleted, or two handlers of one user overlapped.           *)
Behind(u) ==
    \E m \in sent : m.kind = "access" /\ m.user = u /\ access[u] < m.at

AccessCatchesUp ==
    \A u \in User :
        Behind(u) ~> (~Behind(u) \/ u \in raced \/ Announced("deleted"))

(* What is skipped as stale is no newer than what the row was made from,   *)
(* as "Skipping stale event.roleAssigned" says (event-role.handler.ts).    *)
SkippedIsStale == ~unread
=============================================================================
