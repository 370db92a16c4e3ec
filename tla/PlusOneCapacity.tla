-------------------------- MODULE PlusOneCapacity --------------------------
(***************************************************************************)
(* Plus-one capacity.                                                      *)
(*                                                                         *)
(* Plus-ones are child invitations.  The parent's column maxInvitees is    *)
(* not the limit but what remains of it: createPlusOne takes one off,      *)
(* deletePlusOne and deleteAllPlusOnes give back, updatePlusOneLimit sets  *)
(* it to the new limit less the plus-ones it counted.  reply,              *)
(* createFromPublicRsvp and create add plus-ones without taking anything   *)
(* off; delete, deleteMany and deleteByGuestId remove them without giving  *)
(* anything back.  All of them run concurrently, in transactions at        *)
(* PostgreSQL's default level (read committed): a count or a list read by  *)
(* a transaction may be out of date when the transaction writes.           *)
(*                                                                         *)
(* The operations whose first write is conditional, or fails when its row  *)
(* is gone, hold the row locks from there to the commit and are one step;  *)
(* the others are split between what they read and what they write.        *)
(***************************************************************************)
EXTENDS Integers, FiniteSets

CONSTANTS
    Parent,    \* invitations that may have plus-ones
    Kid,       \* ids of plus-ones, each used once
    Request,   \* slots for requests in flight
    None,      \* the target of an idle request
    MaxLimit   \* bound on the limits and on the plus-ones in one request

ASSUME CapacityAssumption ==
    /\ IsFiniteSet(Kid)
    /\ None \notin Parent
    /\ Parent \cap Kid = {}
    /\ MaxLimit \in Nat

VARIABLES
    live,      \* the parents in the table
    answered,  \* those whose RSVP is YES or NO
    room,      \* maxInvitees of each parent
    kids,      \* the plus-ones of each parent
    used,      \* the ids given to plus-ones so far
    at, job,   \* where each request stands, and its local variables
    \* The rest is bookkeeping that the code does not keep:
    limit,     \* the limit last set for the parent
    owed,      \* plus-ones added without taking capacity
    lost,      \* plus-ones removed without giving capacity back
    miscounted \* parents whose limit was set from an outdated count

table   == <<live, answered, room, kids, used>>
ledger  == <<limit, owed, lost, miscounted>>
vars    == <<live, answered, room, kids, used, at, job,
             limit, owed, lost, miscounted>>

(* target: the parent; count: the plus-ones a reply will create, or those  *)
(* that updatePlusOneLimit counted; max: the new limit; listed: those that *)
(* deleteAllPlusOnes found.                                                *)
Job   == [target : Parent \cup {None}, count : Nat, max : Nat,
          listed : SUBSET Kid]
NoJob == [target |-> None, count |-> 0, max |-> 0, listed |-> {}]

TypeOK ==
    /\ live \subseteq Parent
    /\ answered \subseteq Parent
    /\ room \in [Parent -> Int]
    /\ kids \in [Parent -> SUBSET Kid]
    /\ used \subseteq Kid
    /\ at \in [Request -> {"idle", "reply", "limit", "clear"}]
    /\ job \in [Request -> Job]
    /\ limit \in [Parent -> Int]
    /\ owed \in [Parent -> Nat]
    /\ lost \in [Parent -> Nat]
    /\ miscounted \subseteq Parent

Zero == [p \in Parent |-> 0]

Init ==
    /\ live = {} /\ answered = {} /\ used = {} /\ miscounted = {}
    /\ room = Zero /\ limit = Zero /\ owed = Zero /\ lost = Zero
    /\ kids = [p \in Parent |-> {}]
    /\ at = [q \in Request |-> "idle"]
    /\ job = [q \in Request |-> NoJob]

Fresh == Kid \ used

Goto(q, place, j) ==
    /\ at' = [at EXCEPT ![q] = place]
    /\ job' = [job EXCEPT ![q] = j]

Done(q) == Goto(q, "idle", NoJob)

(* A row p with n plus-ones of capacity and the plus-ones new, none of     *)
(* which was counted against the capacity.                                 *)
Insert(p, n, new) ==
    /\ p \notin live
    /\ \A q \in Request : job[q].target # p
    /\ live' = live \cup {p}
    /\ room' = [room EXCEPT ![p] = n]
    /\ limit' = [limit EXCEPT ![p] = n]
    /\ kids' = [kids EXCEPT ![p] = new]
    /\ used' = used \cup new
    /\ owed' = [owed EXCEPT ![p] = Cardinality(new)]
    /\ lost' = [lost EXCEPT ![p] = 0]
    /\ miscounted' = miscounted \ {p}
    /\ UNCHANGED <<at, job>>

(* Plus-ones that are added to p without taking capacity.                  *)
AddUncounted(p, new) ==
    /\ kids' = [kids EXCEPT ![p] = @ \cup new]
    /\ used' = used \cup new
    /\ owed' = [owed EXCEPT ![p] = @ + Cardinality(new)]
    /\ UNCHANGED <<live, room, limit, lost, miscounted>>

(* The plus-ones gone leave p, which gets back places.                     *)
GiveBack(p, gone, places) ==
    /\ kids' = [kids EXCEPT ![p] = @ \ gone]
    /\ room' = [room EXCEPT ![p] = @ + places]
    /\ UNCHANGED <<live, answered, used, ledger>>

-----------------------------------------------------------------------------
(* AdminWriteService.create and importInvitations.  create refuses a       *)
(* negative maxInvitees, the import stores Number(row.maxPlusOnes) as is.  *)
Create(p, n) ==
    /\ n \in 0..MaxLimit
    /\ Insert(p, n, {})
    /\ answered' = answered \ {p}

Import(p, n) ==
    /\ n \in -1..MaxLimit
    /\ Insert(p, n, {})
    /\ answered' = answered \ {p}

(* createFromPublicRsvp: the limit is the number of plus-ones brought      *)
(* along, and none of them is taken off it.                                *)
CreateFromPublicRsvp(p, new) ==
    /\ new \subseteq Fresh
    /\ Cardinality(new) <= MaxLimit
    /\ Insert(p, Cardinality(new), new)
    /\ answered' = answered \cup {p}

(* create with a parent (invitedByInvitationId): nothing is checked, and   *)
(* nothing taken off.                                                      *)
CreateUnder(p, k) ==
    /\ p \in live
    /\ k \in Fresh
    /\ AddUncounted(p, {k})
    /\ UNCHANGED <<answered, at, job>>

-----------------------------------------------------------------------------
(* createPlusOne: the conditional decrement locks the parent's row until   *)
(* the plus-one is committed.                                              *)
\* Fault: the capacity is only checked when the parent is read.
CreatePlusOneUnchecked(p, k) ==
    /\ p \in live
    /\ k \in Fresh
    /\ room' = [room EXCEPT ![p] = @ - 1]
    /\ kids' = [kids EXCEPT ![p] = @ \cup {k}]
    /\ used' = used \cup {k}
    /\ UNCHANGED <<live, answered, at, job, ledger>>

CreatePlusOne(p, k) ==
    /\ p \in live
    /\ room[p] > 0
    /\ k \in Fresh
    /\ room' = [room EXCEPT ![p] = @ - 1]
    /\ kids' = [kids EXCEPT ![p] = @ \cup {k}]
    /\ used' = used \cup {k}
    /\ UNCHANGED <<live, answered, at, job, ledger>>

(* deletePlusOne: deleting a row that is gone throws, and the increment is *)
(* rolled back with it.                                                    *)
DeletePlusOne(p, k) ==
    /\ p \in live
    /\ k \in kids[p]
    /\ GiveBack(p, {k}, 1)
    /\ UNCHANGED <<at, job>>

-----------------------------------------------------------------------------
(* deleteAllPlusOnes: the children are listed, deleted one by one, and as  *)
(* many places given back as were listed.                                  *)
ListPlusOnes(q, p) ==
    /\ at[q] = "idle"
    /\ p \in live
    /\ Goto(q, "clear", [NoJob EXCEPT !.target = p, !.listed = kids[p]])
    /\ UNCHANGED <<table, ledger>>

\* Fault: deleteMany, which does not mind a row that is gone.
DeleteListedLeniently(q) ==
    LET p == job[q].target IN
    /\ at[q] = "clear"
    /\ p \in live
    /\ GiveBack(p, job[q].listed, Cardinality(job[q].listed))
    /\ Done(q)

(* One that is gone, or a parent that is gone, rolls everything back.      *)
DeleteListed(q) ==
    LET p == job[q].target IN
    /\ at[q] = "clear"
    /\ p \in live
    /\ job[q].listed \subseteq kids[p]
    /\ GiveBack(p, job[q].listed, Cardinality(job[q].listed))
    /\ Done(q)

-----------------------------------------------------------------------------
(* updatePlusOneLimit: the assigned plus-ones are counted, then the        *)
(* remaining capacity is overwritten with the difference.                  *)
\* Fault: a limit below the plus-ones already assigned is taken.
CountPlusOnesUnchecked(q, p, max) ==
    /\ at[q] = "idle"
    /\ p \in live
    /\ Goto(q, "limit", [NoJob EXCEPT !.target = p, !.max = max,
                                      !.count = Cardinality(kids[p])])
    /\ UNCHANGED <<table, ledger>>

CountPlusOnes(q, p, max) ==
    /\ at[q] = "idle"
    /\ p \in live
    /\ max >= Cardinality(kids[p])
    /\ Goto(q, "limit", [NoJob EXCEPT !.target = p, !.max = max,
                                      !.count = Cardinality(kids[p])])
    /\ UNCHANGED <<table, ledger>>

SetLimit(q) ==
    LET j == job[q]  p == j.target IN
    /\ at[q] = "limit"
    /\ p \in live
    /\ room' = [room EXCEPT ![p] = j.max - j.count]
    /\ limit' = [limit EXCEPT ![p] = j.max]
    /\ owed' = [owed EXCEPT ![p] = 0]
    /\ lost' = [lost EXCEPT ![p] = 0]
    /\ miscounted' = IF j.count = Cardinality(kids[p])
                     THEN miscounted \ {p} ELSE miscounted \cup {p}
    /\ Done(q)
    /\ UNCHANGED <<live, answered, kids, used>>

-----------------------------------------------------------------------------
(* plusOnes.slice(0, maxInvitees): a negative bound counts from the end.   *)
\* Fault: a negative bound is taken for a length.
SliceLengthUnsigned(offered, bound) ==
    IF offered < bound THEN offered ELSE bound

SliceLength(offered, bound) ==
    IF bound < 0
    THEN IF offered + bound > 0 THEN offered + bound ELSE 0
    ELSE IF offered < bound THEN offered ELSE bound

(* reply: the plus-ones are cut to the capacity that was read before the   *)
(* transaction, which creates them and takes nothing off.  A NO comes      *)
(* without plus-ones.                                                      *)
ReplyRead(q, p, offered) ==
    /\ at[q] = "idle"
    /\ p \in live \ answered
    /\ Goto(q, "reply", [NoJob EXCEPT !.target = p,
                            !.count = SliceLength(offered, room[p])])
    /\ UNCHANGED <<table, ledger>>

ReplyCommit(q, new) ==
    LET p == job[q].target IN
    /\ at[q] = "reply"
    /\ p \in live
    /\ new \subseteq Fresh /\ Cardinality(new) = job[q].count
    /\ AddUncounted(p, new)
    /\ answered' = answered \cup {p}
    /\ Done(q)

-----------------------------------------------------------------------------
(* delete, deleteMany and deleteByEventIds: rows go, with a parent its     *)
(* plus-ones, and no capacity is given back.                               *)
Delete(ids) ==
    /\ ids # {}
    /\ ids \subseteq live \cup UNION {kids[p] : p \in live}
    /\ live' = live \ ids
    /\ kids' = [p \in Parent |-> IF p \in ids THEN {} ELSE kids[p] \ ids]
    /\ lost' = [p \in Parent |-> lost[p] + Cardinality(kids[p] \cap ids)]
    /\ UNCHANGED <<answered, room, used, at, job, limit, owed, miscounted>>

(* deleteByGuestId: the invitations of a guest and everything below them.  *)
(* A plus-one added after the tree was collected goes with its parent.     *)
InvitationTree(roots) == roots \cup UNION {kids[p] : p \in roots \cap live}

DeleteByGuestId(roots) == Delete(InvitationTree(roots))

(* A transaction is rolled back: its process stopped, the database or the  *)
(* broker failed, or a row it writes is gone.                              *)
Abort(q) ==
    /\ at[q] # "idle"
    /\ Done(q)
    /\ UNCHANGED <<table, ledger>>

RequestStep(q) ==
    \/ \E p \in Parent : ListPlusOnes(q, p)
    \/ \E p \in Parent, max \in 0..MaxLimit : CountPlusOnes(q, p, max)
    \/ \E p \in Parent, offered \in 0..MaxLimit : ReplyRead(q, p, offered)
    \/ DeleteListed(q)
    \/ SetLimit(q)
    \/ \E new \in SUBSET Kid : ReplyCommit(q, new)
    \/ Abort(q)

Next ==
    \/ \E q \in Request : RequestStep(q)
    \/ \E p \in Parent, n \in -1..MaxLimit : Create(p, n) \/ Import(p, n)
    \/ \E p \in Parent, new \in SUBSET Kid : CreateFromPublicRsvp(p, new)
    \/ \E p \in Parent, k \in Kid :
           CreateUnder(p, k) \/ CreatePlusOne(p, k) \/ DeletePlusOne(p, k)
    \/ \E ids \in SUBSET (Parent \cup Kid) : Delete(ids) \/ DeleteByGuestId(ids)

Spec == Init /\ [][Next]_vars

-----------------------------------------------------------------------------
Assigned(p) == Cardinality(kids[p])

(* The remaining capacity is never off by more than the operations that do *)
(* not keep it account for: what remains, plus the plus-ones assigned, is  *)
(* the limit, plus the uncounted additions, less the uncounted removals -  *)
(* however createPlusOne, deletePlusOne, deleteAllPlusOnes, replies and    *)
(* limit changes interleave, unless a limit was set from a stale count.    *)
CapacityAccounted ==
    \A p \in live \ miscounted :
        room[p] + Assigned(p) + lost[p] = limit[p] + owed[p]

(* The limit holds as long as every plus-one came through createPlusOne.   *)
PlusOnesWithinLimit ==
    \A p \in live \ miscounted :
        limit[p] >= 0 /\ owed[p] = 0 => Assigned(p) <= limit[p]

(* A capacity that was valid when it was stored never goes below zero, not *)
(* even when updatePlusOneLimit overwrites it from a stale count.          *)
RoomStaysValid == \A p \in live : limit[p] >= 0 => room[p] >= 0
=============================================================================
