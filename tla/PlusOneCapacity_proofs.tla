----------------------- MODULE PlusOneCapacity_proofs -----------------------
(***************************************************************************)
(* Machine-checked proofs about PlusOneCapacity, for any number of         *)
(* parents, plus-ones and concurrent requests, and any limit.              *)
(***************************************************************************)
EXTENDS PlusOneCapacity, FiniteSetTheorems, TLAPS

(***************************************************************************)
(* The inductive invariant.  That a plus-one's id was never used before    *)
(* makes every addition count as one; that a request in flight never       *)
(* counted more plus-ones than the limit it will set keeps the capacity    *)
(* from going below zero however stale the count is.                       *)
(***************************************************************************)
KidsAreUsed == \A p \in Parent : kids[p] \subseteq used

LedgerInv == KidsAreUsed /\ CapacityAccounted /\ RoomStaysValid

JobsValid == \A q \in Request : at[q] = "limit" => job[q].count <= job[q].max

CapacityInv == TypeOK /\ LedgerInv /\ JobsValid

-----------------------------------------------------------------------------
(* Counting finite sets of plus-ones.                                      *)
LEMMA KidSets ==
    ASSUME NEW S \in SUBSET Kid
    PROVE  IsFiniteSet(S) /\ Cardinality(S) \in Nat
    BY CapacityAssumption, FS_Subset, FS_CardinalityType

LEMMA CardUnion ==
    ASSUME NEW S \in SUBSET Kid, NEW T \in SUBSET Kid, S \cap T = {}
    PROVE  Cardinality(S \cup T) = Cardinality(S) + Cardinality(T)
<1>1. Cardinality(S \cup T)
        = Cardinality(S) + Cardinality(T) - Cardinality(S \cap T)
    BY KidSets, FS_Union
<1> QED
    BY <1>1, KidSets, FS_EmptySet

LEMMA CardMinus ==
    ASSUME NEW S \in SUBSET Kid, NEW T
    PROVE  Cardinality(S \ T) = Cardinality(S) - Cardinality(S \cap T)
<1>1. S \ T \in SUBSET Kid /\ S \cap T \in SUBSET Kid
    OBVIOUS
<1>2. Cardinality((S \ T) \cup (S \cap T))
        = Cardinality(S \ T) + Cardinality(S \cap T)
    BY <1>1, CardUnion
<1>3. (S \ T) \cup (S \cap T) = S
    OBVIOUS
<1>4. Cardinality(S) \in Nat /\ Cardinality(S \ T) \in Nat
      /\ Cardinality(S \cap T) \in Nat
    BY <1>1, KidSets
<1> QED
    BY <1>2, <1>3, <1>4

(* The jobs of requests keep their type.                                   *)
JobsOK ==
    /\ at \in [Request -> {"idle", "reply", "limit", "clear"}]
    /\ job \in [Request -> Job]

LEMMA GotoJobs ==
    ASSUME JobsOK, JobsValid, NEW q \in Request, NEW j \in Job,
           NEW place \in {"idle", "reply", "limit", "clear"},
           place = "limit" => j.count <= j.max,
           Goto(q, place, j)
    PROVE  JobsOK' /\ JobsValid'
    BY DEF JobsOK, JobsValid, Goto

LEMMA DoneJobs ==
    ASSUME JobsOK, JobsValid, NEW q \in Request, Done(q)
    PROVE  JobsOK' /\ JobsValid'
<1>1. NoJob \in Job
    BY DEF NoJob, Job
<1> QED
    BY <1>1, GotoJobs DEF Done

LEMMA SameJobs ==
    ASSUME JobsOK, JobsValid, UNCHANGED <<at, job>>
    PROVE  JobsOK' /\ JobsValid'
    BY DEF JobsOK, JobsValid

(* The type of everything but the jobs.                                    *)
TableOK ==
    /\ live \subseteq Parent
    /\ answered \subseteq Parent
    /\ room \in [Parent -> Int]
    /\ kids \in [Parent -> SUBSET Kid]
    /\ used \subseteq Kid
    /\ limit \in [Parent -> Int]
    /\ owed \in [Parent -> Nat]
    /\ lost \in [Parent -> Nat]
    /\ miscounted \subseteq Parent

LEMMA TypeSplit == TypeOK <=> TableOK /\ JobsOK
    BY DEF TypeOK, TableOK, JobsOK

LEMMA SameTable ==
    ASSUME TableOK, LedgerInv, UNCHANGED <<table, ledger>>
    PROVE  TableOK' /\ LedgerInv'
    BY DEF TableOK, LedgerInv, KidsAreUsed, CapacityAccounted, RoomStaysValid,
           Assigned, table, ledger

-----------------------------------------------------------------------------
(* The three ways in which rows change keep the ledger.                    *)
LEMMA InsertKeeps ==
    ASSUME TableOK, LedgerInv, NEW p \in Parent, NEW n \in Int,
           NEW new \in SUBSET Fresh, n = Cardinality(new) \/ new = {},
           Insert(p, n, new), answered' \in {answered \ {p}, answered \cup {p}}
    PROVE  TableOK' /\ LedgerInv'
<1>1. new \in SUBSET Kid /\ Cardinality(new) \in Nat
    BY KidSets DEF Fresh
<1>2. TableOK'
    BY <1>1 DEF TableOK, Insert
<1>3. KidsAreUsed'
    BY DEF TableOK, LedgerInv, KidsAreUsed, Insert
<1>4. /\ room'[p] = n /\ limit'[p] = n /\ kids'[p] = new
      /\ owed'[p] = Cardinality(new) /\ lost'[p] = 0
    BY DEF TableOK, Insert
<1>5. \A r \in Parent \ {p} : /\ room'[r] = room[r] /\ limit'[r] = limit[r]
                              /\ kids'[r] = kids[r]
                              /\ owed'[r] = owed[r] /\ lost'[r] = lost[r]
    BY DEF TableOK, Insert
<1>6. live' = live \cup {p} /\ miscounted' = miscounted \ {p}
    BY DEF Insert
<1>7. CapacityAccounted'
  <2>1. room'[p] + Cardinality(kids'[p]) + lost'[p] = limit'[p] + owed'[p]
    BY <1>1, <1>4
  <2> QED
    BY <2>1, <1>5, <1>6 DEF LedgerInv, CapacityAccounted, Assigned, TableOK
<1>8. RoomStaysValid'
    BY <1>4, <1>5, <1>6 DEF LedgerInv, RoomStaysValid, TableOK
<1> QED
    BY <1>2, <1>3, <1>7, <1>8 DEF LedgerInv

LEMMA AddKeeps ==
    ASSUME TableOK, LedgerInv, NEW p \in Parent, NEW new \in SUBSET Fresh,
           AddUncounted(p, new), answered' \in {answered, answered \cup {p}}
    PROVE  TableOK' /\ LedgerInv'
<1>1. new \in SUBSET Kid /\ Cardinality(new) \in Nat
    BY KidSets DEF Fresh
<1>2. TableOK'
    BY <1>1 DEF TableOK, AddUncounted
<1>3. KidsAreUsed'
    BY DEF TableOK, LedgerInv, KidsAreUsed, AddUncounted
<1>4. kids'[p] = kids[p] \cup new /\ owed'[p] = owed[p] + Cardinality(new)
    BY DEF TableOK, AddUncounted
<1>5. \A r \in Parent \ {p} : kids'[r] = kids[r] /\ owed'[r] = owed[r]
    BY DEF TableOK, AddUncounted
<1>6. UNCHANGED <<live, room, limit, lost, miscounted>>
    BY DEF AddUncounted
<1>7. Cardinality(kids'[p]) = Cardinality(kids[p]) + Cardinality(new)
  <2>1. kids[p] \in SUBSET Kid /\ kids[p] \cap new = {}
    BY DEF TableOK, LedgerInv, KidsAreUsed, Fresh
  <2> QED
    BY <2>1, <1>1, <1>4, CardUnion
<1>8. CapacityAccounted'
  <2>1. Cardinality(kids[p]) \in Nat /\ room[p] \in Int /\ lost[p] \in Nat
        /\ limit[p] \in Int /\ owed[p] \in Nat
    BY KidSets DEF TableOK
  <2>2. ASSUME p \in live \ miscounted
        PROVE  room[p] + Cardinality(kids'[p]) + lost[p] = limit[p] + owed'[p]
    BY <2>1, <2>2, <1>1, <1>4, <1>7 DEF LedgerInv, CapacityAccounted, Assigned
  <2> QED
    BY <2>2, <1>5, <1>6 DEF LedgerInv, CapacityAccounted, Assigned, TableOK
<1>9. RoomStaysValid'
    BY <1>6 DEF LedgerInv, RoomStaysValid
<1> QED
    BY <1>2, <1>3, <1>8, <1>9 DEF LedgerInv

LEMMA GiveBackKeeps ==
    ASSUME TableOK, LedgerInv, NEW p \in live, NEW gone \in SUBSET kids[p],
           GiveBack(p, gone, Cardinality(gone))
    PROVE  TableOK' /\ LedgerInv'
<1>1. p \in Parent /\ kids[p] \in SUBSET Kid /\ gone \in SUBSET Kid
    BY DEF TableOK
<1>2. Cardinality(gone) \in Nat /\ Cardinality(kids[p]) \in Nat
    BY <1>1, KidSets
<1>3. TableOK'
    BY <1>1, <1>2 DEF TableOK, GiveBack, ledger
<1>4. KidsAreUsed'
    BY <1>1 DEF TableOK, LedgerInv, KidsAreUsed, GiveBack
<1>5. kids'[p] = kids[p] \ gone /\ room'[p] = room[p] + Cardinality(gone)
    BY <1>1 DEF TableOK, GiveBack
<1>6. \A r \in Parent \ {p} : kids'[r] = kids[r] /\ room'[r] = room[r]
    BY <1>1 DEF TableOK, GiveBack
<1>7. UNCHANGED <<live, ledger>>
    BY DEF GiveBack
<1>8. Cardinality(kids'[p]) = Cardinality(kids[p]) - Cardinality(gone)
  <2>1. kids[p] \cap gone = gone
    OBVIOUS
  <2> QED
    BY <2>1, <1>1, <1>5, CardMinus
<1>9. room[p] \in Int /\ lost[p] \in Nat /\ limit[p] \in Int /\ owed[p] \in Nat
    BY <1>1 DEF TableOK
<1>10. CapacityAccounted'
  <2>1. p \notin miscounted =>
          room'[p] + Cardinality(kids'[p]) + lost[p] = limit[p] + owed[p]
    BY <1>2, <1>5, <1>8, <1>9 DEF LedgerInv, CapacityAccounted, Assigned
  <2> QED
    BY <2>1, <1>6, <1>7 DEF LedgerInv, CapacityAccounted, Assigned, TableOK, ledger
<1>11. RoomStaysValid'
  <2>1. limit[p] >= 0 => room'[p] >= 0
    BY <1>2, <1>5, <1>9 DEF LedgerInv, RoomStaysValid
  <2> QED
    BY <2>1, <1>6, <1>7 DEF LedgerInv, RoomStaysValid, TableOK, ledger
<1> QED
    BY <1>3, <1>4, <1>10, <1>11 DEF LedgerInv

-----------------------------------------------------------------------------
LEMMA InvInit == Init => CapacityInv
<1> SUFFICES ASSUME Init
             PROVE  CapacityInv
    OBVIOUS
<1>1. TypeOK
    BY DEF Init, TypeOK, Zero, NoJob, Job
<1> QED
    BY <1>1 DEF Init, CapacityInv, LedgerInv, KidsAreUsed, CapacityAccounted,
                RoomStaysValid, JobsValid

LEMMA SliceLengthType ==
    ASSUME NEW offered \in Nat, NEW bound \in Int
    PROVE  SliceLength(offered, bound) \in Nat
    BY DEF SliceLength

LEMMA InvStep == CapacityInv /\ [Next]_vars => CapacityInv'
<1> SUFFICES ASSUME CapacityInv, [Next]_vars
             PROVE  CapacityInv'
    OBVIOUS
<1>a. TableOK /\ JobsOK /\ LedgerInv /\ JobsValid
    BY TypeSplit DEF CapacityInv
<1>b. SUFFICES (TableOK' /\ LedgerInv') /\ (JobsOK' /\ JobsValid')
    BY DEF CapacityInv, TypeOK, TableOK, JobsOK
<1> USE DEF Assigned
\* Requests that only read.
<1>1. ASSUME NEW q \in Request, NEW p \in Parent, ListPlusOnes(q, p)
      PROVE  (TableOK' /\ LedgerInv') /\ (JobsOK' /\ JobsValid')
  <2>1. [NoJob EXCEPT !.target = p, !.listed = kids[p]] \in Job
    BY <1>a DEF NoJob, Job, TableOK
  <2> QED
    BY <2>1, <1>1, <1>a, GotoJobs, SameTable DEF ListPlusOnes
<1>2. ASSUME NEW q \in Request, NEW p \in Parent, NEW max \in 0..MaxLimit,
             CountPlusOnes(q, p, max)
      PROVE  (TableOK' /\ LedgerInv') /\ (JobsOK' /\ JobsValid')
  <2> DEFINE j == [NoJob EXCEPT !.target = p, !.max = max,
                                !.count = Cardinality(kids[p])]
  <2>1. Cardinality(kids[p]) \in Nat /\ max \in Nat
    BY <1>a, KidSets, CapacityAssumption DEF TableOK
  <2>2. j \in Job /\ j.count = Cardinality(kids[p]) /\ j.max = max
    BY <2>1 DEF NoJob, Job
  <2>3. Goto(q, "limit", j) /\ max >= Cardinality(kids[p])
        /\ UNCHANGED <<table, ledger>>
    BY <1>2 DEF CountPlusOnes
  <2>4. j.count <= j.max
    BY <2>1, <2>2, <2>3
  <2> HIDE DEF j
  <2> QED
    BY <2>2, <2>3, <2>4, <1>a, GotoJobs, SameTable
<1>3. ASSUME NEW q \in Request, NEW p \in Parent, NEW offered \in 0..MaxLimit,
             ReplyRead(q, p, offered)
      PROVE  (TableOK' /\ LedgerInv') /\ (JobsOK' /\ JobsValid')
  <2>1. SliceLength(offered, room[p]) \in Nat
    <3>1. offered \in Nat /\ room[p] \in Int
      BY <1>a, CapacityAssumption DEF TableOK
    <3> QED
      BY <3>1, SliceLengthType
  <2>2. [NoJob EXCEPT !.target = p, !.count = SliceLength(offered, room[p])] \in Job
    BY <2>1 DEF NoJob, Job
  <2> QED
    BY <2>2, <1>3, <1>a, GotoJobs, SameTable DEF ReplyRead
<1>4. ASSUME NEW q \in Request, Abort(q)
      PROVE  (TableOK' /\ LedgerInv') /\ (JobsOK' /\ JobsValid')
    BY <1>4, <1>a, DoneJobs, SameTable DEF Abort
\* Requests that write what they read before.
<1>5. ASSUME NEW q \in Request, DeleteListed(q)
      PROVE  (TableOK' /\ LedgerInv') /\ (JobsOK' /\ JobsValid')
    BY <1>5, <1>a, DoneJobs, GiveBackKeeps DEF DeleteListed
<1>6. ASSUME NEW q \in Request, SetLimit(q)
      PROVE  (TableOK' /\ LedgerInv') /\ (JobsOK' /\ JobsValid')
  <2> DEFINE j == job[q]
             p == j.target
  <2>1. p \in live /\ p \in Parent /\ at[q] = "limit" /\ Done(q)
    BY <1>6, <1>a DEF SetLimit, TableOK
  <2>2. j.max \in Nat /\ j.count \in Nat /\ j.count <= j.max
    BY <2>1, <1>a DEF JobsOK, JobsValid, Job
  <2>3. /\ room'[p] = j.max - j.count /\ limit'[p] = j.max
        /\ owed'[p] = 0 /\ lost'[p] = 0
        /\ p \notin miscounted' => j.count = Cardinality(kids[p])
    BY <1>6, <1>a, <2>1 DEF SetLimit, TableOK
  <2>4. /\ \A r \in Parent \ {p} : /\ room'[r] = room[r] /\ limit'[r] = limit[r]
                                   /\ owed'[r] = owed[r] /\ lost'[r] = lost[r]
        /\ miscounted \subseteq miscounted' \cup {p}
        /\ UNCHANGED <<live, answered, kids, used>>
    BY <1>6, <1>a, <2>1 DEF SetLimit, TableOK
  <2>5. TableOK'
    BY <1>6, <1>a, <2>1, <2>2 DEF SetLimit, TableOK
  <2>6. KidsAreUsed'
    BY <1>a, <2>4 DEF LedgerInv, KidsAreUsed
  <2>7. CapacityAccounted'
    <3>1. ASSUME NEW r \in live \ miscounted', r # p
          PROVE  room'[r] + Cardinality(kids[r]) + lost'[r] = limit'[r] + owed'[r]
      BY <1>a, <2>4, <3>1 DEF LedgerInv, CapacityAccounted, TableOK
    <3>2. ASSUME p \notin miscounted'
          PROVE  room'[p] + Cardinality(kids[p]) + lost'[p] = limit'[p] + owed'[p]
      BY <2>2, <2>3, <3>2
    <3> QED
      BY <2>4, <3>1, <3>2 DEF CapacityAccounted
  <2>8. RoomStaysValid'
    BY <1>a, <2>2, <2>3, <2>4 DEF LedgerInv, RoomStaysValid, TableOK
  <2> QED
    BY <1>a, <2>1, <2>5, <2>6, <2>7, <2>8, DoneJobs DEF LedgerInv
<1>7. ASSUME NEW q \in Request, NEW new \in SUBSET Kid, ReplyCommit(q, new)
      PROVE  (TableOK' /\ LedgerInv') /\ (JobsOK' /\ JobsValid')
  <2>1. job[q].target \in Parent
    BY <1>7, <1>a DEF ReplyCommit, TableOK
  <2> QED
    BY <2>1, <1>7, <1>a, DoneJobs, AddKeeps DEF ReplyCommit
\* Transactions that lock what they write.
<1>8. ASSUME NEW p \in Parent, NEW n \in -1..MaxLimit, Create(p, n) \/ Import(p, n)
      PROVE  (TableOK' /\ LedgerInv') /\ (JobsOK' /\ JobsValid')
  <2>1. /\ Insert(p, n, {}) /\ answered' = answered \ {p} /\ n \in Int
        /\ {} \in SUBSET Fresh
    BY <1>8, CapacityAssumption DEF Create, Import
  <2> QED
    BY <2>1, <1>a, InsertKeeps, SameJobs DEF Insert
<1>9. ASSUME NEW p \in Parent, NEW new \in SUBSET Kid, CreateFromPublicRsvp(p, new)
      PROVE  (TableOK' /\ LedgerInv') /\ (JobsOK' /\ JobsValid')
  <2>1. Insert(p, Cardinality(new), new) /\ new \in SUBSET Fresh
        /\ answered' = answered \cup {p}
    BY <1>9 DEF CreateFromPublicRsvp
  <2>2. Cardinality(new) \in Int
    BY KidSets
  <2> QED
    BY <2>1, <2>2, <1>a, InsertKeeps, SameJobs DEF Insert
<1>10. ASSUME NEW p \in Parent, NEW k \in Kid, CreateUnder(p, k)
       PROVE  (TableOK' /\ LedgerInv') /\ (JobsOK' /\ JobsValid')
  <2>1. {k} \in SUBSET Fresh
    BY <1>10 DEF CreateUnder
  <2> QED
    BY <2>1, <1>10, <1>a, AddKeeps, SameJobs DEF CreateUnder
<1>11. ASSUME NEW p \in Parent, NEW k \in Kid, CreatePlusOne(p, k)
       PROVE  (TableOK' /\ LedgerInv') /\ (JobsOK' /\ JobsValid')
  <2>1. /\ room'[p] = room[p] - 1 /\ kids'[p] = kids[p] \cup {k}
        /\ \A r \in Parent \ {p} : room'[r] = room[r] /\ kids'[r] = kids[r]
        /\ UNCHANGED <<live, ledger>> /\ room[p] > 0 /\ k \notin used
    BY <1>11, <1>a DEF CreatePlusOne, TableOK, Fresh
  <2>2. /\ room[p] \in Int /\ limit[p] \in Int
        /\ owed[p] \in Nat /\ lost[p] \in Nat /\ kids[p] \in SUBSET Kid
    BY <1>a DEF TableOK
  <2>3. TableOK'
    BY <1>11, <1>a, <2>2 DEF CreatePlusOne, TableOK, Fresh, ledger
  <2>4. KidsAreUsed'
    BY <1>11, <1>a DEF CreatePlusOne, TableOK, LedgerInv, KidsAreUsed
  <2>5. Cardinality(kids'[p]) = Cardinality(kids[p]) + 1 /\ Cardinality(kids[p]) \in Nat
    <3>1. k \notin kids[p]
      BY <2>1, <1>a DEF LedgerInv, KidsAreUsed
    <3>2. IsFiniteSet(kids[p]) /\ Cardinality(kids[p]) \in Nat
      BY <2>2, KidSets
    <3> QED
      BY <2>1, <3>1, <3>2, FS_AddElement
  <2>6. CapacityAccounted'
    <3>1. p \in live \ miscounted
            => room'[p] + Cardinality(kids'[p]) + lost[p] = limit[p] + owed[p]
      BY <1>a, <2>1, <2>2, <2>5 DEF LedgerInv, CapacityAccounted
    <3> QED
      BY <3>1, <1>a, <2>1 DEF LedgerInv, CapacityAccounted, TableOK, ledger
  <2>7. RoomStaysValid'
    BY <1>a, <2>1, <2>2 DEF LedgerInv, RoomStaysValid, TableOK, ledger
  <2> QED
    BY <1>11, <1>a, <2>3, <2>4, <2>6, <2>7, SameJobs DEF LedgerInv, CreatePlusOne
<1>12. ASSUME NEW p \in Parent, NEW k \in Kid, DeletePlusOne(p, k)
       PROVE  (TableOK' /\ LedgerInv') /\ (JobsOK' /\ JobsValid')
  <2>1. p \in live /\ {k} \in SUBSET kids[p] /\ GiveBack(p, {k}, Cardinality({k}))
    BY <1>12, FS_Singleton DEF DeletePlusOne
  <2> QED
    BY <2>1, <1>12, <1>a, GiveBackKeeps, SameJobs DEF DeletePlusOne
<1>13. ASSUME NEW ids, Delete(ids)
       PROVE  (TableOK' /\ LedgerInv') /\ (JobsOK' /\ JobsValid')
  <2>1. \A r \in Parent : kids[r] \in SUBSET Kid /\ kids[r] \cap ids \in SUBSET Kid
    BY <1>a DEF TableOK
  <2>2. \A r \in Parent : /\ Cardinality(kids[r]) \in Nat
                          /\ Cardinality(kids[r] \cap ids) \in Nat
    BY <2>1, KidSets
  <2>3. TableOK'
    BY <1>13, <1>a, <2>1, <2>2 DEF Delete, TableOK
  <2>4. KidsAreUsed'
    BY <1>13, <1>a DEF Delete, LedgerInv, KidsAreUsed
  <2>5. /\ \A r \in live' : /\ r \in live /\ r \in Parent
                            /\ kids'[r] = kids[r] \ ids
                            /\ lost'[r] = lost[r] + Cardinality(kids[r] \cap ids)
        /\ UNCHANGED <<room, limit, owed, miscounted>>
    BY <1>13, <1>a DEF Delete, TableOK
  <2>6. \A r \in live' : Cardinality(kids'[r])
                           = Cardinality(kids[r]) - Cardinality(kids[r] \cap ids)
    BY <2>1, <2>5, CardMinus
  <2>7. CapacityAccounted'
    <3>1. ASSUME NEW r \in live', r \notin miscounted
          PROVE  room[r] + Cardinality(kids'[r]) + lost'[r] = limit[r] + owed[r]
      <4>1. r \in Parent /\ room[r] \in Int /\ limit[r] \in Int
            /\ owed[r] \in Nat /\ lost[r] \in Nat
        BY <1>a, <2>5 DEF TableOK
      <4>2. room[r] + Cardinality(kids[r]) + lost[r] = limit[r] + owed[r]
        BY <1>a, <2>5, <3>1 DEF LedgerInv, CapacityAccounted
      <4>3. /\ Cardinality(kids'[r]) = Cardinality(kids[r]) - Cardinality(kids[r] \cap ids)
            /\ lost'[r] = lost[r] + Cardinality(kids[r] \cap ids)
        BY <2>5, <2>6
      <4>4. Cardinality(kids[r]) \in Nat /\ Cardinality(kids[r] \cap ids) \in Nat
        BY <4>1, <2>2
      <4> QED
        BY <4>1, <4>2, <4>3, <4>4
    <3> QED
      BY <3>1, <2>5 DEF CapacityAccounted
  <2>8. RoomStaysValid'
    BY <1>a, <2>5 DEF LedgerInv, RoomStaysValid
  <2> QED
    BY <1>13, <1>a, <2>3, <2>4, <2>7, <2>8, SameJobs DEF LedgerInv, Delete
<1>14. ASSUME NEW roots, DeleteByGuestId(roots)
       PROVE  (TableOK' /\ LedgerInv') /\ (JobsOK' /\ JobsValid')
    BY <1>13, <1>14 DEF DeleteByGuestId
<1>15. CASE UNCHANGED vars
    BY <1>15, <1>a, SameJobs, SameTable DEF vars, table, ledger
<1> QED
    BY <1>1, <1>2, <1>3, <1>4, <1>5, <1>6, <1>7, <1>8, <1>9, <1>10, <1>11,
       <1>12, <1>13, <1>14, <1>15 DEF Next, RequestStep

LEMMA Invariance == Spec => []CapacityInv
    BY InvInit, InvStep, PTL DEF Spec

(***************************************************************************)
(* The theorems.                                                           *)
(***************************************************************************)

(* Every variable keeps its type.                                          *)
THEOREM CapacityTypeCorrect == Spec => []TypeOK
<1>1. CapacityInv => TypeOK
    BY DEF CapacityInv
<1> QED
    BY <1>1, Invariance, PTL

(* The remaining capacity is exactly accounted for, in every interleaving  *)
(* in which no limit was set from a stale count.                           *)
THEOREM CapacityIsAccounted == Spec => []CapacityAccounted
<1>1. CapacityInv => CapacityAccounted
    BY DEF CapacityInv, LedgerInv
<1> QED
    BY <1>1, Invariance, PTL

(* A valid capacity never goes below zero, stale counts included.          *)
THEOREM RoomIsValid == Spec => []RoomStaysValid
<1>1. CapacityInv => RoomStaysValid
    BY DEF CapacityInv, LedgerInv
<1> QED
    BY <1>1, Invariance, PTL

(* The limit holds for a parent whose plus-ones all came through           *)
(* createPlusOne.                                                          *)
THEOREM LimitHolds == Spec => []PlusOnesWithinLimit
<1>1. ASSUME CapacityInv
      PROVE  PlusOnesWithinLimit
  <2>1. ASSUME NEW p \in live \ miscounted, limit[p] >= 0, owed[p] = 0
        PROVE  Assigned(p) <= limit[p]
    <3>1. /\ room[p] \in Int /\ limit[p] \in Int /\ lost[p] \in Nat
          /\ Assigned(p) \in Nat
      BY <1>1, KidSets DEF CapacityInv, TypeOK, Assigned
    <3>2. room[p] + Assigned(p) + lost[p] = limit[p] /\ room[p] >= 0
      BY <1>1, <2>1, <3>1 DEF CapacityInv, LedgerInv, CapacityAccounted, RoomStaysValid
    <3> QED
      BY <3>1, <3>2
  <2> QED
    BY <2>1 DEF PlusOnesWithinLimit
<1> QED
    BY <1>1, Invariance, PTL
=============================================================================
