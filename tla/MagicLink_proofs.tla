--------------------------- MODULE MagicLink_proofs ---------------------------
(***************************************************************************)
(* Proofs about MagicLink, for all addresses, requests, invitations and    *)
(* bounds.                                                                 *)
(***************************************************************************)
EXTENDS MagicLink, FiniteSetTheorems, FunctionTheorems,
        WellFoundedInduction, TLAPS

(* No request before a counter, none let through without being counted.    *)
CountInv ==
    \A ip \in Ip :
        /\ count[ip] = 0 => ttl[ip] = "none"
        /\ passed[ip] <= count[ip]
        /\ passed[ip] <= MaxPerWindow

(* The request that starts a counter is alone with it, has not been let    *)
(* through yet, and the counter does not lapse under it.                   *)
StarterInv ==
    /\ \A q \in Request : at[q] = "expire" =>
           /\ count[from[q]] > 0
           /\ ttl[from[q]] = "none"
           /\ passed[from[q]] < count[from[q]]
           /\ passed[from[q]] < MaxPerWindow
    /\ \A q, r \in Request :
           at[q] = "expire" /\ at[r] = "expire" /\ from[q] = from[r] => q = r

LimiterInv == TypeOK /\ CountInv /\ StarterInv /\ KeyWillLapse

-----------------------------------------------------------------------------
LEMMA InitHolds == Init => LimiterInv
  <1> SUFFICES ASSUME Init PROVE LimiterInv
      OBVIOUS
  <1>1. TypeOK
        BY MagicLinkAssumption DEF Init, TypeOK
  <1>2. CountInv /\ StarterInv /\ KeyWillLapse
        BY MagicLinkAssumption DEF Init, CountInv, StarterInv, KeyWillLapse
  <1> QED BY <1>1, <1>2 DEF LimiterInv

-----------------------------------------------------------------------------
(* One lemma per action.                                                   *)
LEMMA AgeStep ==
    ASSUME LimiterInv, NEW ip \in Ip, Age(ip) PROVE LimiterInv'
  <1>1. TypeOK'
        BY DEF LimiterInv, TypeOK, Age
  <1>2. CountInv'
        BY DEF LimiterInv, TypeOK, CountInv, Age
  <1>3. StarterInv'
        BY DEF LimiterInv, TypeOK, StarterInv, Age
  <1>4. KeyWillLapse'
        BY DEF LimiterInv, TypeOK, KeyWillLapse, Age
  <1> QED BY <1>1, <1>2, <1>3, <1>4 DEF LimiterInv

LEMMA LapseStep ==
    ASSUME LimiterInv, NEW ip \in Ip, Lapse(ip) PROVE LimiterInv'
  <1>1. TypeOK'
        BY MagicLinkAssumption DEF LimiterInv, TypeOK, Lapse
  <1>2. CountInv'
        BY MagicLinkAssumption DEF LimiterInv, TypeOK, CountInv, Lapse
  <1>3. StarterInv'
        BY MagicLinkAssumption DEF LimiterInv, TypeOK, StarterInv, Lapse
  <1>4. KeyWillLapse'
        BY MagicLinkAssumption DEF LimiterInv, TypeOK, KeyWillLapse, Lapse
  <1> QED BY <1>1, <1>2, <1>3, <1>4 DEF LimiterInv

LEMMA ArriveStep ==
    ASSUME LimiterInv, NEW q \in Request, NEW ip \in Ip, Arrive(q, ip)
    PROVE  LimiterInv'
  <1> DEFINE n == Incremented(count[ip])
  <1> USE MagicLinkAssumption
  <1>1. n \in 1..MaxPerWindow + 1 /\ n >= count[ip]
        /\ (~Limited(n) => n = count[ip] + 1)
        BY DEF LimiterInv, TypeOK, Incremented, Limited
  <1>2. /\ at[q] = "idle" /\ count' = [count EXCEPT ![ip] = n]
        /\ UNCHANGED <<ttl, orphaned, faults>>
        BY DEF Arrive
  <1> HIDE DEF n
  <1>3. CASE StartsWindow(n) /\ Goto(q, "expire")
             /\ from' = [from EXCEPT ![q] = ip] /\ UNCHANGED passed
    <2>0. n = 1 /\ count[ip] = 0 /\ passed[ip] = 0 /\ ttl[ip] = "none"
          BY <1>1, <1>3 DEF LimiterInv, TypeOK, CountInv, StartsWindow, Limited
    <2>1. TypeOK'
          BY <1>1, <1>2, <1>3 DEF LimiterInv, TypeOK, Goto
    <2>2. CountInv'
          BY <2>0, <1>2, <1>3 DEF LimiterInv, TypeOK, CountInv
    <2>3. StarterInv'
          BY <2>0, <1>2, <1>3 DEF LimiterInv, TypeOK, StarterInv, Goto
    <2>4. KeyWillLapse'
          BY <2>0, <1>2, <1>3 DEF LimiterInv, TypeOK, KeyWillLapse, Goto
    <2> QED BY <2>1, <2>2, <2>3, <2>4 DEF LimiterInv
  <1>4. CASE /\ ~StartsWindow(n) /\ ~Limited(n) /\ Goto(q, "lookup")
             /\ passed' = [passed EXCEPT ![ip] = @ + 1] /\ UNCHANGED from
    <2>0. n = count[ip] + 1 /\ count[ip] > 0 /\ n <= MaxPerWindow
          BY <1>1, <1>4 DEF LimiterInv, TypeOK, StartsWindow, Limited
    <2>1. TypeOK'
          BY <1>1, <1>2, <1>4 DEF LimiterInv, TypeOK, Goto
    <2>2. CountInv'
          BY <2>0, <1>2, <1>4 DEF LimiterInv, TypeOK, CountInv
    <2>3. StarterInv'
          BY <2>0, <1>2, <1>4 DEF LimiterInv, TypeOK, StarterInv, Goto
    <2>4. KeyWillLapse'
          BY <2>0, <1>2, <1>4 DEF LimiterInv, TypeOK, KeyWillLapse, Goto
    <2> QED BY <2>1, <2>2, <2>3, <2>4 DEF LimiterInv
  <1>5. CASE ~StartsWindow(n) /\ Limited(n) /\ UNCHANGED <<at, from, passed>>
    <2>0. count[ip] > 0
          BY <1>1, <1>5 DEF LimiterInv, TypeOK, StartsWindow, Limited, n,
                            Incremented
    <2>1. TypeOK'
          BY <1>1, <1>2, <1>5 DEF LimiterInv, TypeOK
    <2>2. CountInv'
          BY <2>0, <1>1, <1>2, <1>5 DEF LimiterInv, TypeOK, CountInv
    <2>3. StarterInv'
          BY <2>0, <1>1, <1>2, <1>5 DEF LimiterInv, TypeOK, StarterInv
    <2>4. KeyWillLapse'
          BY <2>0, <1>2, <1>5 DEF LimiterInv, TypeOK, KeyWillLapse
    <2> QED BY <2>1, <2>2, <2>3, <2>4 DEF LimiterInv
  <1> QED BY <1>3, <1>4, <1>5 DEF Arrive, n

(* What neither counts nor leaves "expire" changes nothing of this.        *)
LEMMA OtherStep ==
    ASSUME LimiterInv, NEW q \in Request,
           ArriveUncounted(q) \/ Unusable(q) \/ Lookup(q) \/ Dispatch(q)
    PROVE  LimiterInv'
  <1> PICK place \in {"idle", "lookup", "send"} : Goto(q, place)
      BY DEF ArriveUncounted, Unusable, Lookup, Dispatch
  <1>0. at[q] # "expire" /\ UNCHANGED <<count, ttl, from, passed, orphaned, faults>>
        BY DEF ArriveUncounted, Unusable, Lookup, Dispatch
  <1>1. TypeOK'
        BY <1>0 DEF LimiterInv, TypeOK, Goto
  <1>2. CountInv'
        BY <1>0 DEF LimiterInv, CountInv
  <1>3. StarterInv'
        BY <1>0 DEF LimiterInv, TypeOK, StarterInv, Goto
  <1>4. KeyWillLapse'
        BY <1>0 DEF LimiterInv, TypeOK, KeyWillLapse, Goto
  <1> QED BY <1>1, <1>2, <1>3, <1>4 DEF LimiterInv

LEMMA ExpireStep ==
    ASSUME LimiterInv, NEW q \in Request, Expire(q) PROVE LimiterInv'
  <1> DEFINE ip == from[q]
  <1> USE MagicLinkAssumption
  <1>0. /\ ip \in Ip /\ count[ip] > 0
        /\ passed[ip] < count[ip] /\ passed[ip] < MaxPerWindow
        BY DEF LimiterInv, TypeOK, StarterInv, Expire
  <1>a. /\ at[q] = "expire"
        /\ ttl' = [ttl EXCEPT ![ip] = "long"]
        /\ passed' = [passed EXCEPT ![ip] = @ + 1]
        /\ Goto(q, "lookup") /\ from' = [from EXCEPT ![q] = NoIp]
        /\ UNCHANGED <<count, orphaned, faults>>
        BY <1>0 DEF Expire
  <1> HIDE DEF ip
  <1>1. TypeOK'
        BY <1>0, <1>a DEF LimiterInv, TypeOK, Goto
  <1>2. CountInv'
        BY <1>0, <1>a DEF LimiterInv, TypeOK, CountInv
  <1>b. \A r \in Request \ {q} : at[r] = "expire" => from[r] # ip
        BY <1>a DEF LimiterInv, StarterInv, ip
  <1>3. StarterInv'
        BY <1>0, <1>a, <1>b DEF LimiterInv, TypeOK, StarterInv, Goto
  <1>4. KeyWillLapse'
        BY <1>0, <1>a DEF LimiterInv, TypeOK, KeyWillLapse, Goto, ip
  <1> QED BY <1>1, <1>2, <1>3, <1>4 DEF LimiterInv

LEMMA FailStep ==
    ASSUME LimiterInv, NEW q \in Request, Fail(q) PROVE LimiterInv'
  <1> USE MagicLinkAssumption
  <1>1. TypeOK'
        BY DEF LimiterInv, TypeOK, Fail, Goto
  <1>2. CountInv'
        BY DEF LimiterInv, CountInv, Fail
  <1>3. StarterInv'
        BY DEF LimiterInv, TypeOK, StarterInv, Fail, Goto
  <1>4. KeyWillLapse'
        BY DEF LimiterInv, TypeOK, KeyWillLapse, Fail, Goto
  <1> QED BY <1>1, <1>2, <1>3, <1>4 DEF LimiterInv

LEMMA NextHolds == LimiterInv /\ [Next]_vars => LimiterInv'
  <1> SUFFICES ASSUME LimiterInv, [Next]_vars PROVE LimiterInv'
      OBVIOUS
  <1>1. CASE UNCHANGED vars
        BY <1>1 DEF vars, LimiterInv, TypeOK, CountInv, StarterInv, KeyWillLapse
  <1>2. ASSUME NEW q \in Request, Continue(q) \/ Fail(q) \/ ArriveUncounted(q)
        PROVE  LimiterInv'
        BY <1>2, ExpireStep, FailStep, OtherStep DEF Continue
  <1>3. ASSUME NEW q \in Request, NEW ip \in Ip, Arrive(q, ip)
        PROVE  LimiterInv'
        BY <1>3, ArriveStep
  <1>4. ASSUME NEW ip \in Ip, Age(ip) \/ Lapse(ip)
        PROVE  LimiterInv'
        BY <1>4, AgeStep, LapseStep
  <1> QED BY <1>1, <1>2, <1>3, <1>4 DEF Next

(* The inductive invariant.                                                *)
THEOREM LimiterInvariant == Spec => []LimiterInv
  <1> QED BY InitHolds, NextHolds, PTL DEF Spec

(* Counters, times to live and requests keep their types, and a request    *)
(* has an address exactly while it is about to set a time to live.         *)
THEOREM LimiterTypeCorrect == Spec => []TypeOK
  <1>1. LimiterInv => TypeOK
        BY DEF LimiterInv
  <1> QED BY <1>1, LimiterInvariant, PTL

(* A window lets at most MaxPerWindow requests of an address through.      *)
THEOREM WindowIsBounded == Spec => []WindowBounded
  <1>1. LimiterInv => WindowBounded
        BY DEF LimiterInv, CountInv, WindowBounded
  <1> QED BY <1>1, LimiterInvariant, PTL

(* A counter without a time to live is about to get one, unless a fault    *)
(* came between.                                                           *)
THEOREM CountersLapse == Spec => []KeyWillLapse
  <1>1. LimiterInv => KeyWillLapse
        BY DEF LimiterInv
  <1> QED BY <1>1, LimiterInvariant, PTL

-----------------------------------------------------------------------------
(* The choice and the reason.                                              *)
LEMMA Rows ==
    ASSUME NEW found \in Found, NEW i \in DOMAIN found
    PROVE  found[i] \in RowFormat
  BY MagicLinkAssumption DEF Found

(* Between two readings of the clock an event may end, but none begins     *)
(* again: every refusal has a reason, and EVENT_EXPIRED is the last one    *)
(* that is looked for.                                                     *)
THEOREM RefusalsAreExplained == RefusalIsExplained
  <1> SUFFICES ASSUME NEW found \in Found, NEW time \in Time,
                      NEW later \in time..MaxTime,
                      DOMAIN found # {}, EligibleIn(found, time) = {}
               PROVE  LET reason == IneligibleReason(found, later)
                      IN  /\ reason # "INTERNAL_FAILURE"
                          /\ reason = "EVENT_EXPIRED" =>
                               \A i \in DOMAIN found :
                                 Eligible([found[i] EXCEPT !.ends = later + 1],
                                          later)
      BY DEF RefusalIsExplained
  <1>0. time \in Nat /\ later \in Nat /\ time <= later
        BY MagicLinkAssumption DEF Time
  <1>1. PICK i \in DOMAIN found : ~Eligible(found[i], time)
        BY DEF EligibleIn
  <1>2. found[i] \in RowFormat
        BY Rows
  <1>3. \/ found[i].status \notin {"APPROVED", "ACCEPTED"}
        \/ ~found[i].profile
        \/ found[i].ends <= later
        BY <1>0, <1>1, <1>2 DEF Eligible, RowFormat
  <1>4. IneligibleReason(found, later) # "INTERNAL_FAILURE"
        BY <1>3 DEF IneligibleReason
  <1>5. ASSUME IneligibleReason(found, later) = "EVENT_EXPIRED",
               NEW j \in DOMAIN found
        PROVE  Eligible([found[j] EXCEPT !.ends = later + 1], later)
    <2>1. found[j] \in RowFormat
          BY Rows
    <2>2. found[j].status \in {"APPROVED", "ACCEPTED"} /\ found[j].profile
          BY <1>5 DEF IneligibleReason
    <2> QED BY <2>1, <2>2, <1>0 DEF Eligible, RowFormat
  <1> QED BY <1>4, <1>5

(* A sorting of several puts first what is newer than all the others, if   *)
(* the second is not as new.                                               *)
LEMMA NewestLeads ==
    ASSUME NEW found \in Found, NEW I \in SUBSET DOMAIN found,
           Cardinality(I) \in Nat, Cardinality(I) > 1,
           NEW i \in Newest(found, I), NEW j \in I, j # i
    PROVE  i \in I /\ found[j].updated < found[i].updated
  <1>1. PICK s \in Sortings(found, I) :
            i = s[1] /\ found[s[1]].updated # found[s[2]].updated
        BY DEF Newest
  <1>2. s \in [1..Cardinality(I) -> I] /\ 1 \in DOMAIN s /\ 2 \in DOMAIN s
        BY <1>1 DEF Sortings
  <1>3. PICK k \in DOMAIN s : s[k] = j
        BY <1>1 DEF Sortings
  <1>4. \A l \in DOMAIN s : found[s[l]].updated \in Nat
        BY <1>2, Rows DEF RowFormat
  <1>5. found[s[2]].updated < found[s[1]].updated
    <2>1. found[s[1]].updated >= found[s[2]].updated
          BY <1>1, <1>2 DEF Sortings
    <2> QED BY <2>1, <1>1, <1>2, <1>4
  <1>6. found[s[k]].updated <= found[s[2]].updated
    <2>1. k = 2 \/ 2 < k
          BY <1>1, <1>2, <1>3
    <2>2. CASE k = 2
          BY <2>2, <1>2, <1>4
    <2>3. CASE 2 < k
          BY <2>3, <1>1, <1>2 DEF Sortings
    <2> QED BY <2>1, <2>2, <2>3
  <1>7. found[j].updated < found[i].updated
        BY <1>1, <1>2, <1>3, <1>4, <1>5, <1>6
  <1> QED BY <1>1, <1>2, <1>7

(* Whatever is found, only the person pinned down is chosen.               *)
LEMMA ResolveIsSound == OnlyPinnedDown
  <1> SUFFICES ASSUME NEW found \in Found, NEW asked \in Asked,
                      NEW time \in Time,
                      NEW i \in Resolve(found, EligibleIn(found, time), asked)
               PROVE  IsPinnedDown(i, found, asked, time)
      BY DEF OnlyPinnedDown
  <1> DEFINE I      == EligibleIn(found, time)
             subset == IF asked = None THEN I ELSE Named(found, I, asked)
             roots  == RootsIn(found, subset)
  <1>1. /\ subset = {j \in DOMAIN found :
                        /\ Eligible(found[j], time)
                        /\ asked # None => found[j].name = asked}
        /\ roots = {j \in subset : found[j].root}
        BY DEF EligibleIn, Named, RootsIn
  <1>2. IsFiniteSet(subset) /\ IsFiniteSet(roots)
    <2>1. DOMAIN found \subseteq Invitation
          BY DEF Found
    <2>2. subset \subseteq Invitation /\ roots \subseteq Invitation
          BY <2>1, <1>1
    <2> QED BY <2>2, MagicLinkAssumption, FS_Subset
  <1>3. \/ Cardinality(subset) = 1 /\ i \in subset
        \/ Cardinality(roots) = 1 /\ i \in roots
        \/ Cardinality(roots) > 1 /\ asked # None /\ i \in Newest(found, roots)
        BY DEF Resolve
  <1> HIDE DEF I, subset, roots
  <1>4. CASE Cardinality(subset) = 1 /\ i \in subset
    <2>1. PICK x : subset = {x}
          BY <1>2, <1>4, FS_Singleton
    <2> QED BY <2>1, <1>1, <1>4 DEF IsPinnedDown
  <1>5. CASE Cardinality(roots) = 1 /\ i \in roots
    <2>1. PICK x : roots = {x}
          BY <1>2, <1>5, FS_Singleton
    <2> QED BY <2>1, <1>1, <1>5 DEF IsPinnedDown
  <1>6. CASE Cardinality(roots) > 1 /\ asked # None /\ i \in Newest(found, roots)
    <2>1. Cardinality(roots) \in Nat /\ roots \subseteq DOMAIN found
          BY <1>1, <1>2, FS_CardinalityType
    <2>2. \A j \in roots : j # i => i \in roots /\ found[j].updated < found[i].updated
          BY <2>1, <1>6, NewestLeads
    <2>3. PICK j \in roots : j # i
      <3>1. SUFFICES ASSUME roots \subseteq {i} PROVE FALSE
            OBVIOUS
      <3>2. Cardinality(roots) <= Cardinality({i}) /\ Cardinality({i}) = 1
            BY <3>1, FS_Subset, FS_Singleton
      <3> QED BY <3>2, <2>1, <1>6
    <2> QED BY <2>2, <2>3, <1>1, <1>6 DEF IsPinnedDown
  <1> QED BY <1>3, <1>4, <1>5, <1>6

(* A link goes to nobody but the person that contact and name pin down.    *)
THEOREM ChosenArePinnedDown == Spec => []ChosenIsPinnedDown
  <1>1. ChosenIsPinnedDown
        BY ResolveIsSound DEF ChosenIsPinnedDown
  <1> QED BY <1>1, PTL

-----------------------------------------------------------------------------
(* Nobody who is pinned down is missed.  sort() must return something for  *)
(* that: every finite set has a sorting, as a smallest set without one     *)
(* would have one, made of a sorting of the rest and its oldest element.   *)
LEMMA LeastNatural ==
    ASSUME NEW T \in SUBSET Nat, T # {}
    PROVE  \E x \in T : \A y \in T : x <= y
  <1> DEFINE R == OpToRel(<, Nat)
  <1>1. \E x \in T : \A y \in T : <<y, x>> \notin R
        BY WFMin, NatLessThanWellFounded, Zenon
  <1>2. \A x, y \in Nat : <<y, x>> \notin R => x <= y
        BY DEF OpToRel
  <1> HIDE DEF R
  <1> QED BY <1>1, <1>2

LEMMA SortingExists ==
    ASSUME NEW found \in Found, NEW I \in SUBSET DOMAIN found
    PROVE  Sortings(found, I) # {}
  <1> DEFINE Unsorted == {n \in Nat : \E J \in SUBSET DOMAIN found :
                             Cardinality(J) = n /\ Sortings(found, J) = {}}
  <1>1. \A J \in SUBSET DOMAIN found : IsFiniteSet(J) /\ Cardinality(J) \in Nat
    <2>1. DOMAIN found \subseteq Invitation
          BY DEF Found
    <2> QED BY <2>1, MagicLinkAssumption, FS_Subset, FS_CardinalityType
  <1>2. SUFFICES ASSUME Unsorted # {} PROVE FALSE
        BY <1>1
  <1>3. PICK n \in Unsorted : \A l \in Unsorted : n <= l
        BY <1>2, LeastNatural
  <1>4. PICK J \in SUBSET DOMAIN found :
            Cardinality(J) = n /\ Sortings(found, J) = {}
        OBVIOUS
  <1>5. CASE n = 0
    <2>1. J = {}
          BY <1>1, <1>4, <1>5, FS_EmptySet
    <2>2. [l \in 1..0 |-> l] \in Sortings(found, J)
          BY <2>1, <1>4, <1>5 DEF Sortings
    <2> QED BY <2>2, <1>4
  <1>6. CASE n > 0
    <2> DEFINE Ages == {found[j].updated : j \in J}
    <2>1. J # {}
          BY <1>4, <1>6, FS_EmptySet
    <2>2. Ages # {} /\ Ages \subseteq Nat
          BY <2>1, Rows DEF RowFormat
    <2>3. PICK m \in J : \A j \in J : found[m].updated <= found[j].updated
      <3>1. PICK a \in Ages : \A b \in Ages : a <= b
            BY <2>2, LeastNatural
      <3> QED BY <3>1
    <2> DEFINE Rest == J \ {m}
    <2>4. Cardinality(Rest) = n - 1 /\ Rest \in SUBSET DOMAIN found
          BY <1>1, <1>4, FS_RemoveElement
    <2>5. n - 1 \notin Unsorted
          BY <1>3
    <2>6. PICK s \in Sortings(found, Rest) : TRUE
          BY <2>4, <2>5, <1>6
    <2> DEFINE t == [k \in 1..n |-> IF k = n THEN m ELSE s[k]]
    <2> HIDE DEF Rest
    <2>7. /\ s \in [1..n - 1 -> Rest]
          /\ \A i \in Rest : \E k \in 1..n - 1 : s[k] = i
          /\ \A k, l \in 1..n - 1 :
                 k < l => found[s[k]].updated >= found[s[l]].updated
          BY <2>4, <2>6 DEF Sortings
    <2>8. t \in [1..n -> J]
          BY <2>7 DEF Rest
    <2>9. \A i \in J : \E k \in 1..n : t[k] = i
      <3>1. TAKE i \in J
      <3>2. CASE i = m
            BY <3>2, <1>6
      <3>3. CASE i # m
        <4>1. PICK k \in 1..n - 1 : s[k] = i
              BY <3>3, <2>7 DEF Rest
        <4>2. k \in 1..n /\ k # n
              OBVIOUS
        <4> QED BY <4>1, <4>2
      <3> QED BY <3>2, <3>3
    <2>10. \A k, l \in 1..n :
               k < l => found[t[k]].updated >= found[t[l]].updated
      <3>1. SUFFICES ASSUME NEW k \in 1..n, NEW l \in 1..n, k < l
                     PROVE  found[t[k]].updated >= found[t[l]].updated
            OBVIOUS
      <3>2. k \in 1..n - 1 /\ t[k] = s[k] /\ s[k] \in J
            BY <3>1, <2>7 DEF Rest
      <3>3. CASE l = n
        <4>1. t[l] = m
              BY <3>3
        <4>2. found[m].updated <= found[s[k]].updated
              BY <2>3, <3>2
        <4>3. found[m].updated \in Nat /\ found[s[k]].updated \in Nat
              BY <3>2, Rows DEF RowFormat
        <4> HIDE DEF t
        <4> QED BY <3>2, <4>1, <4>2, <4>3
      <3>4. CASE l # n
        <4>1. l \in 1..n - 1 /\ t[l] = s[l]
              BY <3>4
        <4> HIDE DEF t
        <4> QED BY <2>7, <3>1, <3>2, <4>1
      <3> QED BY <3>3, <3>4
    <2> HIDE DEF t
    <2>11. t \in Sortings(found, J)
      <3>1. DOMAIN t = 1..n
            BY <2>8
      <3> QED BY <1>4, <2>8, <2>9, <2>10, <3>1 DEF Sortings
    <2> QED BY <2>11, <1>4
  <1> QED BY <1>5, <1>6

(* Whoever is newer than all the others comes first in every sorting, and  *)
(* the second is older.                                                    *)
LEMMA NewestIsFound ==
    ASSUME NEW found \in Found, NEW I \in SUBSET DOMAIN found,
           Cardinality(I) > 1, NEW i \in I,
           \A j \in I \ {i} : found[j].updated < found[i].updated
    PROVE  i \in Newest(found, I)
  <1> DEFINE n == Cardinality(I)
  <1>1. n \in Nat /\ IsFiniteSet(I)
    <2>1. DOMAIN found \subseteq Invitation
          BY DEF Found
    <2> QED BY <2>1, MagicLinkAssumption, FS_Subset, FS_CardinalityType
  <1>2. PICK s \in Sortings(found, I) : TRUE
        BY SortingExists
  <1>3. /\ s \in [1..n -> I]
        /\ \A j \in I : \E k \in 1..n : s[k] = j
        /\ \A k, l \in 1..n : k < l => found[s[k]].updated >= found[s[l]].updated
        BY <1>2 DEF Sortings
  <1>4. \A j \in I : found[j].updated \in Nat
        BY Rows DEF RowFormat
  <1> HIDE DEF n
  <1>5. 1 \in 1..n /\ 2 \in 1..n
        BY <1>1 DEF n
  <1>6. s[1] = i
    <2>1. PICK k \in 1..n : s[k] = i
          BY <1>3
    <2>2. k = 1 \/ 1 < k
          BY <2>1
    <2>3. ASSUME 1 < k PROVE s[1] = i
      <3>1. found[s[1]].updated >= found[i].updated
            BY <2>1, <2>3, <1>3, <1>5
      <3> QED BY <3>1, <1>3, <1>4, <1>5
    <2> QED BY <2>1, <2>2, <2>3
  <1>7. s[2] # i
    <2>1. s \in Surjection(1..n, I)
          BY <1>3, Fun_IsSurj
    <2>2. IsFiniteSet(1..n) /\ Cardinality(1..n) = Cardinality(I)
          BY <1>1, FS_Interval DEF n
    <2>3. s \in Injection(1..n, I)
          BY <2>1, <2>2, FS_Surjection
    <2> QED BY <2>3, <1>5, <1>6 DEF Injection, IsInjective
  <1>8. found[s[1]].updated # found[s[2]].updated
        BY <1>3, <1>4, <1>5, <1>6, <1>7
  <1> QED BY <1>2, <1>6, <1>8 DEF Newest

(* Whatever is found, the person pinned down is chosen.                    *)
LEMMA ResolveIsComplete == EveryPinnedDown
  <1> SUFFICES ASSUME NEW found \in Found, NEW asked \in Asked,
                      NEW time \in Time, NEW i \in DOMAIN found,
                      IsPinnedDown(i, found, asked, time)
               PROVE  i \in Resolve(found, EligibleIn(found, time), asked)
      BY DEF EveryPinnedDown
  <1> DEFINE I      == EligibleIn(found, time)
             subset == IF asked = None THEN I ELSE Named(found, I, asked)
             roots  == RootsIn(found, subset)
  <1>1. /\ subset = {j \in DOMAIN found :
                        /\ Eligible(found[j], time)
                        /\ asked # None => found[j].name = asked}
        /\ roots = {j \in subset : found[j].root}
        BY DEF EligibleIn, Named, RootsIn
  <1> DEFINE chosen == Resolve(found, I, asked)
  <1>2. /\ Cardinality(subset) = 1 => chosen = subset
        /\ Cardinality(subset) # 1 /\ Cardinality(roots) = 1 => chosen = roots
        /\ Cardinality(subset) # 1 /\ Cardinality(roots) > 1 /\ asked # None
               => chosen = Newest(found, roots)
        BY DEF Resolve
  <1> HIDE DEF subset, roots, chosen
  <1>3. i \in subset
        BY <1>1 DEF IsPinnedDown
  <1>4. \/ \A j \in subset : j = i
        \/ /\ i \in roots
           /\ \A j \in roots \ {i} :
                  asked # None /\ found[j].updated < found[i].updated
        BY <1>1, <1>3 DEF IsPinnedDown
  <1>5. IsFiniteSet(roots) /\ Cardinality(roots) \in Nat
    <2>1. DOMAIN found \subseteq Invitation
          BY DEF Found
    <2>2. roots \subseteq Invitation
          BY <2>1, <1>1
    <2> QED BY <2>2, MagicLinkAssumption, FS_Subset, FS_CardinalityType
  <1>6. CASE \A j \in subset : j = i
    <2>1. subset = {i}
          BY <1>3, <1>6
    <2>2. Cardinality(subset) = 1
          BY <2>1, FS_Singleton
    <2> QED BY <1>2, <1>3, <2>2 DEF chosen
  <1>7. CASE /\ i \in roots
             /\ \A j \in roots \ {i} :
                    asked # None /\ found[j].updated < found[i].updated
    <2>1. Cardinality(roots) >= 1
          BY <1>5, <1>7, FS_EmptySet
    <2>2. ASSUME Cardinality(roots) > 1
          PROVE  asked # None /\ i \in Newest(found, roots)
      <3>1. PICK j \in roots : j # i
        <4>1. SUFFICES ASSUME roots = {i} PROVE FALSE
              BY <1>7
        <4> QED BY <4>1, <2>2, FS_Singleton
      <3>2. asked # None /\ roots \in SUBSET DOMAIN found
            BY <3>1, <1>7, <1>1
      <3> QED BY <3>2, <2>2, <1>7, NewestIsFound
    <2>3. i \in chosen
          BY <1>2, <1>3, <1>5, <1>7, <2>1, <2>2
    <2> QED BY <2>3 DEF chosen
  <1> QED BY <1>4, <1>6, <1>7

(* A request is ambiguous only if contact and name pin nobody down.        *)
THEOREM PinnedDownAreChosen == Spec => []PinnedDownIsChosen
  <1>1. PinnedDownIsChosen
        BY ResolveIsComplete DEF PinnedDownIsChosen
  <1> QED BY <1>1, PTL
=============================================================================
