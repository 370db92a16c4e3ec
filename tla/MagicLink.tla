------------------------------ MODULE MagicLink ------------------------------
(***************************************************************************)
(* The magic link a guest asks for with an email address or a number:      *)
(* GuestMagicLinkService and the counter of requests per ip address that   *)
(* it keeps in Valkey.                                                     *)
(*                                                                         *)
(* A request is counted first (INCR, and EXPIRE by the one that started    *)
(* the counter, an await later), then the invitations with the contact are *)
(* looked up, and one of them is chosen or the request is refused with a   *)
(* reason.  The caller learns nothing of all this.  Lookups may find any   *)
(* rows, other handlers change them all the time; how one is chosen is a   *)
(* pure function of what was found.                                        *)
(***************************************************************************)
EXTENDS Naturals, FiniteSets

CONSTANTS
    Ip,            \* the addresses requests come from
    NoIp,          \* the address is not known
    Request,       \* requests at work at a time
    Invitation,    \* the invitations that have the contact
    Row,           \* what they may look like
    Name,          \* full names, as normalizeNamePart leaves them
    None,          \* no full name, in a row or in a request
    MaxPerWindow,  \* RATE_LIMIT_MAX_PER_WINDOW
    MaxTime,       \* bound on the clock
    MaxFaults      \* bound on requests that fail

Status == {"PENDING", "DECLINED", "ACCEPTED", "APPROVED", "REJECTED",
           "APPROVAL_STAGED", "CANCELED"}

\* ends = 0: the end of the event is not known; updated = 0: nor is updatedAt.
RowFormat == [status : Status, profile : BOOLEAN, ends : Nat,
              name : Name \cup {None}, root : BOOLEAN, updated : Nat]

ASSUME MagicLinkAssumption ==
    /\ IsFiniteSet(Invitation)
    /\ None \notin Name /\ NoIp \notin Ip
    /\ {"NO_MATCH", "AMBIGUOUS"} \cap Invitation = {}
    /\ Row \subseteq RowFormat
    /\ MaxPerWindow \in Nat \ {0} /\ MaxTime \in Nat \ {0} /\ MaxFaults \in Nat

VARIABLES
    \* The counter of each address:
    count,      \* its value, exact up to MaxPerWindow + 1; 0: no such key
    ttl,        \* its time to live: "none" (never lapses), "long" or "short"
    \* The requests:
    at,         \* where each stands
    from,       \* the address whose counter it started
    \* History:
    passed,     \* requests that the present counter let through
    orphaned,   \* addresses whose EXPIRE was not carried out
    faults

vars == <<count, ttl, at, from, passed, orphaned, faults>>

TypeOK ==
    /\ count \in [Ip -> 0..MaxPerWindow + 1]
    /\ ttl \in [Ip -> {"none", "long", "short"}]
    /\ at \in [Request -> {"idle", "expire", "lookup", "send"}]
    /\ from \in [Request -> Ip \cup {NoIp}]
    /\ \A q \in Request : at[q] = "expire" <=> from[q] # NoIp
    /\ passed \in [Ip -> Nat] /\ orphaned \subseteq Ip
    /\ faults \in 0..MaxFaults

Init ==
    /\ count = [ip \in Ip |-> 0] /\ ttl = [ip \in Ip |-> "none"]
    /\ at = [q \in Request |-> "idle"] /\ from = [q \in Request |-> NoIp]
    /\ passed = [ip \in Ip |-> 0] /\ orphaned = {}
    /\ faults = 0

-----------------------------------------------------------------------------
(* The choice.  found is a function from the invitations with the contact  *)
(* to their rows.                                                          *)
Found == UNION {[I -> Row] : I \in SUBSET Invitation}
Asked == Name \cup {None}
Time  == 1..MaxTime

Eligible(row, time) ==
    row.status \in {"APPROVED", "ACCEPTED"} /\ row.ends > time /\ row.profile

EligibleIn(found, time) == {i \in DOMAIN found : Eligible(found[i], time)}

Named(found, I, asked) == {i \in I : found[i].name = asked}
RootsIn(found, I)      == {i \in I : found[i].root}

\* What sort() may return: ties may stay in any order.
Sortings(found, I) ==
    {s \in [1..Cardinality(I) -> I] :
        /\ \A i \in I : \E k \in DOMAIN s : s[k] = i
        /\ \A k, l \in DOMAIN s :
               k < l => found[s[k]].updated >= found[s[l]].updated}

\* Fault: the newest, though another is as new.
NewestOfTied(found, I) == {s[1] : s \in Sortings(found, I)}

\* Fault: no two of them may be of one age.
NewestOfDistinct(found, I) ==
    {s[1] : s \in {t \in Sortings(found, I) :
                      \A k, l \in DOMAIN t :
                          k < l => found[t[k]].updated # found[t[l]].updated}}

\* The newest of several, unless the second is as new.
Newest(found, I) ==
    {s[1] : s \in {t \in Sortings(found, I) :
                      found[t[1]].updated # found[t[2]].updated}}

\* resolveEligibleMatch: the invitations it may return, none for null.
Resolve(found, I, asked) ==
    LET subset == IF asked = None THEN I ELSE Named(found, I, asked)
        roots  == RootsIn(found, subset)
    IN  CASE Cardinality(subset) = 1 -> subset
          [] Cardinality(subset) # 1 /\ Cardinality(roots) = 1 -> roots
          [] /\ Cardinality(subset) # 1 /\ Cardinality(roots) > 1
             /\ asked # None -> Newest(found, roots)
          [] OTHER -> {}

\* ineligibleReason
IneligibleReason(found, time) ==
    LET Some(P(_)) == \E i \in DOMAIN found : P(found[i])
    IN  IF Some(LAMBDA row : row.status \notin {"APPROVED", "ACCEPTED"})
            THEN "INELIGIBLE_STATUS"
        ELSE IF Some(LAMBDA row : ~row.profile) THEN "MISSING_GUEST_PROFILE"
        ELSE IF Some(LAMBDA row : row.ends <= time) THEN "EVENT_EXPIRED"
        ELSE "INTERNAL_FAILURE"

\* What request() decides: the invitation to send to, or a result.  The reason
\* is worked out at a later reading of the clock than the eligibility.
Verdicts(found, asked, time, later) ==
    LET I == EligibleIn(found, time)
    IN  IF DOMAIN found = {} THEN {"NO_MATCH"}
        ELSE IF I = {} THEN {IneligibleReason(found, later)}
        ELSE IF Resolve(found, I, asked) = {} THEN {"AMBIGUOUS"}
        ELSE Resolve(found, I, asked)

\* Whatever may be decided at all: a lookup may find any rows.
Outcomes ==
    UNION {Verdicts(found, asked, t[1], t[2]) :
               found \in Found, asked \in Asked,
               t \in {u \in Time \X Time : u[1] <= u[2]}}

-----------------------------------------------------------------------------
(* Valkey's clock.                                                         *)
Age(ip) ==
    /\ ttl[ip] = "long"
    /\ ttl' = [ttl EXCEPT ![ip] = "short"]
    /\ UNCHANGED <<count, at, from, passed, orphaned, faults>>

Lapse(ip) ==
    /\ ttl[ip] = "short"
    /\ ttl' = [ttl EXCEPT ![ip] = "none"]
    /\ count' = [count EXCEPT ![ip] = 0]
    /\ passed' = [passed EXCEPT ![ip] = 0]
    /\ UNCHANGED <<at, from, orphaned, faults>>

-----------------------------------------------------------------------------
(* Requests.                                                               *)
\* Fault: one request too many.
LimitedLate(n) == n > MaxPerWindow + 1

Limited(n)      == n > MaxPerWindow
StartsWindow(n) == n = 1

\* INCR; a key it creates has no time to live.
Incremented(n) == IF Limited(n) THEN n ELSE n + 1

Goto(q, place) == at' = [at EXCEPT ![q] = place]

\* Fault: EXPIRE at every request, so that the window slides.
ArriveRenews(q, ip) ==
    LET n == Incremented(count[ip])
    IN  /\ at[q] = "idle"
        /\ count' = [count EXCEPT ![ip] = n]
        /\ ttl' = [ttl EXCEPT ![ip] = "long"]
        /\ IF Limited(n)
               THEN UNCHANGED <<at, passed>>
               ELSE /\ Goto(q, "lookup")
                    /\ passed' = [passed EXCEPT ![ip] = @ + 1]
        /\ UNCHANGED <<from, orphaned, faults>>

\* isRateLimited up to its second await; a limited request ends here.
Arrive(q, ip) ==
    LET n == Incremented(count[ip])
    IN  /\ at[q] = "idle"
        /\ count' = [count EXCEPT ![ip] = n]
        /\ \/ /\ StartsWindow(n)
              /\ Goto(q, "expire") /\ from' = [from EXCEPT ![q] = ip]
              /\ UNCHANGED passed
           \/ /\ ~StartsWindow(n) /\ ~Limited(n)
              /\ Goto(q, "lookup") /\ passed' = [passed EXCEPT ![ip] = @ + 1]
              /\ UNCHANGED from
           \/ /\ ~StartsWindow(n) /\ Limited(n)
              /\ UNCHANGED <<at, from, passed>>
        /\ UNCHANGED <<ttl, orphaned, faults>>

\* Fault: an unknown address is counted like any other.
ArriveUnchecked(q) ==
    /\ at[q] = "idle" /\ Goto(q, "expire")
    /\ UNCHANGED <<count, ttl, from, passed, orphaned, faults>>

\* A request whose address is not known is not counted.
ArriveUncounted(q) ==
    /\ at[q] = "idle" /\ Goto(q, "lookup")
    /\ UNCHANGED <<count, ttl, from, passed, orphaned, faults>>

\* EXPIRE of the counter it started, with the count 1.
Expire(q) ==
    LET ip == from[q]
    IN  /\ at[q] = "expire"
        /\ ttl' = [ttl EXCEPT ![ip] = IF count[ip] > 0 THEN "long" ELSE @]
        /\ passed' = [passed EXCEPT ![ip] = @ + 1]
        /\ Goto(q, "lookup") /\ from' = [from EXCEPT ![q] = NoIp]
        /\ UNCHANGED <<count, orphaned, faults>>

\* The identifier is neither an address nor a number, or there is no tenant.
Unusable(q) ==
    /\ at[q] = "lookup" /\ Goto(q, "idle")
    /\ UNCHANGED <<count, ttl, from, passed, orphaned, faults>>

\* findMatches and the choice.
Lookup(q) ==
    /\ at[q] = "lookup"
    /\ \E verdict \in Outcomes :
           Goto(q, IF verdict \in Invitation THEN "send" ELSE "idle")
    /\ UNCHANGED <<count, ttl, from, passed, orphaned, faults>>

\* The authentication service is asked to send the chosen guest a link.
Dispatch(q) ==
    /\ at[q] = "send" /\ Goto(q, "idle")
    /\ UNCHANGED <<count, ttl, from, passed, orphaned, faults>>

\* A remote call fails or the process stops.  A counter that just started
\* stays without a time to live; a failed INCR changes nothing at all.
Fail(q) ==
    /\ at[q] # "idle" /\ faults < MaxFaults
    /\ orphaned' = orphaned \cup ({from[q]} \ {NoIp})
    /\ faults' = faults + 1
    /\ Goto(q, "idle") /\ from' = [from EXCEPT ![q] = NoIp]
    /\ UNCHANGED <<count, ttl, passed>>

Continue(q) == Expire(q) \/ Unusable(q) \/ Lookup(q) \/ Dispatch(q)

Next ==
    \/ \E q \in Request : Continue(q) \/ Fail(q) \/ ArriveUncounted(q)
    \/ \E q \in Request, ip \in Ip : Arrive(q, ip)
    \/ \E ip \in Ip : Age(ip) \/ Lapse(ip)

Spec == Init /\ [][Next]_vars

(* Requests are resumed, and Valkey's clock runs.                          *)
FairSpec ==
    /\ Spec
    /\ \A q \in Request : WF_vars(Continue(q))
    /\ \A ip \in Ip : WF_vars(Age(ip)) /\ WF_vars(Lapse(ip))

-----------------------------------------------------------------------------
(* Correctness.  KeyWillLapse and RefusalIsExplained are proved, and       *)
(* checked by no run.                                                      *)

\* One window of an address lets at most MaxPerWindow requests through, also
\* when others are counted between the INCR that starts it and its EXPIRE
\* (isRateLimited).
WindowBounded == \A ip \in Ip : passed[ip] <= MaxPerWindow

\* A counter without a time to live has a request that is about to set it,
\* unless that one failed: isRateLimited sets it once, where the count is 1.
KeyWillLapse ==
    \A ip \in Ip :
        count[ip] > 0 /\ ttl[ip] = "none" =>
            \/ ip \in orphaned
            \/ \E q \in Request : at[q] = "expire" /\ from[q] = ip

\* The one person that contact and name pin down: an eligible invitation under
\* the name, if one was given, that is alone, or the only root, or a root that
\* was updated after all the others (the ladder above resolveEligibleMatch).
IsPinnedDown(i, found, asked, time) ==
    LET Candidate(j) == /\ Eligible(found[j], time)
                        /\ asked # None => found[j].name = asked
        Rival(j)     == j # i /\ Candidate(j)
    IN  /\ Candidate(i)
        /\ \/ \A j \in DOMAIN found : ~Rival(j)
           \/ /\ found[i].root
              /\ \A j \in DOMAIN found :
                     Rival(j) /\ found[j].root =>
                         asked # None /\ found[j].updated < found[i].updated

\* What each lookup must keep to, whatever it finds.
OnlyPinnedDown ==
    \A found \in Found, asked \in Asked, time \in Time :
        \A i \in Resolve(found, EligibleIn(found, time), asked) :
            IsPinnedDown(i, found, asked, time)

EveryPinnedDown ==
    \A found \in Found, asked \in Asked, time \in Time :
        \A i \in DOMAIN found :
            IsPinnedDown(i, found, asked, time) =>
                i \in Resolve(found, EligibleIn(found, time), asked)

\* A request about to send does so to the person pinned down and to no one
\* else, whatever its lookup found, in whatever order the rows came and ties
\* were sorted (request, resolveEligibleMatch).
ChosenIsPinnedDown == (\E q \in Request : at[q] = "send") => OnlyPinnedDown

\* A request about to look up is refused as ambiguous only if what it finds
\* pins nobody down (request, resolveEligibleMatch).
PinnedDownIsChosen == (\E q \in Request : at[q] = "lookup") => EveryPinnedDown

\* Every refusal has a reason, though eligibility and reason are worked out at
\* two readings of the clock, and EVENT_EXPIRED is said only when nothing but
\* the time is in the way of every invitation found (request, ineligibleReason).
RefusalIsExplained ==
    \A found \in Found, time \in Time :
        \A later \in time..MaxTime :
            LET reason == IneligibleReason(found, later)
            IN  DOMAIN found # {} /\ EligibleIn(found, time) = {} =>
                    /\ reason # "INTERNAL_FAILURE"
                    /\ reason = "EVENT_EXPIRED" =>
                           \A i \in DOMAIN found :
                               Eligible([found[i] EXCEPT !.ends = later + 1],
                                        later)

\* An address that is limited is not limited for ever, however often it asks,
\* unless the EXPIRE of its counter failed (isRateLimited).
LimitLifts ==
    \A ip \in Ip : Limited(count[ip]) ~> count[ip] = 0 \/ ip \in orphaned
=============================================================================
