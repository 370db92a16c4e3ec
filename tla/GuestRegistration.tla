-------------------------- MODULE GuestRegistration --------------------------
(***************************************************************************)
(* What the confirmation chain promises for one invitation, without        *)
(* handlers, locks, jobs, retries and faults: a link is published only for *)
(* a seat, each with a token of its own; a published link is delivered at  *)
(* most once; a guest is registered only through a delivered link, and     *)
(* only while the invitation is on the list; the marker that the           *)
(* authentication service polls comes last.  None of this is undone.       *)
(***************************************************************************)
CONSTANT Token      \* the tokens of pending contacts

VARIABLES
    reserved,       \* a seat is reserved for the invitation
    link,           \* the seat each token was published for, or "unsent"
    delivered,      \* tokens whose link reached the guest
    listed,         \* the invitation is on the list
    registered,     \* a guest account is linked to it
    marked          \* the marker is written

vars == <<reserved, link, delivered, listed, registered, marked>>

TypeOK ==
    /\ reserved \in BOOLEAN /\ listed \in BOOLEAN
    /\ link \in [Token -> {"unsent", "known", "reserved"}]
    /\ delivered \subseteq Token
    /\ registered \in BOOLEAN /\ marked \in BOOLEAN

Init ==
    /\ reserved = FALSE
    /\ link = [t \in Token |-> "unsent"]
    /\ delivered = {}
    /\ listed = TRUE
    /\ registered = FALSE /\ marked = FALSE

ReserveSeat ==
    /\ reserved' = TRUE
    /\ UNCHANGED <<link, delivered, listed, registered, marked>>

(* seat: the one that was chosen beforehand, or the reserved one.          *)
Publish(t, seat) ==
    /\ link[t] = "unsent"
    /\ seat = "reserved" => reserved
    /\ link' = [link EXCEPT ![t] = seat]
    /\ UNCHANGED <<reserved, delivered, listed, registered, marked>>

Deliver(t) ==
    /\ link[t] # "unsent" /\ t \notin delivered
    /\ delivered' = delivered \cup {t}
    /\ UNCHANGED <<reserved, link, listed, registered, marked>>

Register ==
    /\ listed /\ delivered # {}
    /\ registered' = TRUE
    /\ UNCHANGED <<reserved, link, delivered, listed, marked>>

Mark ==
    /\ registered
    /\ marked' = TRUE
    /\ UNCHANGED <<reserved, link, delivered, listed, registered>>

Unlist ==
    /\ listed' = FALSE
    /\ UNCHANGED <<reserved, link, delivered, registered, marked>>

Next ==
    \/ ReserveSeat
    \/ \E t \in Token : Deliver(t) \/ \E s \in {"known", "reserved"} : Publish(t, s)
    \/ Register
    \/ Mark
    \/ Unlist

Spec == Init /\ [][Next]_vars
=============================================================================
