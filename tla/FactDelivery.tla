---------------------------- MODULE FactDelivery ----------------------------
(***************************************************************************)
(* What the analytics outbox promises for each fact, without publishers,   *)
(* locks and retries: a fact is recorded once, together with the change it *)
(* reports; only recorded facts are delivered, possibly several times; it  *)
(* counts as published only when it was delivered, and that is final; a    *)
(* fact may be given up, unless it counts as published already.            *)
(***************************************************************************)
CONSTANT Fact

VARIABLES
    outcome,    \* "none" before the fact is recorded, "pending" until it is
                \* settled, "published" or "dead"
    delivered   \* facts that reached the broker at least once

vars == <<outcome, delivered>>

Outcome == {"none", "pending", "published", "dead"}

TypeOK ==
    /\ outcome \in [Fact -> Outcome]
    /\ delivered \subseteq Fact

Init ==
    /\ outcome = [f \in Fact |-> "none"]
    /\ delivered = {}

Record(f) ==
    /\ outcome[f] = "none"
    /\ outcome' = [outcome EXCEPT ![f] = "pending"]
    /\ UNCHANGED delivered

(* A publisher whose lease ran out delivers even what is settled.          *)
Deliver(f) ==
    /\ outcome[f] # "none"
    /\ delivered' = delivered \cup {f}
    /\ UNCHANGED outcome

Acknowledge(f) ==
    /\ outcome[f] \in {"pending", "dead"}
    /\ f \in delivered
    /\ outcome' = [outcome EXCEPT ![f] = "published"]
    /\ UNCHANGED delivered

GiveUp(f) ==
    /\ outcome[f] = "pending"
    /\ outcome' = [outcome EXCEPT ![f] = "dead"]
    /\ UNCHANGED delivered

Next == \E f \in Fact : Record(f) \/ Deliver(f) \/ Acknowledge(f) \/ GiveUp(f)

Spec == Init /\ [][Next]_vars
=============================================================================
