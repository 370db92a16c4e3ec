------------------------------ MODULE MCGuestList ------------------------------
EXTENDS GuestList, TLC

\* Instances for TLC: two invitations of guests of one name.
CONSTANTS i1, i2, q1, q2, n1, n2

MCInvitation == {i1, i2}
MCNameOf     == (i1 :> n1) @@ (i2 :> n1)
MCFile       == {<<[name |-> n1, number |-> TRUE], [name |-> n1, number |-> TRUE]>>,
                 <<[name |-> n1, number |-> TRUE], [name |-> n2, number |-> FALSE]>>}
Symmetric    == Permutations({i1, i2}) \cup Permutations({q1, q2})
================================================================================
