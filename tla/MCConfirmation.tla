--------------------------- MODULE MCConfirmation ---------------------------
(* GuestConfirmation for TLC: handlers are interchangeable.                *)
EXTENDS GuestConfirmation, TLC

CONSTANTS r1, r2

Symm == Permutations(Run)
=============================================================================
