----------------------------- MODULE MCLifecycle -----------------------------
(***************************************************************************)
(* Instances of InvitationLifecycle for TLC.  Requests are interchangeable *)
(* slots, so the safety runs may identify states up to their permutation.  *)
(***************************************************************************)
EXTENDS InvitationLifecycle, TLC

RequestSymmetry == Permutations(Request)
=============================================================================
