----------------------------- MODULE GuestAnswer -----------------------------
(***************************************************************************)
(* What the RSVP promises to guests and administrators, with every reply,  *)
(* approval and hand-over in one step: a guest answers until a YES or a NO *)
(* is given, and that one stands; the analytics fact is reported together  *)
(* with the answer; an invitation is approved, and handed to the           *)
(* confirmation chain, only with a YES, an account is admitted to the      *)
(* event only when its guest said YES, and no answer takes an approval     *)
(* back.  The exception are contested invitations, whose final answer was  *)
(* overwritten by a reply that had not seen it.                            *)
(***************************************************************************)
CONSTANTS Invitation, Child

Answer == {"YES", "NO", "MAYBE"}
Final  == {"YES", "NO"}

VARIABLES
    answer,      \* what each guest said last, or "NONE"
    reported,    \* the last accepted or declined fact, or "NONE"
    approved,    \* the invitations that are approved
    handed,      \* those handed to the confirmation chain
    registered,  \* those with a guest account
    admitted,    \* those whose account was granted access to the event
    contested    \* those where two replies collided

vars == <<answer, reported, approved, handed, registered, admitted,
          contested>>

TypeOK ==
    /\ answer \in [Invitation -> Answer \cup {"NONE"}]
    /\ reported \in [Invitation -> Final \cup {"NONE"}]
    /\ approved \subseteq Invitation /\ handed \subseteq Invitation
    /\ registered \subseteq Invitation /\ admitted \subseteq Invitation
    /\ contested \subseteq Invitation

(* Some plus-ones are accepted from the start.                             *)
Init ==
    /\ answer \in [Invitation -> {"NONE", "YES"}]
    /\ reported = [i \in Invitation |-> "NONE"]
    /\ approved = {} /\ handed = {} /\ registered = {} /\ admitted = {}
    /\ contested = {}

Given(i, a) ==
    /\ answer' = [answer EXCEPT ![i] = a]
    /\ reported' = [reported EXCEPT ![i] = IF a \in Final THEN a ELSE @]
    /\ UNCHANGED <<handed, registered, admitted>>

Reply(i, a) ==
    /\ i \notin contested /\ answer[i] \notin Final
    /\ Given(i, a)
    /\ UNCHANGED <<approved, contested>>

Contest(i, a) ==
    /\ i \in contested \/ answer[i] \in Final
    /\ Given(i, a)
    /\ contested' = contested \cup {i}
    /\ approved' \in {approved, approved \ {i}}

(* Only to a YES, contested invitations aside.                             *)
Accepted(i) == i \notin contested => answer[i] = "YES"

Approve(i) ==
    /\ Accepted(i)
    /\ approved' = approved \cup {i}
    /\ UNCHANGED <<answer, reported, handed, registered, admitted, contested>>

(* By a rejection, or by staging, which may concern several.               *)
Withdraw ==
    /\ approved' \in SUBSET approved
    /\ UNCHANGED <<answer, reported, handed, registered, admitted, contested>>

HandOver(i) ==
    /\ Accepted(i)
    /\ handed' = handed \cup {i}
    /\ UNCHANGED <<answer, reported, approved, registered, admitted, contested>>

(* Plus-ones of an RSVP travel with their parent.                          *)
Register(i) ==
    /\ i \in handed \cup Child
    /\ registered' = registered \cup {i}
    /\ UNCHANGED <<answer, reported, approved, handed, admitted, contested>>

(* Access that was granted is never taken back.                            *)
Admit(i) ==
    /\ Accepted(i) /\ i \in registered
    /\ admitted' = admitted \cup {i}
    /\ UNCHANGED <<answer, reported, approved, handed, registered, contested>>

Next ==
    \/ \E i \in Invitation, a \in Answer : Reply(i, a) \/ Contest(i, a)
    \/ \E i \in Invitation : 
           Approve(i) \/ HandOver(i) \/ Register(i) \/ Admit(i)
    \/ Withdraw

Spec == Init /\ [][Next]_vars
=============================================================================
