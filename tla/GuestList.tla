----------------------------- MODULE GuestList -----------------------------
(***************************************************************************)
(* The guest list of one event: how invitations come onto it and go off    *)
(* it, and what they leave in the other stores.                            *)
(*                                                                         *)
(* An invitation may have a pending contact, which lives in the cache      *)
(* under a token that the row keeps, and a guest account, which lives at   *)
(* the authentication service.  Neither store takes part in the database's *)
(* transactions: the services write the cache, and send the command that   *)
(* deletes an account, in the middle of transactions that may still be     *)
(* rolled back, or after they are committed.  An import reads the names on *)
(* the list once and then inserts row by row.                              *)
(*                                                                         *)
(* Rows are locked from a transaction's first write to its end; what it    *)
(* did is seen by others when it is committed (read committed).            *)
(***************************************************************************)
EXTENDS Naturals, FiniteSets, Sequences

CONSTANTS
    Invitation,  \* ids; none is used twice
    Name,        \* keys `first-last` of the guests
    NameOf,      \* the name of the guest an id would be given to
    File,        \* the tables an administrator may import
    Request,     \* split requests at work at a time
    None,        \* no invitation
    MaxTokens,   \* bound on the contacts ever put into the cache
    MaxFaults    \* bound on requests that die

\* A line of an import: maxPlusOnes may not be a number.
Line == [name : Name, number : BOOLEAN]

ASSUME GuestListAssumption ==
    /\ None \notin Invitation
    /\ NameOf \in [Invitation -> Name]
    /\ File \subseteq Seq(Line)
    /\ MaxTokens \in Nat /\ MaxFaults \in Nat

VARIABLES
    \* The table:
    rows,        \* invitations that are there
    parent,      \* whose plus-one an invitation is
    contact,     \* pendingContactId, or 0
    answered,    \* invitations answered with a YES
    linked,      \* invitations with a guestProfileId
    \* The other stores:
    cache,       \* tokens whose contact is cached
    owner,       \* the invitation each token was made for
    asked,       \* invitations whose account's deletion was sent
    \* The requests:
    at, job, import,
    \* History:
    used,        \* ids that were given away
    public,      \* invitations of public RSVPs
    imported,    \* invitations inserted by an import
    undone,      \* rows that a deletion gave back when it was rolled back
    died,        \* invitations whose request died after caching a contact
    overlapped,  \* two imports were at work together
    faults

table   == <<rows, parent, contact, answered, linked>>
stores  == <<cache, owner, asked>>
history == <<used, public, imported, undone, died, overlapped, faults>>
vars    == <<table, stores, at, job, import, history>>

Token == 1..MaxTokens

Place == {"idle", "insert",                     \* importInvitations
          "cache guest", "attach",              \* createFromPublicRsvp
          "cache child", "commit child",        \* createPlusOne
          "begin reply", "commit reply",        \* reply
          "drop contact", "delete row", "send", "commit delete"}

\* A request about an invitation: the token it cached; what a deletion read
\* (contacts and accounts), what it has still to delete, and what it touched.
Job == [inv : Invitation \cup {None}, parent : Invitation \cup {None},
        token : 0..MaxTokens, contacts : SUBSET Token,
        guests : SUBSET Invitation, left : SUBSET Invitation,
        touched : SUBSET Invitation]
NoJob == [inv |-> None, parent |-> None, token |-> 0, contacts |-> {},
          guests |-> {}, left |-> {}, touched |-> {}]

\* An import: the lines left, and the names it knows.
Import   == [left : Seq(Line), known : SUBSET Name]
NoImport == [left |-> << >>, known |-> {}]

TableOK ==
    /\ rows \subseteq used /\ used \subseteq Invitation
    /\ parent \in [Invitation -> Invitation \cup {None}]
    /\ contact \in [Invitation -> 0..MaxTokens]
    /\ answered \subseteq Invitation /\ linked \subseteq Invitation

StoresOK ==
    /\ owner \in Seq(Invitation) /\ Len(owner) <= MaxTokens
    /\ cache \subseteq 1..Len(owner)
    /\ asked \subseteq Invitation

RequestsOK ==
    /\ at \in [Request -> Place] /\ job \in [Request -> Job]
    /\ import \in [Request -> Import]

HistoryOK ==
    /\ public \subseteq rows /\ imported \subseteq rows
    /\ undone \subseteq Invitation /\ died \subseteq Invitation
    /\ overlapped \in BOOLEAN /\ faults \in Nat

TypeOK == TableOK /\ StoresOK /\ RequestsOK /\ HistoryOK

Init ==
    /\ rows = {} /\ parent = [i \in Invitation |-> None]
    /\ contact = [i \in Invitation |-> 0]
    /\ answered = {} /\ linked = {}
    /\ cache = {} /\ owner = << >> /\ asked = {}
    /\ at = [q \in Request |-> "idle"] /\ job = [q \in Request |-> NoJob]
    /\ import = [q \in Request |-> NoImport]
    /\ used = {} /\ public = {} /\ imported = {} /\ undone = {} /\ died = {}
    /\ overlapped = FALSE /\ faults = 0

-----------------------------------------------------------------------------
(* Rows and locks.                                                         *)
PlusOnes(i) == {c \in rows : parent[c] = i}

\* The rows that go with S (ON DELETE CASCADE).
Tree(S) ==
    LET below[n \in Nat] ==
            IF n = 0 THEN S
            ELSE below[n - 1] \cup {c \in rows : parent[c] \in below[n - 1]}
    IN  S \cup below[Cardinality(Invitation)]

\* The rows that an open transaction deleted, and all that it wrote.
Deleted(q) ==
    IF at[q] \in {"drop contact", "delete row", "send", "commit delete"}
    THEN Tree(job[q].touched \ job[q].left) ELSE {}

Locked(q) ==
    Deleted(q) \cup
    CASE at[q] \in {"cache child", "commit child", "send", "commit delete"} ->
             {job[q].parent}
      [] at[q] = "commit reply" -> {job[q].inv}
      [] OTHER                  -> {}

Free(S) == \A q \in Request : S \cap Locked(q) = {}

Goto(q, place, j) ==
    /\ at' = [at EXCEPT ![q] = place] /\ job' = [job EXCEPT ![q] = j]
    /\ UNCHANGED import

End(q) ==
    /\ at' = [at EXCEPT ![q] = "idle"] /\ job' = [job EXCEPT ![q] = NoJob]
    /\ import' = [import EXCEPT ![q] = NoImport]

Stay == UNCHANGED <<at, job, import>>

\* New rows; a row that is being deleted cannot be referred to.
Insert(S, p) ==
    /\ S \subseteq Invitation \ used
    /\ p # None => p \in rows /\ \A q \in Request : p \notin Deleted(q)
    /\ rows' = rows \cup S /\ used' = used \cup S
    /\ parent' = [i \in Invitation |-> IF i \in S THEN p ELSE parent[i]]

\* Rows go, with what they hold, and with those they invited.
Remove(S) ==
    LET kept == rows \ Tree(S)
    IN  /\ rows'     = kept
        /\ parent'   = [i \in Invitation |-> IF i \in kept THEN parent[i] ELSE None]
        /\ contact'  = [i \in Invitation |-> IF i \in kept THEN contact[i] ELSE 0]
        /\ answered' = answered \cap kept /\ linked' = linked \cap kept
        /\ public'   = public \cap kept   /\ imported' = imported \cap kept
        /\ undone'   = undone \cap kept   /\ died' = died \cap kept

\* cache.set: a new token for the contact of an invitation.
NewTokenSkips == Len(owner) + 2  \* fault: a token is skipped
NewToken == Len(owner) + 1

\* Fault: the contact is not there when the token is returned.
CacheContactLost(i) ==
    /\ NewToken <= MaxTokens
    /\ owner' = Append(owner, i) /\ UNCHANGED cache

CacheContact(i) ==
    /\ NewToken <= MaxTokens
    /\ owner' = Append(owner, i)
    /\ cache' = cache \cup {NewToken}

-----------------------------------------------------------------------------
(* create: a row without a contact, of a guest or of a plus-one.           *)
Create(i, p) ==
    /\ Insert({i}, p)
    /\ Stay
    /\ UNCHANGED <<contact, answered, linked, stores, public, imported, undone,
                   died, overlapped, faults>>

(* importInvitations                                                       *)
Importing(q) == at[q] = "insert"

\* The file is valid: each line has both names.  The list is read once.
ImportRead(q, f) ==
    /\ at[q] = "idle"
    /\ at' = [at EXCEPT ![q] = "insert"]
    /\ import' = [import EXCEPT ![q] =
                      [left |-> f, known |-> {NameOf[i] : i \in rows}]]
    /\ overlapped' = (overlapped \/ \E r \in Request : Importing(r))
    /\ UNCHANGED <<job, table, stores, used, public, imported, undone, died,
                   faults>>

\* Fault: the import does not remember the names it inserts.
KnownAfterForgotten(known, n) == known

\* existingSet.add(key)
KnownAfter(known, n) == known \cup {n}

ImportLine(q) ==
    LET line == Head(import[q].left)
    IN  /\ Importing(q) /\ import[q].left # << >>
        /\ UNCHANGED <<contact, answered, linked, stores, public, undone, died,
                       overlapped, faults>>
        /\ \/ /\ line.name \in import[q].known          \* a duplicate
              /\ import' = [import EXCEPT ![q].left = Tail(@)]
              /\ UNCHANGED <<at, job, rows, parent, used, imported>>
           \/ /\ line.name \notin import[q].known /\ line.number
              /\ \E i \in Invitation :
                     /\ NameOf[i] = line.name
                     /\ Insert({i}, None) /\ imported' = imported \cup {i}
              /\ import' = [import EXCEPT ![q] =
                                [left |-> Tail(@.left),
                                 known |-> KnownAfter(@.known, line.name)]]
              /\ UNCHANGED <<at, job>>
           \/ /\ line.name \notin import[q].known /\ ~line.number
              /\ End(q)                                 \* NaN is refused
              /\ UNCHANGED <<rows, parent, used, imported>>

ImportEnds(q) ==
    /\ Importing(q) /\ import[q].left = << >> /\ End(q)
    /\ UNCHANGED <<table, stores, history>>

(* createFromPublicRsvp: the rows of the guest and the plus-ones are       *)
(* committed, then the contact is cached, then attached.                   *)
CreateFromPublicRsvp(q, i, S) ==
    /\ at[q] = "idle" /\ i \notin S /\ i \notin used
    /\ S \subseteq Invitation \ used
    /\ rows' = rows \cup S \cup {i} /\ used' = used \cup S \cup {i}
    /\ parent' = [c \in Invitation |-> IF c \in S THEN i
                                       ELSE IF c = i THEN None ELSE parent[c]]
    /\ answered' = answered \cup S \cup {i}
    /\ public' = public \cup {i}
    /\ Goto(q, "cache guest", [NoJob EXCEPT !.inv = i])
    /\ UNCHANGED <<contact, linked, stores, imported, undone, died,
                   overlapped, faults>>

CacheGuest(q) ==
    /\ at[q] = "cache guest" /\ CacheContact(job[q].inv)
    /\ Goto(q, "attach", [job[q] EXCEPT !.token = NewToken])
    /\ UNCHANGED <<table, asked, history>>

\* Fault: the token is not stored with the row.
AttachContactForgotten(q) ==
    /\ at[q] = "attach" /\ End(q)
    /\ UNCHANGED <<table, stores, history>>

\* The update fails when the row was deleted meanwhile.
AttachContact(q) ==
    /\ at[q] = "attach" /\ Free({job[q].inv}) /\ End(q)
    /\ contact' = IF job[q].inv \in rows
                  THEN [contact EXCEPT ![job[q].inv] = job[q].token]
                  ELSE contact
    /\ UNCHANGED <<rows, parent, answered, linked, stores, history>>

(* createPlusOne: one transaction, the contact is cached in the middle.    *)
CreatePlusOne(q, p, c) ==
    /\ at[q] = "idle" /\ p \in rows /\ Free({p}) /\ c \notin used
    /\ used' = used \cup {c}
    /\ Goto(q, "cache child", [NoJob EXCEPT !.inv = c, !.parent = p])
    /\ UNCHANGED <<table, stores, public, imported, undone, died,
                   overlapped, faults>>

CacheChild(q) ==
    /\ at[q] = "cache child" /\ CacheContact(job[q].inv)
    /\ Goto(q, "commit child", [job[q] EXCEPT !.token = NewToken])
    /\ UNCHANGED <<table, asked, history>>

CommitChild(q) ==
    LET c == job[q].inv
    IN  /\ at[q] = "commit child" /\ End(q)
        /\ rows' = rows \cup {c}
        /\ parent' = [parent EXCEPT ![c] = job[q].parent]
        /\ contact' = [contact EXCEPT ![c] = job[q].token]
        \* A plus-one that is approved at once has its answer.
        /\ answered' \in {answered, answered \cup {c}}
        /\ UNCHANGED <<linked, stores, history>>

(* reply with YES: the row is read, then updated and locked, the contact   *)
(* cached, and its token stored.  (A reply without YES caches nothing.)    *)
ReplyRead(q, i) ==
    /\ at[q] = "idle" /\ i \in rows \ answered
    /\ Goto(q, "begin reply", [NoJob EXCEPT !.inv = i])
    /\ UNCHANGED <<table, stores, history>>

\* Fault: the contact is cached before the row is locked.
ReplyBeginUnlocked(q) ==
    LET i == job[q].inv
    IN  /\ at[q] = "begin reply"
        /\ CacheContact(i)
        /\ Goto(q, "attach", [job[q] EXCEPT !.token = NewToken])
        /\ UNCHANGED <<table, asked, history>>

ReplyBegin(q) ==
    LET i == job[q].inv
    IN  /\ at[q] = "begin reply" /\ Free({i})
        /\ UNCHANGED <<table, asked, history>>
        /\ \/ /\ i \in rows /\ CacheContact(i)
              /\ Goto(q, "commit reply", [job[q] EXCEPT !.token = NewToken])
           \/ i \notin rows /\ End(q) /\ UNCHANGED <<cache, owner>>

\* S: the plus-ones that come with the reply.
ReplyCommit(q, S) ==
    LET i == job[q].inv
    IN  /\ at[q] = "commit reply" /\ End(q)
        /\ S \subseteq Invitation \ used
        /\ rows' = rows \cup S /\ used' = used \cup S
        /\ parent' = [c \in Invitation |-> IF c \in S THEN i ELSE parent[c]]
        /\ contact' = [contact EXCEPT ![i] = job[q].token]
        /\ answered' = answered \cup S \cup {i}
        /\ UNCHANGED <<linked, stores, public, imported, undone, died,
                       overlapped, faults>>

-----------------------------------------------------------------------------
(* deletePlusOne and deleteAllPlusOnes: one transaction over a list of     *)
(* plus-ones.  What the list says of contacts and accounts is as of now.   *)
\* Fault: the account of the guest who invited them is taken along.
DeleteReadParent(q, p, list) ==
    Goto(q, IF list = {} THEN "send" ELSE "drop contact",
         [NoJob EXCEPT !.parent = p, !.left = list,
                       !.contacts = {contact[c] : c \in list} \ {0},
                       !.guests = (list \cup {p}) \cap linked])

DeleteRead(q, p, list) ==
    Goto(q, IF list = {} THEN "send" ELSE "drop contact",
         [NoJob EXCEPT !.parent = p, !.left = list,
                       !.contacts = {contact[c] : c \in list} \ {0},
                       !.guests = list \cap linked])

DeletePlusOne(q, c) ==
    /\ at[q] = "idle" /\ c \in rows /\ parent[c] # None
    /\ DeleteRead(q, parent[c], {c})
    /\ UNCHANGED <<table, stores, history>>

DeleteAllPlusOnes(q, p) ==
    /\ at[q] = "idle" /\ p \in rows
    /\ DeleteRead(q, p, PlusOnes(p))
    /\ UNCHANGED <<table, stores, history>>

\* The cached contact goes at once, before the row is locked.
DropContact(q, c) ==
    /\ at[q] = "drop contact" /\ c \in job[q].left
    /\ cache' = cache \ {t \in job[q].contacts : owner[t] = c}
    /\ Goto(q, "delete row", [job[q] EXCEPT !.inv = c,
                                            !.touched = @ \cup {c}])
    /\ UNCHANGED <<table, owner, asked, history>>

\* The transaction is rolled back; the cache is not.
GiveBack(q) == undone' = undone \cup (job[q].touched \cap rows)

\* A row that is no longer there ends the transaction.
DeleteRow(q) ==
    LET c    == job[q].inv
        left == job[q].left \ {c}
    IN  /\ at[q] = "delete row"
        /\ Free(Tree({c}) \ Deleted(q))
        /\ UNCHANGED <<table, stores, used, public, imported, died,
                       overlapped, faults>>
        /\ \/ /\ c \in rows
              /\ left = {} => Free({job[q].parent})
              /\ Goto(q, IF left = {} THEN "send" ELSE "drop contact",
                      [job[q] EXCEPT !.left = left])
              /\ UNCHANGED undone
           \/ c \notin rows /\ GiveBack(q) /\ End(q)

\* authentication.deleteGuest or deleteGuestList, before the commit.
SendDeleteGuest(q) ==
    /\ at[q] = "send"
    /\ asked' = asked \cup job[q].guests
    /\ Goto(q, "commit delete", job[q])
    /\ UNCHANGED <<table, cache, owner, history>>

DeleteCommit(q) ==
    /\ at[q] = "commit delete" /\ End(q)
    /\ Remove(job[q].touched)
    /\ UNCHANGED <<stores, used, overlapped, faults>>

(* delete, deleteMany, deleteByGuestId, deleteByEventIds: the rows, and    *)
(* nothing in the other stores.                                            *)
Delete(S) ==
    /\ S # {} /\ S \subseteq rows /\ Free(Tree(S)) /\ Stay
    /\ Remove(S)
    /\ UNCHANGED <<stores, used, overlapped, faults>>

(* addGuestId: the account that the guest made from a contact, which names *)
(* the plus-ones of a public RSVP too, is linked to the row.               *)
AddGuestId(i) ==
    /\ \E t \in DOMAIN owner : owner[t] \in {i, parent[i]}
    /\ i \in rows \ linked /\ Free({i})
    /\ linked' = linked \cup {i}
    /\ Stay
    /\ UNCHANGED <<rows, parent, contact, answered, stores, history>>

(* A request dies, its transaction fails, or its process stops: what it    *)
(* did not commit is rolled back, what it did elsewhere stays.             *)
Fail(q) ==
    /\ at[q] # "idle" /\ faults < MaxFaults /\ faults' = faults + 1
    /\ End(q) /\ GiveBack(q)
    /\ died' = died \cup ({job[q].inv} \cap rows)
    /\ UNCHANGED <<table, stores, used, public, imported, overlapped>>

-----------------------------------------------------------------------------
Start(q) ==
    \/ \E f \in File : ImportRead(q, f)
    \/ \E i \in Invitation, S \in SUBSET Invitation :
           CreateFromPublicRsvp(q, i, S)
    \/ \E p, c \in Invitation : CreatePlusOne(q, p, c)
    \/ \E i \in Invitation : \/ ReplyRead(q, i) \/ DeletePlusOne(q, i)
                             \/ DeleteAllPlusOnes(q, i)

Continue(q) ==
    \/ ImportLine(q) \/ ImportEnds(q)
    \/ CacheGuest(q) \/ AttachContact(q)
    \/ CacheChild(q) \/ CommitChild(q)
    \/ ReplyBegin(q) \/ \E S \in SUBSET Invitation : ReplyCommit(q, S)
    \/ \E c \in Invitation : DropContact(q, c)
    \/ DeleteRow(q) \/ SendDeleteGuest(q) \/ DeleteCommit(q)

Next ==
    \/ \E q \in Request : Start(q) \/ Continue(q) \/ Fail(q)
    \/ \E i \in Invitation, p \in Invitation \cup {None} : Create(i, p)
    \/ \E S \in SUBSET Invitation : Delete(S)
    \/ \E i \in Invitation : AddGuestId(i)

Spec == Init /\ [][Next]_vars

-----------------------------------------------------------------------------
(* Properties.                                                             *)

\* A deletion at work has dropped the contact of the row.
InDeletion(i) == \E q \in Request : i \in job[q].touched

(* The token of a row leads to a cached contact, so that the guest can be  *)
(* sent a link: unless a deletion took the contact and was rolled back, by *)
(* a failure or because another request had deleted one of its rows.       *)
ContactsResolve ==
    \A i \in rows \ undone :
        contact[i] # 0 => contact[i] \in cache \/ InDeletion(i)

\* A request holds a token for the row that it has not stored yet.
InHand(i) == \E q \in Request : job[q].inv = i /\ job[q].token # 0

(* A row keeps the newest of the contacts that were cached for it, in      *)
(* spite of double replies: unless a request died with one in its hands.   *)
NewestIsAttached ==
    \A i \in rows \ died :
        InHand(i) \/ \A t \in DOMAIN owner : owner[t] = i => t <= contact[i]

(* The guest of a public RSVP, who is accepted from the start, has a       *)
(* contact: unless its request is still at work or died.                   *)
PublicGuestsHaveContact ==
    \A i \in (public \cap rows) \ died :
        \/ contact[i] # 0
        \/ \E q \in Request : /\ at[q] \in {"cache guest", "attach"}
                              /\ job[q].inv = i

(* An account whose deletion was sent belongs to no row on the list,       *)
(* unless the deletion was rolled back.                                    *)
AskedAreGone ==
    \A i \in asked \ undone : i \notin rows \/ InDeletion(i)

(* As long as imports do not overlap, they insert no name twice, whatever  *)
(* is repeated in the file, and whether or not an earlier import died.     *)
ImportedOnce ==
    ~overlapped =>
        \A i, j \in rows \cap imported : NameOf[i] = NameOf[j] => i = j
=============================================================================
