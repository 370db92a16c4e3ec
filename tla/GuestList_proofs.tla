-------------------------- MODULE GuestList_proofs --------------------------
(***************************************************************************)
(* Proofs about GuestList, for all invitations, names, files, requests and *)
(* bounds.                                                                 *)
(***************************************************************************)
EXTENDS GuestList, TLAPS

Holding  == {"attach", "commit child", "commit reply"}
Writing  == Holding \cup {"cache guest", "cache child", "begin reply"}
Deleting == {"drop contact", "delete row", "send", "commit delete"}

(* What a request carries fits the place where it is.                      *)
Fits(place, j, ids) ==
    /\ place \in {"idle", "insert"} => j = NoJob
    /\ place \in Writing =>
           /\ j.inv \in ids /\ j.touched = {}
           /\ j.contacts = {} /\ j.guests = {}
           /\ place \in Holding <=> j.token # 0
    /\ place \in Deleting =>
           /\ j.token = 0 /\ j.guests \subseteq j.touched \cup j.left
           /\ place = "delete row" => j.inv \in j.touched
           /\ place \in {"send", "commit delete"} => j.left = {}

JobInv == \A q \in Request : Fits(at[q], job[q], used)

(* An id that was not given away has left no trace.                        *)
FreshInv ==
    /\ answered \subseteq used /\ linked \subseteq used
    /\ \A i \in Invitation \ used : contact[i] = 0
    /\ asked \subseteq used
    /\ \A q \in Request : job[q].guests \subseteq used
    /\ \A t \in 1..Len(owner) : owner[t] \in used

BasicInv == TypeOK /\ JobInv /\ FreshInv

-----------------------------------------------------------------------------
(* Values and updates.                                                     *)
LEMMA Values == /\ NoJob \in Job /\ NoImport \in Import
                /\ 0 \in 0..MaxTokens /\ None \in Invitation \cup {None}
  <1>1. 0 \in 0..MaxTokens
        BY GuestListAssumption
  <1> QED BY <1>1 DEF NoJob, NoImport, Job, Import

LEMMA GotoTypes ==
    ASSUME TypeOK, NEW q \in Request, NEW place \in Place, NEW j \in Job,
           Goto(q, place, j)
    PROVE  /\ at' \in [Request -> Place] /\ job' \in [Request -> Job]
           /\ import' \in [Request -> Import]
           /\ at'[q] = place /\ job'[q] = j
           /\ \A r \in Request \ {q} : at'[r] = at[r] /\ job'[r] = job[r]
  BY DEF TypeOK, RequestsOK, Goto

LEMMA EndTypes ==
    ASSUME TypeOK, NEW q \in Request, End(q)
    PROVE  /\ at' \in [Request -> Place] /\ job' \in [Request -> Job]
           /\ import' \in [Request -> Import]
           /\ at'[q] = "idle" /\ job'[q] = NoJob /\ import'[q] = NoImport
           /\ \A r \in Request \ {q} : /\ at'[r] = at[r] /\ job'[r] = job[r]
                                       /\ import'[r] = import[r]
  BY Values DEF TypeOK, RequestsOK, End, Place

LEMMA CacheTypes ==
    ASSUME TypeOK, NEW i \in Invitation, CacheContact(i)
    PROVE  /\ owner' \in Seq(Invitation) /\ Len(owner') <= MaxTokens
           /\ Len(owner') = NewToken /\ NewToken \in 1..MaxTokens
           /\ owner'[NewToken] = i
           /\ \A t \in 1..Len(owner) : owner'[t] = owner[t]
           /\ cache' \subseteq 1..Len(owner')
           /\ cache' = cache \cup {NewToken}
           /\ 1..Len(owner') = 1..Len(owner) \cup {NewToken}
  <1>1. /\ owner \in Seq(Invitation) /\ cache \subseteq 1..Len(owner)
        /\ MaxTokens \in Nat
        BY GuestListAssumption DEF TypeOK, StoresOK
  <1>2. /\ NewToken = Len(owner) + 1 /\ NewToken <= MaxTokens
        /\ owner' = Append(owner, i) /\ cache' = cache \cup {NewToken}
        BY DEF CacheContact, NewToken
  <1>3. /\ owner' \in Seq(Invitation) /\ Len(owner') = NewToken
        /\ owner'[NewToken] = i
        /\ \A t \in 1..Len(owner) : owner'[t] = owner[t]
        BY <1>1, <1>2
  <1>4. 1..Len(owner') = 1..Len(owner) \cup {NewToken}
        BY <1>1, <1>2, <1>3
  <1>5. NewToken \in 1..MaxTokens
        BY <1>1, <1>2
  <1>6. cache' \subseteq 1..Len(owner')
        BY <1>1, <1>2, <1>4
  <1>7. Len(owner') <= MaxTokens
        BY <1>2, <1>3
  <1> QED BY <1>2, <1>3, <1>4, <1>5, <1>6, <1>7, Zenon

LEMMA TreeHasRoots ==
    ASSUME NEW S PROVE S \subseteq Tree(S)
  BY DEF Tree

LEMMA RemoveEffect ==
    ASSUME TypeOK, NEW S, Remove(S)
    PROVE  /\ rows' \subseteq rows /\ rows' \cap S = {}
           /\ parent' \in [Invitation -> Invitation \cup {None}]
           /\ contact' \in [Invitation -> 0..MaxTokens]
           /\ \A i \in Invitation :
                  contact'[i] = IF i \in rows' THEN contact[i] ELSE 0
           /\ answered' = answered \cap rows' /\ linked' = linked \cap rows'
           /\ public' = public \cap rows' /\ imported' = imported \cap rows'
           /\ undone' = undone \cap rows' /\ died' = died \cap rows'
  BY TreeHasRoots, Values DEF TypeOK, TableOK, Remove

LEMMA CachesFit ==
    ASSUME BasicInv, NEW q \in Request, at[q] \in Writing, NEW place \in Place,
           CacheContact(job[q].inv),
           Goto(q, place, [job[q] EXCEPT !.token = NewToken])
    PROVE  RequestsOK'
  <1>1. job[q] \in Job /\ job[q].inv \in Invitation
        BY DEF BasicInv, JobInv, Fits, TypeOK, TableOK, RequestsOK
  <1>2. NewToken \in 0..MaxTokens
        BY <1>1, CacheTypes, GuestListAssumption DEF BasicInv
  <1>3. [job[q] EXCEPT !.token = NewToken] \in Job
        BY <1>1, <1>2 DEF Job
  <1> QED BY <1>3, GotoTypes DEF BasicInv, RequestsOK

LEMMA DeletionsFit ==
    ASSUME BasicInv, NEW q \in Request, NEW p \in Invitation \cup {None},
           NEW list \in SUBSET Invitation, DeleteRead(q, p, list)
    PROVE  RequestsOK'
  <1> DEFINE j == [NoJob EXCEPT !.parent = p, !.left = list,
                                !.contacts = {contact[c] : c \in list} \ {0},
                                !.guests = list \cap linked]
  <1>1. {contact[c] : c \in list} \ {0} \subseteq Token
        BY DEF BasicInv, TypeOK, TableOK, Token
  <1>2. j \in Job
        BY <1>1, Values DEF NoJob, Job
  <1>3. (IF list = {} THEN "send" ELSE "drop contact") \in Place
        BY DEF Place
  <1> HIDE DEF j
  <1>4. Goto(q, IF list = {} THEN "send" ELSE "drop contact", j)
        BY DEF DeleteRead, j
  <1> QED BY <1>2, <1>3, <1>4, GotoTypes DEF BasicInv, RequestsOK

LEMMA RequestsStep ==
    ASSUME BasicInv, Next PROVE RequestsOK'
  <1> USE DEF BasicInv
  <1>1. ASSUME NEW i \in Invitation, NEW p \in Invitation \cup {None}, Create(i, p)
        PROVE  RequestsOK'
        BY <1>1 DEF Create, Stay, TypeOK, RequestsOK
  <1>2. ASSUME NEW q \in Request, NEW f \in File, ImportRead(q, f)
        PROVE  RequestsOK'
    <2>1. [left |-> f, known |-> {NameOf[i] : i \in rows}] \in Import
          BY GuestListAssumption DEF TypeOK, TableOK, Import
    <2> QED BY <1>2, <2>1 DEF ImportRead, TypeOK, RequestsOK, Place
  <1>3. ASSUME NEW q \in Request, ImportLine(q) PROVE RequestsOK'
    <2> DEFINE rest(known) == [left |-> Tail(import[q].left), known |-> known]
    <2>1. /\ import[q] \in Import /\ import[q].left \in Seq(Line)
          /\ import[q].left # << >>
          BY <1>3 DEF ImportLine, TypeOK, RequestsOK, Import
    <2>2. /\ Head(import[q].left) \in Line
          /\ Tail(import[q].left) \in Seq(Line)
          BY <2>1
    <2>3. ASSUME NEW known \in SUBSET Name PROVE rest(known) \in Import
          BY <2>2 DEF Import
    <2>4. /\ import[q].known \in SUBSET Name
          /\ KnownAfter(import[q].known, Head(import[q].left).name)
                 \in SUBSET Name
          BY <2>1, <2>2 DEF Import, Line, KnownAfter
    <2>5. /\ rest(import[q].known) = [import[q] EXCEPT !.left = Tail(@)]
          /\ rest(import[q].known) \in Import
          /\ rest(KnownAfter(import[q].known, Head(import[q].left).name))
                 \in Import
          BY <2>1, <2>3, <2>4 DEF Import
    <2>6. \/ End(q)
          \/ /\ UNCHANGED <<at, job>>
             /\ \/ import' = [import EXCEPT ![q] = rest(import[q].known)]
                \/ import' = [import EXCEPT ![q] = rest(KnownAfter(
                        import[q].known, Head(import[q].left).name))]
          BY <1>3, <2>5 DEF ImportLine, TypeOK, RequestsOK
    <2> QED BY <2>5, <2>6, EndTypes DEF TypeOK, RequestsOK
  <1>4. ASSUME NEW q \in Request, ImportEnds(q) PROVE RequestsOK'
        BY <1>4, EndTypes DEF ImportEnds, RequestsOK
  <1>5. ASSUME NEW q \in Request, NEW i \in Invitation,
               NEW S \in SUBSET Invitation, CreateFromPublicRsvp(q, i, S)
        PROVE  RequestsOK'
        BY <1>5, GotoTypes, Values
        DEF CreateFromPublicRsvp, RequestsOK, Job, NoJob, Place
  <1>6. ASSUME NEW q \in Request, CacheGuest(q) PROVE RequestsOK'
        BY <1>6, CachesFit DEF CacheGuest, Writing, Place
  <1>7. ASSUME NEW q \in Request, AttachContact(q) PROVE RequestsOK'
        BY <1>7, EndTypes DEF AttachContact, RequestsOK
  <1>8. ASSUME NEW q \in Request, NEW p \in Invitation, NEW c \in Invitation,
               CreatePlusOne(q, p, c)
        PROVE  RequestsOK'
        BY <1>8, GotoTypes, Values
        DEF CreatePlusOne, RequestsOK, Job, NoJob, Place
  <1>9. ASSUME NEW q \in Request, CacheChild(q) PROVE RequestsOK'
        BY <1>9, CachesFit DEF CacheChild, Writing, Place
  <1>10. ASSUME NEW q \in Request, CommitChild(q) PROVE RequestsOK'
        BY <1>10, EndTypes DEF CommitChild, RequestsOK
  <1>11. ASSUME NEW q \in Request, NEW i \in Invitation, ReplyRead(q, i)
         PROVE  RequestsOK'
        BY <1>11, GotoTypes, Values
        DEF ReplyRead, RequestsOK, Job, NoJob, Place
  <1>12. ASSUME NEW q \in Request, ReplyBegin(q) PROVE RequestsOK'
    <2>1. CASE End(q)
          BY <2>1, EndTypes DEF RequestsOK
    <2>2. CASE ~End(q)
          BY <1>12, <2>2, CachesFit DEF ReplyBegin, Writing, Place
    <2> QED BY <2>1, <2>2
  <1>13. ASSUME NEW q \in Request, NEW S \in SUBSET Invitation, ReplyCommit(q, S)
         PROVE  RequestsOK'
        BY <1>13, EndTypes DEF ReplyCommit, RequestsOK
  <1>14. ASSUME NEW q \in Request, NEW c \in Invitation, DeletePlusOne(q, c)
         PROVE  RequestsOK'
        BY <1>14, DeletionsFit DEF DeletePlusOne, TypeOK, TableOK
  <1>15. ASSUME NEW q \in Request, NEW p \in Invitation, DeleteAllPlusOnes(q, p)
         PROVE  RequestsOK'
        BY <1>15, DeletionsFit DEF DeleteAllPlusOnes, PlusOnes, TypeOK, TableOK
  <1>16. ASSUME NEW q \in Request, NEW c \in Invitation, DropContact(q, c)
         PROVE  RequestsOK'
    <2>1. [job[q] EXCEPT !.inv = c, !.touched = @ \cup {c}] \in Job
          BY DEF TypeOK, RequestsOK, Job
    <2> QED BY <1>16, <2>1, GotoTypes DEF DropContact, RequestsOK, Place
  <1>17. ASSUME NEW q \in Request, DeleteRow(q) PROVE RequestsOK'
    <2>1. [job[q] EXCEPT !.left = job[q].left \ {job[q].inv}] \in Job
          BY DEF TypeOK, RequestsOK, Job
    <2> QED BY <1>17, <2>1, GotoTypes, EndTypes
        DEF DeleteRow, RequestsOK, Place
  <1>18. ASSUME NEW q \in Request, SendDeleteGuest(q) PROVE RequestsOK'
        BY <1>18, GotoTypes DEF SendDeleteGuest, TypeOK, RequestsOK, Place
  <1>19. ASSUME NEW q \in Request, DeleteCommit(q) PROVE RequestsOK'
        BY <1>19, EndTypes DEF DeleteCommit, RequestsOK
  <1>20. ASSUME NEW S \in SUBSET Invitation, Delete(S) PROVE RequestsOK'
        BY <1>20 DEF Delete, Stay, TypeOK, RequestsOK
  <1>21. ASSUME NEW i \in Invitation, AddGuestId(i) PROVE RequestsOK'
        BY <1>21 DEF AddGuestId, Stay, TypeOK, RequestsOK
  <1>22. ASSUME NEW q \in Request, Fail(q) PROVE RequestsOK'
        BY <1>22, EndTypes DEF Fail, RequestsOK
  <1> QED BY <1>1, <1>2, <1>3, <1>4, <1>5, <1>6, <1>7, <1>8, <1>9, <1>10,
             <1>11, <1>12, <1>13, <1>14, <1>15, <1>16, <1>17, <1>18, <1>19,
             <1>20, <1>21, <1>22 DEF Next, Start, Continue

LEMMA TableStep ==
    ASSUME BasicInv, Next PROVE TableOK'
  <1>1. ASSUME NEW i \in Invitation, NEW p \in Invitation \cup {None},
               Create(i, p)
         PROVE  TableOK'
        BY <1>1, Values DEF Create, BasicInv, TypeOK, TableOK, Insert, table
  <1>2. ASSUME NEW q \in Request, NEW f \in File, ImportRead(q, f)
         PROVE  TableOK'
        BY <1>2 DEF ImportRead, BasicInv, TypeOK, TableOK, table
  <1>3. ASSUME NEW q \in Request, ImportLine(q) PROVE TableOK'
        BY <1>3, Values
        DEF ImportLine, BasicInv, TypeOK, TableOK, Insert, table
  <1>4. ASSUME NEW q \in Request, ImportEnds(q) PROVE TableOK'
        BY <1>4 DEF ImportEnds, BasicInv, TypeOK, TableOK, table, history
  <1>5. ASSUME NEW q \in Request, NEW i \in Invitation,
               NEW S \in SUBSET Invitation, CreateFromPublicRsvp(q, i, S)
         PROVE  TableOK'
        BY <1>5, Values
        DEF CreateFromPublicRsvp, BasicInv, TypeOK, TableOK, table
  <1>6. ASSUME NEW q \in Request, CacheGuest(q) PROVE TableOK'
        BY <1>6 DEF CacheGuest, BasicInv, TypeOK, TableOK, table, history
  <1>7. ASSUME NEW q \in Request, AttachContact(q) PROVE TableOK'
        BY <1>7
        DEF AttachContact, BasicInv, TypeOK, TableOK, RequestsOK, Job, table,
            history
  <1>8. ASSUME NEW q \in Request, NEW p \in Invitation, NEW c \in Invitation,
               CreatePlusOne(q, p, c)
         PROVE  TableOK'
        BY <1>8 DEF CreatePlusOne, BasicInv, TypeOK, TableOK, table
  <1>9. ASSUME NEW q \in Request, CacheChild(q) PROVE TableOK'
        BY <1>9 DEF CacheChild, BasicInv, TypeOK, TableOK, table, history
  <1>10. ASSUME NEW q \in Request, CommitChild(q) PROVE TableOK'
    <2>1. /\ job[q] \in Job /\ job[q].inv \in used
          /\ used \subseteq Invitation
          BY <1>10
          DEF CommitChild, BasicInv, JobInv, Fits, Writing, Holding, TypeOK,
             TableOK, RequestsOK
    <2>2. /\ job[q].parent \in Invitation \cup {None}
          /\ job[q].token \in 0..MaxTokens
          BY <2>1 DEF Job
    <2> QED BY <1>10, <2>1, <2>2
            DEF CommitChild, BasicInv, TypeOK, TableOK, history
  <1>11. ASSUME NEW q \in Request, NEW i \in Invitation, ReplyRead(q, i)
         PROVE  TableOK'
        BY <1>11 DEF ReplyRead, BasicInv, TypeOK, TableOK, table, history
  <1>12. ASSUME NEW q \in Request, ReplyBegin(q) PROVE TableOK'
        BY <1>12 DEF ReplyBegin, BasicInv, TypeOK, TableOK, table, history
  <1>13. ASSUME NEW q \in Request, NEW S \in SUBSET Invitation, ReplyCommit(q,
               S)
         PROVE  TableOK'
    <2>1. /\ job[q] \in Job /\ job[q].inv \in used
          /\ used \subseteq Invitation
          BY <1>13
          DEF ReplyCommit, BasicInv, JobInv, Fits, Writing, Holding, TypeOK,
             TableOK, RequestsOK
    <2>2. job[q].token \in 0..MaxTokens
          BY <2>1 DEF Job
    <2> QED BY <1>13, <2>1, <2>2 DEF ReplyCommit, BasicInv, TypeOK, TableOK
  <1>14. ASSUME NEW q \in Request, NEW c \in Invitation, DeletePlusOne(q, c)
         PROVE  TableOK'
        BY <1>14 DEF DeletePlusOne, BasicInv, TypeOK, TableOK, table, history
  <1>15. ASSUME NEW q \in Request, NEW p \in Invitation, DeleteAllPlusOnes(q,
               p)
         PROVE  TableOK'
        BY <1>15
        DEF DeleteAllPlusOnes, BasicInv, TypeOK, TableOK, table, history
  <1>16. ASSUME NEW q \in Request, NEW c \in Invitation, DropContact(q, c)
         PROVE  TableOK'
        BY <1>16 DEF DropContact, BasicInv, TypeOK, TableOK, table, history
  <1>17. ASSUME NEW q \in Request, DeleteRow(q) PROVE TableOK'
        BY <1>17 DEF DeleteRow, BasicInv, TypeOK, TableOK, table
  <1>18. ASSUME NEW q \in Request, SendDeleteGuest(q) PROVE TableOK'
        BY <1>18 DEF SendDeleteGuest, BasicInv, TypeOK, TableOK, table, history
  <1>19. ASSUME NEW q \in Request, DeleteCommit(q) PROVE TableOK'
        BY <1>19, RemoveEffect
        DEF DeleteCommit, BasicInv, TypeOK, TableOK, table
  <1>20. ASSUME NEW S \in SUBSET Invitation, Delete(S) PROVE TableOK'
        BY <1>20, RemoveEffect DEF Delete, BasicInv, TypeOK, TableOK, table
  <1>21. ASSUME NEW i \in Invitation, AddGuestId(i) PROVE TableOK'
        BY <1>21 DEF AddGuestId, BasicInv, TypeOK, TableOK, table, history
  <1>22. ASSUME NEW q \in Request, Fail(q) PROVE TableOK'
        BY <1>22 DEF Fail, BasicInv, TypeOK, TableOK, table
  <1> QED BY <1>1, <1>2, <1>3, <1>4, <1>5, <1>6, <1>7, <1>8, <1>9, <1>10,
      <1>11, <1>12, <1>13, <1>14, <1>15, <1>16, <1>17, <1>18, <1>19, <1>20,
      <1>21, <1>22 DEF Next, Start, Continue

LEMMA StoresStep ==
    ASSUME BasicInv, Next PROVE StoresOK'
  <1>1. ASSUME NEW i \in Invitation, NEW p \in Invitation \cup {None},
               Create(i, p)
         PROVE  StoresOK'
        BY <1>1 DEF Create, BasicInv, TypeOK, StoresOK, stores
  <1>2. ASSUME NEW q \in Request, NEW f \in File, ImportRead(q, f)
         PROVE  StoresOK'
        BY <1>2 DEF ImportRead, BasicInv, TypeOK, StoresOK, stores
  <1>3. ASSUME NEW q \in Request, ImportLine(q) PROVE StoresOK'
        BY <1>3 DEF ImportLine, BasicInv, TypeOK, StoresOK, stores
  <1>4. ASSUME NEW q \in Request, ImportEnds(q) PROVE StoresOK'
        BY <1>4 DEF ImportEnds, BasicInv, TypeOK, StoresOK, stores
  <1>5. ASSUME NEW q \in Request, NEW i \in Invitation,
               NEW S \in SUBSET Invitation, CreateFromPublicRsvp(q, i, S)
         PROVE  StoresOK'
        BY <1>5 DEF CreateFromPublicRsvp, BasicInv, TypeOK, StoresOK, stores
  <1>6. ASSUME NEW q \in Request, CacheGuest(q) PROVE StoresOK'
        BY <1>6, CacheTypes
        DEF CacheGuest, BasicInv, TypeOK, StoresOK, JobInv, Fits, TableOK,
            Writing,
            stores
  <1>7. ASSUME NEW q \in Request, AttachContact(q) PROVE StoresOK'
        BY <1>7 DEF AttachContact, BasicInv, TypeOK, StoresOK, stores
  <1>8. ASSUME NEW q \in Request, NEW p \in Invitation, NEW c \in Invitation,
               CreatePlusOne(q, p, c)
         PROVE  StoresOK'
        BY <1>8 DEF CreatePlusOne, BasicInv, TypeOK, StoresOK, stores
  <1>9. ASSUME NEW q \in Request, CacheChild(q) PROVE StoresOK'
        BY <1>9, CacheTypes
        DEF CacheChild, BasicInv, TypeOK, StoresOK, JobInv, Fits, TableOK,
            Writing,
            stores
  <1>10. ASSUME NEW q \in Request, CommitChild(q) PROVE StoresOK'
        BY <1>10 DEF CommitChild, BasicInv, TypeOK, StoresOK, stores
  <1>11. ASSUME NEW q \in Request, NEW i \in Invitation, ReplyRead(q, i)
         PROVE  StoresOK'
        BY <1>11 DEF ReplyRead, BasicInv, TypeOK, StoresOK, stores
  <1>12. ASSUME NEW q \in Request, ReplyBegin(q) PROVE StoresOK'
        BY <1>12, CacheTypes
        DEF ReplyBegin, BasicInv, TypeOK, StoresOK, JobInv, Fits, TableOK,
            Writing,
            stores
  <1>13. ASSUME NEW q \in Request, NEW S \in SUBSET Invitation, ReplyCommit(q,
               S)
         PROVE  StoresOK'
        BY <1>13 DEF ReplyCommit, BasicInv, TypeOK, StoresOK, stores
  <1>14. ASSUME NEW q \in Request, NEW c \in Invitation, DeletePlusOne(q, c)
         PROVE  StoresOK'
        BY <1>14 DEF DeletePlusOne, BasicInv, TypeOK, StoresOK, stores
  <1>15. ASSUME NEW q \in Request, NEW p \in Invitation, DeleteAllPlusOnes(q,
               p)
         PROVE  StoresOK'
        BY <1>15 DEF DeleteAllPlusOnes, BasicInv, TypeOK, StoresOK, stores
  <1>16. ASSUME NEW q \in Request, NEW c \in Invitation, DropContact(q, c)
         PROVE  StoresOK'
        BY <1>16 DEF DropContact, BasicInv, TypeOK, StoresOK, stores
  <1>17. ASSUME NEW q \in Request, DeleteRow(q) PROVE StoresOK'
        BY <1>17 DEF DeleteRow, BasicInv, TypeOK, StoresOK, stores
  <1>18. ASSUME NEW q \in Request, SendDeleteGuest(q) PROVE StoresOK'
        BY <1>18
        DEF SendDeleteGuest, BasicInv, TypeOK, StoresOK, RequestsOK, Job,
            stores
  <1>19. ASSUME NEW q \in Request, DeleteCommit(q) PROVE StoresOK'
        BY <1>19 DEF DeleteCommit, BasicInv, TypeOK, StoresOK, stores
  <1>20. ASSUME NEW S \in SUBSET Invitation, Delete(S) PROVE StoresOK'
        BY <1>20 DEF Delete, BasicInv, TypeOK, StoresOK, stores
  <1>21. ASSUME NEW i \in Invitation, AddGuestId(i) PROVE StoresOK'
        BY <1>21 DEF AddGuestId, BasicInv, TypeOK, StoresOK, stores
  <1>22. ASSUME NEW q \in Request, Fail(q) PROVE StoresOK'
        BY <1>22 DEF Fail, BasicInv, TypeOK, StoresOK, stores
  <1> QED BY <1>1, <1>2, <1>3, <1>4, <1>5, <1>6, <1>7, <1>8, <1>9, <1>10,
      <1>11, <1>12, <1>13, <1>14, <1>15, <1>16, <1>17, <1>18, <1>19, <1>20,
      <1>21, <1>22 DEF Next, Start, Continue

LEMMA HistoryStep ==
    ASSUME BasicInv, Next PROVE HistoryOK'
  <1>1. ASSUME NEW i \in Invitation, NEW p \in Invitation \cup {None},
               Create(i, p)
         PROVE  HistoryOK'
        BY <1>1
        DEF Create, BasicInv, TypeOK, HistoryOK, Insert, TableOK, history
  <1>2. ASSUME NEW q \in Request, NEW f \in File, ImportRead(q, f)
         PROVE  HistoryOK'
        BY <1>2 DEF ImportRead, BasicInv, TypeOK, HistoryOK, table, history
  <1>3. ASSUME NEW q \in Request, ImportLine(q) PROVE HistoryOK'
        BY <1>3 DEF ImportLine, BasicInv, TypeOK, HistoryOK, Insert, table,
            history
  <1>4. ASSUME NEW q \in Request, ImportEnds(q) PROVE HistoryOK'
        BY <1>4 DEF ImportEnds, BasicInv, TypeOK, HistoryOK, table, history
  <1>5. ASSUME NEW q \in Request, NEW i \in Invitation,
               NEW S \in SUBSET Invitation, CreateFromPublicRsvp(q, i, S)
         PROVE  HistoryOK'
        BY <1>5
        DEF CreateFromPublicRsvp, BasicInv, TypeOK, HistoryOK, TableOK, history
  <1>6. ASSUME NEW q \in Request, CacheGuest(q) PROVE HistoryOK'
        BY <1>6 DEF CacheGuest, BasicInv, TypeOK, HistoryOK, table, history
  <1>7. ASSUME NEW q \in Request, AttachContact(q) PROVE HistoryOK'
        BY <1>7 DEF AttachContact, BasicInv, TypeOK, HistoryOK, table, history
  <1>8. ASSUME NEW q \in Request, NEW p \in Invitation, NEW c \in Invitation,
               CreatePlusOne(q, p, c)
         PROVE  HistoryOK'
        BY <1>8 DEF CreatePlusOne, BasicInv, TypeOK, HistoryOK, table, history
  <1>9. ASSUME NEW q \in Request, CacheChild(q) PROVE HistoryOK'
        BY <1>9 DEF CacheChild, BasicInv, TypeOK, HistoryOK, table, history
  <1>10. ASSUME NEW q \in Request, CommitChild(q) PROVE HistoryOK'
        BY <1>10 DEF CommitChild, BasicInv, TypeOK, HistoryOK, table, history
  <1>11. ASSUME NEW q \in Request, NEW i \in Invitation, ReplyRead(q, i)
         PROVE  HistoryOK'
        BY <1>11 DEF ReplyRead, BasicInv, TypeOK, HistoryOK, table, history
  <1>12. ASSUME NEW q \in Request, ReplyBegin(q) PROVE HistoryOK'
        BY <1>12 DEF ReplyBegin, BasicInv, TypeOK, HistoryOK, table, history
  <1>13. ASSUME NEW q \in Request, NEW S \in SUBSET Invitation, ReplyCommit(q,
               S)
         PROVE  HistoryOK'
        BY <1>13 DEF ReplyCommit, BasicInv, TypeOK, HistoryOK, table, history
  <1>14. ASSUME NEW q \in Request, NEW c \in Invitation, DeletePlusOne(q, c)
         PROVE  HistoryOK'
        BY <1>14 DEF DeletePlusOne, BasicInv, TypeOK, HistoryOK, table, history
  <1>15. ASSUME NEW q \in Request, NEW p \in Invitation, DeleteAllPlusOnes(q,
               p)
         PROVE  HistoryOK'
        BY <1>15
        DEF DeleteAllPlusOnes, BasicInv, TypeOK, HistoryOK, table, history
  <1>16. ASSUME NEW q \in Request, NEW c \in Invitation, DropContact(q, c)
         PROVE  HistoryOK'
        BY <1>16 DEF DropContact, BasicInv, TypeOK, HistoryOK, table, history
  <1>17. ASSUME NEW q \in Request, DeleteRow(q) PROVE HistoryOK'
        BY <1>17
        DEF DeleteRow, BasicInv, TypeOK, HistoryOK, GiveBack, TableOK, table,
            history
  <1>18. ASSUME NEW q \in Request, SendDeleteGuest(q) PROVE HistoryOK'
        BY <1>18
        DEF SendDeleteGuest, BasicInv, TypeOK, HistoryOK, table, history
  <1>19. ASSUME NEW q \in Request, DeleteCommit(q) PROVE HistoryOK'
        BY <1>19, RemoveEffect
        DEF DeleteCommit, BasicInv, TypeOK, HistoryOK, table, history
  <1>20. ASSUME NEW S \in SUBSET Invitation, Delete(S) PROVE HistoryOK'
        BY <1>20, RemoveEffect
        DEF Delete, BasicInv, TypeOK, HistoryOK, table, history
  <1>21. ASSUME NEW i \in Invitation, AddGuestId(i) PROVE HistoryOK'
        BY <1>21 DEF AddGuestId, BasicInv, TypeOK, HistoryOK, table, history
  <1>22. ASSUME NEW q \in Request, Fail(q) PROVE HistoryOK'
        BY <1>22
        DEF Fail, BasicInv, TypeOK, HistoryOK, GiveBack, TableOK, table,
            history
  <1> QED BY <1>1, <1>2, <1>3, <1>4, <1>5, <1>6, <1>7, <1>8, <1>9, <1>10,
      <1>11, <1>12, <1>13, <1>14, <1>15, <1>16, <1>17, <1>18, <1>19, <1>20,
      <1>21, <1>22 DEF Next, Start, Continue

(* What the steps of requests leave of the invariant.                      *)
LEMMA EndFits ==
    ASSUME BasicInv, NEW q \in Request, End(q), used \subseteq used'
    PROVE  JobInv'
  <1>1. /\ at'[q] = "idle" /\ job'[q] = NoJob
        /\ \A r \in Request \ {q} : at'[r] = at[r] /\ job'[r] = job[r]
        BY EndTypes DEF BasicInv
  <1>2. Fits(at'[q], job'[q], used')
        BY <1>1 DEF Fits, Writing, Holding, Deleting
  <1>3. ASSUME NEW r \in Request \ {q} PROVE Fits(at'[r], job'[r], used')
        BY <1>1 DEF Fits, BasicInv, JobInv
  <1> QED BY <1>2, <1>3 DEF JobInv

LEMMA GotoFits ==
    ASSUME BasicInv, NEW q \in Request, NEW place \in Place, NEW j \in Job,
           Goto(q, place, j), Fits(place, j, used'), used \subseteq used'
    PROVE  JobInv'
  <1>1. /\ at'[q] = place /\ job'[q] = j
        /\ \A r \in Request \ {q} : at'[r] = at[r] /\ job'[r] = job[r]
        BY GotoTypes DEF BasicInv
  <1>2. ASSUME NEW r \in Request \ {q} PROVE Fits(at'[r], job'[r], used')
        BY <1>1 DEF Fits, BasicInv, JobInv
  <1> QED BY <1>1, <1>2 DEF JobInv

LEMMA StayFits ==
    ASSUME BasicInv, UNCHANGED <<at, job>>, used \subseteq used' PROVE JobInv'
  BY DEF BasicInv, JobInv, Fits

(* A request that cached a contact holds its token.                        *)
LEMMA CacheFits ==
    ASSUME BasicInv, NEW q \in Request, NEW place \in Holding,
           at[q] \in Writing \ Holding, CacheContact(job[q].inv),
           Goto(q, place, [job[q] EXCEPT !.token = NewToken]),
           UNCHANGED used
    PROVE  JobInv'
  <1> DEFINE j == [job[q] EXCEPT !.token = NewToken]
  <1>1. Fits(at[q], job[q], used) /\ job[q] \in Job
        BY DEF BasicInv, JobInv, TypeOK, RequestsOK
  <1>2. job[q].inv \in Invitation
        BY <1>1 DEF Fits, BasicInv, TypeOK, TableOK
  <1>3. NewToken \in 0..MaxTokens /\ NewToken # 0
        BY <1>2, CacheTypes, GuestListAssumption DEF BasicInv
  <1>4. j \in Job
        BY <1>1, <1>3 DEF Job
  <1>5. /\ j.inv = job[q].inv /\ j.touched = job[q].touched
        /\ j.contacts = job[q].contacts /\ j.guests = job[q].guests
        /\ j.token = NewToken
        BY <1>1 DEF Job
  <1> HIDE DEF j
  <1>6. Fits(place, j, used')
        BY <1>1, <1>3, <1>5 DEF Fits, Writing, Holding, Deleting
  <1>7. place \in Place
        BY DEF Holding, Place
  <1>8. Goto(q, place, j)
        BY DEF j
  <1> QED BY <1>4, <1>6, <1>7, <1>8, GotoFits

(* A deletion has yet to do all that it read.                              *)
LEMMA DeletionStarts ==
    ASSUME BasicInv, NEW q \in Request, NEW p \in Invitation \cup {None},
           NEW list \in SUBSET Invitation, DeleteRead(q, p, list)
    PROVE  /\ at'[q] = IF list = {} THEN "send" ELSE "drop contact"
           /\ job'[q].left = list /\ job'[q].token = 0
           /\ job'[q].touched = {} /\ job'[q].guests = list \cap linked
           /\ job'[q].contacts = {contact[c] : c \in list} \ {0}
           /\ \A r \in Request \ {q} : at'[r] = at[r] /\ job'[r] = job[r]
           /\ UNCHANGED used => JobInv'
  <1>1. /\ at'[q] = IF list = {} THEN "send" ELSE "drop contact"
        /\ job'[q].left = list /\ job'[q].token = 0
        /\ job'[q].touched = {} /\ job'[q].guests = list \cap linked
        /\ job'[q].contacts = {contact[c] : c \in list} \ {0}
        /\ \A r \in Request \ {q} : at'[r] = at[r] /\ job'[r] = job[r]
        BY DEF DeleteRead, Goto, NoJob, BasicInv, TypeOK, RequestsOK
  <1>2. Fits(at'[q], job'[q], used)
        BY <1>1 DEF Fits, Writing, Holding, Deleting
  <1>3. ASSUME UNCHANGED used PROVE JobInv'
        BY <1>1, <1>2, <1>3 DEF BasicInv, JobInv
  <1> QED BY <1>1, <1>3

(* What the deletion at hand touched.                                      *)
LEMMA DropEffect ==
    ASSUME BasicInv, NEW q \in Request, NEW c \in Invitation, DropContact(q, c)
    PROVE  /\ at'[q] = "delete row" /\ job'[q].inv = c
           /\ job'[q].touched = job[q].touched \cup {c}
           /\ job'[q].token = job[q].token /\ job'[q].left = job[q].left
           /\ job'[q].contacts = job[q].contacts
           /\ job'[q].guests = job[q].guests
           /\ \A r \in Request \ {q} : at'[r] = at[r] /\ job'[r] = job[r]
  BY DEF DropContact, Goto, Job, BasicInv, TypeOK, RequestsOK

LEMMA DeleteRowEffect ==
    ASSUME BasicInv, NEW q \in Request, DeleteRow(q), ~End(q)
    PROVE  /\ at'[q] \in {"send", "drop contact"}
           /\ at'[q] = "send" => job'[q].left = {}
           /\ job'[q].inv = job[q].inv /\ job'[q].touched = job[q].touched
           /\ job'[q].token = job[q].token
           /\ job'[q].left = job[q].left \ {job[q].inv}
           /\ job'[q].contacts = job[q].contacts
           /\ job'[q].guests = job[q].guests
           /\ \A r \in Request \ {q} : at'[r] = at[r] /\ job'[r] = job[r]
           /\ UNCHANGED undone
  BY DEF DeleteRow, Goto, Job, BasicInv, TypeOK, RequestsOK

LEMMA JobStep ==
    ASSUME BasicInv, Next PROVE JobInv'
  <1>1. ASSUME NEW i \in Invitation, NEW p \in Invitation \cup {None},
               Create(i, p)
         PROVE  JobInv'
        BY <1>1, StayFits DEF Create, Stay, Insert, history
  <1>2. ASSUME NEW q \in Request, NEW f \in File, ImportRead(q, f)
         PROVE  JobInv'
    <2>1. /\ at[q] = "idle" /\ at'[q] = "insert" /\ job' = job
          /\ \A r \in Request \ {q} : at'[r] = at[r]
          /\ used' = used
          BY <1>2 DEF ImportRead, BasicInv, TypeOK, RequestsOK
    <2>2. Fits(at'[q], job'[q], used')
          BY <2>1 DEF BasicInv, JobInv, Fits, Writing, Holding, Deleting
    <2> QED BY <2>1, <2>2 DEF BasicInv, JobInv
  <1>3. ASSUME NEW q \in Request, ImportLine(q) PROVE JobInv'
        BY <1>3, EndFits, StayFits DEF ImportLine, Insert
  <1>4. ASSUME NEW q \in Request, ImportEnds(q) PROVE JobInv'
        BY <1>4, EndFits DEF ImportEnds, history
  <1>5. ASSUME NEW q \in Request, NEW i \in Invitation,
               NEW S \in SUBSET Invitation, CreateFromPublicRsvp(q, i, S)
         PROVE  JobInv'
    <2> DEFINE j == [NoJob EXCEPT !.inv = i]
    <2>1. /\ j \in Job /\ j.inv = i /\ j.token = 0
          /\ j.touched = {} /\ j.contacts = {} /\ j.guests = {}
          BY Values DEF Job, NoJob
    <2> HIDE DEF j
    <2>2. Goto(q, "cache guest", j) /\ i \in used' /\ used \subseteq used'
          BY <1>5
          DEF CreateFromPublicRsvp, BasicInv, TypeOK, TableOK, history, j
    <2>3. Fits("cache guest", j, used')
          BY <2>1, <2>2 DEF Fits, Writing, Holding, Deleting
    <2> QED BY <2>1, <2>2, <2>3, GotoFits DEF Place
  <1>6. ASSUME NEW q \in Request, CacheGuest(q) PROVE JobInv'
        BY <1>6, CacheFits DEF CacheGuest, Writing, Holding, history
  <1>7. ASSUME NEW q \in Request, AttachContact(q) PROVE JobInv'
        BY <1>7, EndFits DEF AttachContact, history
  <1>8. ASSUME NEW q \in Request, NEW p \in Invitation, NEW c \in Invitation,
               CreatePlusOne(q, p, c)
         PROVE  JobInv'
    <2> DEFINE j == [NoJob EXCEPT !.inv = c, !.parent = p]
    <2>1. /\ j \in Job /\ j.inv = c /\ j.token = 0
          /\ j.touched = {} /\ j.contacts = {} /\ j.guests = {}
          BY Values DEF Job, NoJob
    <2> HIDE DEF j
    <2>2. Goto(q, "cache child", j) /\ c \in used' /\ used \subseteq used'
          BY <1>8 DEF CreatePlusOne, BasicInv, TypeOK, TableOK, history, j
    <2>3. Fits("cache child", j, used')
          BY <2>1, <2>2 DEF Fits, Writing, Holding, Deleting
    <2> QED BY <2>1, <2>2, <2>3, GotoFits DEF Place
  <1>9. ASSUME NEW q \in Request, CacheChild(q) PROVE JobInv'
        BY <1>9, CacheFits DEF CacheChild, Writing, Holding, history
  <1>10. ASSUME NEW q \in Request, CommitChild(q) PROVE JobInv'
        BY <1>10, EndFits DEF CommitChild, history
  <1>11. ASSUME NEW q \in Request, NEW i \in Invitation, ReplyRead(q, i)
         PROVE  JobInv'
    <2> DEFINE j == [NoJob EXCEPT !.inv = i]
    <2>1. /\ j \in Job /\ j.inv = i /\ j.token = 0
          /\ j.touched = {} /\ j.contacts = {} /\ j.guests = {}
          BY Values DEF Job, NoJob
    <2> HIDE DEF j
    <2>2. Goto(q, "begin reply", j) /\ i \in used' /\ used \subseteq used'
          BY <1>11 DEF ReplyRead, BasicInv, TypeOK, TableOK, history, j
    <2>3. Fits("begin reply", j, used')
          BY <2>1, <2>2 DEF Fits, Writing, Holding, Deleting
    <2> QED BY <2>1, <2>2, <2>3, GotoFits DEF Place
  <1>12. ASSUME NEW q \in Request, ReplyBegin(q) PROVE JobInv'
    <2>1. CASE End(q)
          BY <1>12, <2>1, EndFits DEF ReplyBegin, history
    <2>2. CASE ~End(q)
          BY <1>12, <2>2, CacheFits DEF ReplyBegin, Writing, Holding, history
    <2> QED BY <2>1, <2>2
  <1>13. ASSUME NEW q \in Request, NEW S \in SUBSET Invitation, ReplyCommit(q,
               S)
         PROVE  JobInv'
        BY <1>13, EndFits DEF ReplyCommit, history
  <1>14. ASSUME NEW q \in Request, NEW c \in Invitation, DeletePlusOne(q, c)
         PROVE  JobInv'
    <2>1. /\ DeleteRead(q, parent[c], {c}) /\ UNCHANGED used
          /\ parent[c] \in Invitation \cup {None} /\ {c} \in SUBSET Invitation
          BY <1>14 DEF DeletePlusOne, BasicInv, TypeOK, TableOK, history
    <2> QED BY <2>1, DeletionStarts
  <1>15. ASSUME NEW q \in Request, NEW p \in Invitation, DeleteAllPlusOnes(q,
               p)
         PROVE  JobInv'
        BY <1>15, DeletionStarts
        DEF DeleteAllPlusOnes, PlusOnes, BasicInv, TypeOK, TableOK, history
  <1>16. ASSUME NEW q \in Request, NEW c \in Invitation, DropContact(q, c)
         PROVE  JobInv'
    <2>1. /\ at'[q] = "delete row" /\ job'[q].inv = c
          /\ job'[q].touched = job[q].touched \cup {c}
          /\ job'[q].token = job[q].token /\ job'[q].left = job[q].left
          /\ job'[q].guests = job[q].guests
          /\ \A r \in Request \ {q} : at'[r] = at[r] /\ job'[r] = job[r]
          BY <1>16, DropEffect
    <2>2. Fits(at'[q], job'[q], used)
          BY <1>16, <2>1
          DEF DropContact, BasicInv, JobInv, Fits, Writing, Holding, Deleting
    <2> QED BY <1>16, <2>1, <2>2 DEF DropContact, BasicInv, JobInv, history
  <1>17. ASSUME NEW q \in Request, DeleteRow(q) PROVE JobInv'
    <2>a. CASE End(q)
          BY <1>17, <2>a, EndFits DEF DeleteRow
    <2>b. CASE ~End(q)
      <3>1. /\ at'[q] \in {"send", "drop contact"}
            /\ at'[q] = "send" => job'[q].left = {}
            /\ job'[q].inv = job[q].inv /\ job'[q].touched = job[q].touched
            /\ job'[q].token = job[q].token
            /\ job'[q].left = job[q].left \ {job[q].inv}
            /\ job'[q].guests = job[q].guests
            /\ \A r \in Request \ {q} : at'[r] = at[r] /\ job'[r] = job[r]
            BY <1>17, <2>b, DeleteRowEffect
      <3>2. Fits(at[q], job[q], used) /\ at[q] = "delete row"
            BY <1>17 DEF DeleteRow, BasicInv, JobInv
      <3>3. Fits(at'[q], job'[q], used)
            BY <3>1, <3>2 DEF Fits, Writing, Holding, Deleting
      <3> QED BY <1>17, <3>1, <3>3 DEF DeleteRow, BasicInv, JobInv
    <2> QED BY <2>a, <2>b
  <1>18. ASSUME NEW q \in Request, SendDeleteGuest(q) PROVE JobInv'
    <2>1. Fits(at[q], job[q], used) /\ at[q] = "send" /\ job[q] \in Job
          BY <1>18 DEF SendDeleteGuest, BasicInv, JobInv, TypeOK, RequestsOK
    <2>2. Fits("commit delete", job[q], used)
          BY <2>1 DEF Fits, Writing, Holding, Deleting
    <2> QED BY <1>18, <2>1, <2>2, GotoFits DEF SendDeleteGuest, Place, history
  <1>19. ASSUME NEW q \in Request, DeleteCommit(q) PROVE JobInv'
        BY <1>19, EndFits DEF DeleteCommit, history
  <1>20. ASSUME NEW S \in SUBSET Invitation, Delete(S) PROVE JobInv'
        BY <1>20, StayFits DEF Delete, Stay, Insert, history
  <1>21. ASSUME NEW i \in Invitation, AddGuestId(i) PROVE JobInv'
        BY <1>21, StayFits DEF AddGuestId, Stay, Insert, history
  <1>22. ASSUME NEW q \in Request, Fail(q) PROVE JobInv'
        BY <1>22, EndFits DEF Fail, history
  <1> QED BY <1>1, <1>2, <1>3, <1>4, <1>5, <1>6, <1>7, <1>8, <1>9, <1>10,
      <1>11, <1>12, <1>13, <1>14, <1>15, <1>16, <1>17, <1>18, <1>19, <1>20,
      <1>21, <1>22 DEF Next, Start, Continue

(* What a request has in hand, whatever the step.                          *)
LEMMA EndGuests ==
    ASSUME BasicInv, NEW q \in Request, End(q), used \subseteq used'
    PROVE  \A r \in Request : job'[r].guests \subseteq used'
  BY EndTypes DEF BasicInv, FreshInv, NoJob

LEMMA CacheKeepsGuests ==
    ASSUME BasicInv, NEW q \in Request, NEW place,
           Goto(q, place, [job[q] EXCEPT !.token = NewToken])
    PROVE  \A r \in Request : job'[r].guests = job[r].guests
  BY DEF Goto, Job, BasicInv, TypeOK, RequestsOK

LEMMA CacheFresh ==
    ASSUME BasicInv, NEW i \in used, CacheContact(i)
    PROVE  \A t \in 1..Len(owner') : owner'[t] \in used
  BY CacheTypes DEF BasicInv, FreshInv, TypeOK, TableOK

LEMMA FreshStep ==
    ASSUME BasicInv, Next PROVE FreshInv'
  <1>1. ASSUME NEW i \in Invitation, NEW p \in Invitation \cup {None},
               Create(i, p)
         PROVE  FreshInv'
        BY <1>1
        DEF Create, BasicInv, FreshInv, TypeOK, TableOK, Stay, Insert, table,
            stores, history
  <1>2. ASSUME NEW q \in Request, NEW f \in File, ImportRead(q, f)
         PROVE  FreshInv'
        BY <1>2
        DEF ImportRead, BasicInv, FreshInv, TypeOK, TableOK, table, stores,
            history
  <1>3. ASSUME NEW q \in Request, ImportLine(q) PROVE FreshInv'
    <2>1. used \subseteq used'
          BY <1>3 DEF ImportLine, Insert
    <2>2. \A r \in Request : job'[r].guests \subseteq used'
          BY <1>3, <2>1, EndGuests DEF ImportLine, BasicInv, FreshInv
    <2> QED BY <1>3, <2>1, <2>2 DEF ImportLine, BasicInv, FreshInv, stores
  <1>4. ASSUME NEW q \in Request, ImportEnds(q) PROVE FreshInv'
        BY <1>4, EndGuests
        DEF ImportEnds, BasicInv, FreshInv, TypeOK, TableOK, table, stores,
            history
  <1>5. ASSUME NEW q \in Request, NEW i \in Invitation,
               NEW S \in SUBSET Invitation, CreateFromPublicRsvp(q, i, S)
         PROVE  FreshInv'
        BY <1>5
        DEF CreateFromPublicRsvp, BasicInv, FreshInv, TypeOK, TableOK, Goto,
            NoJob, RequestsOK, table, stores, history
  <1>6. ASSUME NEW q \in Request, CacheGuest(q) PROVE FreshInv'
        BY <1>6, CacheKeepsGuests, CacheFresh
        DEF CacheGuest, BasicInv, FreshInv, TypeOK, TableOK, JobInv, Fits,
            Writing, table, stores, history
  <1>7. ASSUME NEW q \in Request, AttachContact(q) PROVE FreshInv'
        BY <1>7, EndGuests
        DEF AttachContact, BasicInv, FreshInv, TypeOK, TableOK, JobInv, Fits,
            Writing, Holding, table, stores, history
  <1>8. ASSUME NEW q \in Request, NEW p \in Invitation, NEW c \in Invitation,
               CreatePlusOne(q, p, c)
         PROVE  FreshInv'
        BY <1>8
        DEF CreatePlusOne, BasicInv, FreshInv, TypeOK, TableOK, Goto, NoJob,
            RequestsOK, table, stores, history
  <1>9. ASSUME NEW q \in Request, CacheChild(q) PROVE FreshInv'
        BY <1>9, CacheKeepsGuests, CacheFresh
        DEF CacheChild, BasicInv, FreshInv, TypeOK, TableOK, JobInv, Fits,
            Writing, table, stores, history
  <1>10. ASSUME NEW q \in Request, CommitChild(q) PROVE FreshInv'
        BY <1>10, EndGuests
        DEF CommitChild, BasicInv, FreshInv, TypeOK, TableOK, JobInv, Fits,
            Writing, Holding, table, stores, history
  <1>11. ASSUME NEW q \in Request, NEW i \in Invitation, ReplyRead(q, i)
         PROVE  FreshInv'
        BY <1>11
        DEF ReplyRead, BasicInv, FreshInv, TypeOK, TableOK, Goto, NoJob,
            RequestsOK, table, stores, history
  <1>12. ASSUME NEW q \in Request, ReplyBegin(q) PROVE FreshInv'
    <2>1. CASE job[q].inv \notin rows
          BY <1>12, <2>1, EndGuests
          DEF ReplyBegin, BasicInv, FreshInv, table, history
    <2>2. CASE job[q].inv \in rows
      <3>1. job[q].inv \in used
            BY <1>12 DEF ReplyBegin, BasicInv, JobInv, Fits, Writing
      <3> QED BY <1>12, <2>2, <3>1, CacheKeepsGuests, CacheFresh
              DEF ReplyBegin, BasicInv, FreshInv, table, history
    <2> QED BY <1>12, <2>1, <2>2 DEF ReplyBegin
  <1>13. ASSUME NEW q \in Request, NEW S \in SUBSET Invitation, ReplyCommit(q,
               S)
         PROVE  FreshInv'
    <2>1. job[q].inv \in used
          BY <1>13 DEF ReplyCommit, BasicInv, JobInv, Fits, Writing, Holding
    <2>2. used \subseteq used' /\ S \subseteq used'
          BY <1>13 DEF ReplyCommit
    <2>3. \A r \in Request : job'[r].guests \subseteq used'
          BY <1>13, <2>2, EndGuests DEF ReplyCommit
    <2> QED BY <1>13, <2>1, <2>2, <2>3
            DEF ReplyCommit, BasicInv, FreshInv, TypeOK, TableOK, stores
  <1>14. ASSUME NEW q \in Request, NEW c \in Invitation, DeletePlusOne(q, c)
         PROVE  FreshInv'
    <2>1. /\ DeleteRead(q, parent[c], {c}) /\ UNCHANGED <<table, stores, history>>
          /\ parent[c] \in Invitation \cup {None} /\ {c} \in SUBSET Invitation
          BY <1>14 DEF DeletePlusOne, BasicInv, TypeOK, TableOK
    <2> QED BY <2>1, DeletionStarts
            DEF BasicInv, FreshInv, table, stores, history
  <1>15. ASSUME NEW q \in Request, NEW p \in Invitation, DeleteAllPlusOnes(q,
               p)
         PROVE  FreshInv'
    <2>1. /\ DeleteRead(q, p, PlusOnes(p))
          /\ UNCHANGED <<table, stores, history>>
          /\ PlusOnes(p) \in SUBSET Invitation
          BY <1>15 DEF DeleteAllPlusOnes, PlusOnes, BasicInv, TypeOK, TableOK
    <2> QED BY <2>1, DeletionStarts
            DEF BasicInv, FreshInv, table, stores, history
  <1>16. ASSUME NEW q \in Request, NEW c \in Invitation, DropContact(q, c)
         PROVE  FreshInv'
        BY <1>16, DropEffect
        DEF DropContact, BasicInv, FreshInv, TypeOK, TableOK, table, stores,
            history
  <1>17. ASSUME NEW q \in Request, DeleteRow(q) PROVE FreshInv'
    <2>1. CASE End(q)
          BY <1>17, <2>1, EndGuests
          DEF DeleteRow, BasicInv, FreshInv, table, stores
    <2>2. CASE ~End(q)
          BY <1>17, <2>2, DeleteRowEffect
          DEF DeleteRow, BasicInv, FreshInv, table, stores
    <2> QED BY <2>1, <2>2
  <1>18. ASSUME NEW q \in Request, SendDeleteGuest(q) PROVE FreshInv'
        BY <1>18
        DEF SendDeleteGuest, BasicInv, FreshInv, TypeOK, TableOK, Goto,
            RequestsOK, table, stores, history
  <1>19. ASSUME NEW q \in Request, DeleteCommit(q) PROVE FreshInv'
        BY <1>19, EndGuests, RemoveEffect
        DEF DeleteCommit, BasicInv, FreshInv, TypeOK, TableOK, table, stores,
            history
  <1>20. ASSUME NEW S \in SUBSET Invitation, Delete(S) PROVE FreshInv'
        BY <1>20, RemoveEffect
        DEF Delete, BasicInv, FreshInv, TypeOK, TableOK, Stay, table, stores,
            history
  <1>21. ASSUME NEW i \in Invitation, AddGuestId(i) PROVE FreshInv'
        BY <1>21
        DEF AddGuestId, BasicInv, FreshInv, TypeOK, TableOK, Stay, table,
            stores, history
  <1>22. ASSUME NEW q \in Request, Fail(q) PROVE FreshInv'
        BY <1>22, EndGuests
        DEF Fail, BasicInv, FreshInv, TypeOK, TableOK, table, stores, history
  <1> QED BY <1>1, <1>2, <1>3, <1>4, <1>5, <1>6, <1>7, <1>8, <1>9, <1>10,
      <1>11, <1>12, <1>13, <1>14, <1>15, <1>16, <1>17, <1>18, <1>19, <1>20,
      <1>21, <1>22 DEF Next, Start, Continue

LEMMA InitBasic == Init => BasicInv
  <1> SUFFICES ASSUME Init PROVE BasicInv
      OBVIOUS
  <1>1. TableOK
        BY Values DEF Init, TableOK
  <1>2. StoresOK
        BY GuestListAssumption DEF Init, StoresOK
  <1>3. RequestsOK
        BY Values DEF Init, RequestsOK, Place
  <1>4. HistoryOK
        BY DEF Init, HistoryOK
  <1>5. JobInv
        BY DEF Init, JobInv, Fits, Writing, Holding, Deleting
  <1>6. FreshInv
        BY DEF Init, FreshInv, NoJob
  <1> QED BY <1>1, <1>2, <1>3, <1>4, <1>5, <1>6 DEF BasicInv, TypeOK

LEMMA BasicStutter == BasicInv /\ UNCHANGED vars => BasicInv'
  <1> SUFFICES ASSUME BasicInv, UNCHANGED vars PROVE BasicInv'
      OBVIOUS
  <1> USE DEF vars, table, stores, history, BasicInv, TypeOK
  <1>1. TableOK' /\ StoresOK'
        BY DEF TableOK, StoresOK
  <1>2. RequestsOK' /\ HistoryOK'
        BY DEF RequestsOK, HistoryOK
  <1>3. JobInv' /\ FreshInv'
        BY DEF JobInv, FreshInv
  <1> QED BY <1>1, <1>2, <1>3

LEMMA BasicStep == BasicInv /\ [Next]_vars => BasicInv'
  <1>1. BasicInv /\ Next => BasicInv'
        BY TableStep, StoresStep, RequestsStep, HistoryStep, JobStep, FreshStep
        DEF BasicInv, TypeOK
  <1> QED BY <1>1, BasicStutter

THEOREM BasicInvariant == Spec => []BasicInv
  BY InitBasic, BasicStep, PTL DEF Spec

(* The tables, the stores, what requests carry and the history stay in     *)
(* their types.                                                            *)
THEOREM GuestListTypeCorrect == Spec => []TypeOK
  <1>1. BasicInv => TypeOK
        BY DEF BasicInv
  <1> QED BY <1>1, BasicInvariant, PTL

-----------------------------------------------------------------------------
(* Contacts.                                                               *)

\* A row's contact was made for it.
OwnInv ==
    \A i \in Invitation :
        contact[i] # 0 => /\ contact[i] \in 1..Len(owner)
                          /\ owner[contact[i]] = i

\* What a request holds is cached, and nobody else knows of it.
HeldInv ==
    \A q \in Request : job[q].token # 0 =>
        /\ job[q].token \in cache /\ owner[job[q].token] = job[q].inv
        /\ \A i \in Invitation : contact[i] # job[q].token
        /\ \A r \in Request : job[q].token \notin job[r].contacts
        /\ \A r \in Request \ {q} : job[r].token # job[q].token

\* What a deletion read was cached.
ReadInv == \A q \in Request : job[q].contacts \subseteq 1..Len(owner)

ContactInv == OwnInv /\ HeldInv /\ ReadInv /\ ContactsResolve

\* A request step that leaves the cache alone.
LEMMA QuietContacts ==
    ASSUME BasicInv, ContactInv, NEW q \in Request,
           UNCHANGED <<owner, cache>>,
           \A r \in Request \ {q} : job'[r] = job[r],
           \/ job'[q].token = 0
           \/ job'[q].token = job[q].token /\ job'[q].inv = job[q].inv,
           job'[q].contacts \subseteq
               job[q].contacts \cup ({contact[i] : i \in Invitation} \ {0}),
           \A i \in Invitation : contact'[i] \in {contact[i], 0},
           rows' \subseteq Invitation,
           \A i \in rows' \ rows : contact'[i] = 0,
           \A i \in undone \cap rows' : i \in undone',
           \A i \in job[q].touched :
               i \in job'[q].touched \/ i \notin rows' \/ i \in undone'
    PROVE  ContactInv'
  <1>1. OwnInv'
        BY DEF ContactInv, OwnInv
  <1>2. ReadInv'
    <2>1. \A t \in {contact[i] : i \in Invitation} \ {0} : t \in 1..Len(owner)
          BY DEF ContactInv, OwnInv
    <2> QED BY <2>1 DEF ContactInv, ReadInv
  <1>3. HeldInv'
    <2> SUFFICES ASSUME NEW r \in Request, job'[r].token # 0
                 PROVE  /\ job'[r].token \in cache
                        /\ owner[job'[r].token] = job'[r].inv
                        /\ \A i \in Invitation : contact'[i] # job'[r].token
                        /\ \A s \in Request : job'[r].token \notin job'[s].contacts
                        /\ \A s \in Request \ {r} : job'[s].token # job'[r].token
        BY DEF HeldInv
    <2>1. job'[r].token = job[r].token /\ job'[r].inv = job[r].inv
          OBVIOUS
    <2>2. /\ job[r].token \in cache /\ owner[job[r].token] = job[r].inv
          /\ \A i \in Invitation : contact[i] # job[r].token
          /\ \A s \in Request : job[r].token \notin job[s].contacts
          /\ \A s \in Request \ {r} : job[s].token # job[r].token
          BY <2>1 DEF ContactInv, HeldInv
    <2>3. \A s \in Request : job'[r].token \notin job'[s].contacts
          BY <2>1, <2>2
    <2>4. \A s \in Request \ {r} : job'[s].token # job'[r].token
          BY <2>1, <2>2
    <2> QED BY <2>1, <2>2, <2>3, <2>4
  <1>4. ContactsResolve'
    <2> SUFFICES ASSUME NEW i \in rows' \ undone', contact'[i] # 0
                 PROVE  \/ contact'[i] \in cache'
                        \/ \E r \in Request : i \in job'[r].touched
        BY DEF ContactsResolve, InDeletion
    <2>1. i \in rows \ undone /\ contact[i] # 0 /\ contact'[i] = contact[i]
          OBVIOUS
    <2>2. CASE contact[i] \in cache
          BY <2>1, <2>2
    <2>3. CASE InDeletion(i)
          BY <2>3 DEF InDeletion
    <2> QED BY <2>1, <2>2, <2>3 DEF ContactInv, ContactsResolve
  <1> QED BY <1>1, <1>2, <1>3, <1>4 DEF ContactInv

\* A step of no request.
LEMMA StillContacts ==
    ASSUME BasicInv, ContactInv, UNCHANGED <<owner, cache, job>>,
           \A i \in Invitation : contact'[i] \in {contact[i], 0},
           rows' \subseteq Invitation,
           \A i \in rows' \ rows : contact'[i] = 0,
           \A i \in undone \cap rows' : i \in undone'
    PROVE  ContactInv'
  <1>1. CASE \E q \in Request : TRUE
        BY <1>1, QuietContacts
  <1>2. CASE Request = {}
        BY <1>2 DEF ContactInv, OwnInv, HeldInv, ReadInv, ContactsResolve,
                    InDeletion
  <1> QED BY <1>1, <1>2

\* A new token is known to the request alone.
LEMMA CacheContacts ==
    ASSUME BasicInv, ContactInv, NEW q \in Request, NEW place,
           at[q] \in Writing, CacheContact(job[q].inv),
           Goto(q, place, [job[q] EXCEPT !.token = NewToken]),
           UNCHANGED <<table, history>>
    PROVE  ContactInv'
  <1>1. job[q].inv \in Invitation
        BY DEF BasicInv, JobInv, Fits, TypeOK, TableOK
  <1>2. /\ Len(owner') = NewToken /\ NewToken \in 1..MaxTokens
        /\ owner'[NewToken] = job[q].inv
        /\ \A t \in 1..Len(owner) : owner'[t] = owner[t]
        /\ cache' = cache \cup {NewToken}
        /\ 1..Len(owner') = 1..Len(owner) \cup {NewToken}
        BY <1>1, CacheTypes DEF BasicInv
  <1>3. NewToken \notin 1..Len(owner)
        BY DEF NewToken, BasicInv, TypeOK, StoresOK
  <1>4. /\ job'[q].token = NewToken /\ job'[q].inv = job[q].inv
        /\ job'[q].contacts = job[q].contacts
        /\ job'[q].touched = job[q].touched
        /\ \A r \in Request \ {q} : job'[r] = job[r]
        BY DEF Goto, Job, BasicInv, TypeOK, RequestsOK
  <1>5. UNCHANGED <<contact, rows, undone>>
        BY DEF table, history
  <1>6. cache \subseteq 1..Len(owner)
        BY DEF BasicInv, TypeOK, StoresOK
  <1>7. OwnInv' /\ ReadInv'
        BY <1>2, <1>4, <1>5 DEF ContactInv, OwnInv, ReadInv
  <1>8. ASSUME NEW r \in Request, job[r].token # 0
        PROVE  job[r].token \in 1..Len(owner)
        BY <1>6, <1>8 DEF ContactInv, HeldInv
  <1>9. HeldInv'
    <2>1. /\ NewToken \in cache' /\ owner'[NewToken] = job'[q].inv
          /\ \A i \in Invitation : contact'[i] # NewToken
          /\ \A r \in Request : NewToken \notin job'[r].contacts
          /\ \A r \in Request \ {q} : job'[r].token # NewToken
      <3>1. \A i \in Invitation : contact'[i] # NewToken
            BY <1>2, <1>3, <1>5 DEF ContactInv, OwnInv
      <3>2. \A r \in Request : NewToken \notin job'[r].contacts
            BY <1>3, <1>4 DEF ContactInv, ReadInv
      <3>3. \A r \in Request \ {q} : job'[r].token # NewToken
            BY <1>2, <1>3, <1>4, <1>8
      <3> QED BY <1>2, <1>4, <3>1, <3>2, <3>3
    <2>2. ASSUME NEW r \in Request \ {q}, job[r].token # 0
          PROVE  /\ job[r].token \in cache' /\ owner'[job[r].token] = job[r].inv
                 /\ \A i \in Invitation : contact'[i] # job[r].token
                 /\ \A s \in Request : job[r].token \notin job'[s].contacts
                 /\ \A s \in Request \ {r} : job'[s].token # job[r].token
      <3>1. /\ job[r].token \in cache /\ owner[job[r].token] = job[r].inv
            /\ \A i \in Invitation : contact[i] # job[r].token
            /\ \A s \in Request : job[r].token \notin job[s].contacts
            /\ \A s \in Request \ {r} : job[s].token # job[r].token
            BY <2>2 DEF ContactInv, HeldInv
      <3>2. job[r].token \in 1..Len(owner)
            BY <1>8, <2>2
      <3>3. \A s \in Request : job[r].token \notin job'[s].contacts
            BY <1>4, <3>1
      <3>4. \A s \in Request \ {r} : job'[s].token # job[r].token
            BY <1>3, <1>4, <3>1, <3>2
      <3> QED BY <1>2, <1>5, <3>1, <3>2, <3>3, <3>4
    <2> QED BY <1>4, <2>1, <2>2 DEF HeldInv
  <1>10. ContactsResolve'
    <2>1. ASSUME NEW i PROVE InDeletion(i) => InDeletion(i)'
          BY <1>4 DEF InDeletion
    <2> QED BY <1>2, <1>5, <2>1 DEF ContactInv, ContactsResolve
  <1> QED BY <1>7, <1>9, <1>10 DEF ContactInv

\* A request stores the token that it holds.
LEMMA StoreContacts ==
    ASSUME BasicInv, ContactInv, NEW q \in Request, at[q] \in Holding, End(q),
           contact' = [contact EXCEPT ![job[q].inv] = job[q].token],
           UNCHANGED <<owner, cache, undone>>, rows' \subseteq Invitation,
           \A i \in rows' \ rows : i \notin used \/ i = job[q].inv
    PROVE  ContactInv'
  <1> DEFINE i0 == job[q].inv
             t0 == job[q].token
  <1>1. i0 \in Invitation /\ t0 # 0 /\ job[q].touched = {}
        BY DEF BasicInv, JobInv, Fits, Writing, TypeOK, TableOK, Holding
  <1>2. /\ t0 \in cache /\ owner[t0] = i0 /\ t0 \in 1..Len(owner)
        /\ \A r \in Request : t0 \notin job[r].contacts
        /\ \A r \in Request \ {q} : job[r].token # t0
        BY <1>1 DEF ContactInv, HeldInv, BasicInv, TypeOK, StoresOK
  <1>3. \A i \in Invitation : contact'[i] = IF i = i0 THEN t0 ELSE contact[i]
        BY <1>1 DEF BasicInv, TypeOK, TableOK
  <1>4. /\ job'[q].token = 0 /\ job'[q].contacts = {}
        /\ job'[q].touched = {}
        /\ \A r \in Request \ {q} : job'[r] = job[r]
        BY EndTypes DEF BasicInv, NoJob
  <1> HIDE DEF i0, t0
  <1>5. OwnInv' /\ ReadInv'
        BY <1>2, <1>3, <1>4 DEF ContactInv, OwnInv, ReadInv
  <1>6. HeldInv'
        BY <1>2, <1>3, <1>4 DEF ContactInv, HeldInv
  <1>7. ContactsResolve'
    <2>1. ASSUME NEW i, InDeletion(i) PROVE InDeletion(i)'
          BY <1>1, <1>4, <2>1 DEF InDeletion
    <2>2. ASSUME NEW i \in rows' \ rows, i # i0 PROVE contact'[i] = 0
          BY <1>3, <2>2 DEF i0, BasicInv, FreshInv
    <2> QED BY <1>2, <1>3, <2>1, <2>2 DEF ContactInv, ContactsResolve
  <1> QED BY <1>5, <1>6, <1>7 DEF ContactInv

\* A request ends: what it touched went, or is given back.
LEMMA QuietEnd ==
    ASSUME BasicInv, ContactInv, NEW q \in Request, End(q),
           UNCHANGED <<owner, cache>>,
           \A i \in Invitation : contact'[i] \in {contact[i], 0},
           rows' \subseteq Invitation,
           \A i \in rows' \ rows : contact'[i] = 0,
           \A i \in undone \cap rows' : i \in undone',
           \/ at[q] \in Writing \cup {"idle", "insert"}
           \/ \A i \in job[q].touched : i \notin rows' \/ i \in undone'
    PROVE  ContactInv'
  <1>1. /\ job'[q].token = 0 /\ job'[q].contacts = {}
        /\ \A r \in Request \ {q} : job'[r] = job[r]
        BY EndTypes DEF BasicInv, NoJob
  <1>2. at[q] \in Writing \cup {"idle", "insert"} => job[q].touched = {}
    <2>1. Fits(at[q], job[q], used)
          BY DEF BasicInv, JobInv
    <2>2. CASE at[q] \in Writing
          BY <2>1, <2>2, Zenon DEF Fits
    <2>3. CASE at[q] \in {"idle", "insert"}
      <3>1. job[q] = NoJob
            BY <2>1, <2>3, Zenon DEF Fits
      <3>2. NoJob.touched = {}
            BY DEF NoJob
      <3> QED BY <3>1, <3>2
    <2> QED BY <2>2, <2>3
  <1> QED BY <1>1, <1>2, QuietContacts

\* A request starts, with nothing read of the contacts.
LEMMA QuietStart ==
    ASSUME BasicInv, ContactInv, NEW q \in Request, at[q] = "idle",
           UNCHANGED <<owner, cache, contact>>,
           job'[q].token = 0, job'[q].contacts = {},
           \A r \in Request \ {q} : job'[r] = job[r],
           rows' \subseteq Invitation, rows' \ rows \subseteq Invitation \ used,
           undone' = undone
    PROVE  ContactInv'
  <1>1. job[q].touched = {}
    <2>1. Fits("idle", job[q], used)
          BY DEF BasicInv, JobInv
    <2> QED BY <2>1 DEF Fits, NoJob
  <1>2. \A i \in rows' \ rows : contact'[i] = 0
        BY DEF BasicInv, FreshInv
  <1> QED BY <1>1, <1>2, QuietContacts

LEMMA DeletionContacts ==
    ASSUME BasicInv, ContactInv, NEW q \in Request, at[q] = "idle",
           NEW p \in Invitation \cup {None}, NEW list \in SUBSET Invitation,
           DeleteRead(q, p, list), UNCHANGED <<table, stores, history>>
    PROVE  ContactInv'
  <1>1. /\ job'[q].token = 0
        /\ job'[q].contacts = {contact[c] : c \in list} \ {0}
        /\ \A r \in Request \ {q} : job'[r] = job[r]
        BY DeletionStarts
  <1>2. job[q].touched = {}
    <2>1. Fits("idle", job[q], used)
          BY DEF BasicInv, JobInv
    <2> QED BY <2>1 DEF Fits, NoJob
  <1>3. UNCHANGED <<owner, cache, contact, rows, undone>>
        BY DEF table, stores, history
  <1>4. rows \subseteq Invitation
        BY DEF BasicInv, TypeOK, TableOK
  <1>5. job'[q].contacts \subseteq
            job[q].contacts \cup ({contact[i] : i \in Invitation} \ {0})
        BY <1>1
  <1> QED BY <1>1, <1>2, <1>3, <1>4, <1>5, QuietContacts

\* What is dropped was cached for the row that is dropped with it.
LEMMA DropContacts ==
    ASSUME BasicInv, ContactInv, NEW q \in Request, NEW c \in Invitation,
           DropContact(q, c)
    PROVE  ContactInv'
  <1>1. /\ job'[q].inv = c /\ job'[q].touched = job[q].touched \cup {c}
        /\ job'[q].token = job[q].token
        /\ job'[q].contacts = job[q].contacts
        /\ \A r \in Request \ {q} : job'[r] = job[r]
        BY DropEffect
  <1>2. job[q].token = 0
        BY DEF DropContact, BasicInv, JobInv, Fits, Deleting
  <1>3. /\ cache' = cache \ {t \in job[q].contacts : owner[t] = c}
        /\ UNCHANGED <<owner, contact, rows, undone>>
        BY DEF DropContact, table, history
  <1>4. OwnInv' /\ ReadInv'
        BY <1>1, <1>3 DEF ContactInv, OwnInv, ReadInv
  <1>5. HeldInv'
    <2> SUFFICES ASSUME NEW r \in Request, job'[r].token # 0
                 PROVE  /\ job'[r].token \in cache'
                        /\ owner[job'[r].token] = job'[r].inv
                        /\ \A i \in Invitation : contact[i] # job'[r].token
                        /\ \A s \in Request : job'[r].token \notin job'[s].contacts
                        /\ \A s \in Request \ {r} : job'[s].token # job'[r].token
        BY <1>3 DEF HeldInv
    <2>1. r # q /\ job'[r] = job[r]
          BY <1>1, <1>2
    <2>2. /\ job[r].token \in cache /\ owner[job[r].token] = job[r].inv
          /\ \A i \in Invitation : contact[i] # job[r].token
          /\ \A s \in Request : job[r].token \notin job[s].contacts
          /\ \A s \in Request \ {r} : job[s].token # job[r].token
          BY <2>1 DEF ContactInv, HeldInv
    <2>3. job[r].token \in cache'
          BY <1>3, <2>2
    <2> QED BY <1>1, <2>1, <2>2, <2>3
  <1>6. ContactsResolve'
    <2>1. ASSUME NEW i PROVE InDeletion(i) => InDeletion(i)'
          BY <1>1 DEF InDeletion
    <2>2. InDeletion(c)'
          BY <1>1 DEF InDeletion
    <2>3. ASSUME NEW i \in rows, i # c, contact[i] # 0, contact[i] \in cache
          PROVE  contact[i] \in cache'
          BY <1>3, <2>3 DEF ContactInv, OwnInv, BasicInv, TypeOK, TableOK
    <2> QED BY <1>3, <2>1, <2>2, <2>3 DEF ContactInv, ContactsResolve
  <1> QED BY <1>4, <1>5, <1>6 DEF ContactInv

LEMMA ContactStep ==
    ASSUME BasicInv, ContactInv, Next PROVE ContactInv'
  <1>1. ASSUME NEW i \in Invitation, NEW p \in Invitation \cup {None},
               Create(i, p)
         PROVE  ContactInv'
        BY <1>1, StillContacts
        DEF Create, Stay, Insert, stores, BasicInv, TypeOK, TableOK, FreshInv
  <1>2. ASSUME NEW q \in Request, NEW f \in File, ImportRead(q, f)
         PROVE  ContactInv'
        BY <1>2, StillContacts
        DEF ImportRead, table, stores, BasicInv, TypeOK, TableOK
  <1>3. ASSUME NEW q \in Request, ImportLine(q) PROVE ContactInv'
    <2>1. CASE UNCHANGED job
          BY <1>3, <2>1, StillContacts
          DEF ImportLine, Insert, stores, BasicInv, TypeOK, TableOK, FreshInv
    <2>2. CASE End(q) /\ UNCHANGED rows
          BY <1>3, <2>2, QuietEnd
          DEF ImportLine, Importing, stores, BasicInv, TypeOK, TableOK
    <2> QED BY <1>3, <2>1, <2>2 DEF ImportLine
  <1>4. ASSUME NEW q \in Request, ImportEnds(q) PROVE ContactInv'
        BY <1>4, QuietEnd
        DEF ImportEnds, Importing, table, stores, history, BasicInv, TypeOK,
            TableOK
  <1>5. ASSUME NEW q \in Request, NEW i \in Invitation,
               NEW S \in SUBSET Invitation, CreateFromPublicRsvp(q, i, S)
         PROVE  ContactInv'
        BY <1>5, QuietStart
        DEF CreateFromPublicRsvp, Goto, NoJob, table, stores, history,
            BasicInv, TypeOK, TableOK,
            FreshInv, RequestsOK
  <1>6. ASSUME NEW q \in Request, CacheGuest(q) PROVE ContactInv'
        BY <1>6, CacheContacts DEF CacheGuest, Writing
  <1>7. ASSUME NEW q \in Request, AttachContact(q) PROVE ContactInv'
    <2>1. CASE job[q].inv \in rows
          BY <1>7, <2>1, StoreContacts
          DEF AttachContact, Holding, stores, history, BasicInv, TypeOK,
              TableOK
    <2>2. CASE job[q].inv \notin rows
          BY <1>7, <2>2, QuietEnd
          DEF AttachContact, Writing, Holding, stores, history, BasicInv,
              TypeOK, TableOK
    <2> QED BY <2>1, <2>2
  <1>8. ASSUME NEW q \in Request, NEW p \in Invitation, NEW c \in Invitation,
               CreatePlusOne(q, p, c)
         PROVE  ContactInv'
        BY <1>8, QuietStart
        DEF CreatePlusOne, Goto, NoJob, table, stores, history, BasicInv,
            TypeOK, TableOK,
            FreshInv, RequestsOK
  <1>9. ASSUME NEW q \in Request, CacheChild(q) PROVE ContactInv'
        BY <1>9, CacheContacts DEF CacheChild, Writing
  <1>10. ASSUME NEW q \in Request, CommitChild(q) PROVE ContactInv'
        BY <1>10, StoreContacts
        DEF CommitChild, Holding, stores, history, BasicInv, TypeOK, TableOK,
            JobInv, Fits,
            Writing
  <1>11. ASSUME NEW q \in Request, NEW i \in Invitation, ReplyRead(q, i)
         PROVE  ContactInv'
        BY <1>11, QuietStart
        DEF ReplyRead, Goto, NoJob, table, stores, history, BasicInv, TypeOK,
            TableOK,
            FreshInv, RequestsOK
  <1>12. ASSUME NEW q \in Request, ReplyBegin(q) PROVE ContactInv'
    <2>1. CASE job[q].inv \in rows
          BY <1>12, <2>1, CacheContacts DEF ReplyBegin, Writing
    <2>2. CASE job[q].inv \notin rows
          BY <1>12, <2>2, QuietEnd
          DEF ReplyBegin, Writing, table, history, BasicInv, TypeOK, TableOK
    <2> QED BY <2>1, <2>2
  <1>13. ASSUME NEW q \in Request, NEW S \in SUBSET Invitation, ReplyCommit(q,
               S)
         PROVE  ContactInv'
        BY <1>13, StoreContacts
        DEF ReplyCommit, Holding, stores, BasicInv, TypeOK, TableOK
  <1>14. ASSUME NEW q \in Request, NEW c \in Invitation, DeletePlusOne(q, c)
         PROVE  ContactInv'
    <2>1. /\ DeleteRead(q, parent[c], {c}) /\ at[q] = "idle"
          /\ UNCHANGED <<table, stores, history>>
          /\ parent[c] \in Invitation \cup {None} /\ {c} \in SUBSET Invitation
          BY <1>14 DEF DeletePlusOne, BasicInv, TypeOK, TableOK
    <2> QED BY <2>1, DeletionContacts
  <1>15. ASSUME NEW q \in Request, NEW p \in Invitation, DeleteAllPlusOnes(q,
               p)
         PROVE  ContactInv'
    <2>1. /\ DeleteRead(q, p, PlusOnes(p)) /\ at[q] = "idle"
          /\ UNCHANGED <<table, stores, history>>
          /\ PlusOnes(p) \in SUBSET Invitation
          BY <1>15 DEF DeleteAllPlusOnes, PlusOnes, BasicInv, TypeOK, TableOK
    <2> QED BY <2>1, DeletionContacts
  <1>16. ASSUME NEW q \in Request, NEW c \in Invitation, DropContact(q, c)
         PROVE  ContactInv'
        BY <1>16, DropContacts
  <1>17. ASSUME NEW q \in Request, DeleteRow(q) PROVE ContactInv'
    <2>1. CASE End(q)
      <3>1. UNCHANGED <<owner, cache, contact, rows>> /\ GiveBack(q)
            BY <1>17, <2>1, EndTypes
            DEF DeleteRow, Goto, table, stores, BasicInv,
               TypeOK, RequestsOK
      <3> QED BY <2>1, <3>1, QuietEnd
              DEF GiveBack, BasicInv, TypeOK, TableOK
    <2>2. CASE ~End(q)
      <3>1. UNCHANGED <<owner, cache, contact, rows>>
            BY <1>17 DEF DeleteRow, table, stores
      <3>2. /\ job'[q].token = job[q].token /\ job'[q].inv = job[q].inv
            /\ job'[q].contacts = job[q].contacts
            /\ job'[q].touched = job[q].touched
            /\ \A r \in Request \ {q} : job'[r] = job[r]
            /\ UNCHANGED undone
            BY <1>17, <2>2, DeleteRowEffect
      <3> QED BY <3>1, <3>2, QuietContacts DEF BasicInv, TypeOK, TableOK
    <2> QED BY <2>1, <2>2
  <1>18. ASSUME NEW q \in Request, SendDeleteGuest(q) PROVE ContactInv'
    <2>1. job' = job
          BY <1>18
          DEF SendDeleteGuest, Goto, BasicInv, TypeOK, TableOK, RequestsOK
    <2> QED BY <1>18, <2>1, StillContacts
            DEF SendDeleteGuest, table, history, BasicInv, TypeOK, TableOK
  <1>19. ASSUME NEW q \in Request, DeleteCommit(q) PROVE ContactInv'
    <2>1. job[q].touched \cap rows' = {}
          BY <1>19, RemoveEffect DEF DeleteCommit, BasicInv
    <2> QED BY <1>19, <2>1, RemoveEffect, QuietEnd
        DEF DeleteCommit, stores, BasicInv, TypeOK, TableOK
  <1>20. ASSUME NEW S \in SUBSET Invitation, Delete(S) PROVE ContactInv'
        BY <1>20, RemoveEffect, StillContacts
        DEF Delete, Stay, stores, BasicInv, TypeOK, TableOK
  <1>21. ASSUME NEW i \in Invitation, AddGuestId(i) PROVE ContactInv'
        BY <1>21, StillContacts
        DEF AddGuestId, Stay, stores, history, BasicInv, TypeOK, TableOK
  <1>22. ASSUME NEW q \in Request, Fail(q) PROVE ContactInv'
        BY <1>22, QuietEnd
        DEF Fail, GiveBack, table, stores, BasicInv, TypeOK, TableOK
  <1> QED BY <1>1, <1>2, <1>3, <1>4, <1>5, <1>6, <1>7, <1>8, <1>9, <1>10,
      <1>11, <1>12, <1>13, <1>14, <1>15, <1>16, <1>17, <1>18, <1>19, <1>20,
      <1>21, <1>22 DEF Next, Start, Continue

LEMMA ContactStutter == BasicInv /\ ContactInv /\ UNCHANGED vars => ContactInv'
  BY StillContacts DEF vars, table, stores, history, BasicInv, TypeOK, TableOK

(* The token of a row leads to a cached contact, unless a deletion took it *)
(* and was rolled back.                                                    *)
THEOREM TokensLead == Spec => []ContactsResolve
  <1>1. Init => ContactInv
        BY
        DEF Init, ContactInv, OwnInv, HeldInv, ReadInv, ContactsResolve, NoJob
  <1>2. BasicInv /\ ContactInv /\ [Next]_vars => ContactInv'
        BY ContactStep, ContactStutter
  <1>3. ContactInv => ContactsResolve
        BY DEF ContactInv
  <1> QED BY <1>1, <1>2, <1>3, BasicInvariant, PTL DEF Spec

-----------------------------------------------------------------------------
(* Who writes to a row.                                                    *)
Guest == {"cache guest", "attach"}
Child == {"cache child", "commit child"}

\* No other request writes to the row of a public RSVP that is at work, or of
\* a plus-one that is being made, and nobody has heard of the latter.
CustodyInv ==
    \A q \in Request :
        /\ at[q] \in Guest \cup Child =>
               \A r \in Request \ {q} : at[r] \in Writing =>
                                          job[r].inv # job[q].inv
        /\ at[q] \in Guest /\ job[q].inv \in rows => job[q].inv \in answered
        /\ at[q] \in Child =>
               /\ job[q].inv \notin rows \cup linked \cup asked
               /\ \A r \in Request : job[q].inv \notin job[r].guests

\* A request writes no more.
LEMMA LeaveCustody ==
    ASSUME BasicInv, CustodyInv, NEW q \in Request, at'[q] \notin Writing,
           \A r \in Request \ {q} : at'[r] = at[r] /\ job'[r] = job[r],
           \A i \in rows' \ rows :
               i \notin used \/ (at[q] \in Child /\ i = job[q].inv),
           answered \cap rows' \subseteq answered',
           linked' \subseteq linked \cup rows,
           asked' \subseteq asked \cup job[q].guests,
           job'[q].guests \subseteq job[q].guests \cup linked
    PROVE  CustodyInv'
  <1> SUFFICES ASSUME NEW s \in Request, at'[s] \in Guest \cup Child
               PROVE  /\ \A r \in Request \ {s} : at'[r] \in Writing =>
                                                  job'[r].inv # job'[s].inv
                      /\ at'[s] \in Guest /\ job'[s].inv \in rows'
                             => job'[s].inv \in answered'
                      /\ at'[s] \in Child =>
                             /\ job'[s].inv \notin rows' \cup linked' \cup asked'
                             /\ \A r \in Request : job'[s].inv \notin job'[r].guests
      BY DEF CustodyInv
  <1>1. s # q /\ at'[s] = at[s] /\ job'[s] = job[s]
        BY DEF Guest, Child, Writing, Holding
  <1>2. at[s] \in Writing
        BY <1>1 DEF Guest, Child, Writing, Holding
  <1>3. job[s].inv \in used
        BY <1>2 DEF BasicInv, JobInv, Fits
  <1>4. at[q] \in Child => job[q].inv # job[s].inv
        BY <1>1, <1>2 DEF CustodyInv
  <1>5. job[s].inv \in rows' => job[s].inv \in rows
        BY <1>3, <1>4 DEF BasicInv, TypeOK, TableOK
  <1>6. \A r \in Request \ {s} : at'[r] \in Writing => job'[r].inv # job'[s].inv
        BY <1>1 DEF CustodyInv
  <1>7. at[s] \in Guest /\ job[s].inv \in rows' => job[s].inv \in answered'
        BY <1>5 DEF CustodyInv
  <1>8. ASSUME at[s] \in Child
        PROVE  /\ job[s].inv \notin rows' \cup linked' \cup asked'
               /\ \A r \in Request : job[s].inv \notin job'[r].guests
        BY <1>1, <1>5, <1>8 DEF CustodyInv
  <1> QED BY <1>1, <1>6, <1>7, <1>8

\* A request comes to write to a row that it did not write to, or goes on.
LEMMA WriteCustody ==
    ASSUME BasicInv, CustodyInv, NEW q \in Request, at'[q] \in Writing,
           \A r \in Request \ {q} : at'[r] = at[r] /\ job'[r] = job[r],
           \A i \in rows' \ rows : i \notin used,
           answered \subseteq answered', UNCHANGED <<linked, asked>>,
           job'[q].guests \subseteq job[q].guests,
           \/ /\ job'[q].inv = job[q].inv /\ rows' = rows
              /\ at[q] \in Writing
              /\ at'[q] \in Guest <=> at[q] \in Guest
              /\ at'[q] \in Child <=> at[q] \in Child
           \/ /\ job'[q].inv \in Invitation \ used
              /\ at'[q] \in Guest => job'[q].inv \in answered'
              /\ at'[q] \in Child => job'[q].inv \notin rows'
           \/ /\ job'[q].inv \in rows \ answered /\ rows' = rows
              /\ at'[q] \notin Guest \cup Child
    PROVE  CustodyInv'
  <1>1. ASSUME NEW s \in Request, at[s] \in Writing
        PROVE  job[s].inv \in used
        BY <1>1 DEF BasicInv, JobInv, Fits
  <1>2. Guest \cup Child \subseteq Writing
        BY DEF Guest, Child, Writing, Holding
  <1>3. ASSUME NEW s \in Request \ {q}, at[s] \in Guest \cup Child
        PROVE  job'[q].inv # job[s].inv
    <2>1. job[s].inv \in used
          BY <1>1, <1>2, <1>3
    <2>2. at[s] \in Guest => job[s].inv \in answered \/ job[s].inv \notin rows
          BY DEF CustodyInv
    <2>3. at[s] \in Child => job[s].inv \notin rows
          BY DEF CustodyInv
    <2>4. at[q] \in Writing => job[q].inv # job[s].inv
          BY <1>3 DEF CustodyInv
    <2> QED BY <1>3, <2>1, <2>2, <2>3, <2>4
  <1>4. ASSUME NEW s \in Request \ {q}, at[s] \in Guest \cup Child
        PROVE  /\ \A r \in Request \ {s} : at'[r] \in Writing =>
                                           job'[r].inv # job[s].inv
               /\ at[s] \in Guest /\ job[s].inv \in rows'
                      => job[s].inv \in answered'
               /\ at[s] \in Child =>
                      /\ job[s].inv \notin rows' \cup linked' \cup asked'
                      /\ \A r \in Request : job[s].inv \notin job'[r].guests
    <2>1. job[s].inv \in used
          BY <1>1, <1>2, <1>4
    <2>2. \A r \in Request \ {s} : at'[r] \in Writing => job'[r].inv # job[s].inv
          BY <1>3, <1>4 DEF CustodyInv
    <2>3. job[s].inv \in rows' => job[s].inv \in rows
          BY <2>1
    <2>4. \A r \in Request : job'[r].guests \subseteq job[r].guests
          OBVIOUS
    <2>5. at[s] \in Guest /\ job[s].inv \in rows => job[s].inv \in answered
          BY DEF CustodyInv
    <2>6. at[s] \in Child =>
              /\ job[s].inv \notin rows \cup linked \cup asked
              /\ \A r \in Request : job[s].inv \notin job[r].guests
          BY DEF CustodyInv
    <2> QED BY <2>2, <2>3, <2>4, <2>5, <2>6
  <1>5. ASSUME at'[q] \in Guest \cup Child
        PROVE  /\ \A r \in Request \ {q} : at'[r] \in Writing =>
                                           job'[r].inv # job'[q].inv
               /\ at'[q] \in Guest /\ job'[q].inv \in rows'
                      => job'[q].inv \in answered'
               /\ at'[q] \in Child =>
                      /\ job'[q].inv \notin rows' \cup linked' \cup asked'
                      /\ \A r \in Request : job'[q].inv \notin job'[r].guests
    <2>1. CASE job'[q].inv \in Invitation \ used
      <3>1. /\ job'[q].inv \notin linked \cup asked
            /\ \A r \in Request : job'[q].inv \notin job[r].guests
            BY <2>1 DEF BasicInv, FreshInv
      <3>2. \A r \in Request \ {q} : at[r] \in Writing => job[r].inv # job'[q].inv
            BY <1>1, <2>1
      <3>3. \A r \in Request : job'[r].guests \subseteq job[r].guests
            OBVIOUS
      <3>4. at[q] \in Writing => job[q].inv # job'[q].inv
            BY <1>1, <2>1
      <3>5. /\ at'[q] \in Guest => job'[q].inv \in answered'
            /\ at'[q] \in Child => job'[q].inv \notin rows'
            BY <1>5, <2>1, <3>4 DEF BasicInv, TypeOK, TableOK
      <3> QED BY <3>1, <3>2, <3>3, <3>5
    <2>2. CASE /\ job'[q].inv = job[q].inv /\ rows' = rows
               /\ at[q] \in Writing
               /\ at'[q] \in Guest <=> at[q] \in Guest
               /\ at'[q] \in Child <=> at[q] \in Child
      <3>1. at[q] \in Guest \cup Child
            BY <1>5, <2>2
      <3>2. \A r \in Request \ {q} : at'[r] \in Writing => job'[r].inv # job'[q].inv
            BY <2>2, <3>1 DEF CustodyInv
      <3>3. \A r \in Request : job'[r].guests \subseteq job[r].guests
            OBVIOUS
      <3>4. at[q] \in Guest /\ job[q].inv \in rows => job[q].inv \in answered
            BY DEF CustodyInv
      <3>5. at[q] \in Child =>
                /\ job[q].inv \notin rows \cup linked \cup asked
                /\ \A r \in Request : job[q].inv \notin job[r].guests
            BY DEF CustodyInv
      <3> QED BY <2>2, <3>2, <3>3, <3>4, <3>5
    <2> QED BY <1>5, <2>1, <2>2
  <1> QED BY <1>4, <1>5 DEF CustodyInv

LEMMA StayCustody ==
    ASSUME BasicInv, CustodyInv, UNCHANGED <<at, job, asked>>,
           \A i \in rows' \ rows : i \notin used,
           answered \cap rows' \subseteq answered',
           linked' \subseteq linked \cup rows
    PROVE  CustodyInv'
  <1>1. ASSUME NEW s \in Request, at[s] \in Writing
        PROVE  job[s].inv \in used
        BY <1>1 DEF BasicInv, JobInv, Fits
  <1>2. Guest \cup Child \subseteq Writing
        BY DEF Guest, Child, Writing, Holding
  <1> QED BY <1>1, <1>2 DEF CustodyInv

LEMMA EndCustody ==
    ASSUME BasicInv, CustodyInv, NEW q \in Request, End(q),
           \A i \in rows' \ rows :
               i \notin used \/ (at[q] \in Child /\ i = job[q].inv),
           answered \cap rows' \subseteq answered', UNCHANGED asked,
           linked' \subseteq linked
    PROVE  CustodyInv'
  <1>1. /\ at'[q] \notin Writing /\ job'[q].guests = {}
        /\ \A r \in Request \ {q} : at'[r] = at[r] /\ job'[r] = job[r]
    <2>1. /\ at'[q] = "idle" /\ job'[q] = NoJob
          /\ \A r \in Request \ {q} : at'[r] = at[r] /\ job'[r] = job[r]
          BY EndTypes DEF BasicInv
    <2>2. "idle" \notin Writing /\ NoJob.guests = {}
          BY DEF Writing, Holding, NoJob
    <2> QED BY <2>1, <2>2
  <1> QED BY <1>1, LeaveCustody

LEMMA CacheCustody ==
    ASSUME BasicInv, CustodyInv, NEW q \in Request,
           NEW place \in {"attach", "commit child", "commit reply"},
           Goto(q, place, [job[q] EXCEPT !.token = NewToken]),
           at[q] = CASE place = "attach" -> "cache guest"
                     [] place = "commit child" -> "cache child"
                     [] OTHER -> "begin reply",
           UNCHANGED <<table, asked>>
    PROVE  CustodyInv'
  <1>1. /\ at'[q] = place /\ job'[q].inv = job[q].inv
        /\ job'[q].guests = job[q].guests
        /\ \A r \in Request \ {q} : at'[r] = at[r] /\ job'[r] = job[r]
        BY DEF Goto, Job, BasicInv, TypeOK, RequestsOK
  <1>2. /\ at'[q] \in Writing /\ at[q] \in Writing
        /\ at'[q] \in Guest <=> at[q] \in Guest
        /\ at'[q] \in Child <=> at[q] \in Child
        BY <1>1 DEF Writing, Holding, Guest, Child
  <1>3. UNCHANGED <<rows, answered, linked, asked>>
        BY DEF table
  <1> QED BY <1>1, <1>2, <1>3, WriteCustody

LEMMA DeletionCustody ==
    ASSUME BasicInv, CustodyInv, NEW q \in Request,
           NEW p \in Invitation \cup {None}, NEW list \in SUBSET Invitation,
           DeleteRead(q, p, list), UNCHANGED <<table, stores>>
    PROVE  CustodyInv'
  <1>1. /\ at'[q] \in {"send", "drop contact"}
        /\ job'[q].guests = list \cap linked
        /\ \A r \in Request \ {q} : at'[r] = at[r] /\ job'[r] = job[r]
    <2>1. at'[q] \in {"send", "drop contact"}
          BY DEF DeleteRead, Goto, BasicInv, TypeOK, RequestsOK
    <2>2. job'[q].guests = list \cap linked
          BY DeletionStarts
    <2>3. \A r \in Request \ {q} : at'[r] = at[r] /\ job'[r] = job[r]
          BY DeletionStarts
    <2> QED BY <2>1, <2>2, <2>3
  <1>2. at'[q] \notin Writing
        BY <1>1 DEF Writing, Holding
  <1>3. UNCHANGED <<rows, answered, linked, asked>>
        BY DEF table, stores
  <1> QED BY <1>1, <1>2, <1>3, LeaveCustody

LEMMA CustodyStep ==
    ASSUME BasicInv, CustodyInv, Next PROVE CustodyInv'
  <1>1. ASSUME NEW i \in Invitation, NEW p \in Invitation \cup {None},
               Create(i, p)
         PROVE  CustodyInv'
        BY <1>1, StayCustody DEF Create, Stay, Insert, stores
  <1>2. ASSUME NEW q \in Request, NEW f \in File, ImportRead(q, f)
         PROVE  CustodyInv'
    <2>1. /\ at[q] = "idle" /\ at'[q] = "insert" /\ job' = job
          /\ \A r \in Request \ {q} : at'[r] = at[r]
          BY <1>2 DEF ImportRead, BasicInv, TypeOK, RequestsOK
    <2> QED BY <1>2, <2>1, LeaveCustody
            DEF ImportRead, table, stores, Writing, Holding
  <1>3. ASSUME NEW q \in Request, ImportLine(q) PROVE CustodyInv'
    <2>1. CASE UNCHANGED <<at, job>>
          BY <1>3, <2>1, StayCustody DEF ImportLine, Insert, stores
    <2>2. CASE End(q) /\ UNCHANGED rows
          BY <1>3, <2>2, EndCustody DEF ImportLine, stores
    <2> QED BY <1>3, <2>1, <2>2 DEF ImportLine
  <1>4. ASSUME NEW q \in Request, ImportEnds(q) PROVE CustodyInv'
        BY <1>4, EndCustody DEF ImportEnds, table, stores
  <1>5. ASSUME NEW q \in Request, NEW i \in Invitation,
               NEW S \in SUBSET Invitation, CreateFromPublicRsvp(q, i, S)
         PROVE  CustodyInv'
    <2>1. /\ at'[q] = "cache guest" /\ job'[q].inv = i /\ job'[q].guests = {}
          /\ \A r \in Request \ {q} : at'[r] = at[r] /\ job'[r] = job[r]
          BY <1>5
          DEF CreateFromPublicRsvp, Goto, NoJob, BasicInv, TypeOK, RequestsOK
    <2>2. /\ UNCHANGED <<linked, asked>> /\ answered \subseteq answered'
          /\ \A c0 \in rows' \ rows : c0 \notin used
          /\ i \notin used /\ i \in answered'
          BY <1>5
          DEF CreateFromPublicRsvp, table, stores, BasicInv, TypeOK, TableOK
    <2>3. /\ at'[q] \in Writing
          /\ at'[q] \notin Child
          BY <2>1 DEF Writing, Holding, Guest, Child
    <2> QED BY <2>1, <2>2, <2>3, WriteCustody
  <1>6. ASSUME NEW q \in Request, CacheGuest(q) PROVE CustodyInv'
        BY <1>6, CacheCustody DEF CacheGuest
  <1>7. ASSUME NEW q \in Request, AttachContact(q) PROVE CustodyInv'
        BY <1>7, EndCustody DEF AttachContact, stores
  <1>8. ASSUME NEW q \in Request, NEW p \in Invitation, NEW c \in Invitation,
               CreatePlusOne(q, p, c)
         PROVE  CustodyInv'
    <2>1. /\ at'[q] = "cache child" /\ job'[q].inv = c /\ job'[q].guests = {}
          /\ \A r \in Request \ {q} : at'[r] = at[r] /\ job'[r] = job[r]
          BY <1>8 DEF CreatePlusOne, Goto, NoJob, BasicInv, TypeOK, RequestsOK
    <2>2. /\ UNCHANGED <<linked, asked>> /\ answered \subseteq answered'
          /\ \A c0 \in rows' \ rows : c0 \notin used
          /\ c \notin used /\ c \notin rows'
          BY <1>8 DEF CreatePlusOne, table, stores, BasicInv, TypeOK, TableOK
    <2>3. /\ at'[q] \in Writing
          /\ at'[q] \notin Guest
          BY <2>1 DEF Writing, Holding, Guest, Child
    <2> QED BY <2>1, <2>2, <2>3, WriteCustody
  <1>9. ASSUME NEW q \in Request, CacheChild(q) PROVE CustodyInv'
        BY <1>9, CacheCustody DEF CacheChild
  <1>10. ASSUME NEW q \in Request, CommitChild(q) PROVE CustodyInv'
        BY <1>10, EndCustody DEF CommitChild, Child, stores
  <1>11. ASSUME NEW q \in Request, NEW i \in Invitation, ReplyRead(q, i)
         PROVE  CustodyInv'
    <2>1. /\ at'[q] = "begin reply" /\ job'[q].inv = i /\ job'[q].guests = {}
          /\ \A r \in Request \ {q} : at'[r] = at[r] /\ job'[r] = job[r]
          BY <1>11 DEF ReplyRead, Goto, NoJob, BasicInv, TypeOK, RequestsOK
    <2>2. /\ UNCHANGED <<linked, asked>> /\ answered \subseteq answered'
          /\ \A c0 \in rows' \ rows : c0 \notin used
          /\ i \in rows \ answered /\ rows' = rows
          BY <1>11 DEF ReplyRead, table, stores, BasicInv, TypeOK, TableOK
    <2>3. /\ at'[q] \in Writing
          /\ at'[q] \notin Guest \cup Child
          BY <2>1 DEF Writing, Holding, Guest, Child
    <2> QED BY <2>1, <2>2, <2>3, WriteCustody
  <1>12. ASSUME NEW q \in Request, ReplyBegin(q) PROVE CustodyInv'
    <2>1. CASE job[q].inv \in rows
          BY <1>12, <2>1, CacheCustody DEF ReplyBegin
    <2>2. CASE job[q].inv \notin rows
          BY <1>12, <2>2, EndCustody DEF ReplyBegin, table
    <2> QED BY <2>1, <2>2
  <1>13. ASSUME NEW q \in Request, NEW S \in SUBSET Invitation, ReplyCommit(q,
               S)
         PROVE  CustodyInv'
        BY <1>13, EndCustody DEF ReplyCommit, stores
  <1>14. ASSUME NEW q \in Request, NEW c \in Invitation, DeletePlusOne(q, c)
         PROVE  CustodyInv'
    <2>1. /\ DeleteRead(q, parent[c], {c}) /\ UNCHANGED <<table, stores>>
          /\ parent[c] \in Invitation \cup {None} /\ {c} \in SUBSET Invitation
          BY <1>14 DEF DeletePlusOne, BasicInv, TypeOK, TableOK
    <2> QED BY <2>1, DeletionCustody
  <1>15. ASSUME NEW q \in Request, NEW p \in Invitation, DeleteAllPlusOnes(q,
               p)
         PROVE  CustodyInv'
    <2>1. /\ DeleteRead(q, p, PlusOnes(p)) /\ UNCHANGED <<table, stores>>
          /\ PlusOnes(p) \in SUBSET Invitation
          BY <1>15 DEF DeleteAllPlusOnes, PlusOnes, BasicInv, TypeOK, TableOK
    <2> QED BY <2>1, DeletionCustody
  <1>16. ASSUME NEW q \in Request, NEW c \in Invitation, DropContact(q, c)
         PROVE  CustodyInv'
    <2>1. /\ at'[q] \notin Writing /\ job'[q].guests = job[q].guests
          /\ \A r \in Request \ {q} : at'[r] = at[r] /\ job'[r] = job[r]
          BY <1>16, DropEffect DEF Writing, Holding
    <2>2. UNCHANGED <<rows, answered, linked, asked>>
          BY <1>16 DEF DropContact, table
    <2> QED BY <2>1, <2>2, LeaveCustody
  <1>17. ASSUME NEW q \in Request, DeleteRow(q) PROVE CustodyInv'
    <2>1. UNCHANGED <<rows, answered, linked, asked>>
          BY <1>17 DEF DeleteRow, table, stores
    <2>2. CASE End(q)
          BY <2>1, <2>2, EndCustody
    <2>3. CASE ~End(q)
      <3>1. /\ at'[q] \notin Writing /\ job'[q].guests = job[q].guests
            /\ \A r \in Request \ {q} : at'[r] = at[r] /\ job'[r] = job[r]
            BY <1>17, <2>3, DeleteRowEffect DEF Writing, Holding
      <3> QED BY <2>1, <3>1, LeaveCustody
    <2> QED BY <2>2, <2>3
  <1>18. ASSUME NEW q \in Request, SendDeleteGuest(q) PROVE CustodyInv'
    <2>1. /\ at'[q] \notin Writing /\ job' = job
          /\ \A r \in Request \ {q} : at'[r] = at[r]
          /\ UNCHANGED <<rows, answered, linked>>
          /\ asked' = asked \cup job[q].guests
          BY <1>18
          DEF SendDeleteGuest, Goto, table, Writing, Holding, BasicInv,
             TypeOK, RequestsOK
    <2> QED BY <2>1, LeaveCustody
  <1>19. ASSUME NEW q \in Request, DeleteCommit(q) PROVE CustodyInv'
        BY <1>19, EndCustody, RemoveEffect DEF DeleteCommit, stores, BasicInv
  <1>20. ASSUME NEW S \in SUBSET Invitation, Delete(S) PROVE CustodyInv'
        BY <1>20, StayCustody, RemoveEffect DEF Delete, Stay, stores, BasicInv
  <1>21. ASSUME NEW i \in Invitation, AddGuestId(i) PROVE CustodyInv'
        BY <1>21, StayCustody DEF AddGuestId, Stay, stores
  <1>22. ASSUME NEW q \in Request, Fail(q) PROVE CustodyInv'
        BY <1>22, EndCustody DEF Fail, table, stores
  <1> QED BY <1>1, <1>2, <1>3, <1>4, <1>5, <1>6, <1>7, <1>8, <1>9, <1>10,
      <1>11, <1>12, <1>13, <1>14, <1>15, <1>16, <1>17, <1>18, <1>19, <1>20,
      <1>21, <1>22 DEF Next, Start, Continue

LEMMA CustodyInvariant == Spec => []CustodyInv
  <1>1. Init => CustodyInv
        BY DEF Init, CustodyInv, Guest, Child
  <1>2. BasicInv /\ CustodyInv /\ [Next]_vars => CustodyInv'
        BY CustodyStep, StayCustody DEF vars, table, stores
  <1> QED BY <1>1, <1>2, BasicInvariant, PTL DEF Spec

-----------------------------------------------------------------------------
(* Accounts.                                                               *)
LEMMA QuietAsked ==
    ASSUME BasicInv, AskedAreGone, NEW q \in Request,
           \A r \in Request \ {q} : job'[r] = job[r],
           \A i \in asked' : i \in asked \/ i \in job'[q].touched,
           \A i \in rows' \ rows : i \notin asked,
           \A i \in undone \cap rows' : i \in undone',
           \A i \in job[q].touched :
               i \in job'[q].touched \/ i \notin rows' \/ i \in undone'
    PROVE  AskedAreGone'
  <1> SUFFICES ASSUME NEW i \in asked' \ undone', i \in rows'
               PROVE  \E r \in Request : i \in job'[r].touched
      BY DEF AskedAreGone, InDeletion
  <1>1. CASE i \in job'[q].touched
        BY <1>1
  <1>2. CASE i \in asked
    <2>1. i \in rows /\ i \notin undone
          BY <1>2
    <2>2. PICK r \in Request : i \in job[r].touched
          BY <1>2, <2>1 DEF AskedAreGone, InDeletion
    <2> QED BY <2>2
  <1> QED BY <1>1, <1>2

LEMMA StillAsked ==
    ASSUME BasicInv, AskedAreGone, UNCHANGED <<asked, job>>,
           \A i \in rows' \ rows : i \notin asked,
           \A i \in undone \cap rows' : i \in undone'
    PROVE  AskedAreGone'
  BY DEF AskedAreGone, InDeletion

\* What a request touched before it deletes anything, and after it ends.
LEMMA UntouchedAtFirst ==
    ASSUME BasicInv, NEW q \in Request,
           at[q] \in Writing \/ at[q] = "idle" \/ at[q] = "insert"
    PROVE  job[q].touched = {}
  <1>1. Fits(at[q], job[q], used)
        BY DEF BasicInv, JobInv
  <1>2. CASE at[q] \in Writing
        BY <1>1, <1>2, Zenon DEF Fits
  <1>3. CASE at[q] = "idle" \/ at[q] = "insert"
    <2>1. job[q] = NoJob
          BY <1>1, <1>3 DEF Fits
    <2> QED BY <2>1 DEF NoJob
  <1> QED BY <1>2, <1>3

LEMMA EndAsked ==
    ASSUME BasicInv, AskedAreGone, NEW q \in Request, End(q), UNCHANGED asked,
           \A i \in rows' \ rows : i \notin asked,
           \A i \in undone \cap rows' : i \in undone',
           \A i \in job[q].touched : i \notin rows' \/ i \in undone'
    PROVE  AskedAreGone'
  <1>1. \A r \in Request \ {q} : job'[r] = job[r]
        BY EndTypes DEF BasicInv
  <1> QED BY <1>1, QuietAsked

LEMMA StartAsked ==
    ASSUME BasicInv, AskedAreGone, NEW q \in Request,
           at[q] \in Writing \/ at[q] = "idle", NEW place, NEW j,
           Goto(q, place, j), UNCHANGED <<asked, undone>>,
           \A i \in rows' \ rows : i \notin used
    PROVE  AskedAreGone'
  <1>1. \A r \in Request \ {q} : job'[r] = job[r]
        BY DEF Goto, BasicInv, TypeOK, RequestsOK
  <1>2. job[q].touched = {}
        BY UntouchedAtFirst
  <1> QED BY <1>1, <1>2, QuietAsked DEF BasicInv, FreshInv

LEMMA AskedStep ==
    ASSUME BasicInv, CustodyInv, AskedAreGone, Next PROVE AskedAreGone'
  <1>1. ASSUME NEW i \in Invitation, NEW p \in Invitation \cup {None},
               Create(i, p)
         PROVE  AskedAreGone'
        BY <1>1, StillAsked
        DEF Create, Stay, Insert, stores, BasicInv, FreshInv
  <1>2. ASSUME NEW q \in Request, NEW f \in File, ImportRead(q, f)
         PROVE  AskedAreGone'
        BY <1>2, StillAsked DEF ImportRead, table, stores
  <1>3. ASSUME NEW q \in Request, ImportLine(q) PROVE AskedAreGone'
    <2>1. CASE UNCHANGED job
          BY <1>3, <2>1, StillAsked
          DEF ImportLine, Insert, stores, BasicInv, FreshInv
    <2>2. CASE End(q) /\ UNCHANGED rows
          BY <1>3, <2>2, EndAsked, UntouchedAtFirst
          DEF ImportLine, Importing, stores
    <2> QED BY <1>3, <2>1, <2>2 DEF ImportLine
  <1>4. ASSUME NEW q \in Request, ImportEnds(q) PROVE AskedAreGone'
        BY <1>4, EndAsked, UntouchedAtFirst
        DEF ImportEnds, Importing, table, stores, history
  <1>5. ASSUME NEW q \in Request, NEW i \in Invitation,
               NEW S \in SUBSET Invitation, CreateFromPublicRsvp(q, i, S)
         PROVE  AskedAreGone'
        BY <1>5, StartAsked DEF CreateFromPublicRsvp, table, stores, history
  <1>6. ASSUME NEW q \in Request, CacheGuest(q) PROVE AskedAreGone'
        BY <1>6, StartAsked DEF CacheGuest, Writing, table, history
  <1>7. ASSUME NEW q \in Request, AttachContact(q) PROVE AskedAreGone'
        BY <1>7, EndAsked, UntouchedAtFirst
        DEF AttachContact, Writing, Holding, stores, history
  <1>8. ASSUME NEW q \in Request, NEW p \in Invitation, NEW c \in Invitation,
               CreatePlusOne(q, p, c)
         PROVE  AskedAreGone'
        BY <1>8, StartAsked DEF CreatePlusOne, table, stores, history
  <1>9. ASSUME NEW q \in Request, CacheChild(q) PROVE AskedAreGone'
        BY <1>9, StartAsked DEF CacheChild, Writing, table, history
  <1>10. ASSUME NEW q \in Request, CommitChild(q) PROVE AskedAreGone'
    <2>1. job[q].inv \notin asked
          BY <1>10 DEF CommitChild, CustodyInv, Child
    <2> QED BY <1>10, <2>1, EndAsked, UntouchedAtFirst
            DEF CommitChild, Writing, Holding, stores, history
  <1>11. ASSUME NEW q \in Request, NEW i \in Invitation, ReplyRead(q, i)
         PROVE  AskedAreGone'
        BY <1>11, StartAsked DEF ReplyRead, table, stores, history
  <1>12. ASSUME NEW q \in Request, ReplyBegin(q) PROVE AskedAreGone'
    <2>1. CASE job[q].inv \in rows
          BY <1>12, <2>1, StartAsked DEF ReplyBegin, Writing, table, history
    <2>2. CASE job[q].inv \notin rows
          BY <1>12, <2>2, EndAsked, UntouchedAtFirst
          DEF ReplyBegin, Writing, table, history
    <2> QED BY <2>1, <2>2
  <1>13. ASSUME NEW q \in Request, NEW S \in SUBSET Invitation, ReplyCommit(q,
               S)
         PROVE  AskedAreGone'
        BY <1>13, EndAsked, UntouchedAtFirst
        DEF ReplyCommit, Writing, Holding, stores, BasicInv, FreshInv
  <1>14. ASSUME NEW q \in Request, NEW c \in Invitation, DeletePlusOne(q, c)
         PROVE  AskedAreGone'
        BY <1>14, StartAsked
        DEF DeletePlusOne, DeleteRead, table, stores, history
  <1>15. ASSUME NEW q \in Request, NEW p \in Invitation, DeleteAllPlusOnes(q,
               p)
         PROVE  AskedAreGone'
        BY <1>15, StartAsked
        DEF DeleteAllPlusOnes, DeleteRead, table, stores, history
  <1>16. ASSUME NEW q \in Request, NEW c \in Invitation, DropContact(q, c)
         PROVE  AskedAreGone'
    <2>1. /\ job'[q].touched = job[q].touched \cup {c}
          /\ \A r \in Request \ {q} : job'[r] = job[r]
          BY <1>16, DropEffect
    <2> QED BY <1>16, <2>1, QuietAsked DEF DropContact, table, history
  <1>17. ASSUME NEW q \in Request, DeleteRow(q) PROVE AskedAreGone'
    <2>1. UNCHANGED <<rows, asked>>
          BY <1>17 DEF DeleteRow, table, stores
    <2>2. CASE End(q)
      <3>1. GiveBack(q)
            BY <1>17, <2>2, EndTypes
            DEF DeleteRow, Goto, BasicInv, TypeOK, RequestsOK
      <3> QED BY <2>1, <2>2, <3>1, EndAsked DEF GiveBack
    <2>3. CASE ~End(q)
      <3>1. /\ job'[q].touched = job[q].touched /\ UNCHANGED undone
            /\ \A r \in Request \ {q} : job'[r] = job[r]
            BY <1>17, <2>3, DeleteRowEffect
      <3> QED BY <2>1, <3>1, QuietAsked
    <2> QED BY <2>2, <2>3
  <1>18. ASSUME NEW q \in Request, SendDeleteGuest(q) PROVE AskedAreGone'
    <2>1. job' = job /\ UNCHANGED <<rows, undone>>
          BY <1>18 DEF SendDeleteGuest, Goto, table, history, BasicInv, TypeOK,
             RequestsOK
    <2>2. Fits("send", job[q], used)
          BY <1>18 DEF SendDeleteGuest, BasicInv, JobInv
    <2>3. job[q].guests \subseteq job[q].touched
          BY <2>2 DEF Fits, Deleting
    <2> QED BY <1>18, <2>1, <2>3, QuietAsked DEF SendDeleteGuest
  <1>19. ASSUME NEW q \in Request, DeleteCommit(q) PROVE AskedAreGone'
    <2>1. rows' \subseteq rows /\ rows' \cap job[q].touched = {}
          BY <1>19, RemoveEffect DEF DeleteCommit, BasicInv
    <2>2. undone' = undone \cap rows'
          BY <1>19, RemoveEffect DEF DeleteCommit, BasicInv
    <2> QED BY <1>19, <2>1, <2>2, EndAsked DEF DeleteCommit, stores
  <1>20. ASSUME NEW S \in SUBSET Invitation, Delete(S) PROVE AskedAreGone'
        BY <1>20, RemoveEffect, StillAsked DEF Delete, Stay, stores, BasicInv
  <1>21. ASSUME NEW i \in Invitation, AddGuestId(i) PROVE AskedAreGone'
        BY <1>21, StillAsked DEF AddGuestId, Stay, stores, history
  <1>22. ASSUME NEW q \in Request, Fail(q) PROVE AskedAreGone'
        BY <1>22, EndAsked DEF Fail, GiveBack, table, stores
  <1> QED BY <1>1, <1>2, <1>3, <1>4, <1>5, <1>6, <1>7, <1>8, <1>9, <1>10,
      <1>11, <1>12, <1>13, <1>14, <1>15, <1>16, <1>17, <1>18, <1>19, <1>20,
      <1>21, <1>22 DEF Next, Start, Continue

(* An account whose deletion was sent belongs to no row, unless the        *)
(* deletion was rolled back.                                               *)
THEOREM AccountsGoWithRows == Spec => []AskedAreGone
  <1>1. Init => AskedAreGone
        BY DEF Init, AskedAreGone
  <1>2. BasicInv /\ CustodyInv /\ AskedAreGone /\ [Next]_vars => AskedAreGone'
        BY AskedStep, StillAsked DEF vars, table, stores, history
  <1> QED BY <1>1, <1>2, BasicInvariant, CustodyInvariant, PTL DEF Spec

-----------------------------------------------------------------------------
(* Public RSVPs.                                                           *)
LEMMA QuietPublic ==
    ASSUME BasicInv, PublicGuestsHaveContact, NEW q \in Request,
           \A r \in Request \ {q} : at'[r] = at[r] /\ job'[r] = job[r],
           \A i \in public' :
               i \in public \/ (at'[q] \in Guest /\ job'[q].inv = i),
           \A i \in public \cap rows' : contact'[i] = contact[i] \/ contact'[i] # 0,
           \A i \in died \cap rows' : i \in died',
           at[q] \in Guest => \/ at'[q] \in Guest /\ job'[q].inv = job[q].inv
                             \/ job[q].inv \notin rows' \/ job[q].inv \in died'
                             \/ contact'[job[q].inv] # 0
    PROVE  PublicGuestsHaveContact'
  <1> SUFFICES ASSUME NEW i \in (public' \cap rows') \ died', contact'[i] = 0
               PROVE  \E r \in Request : at'[r] \in Guest /\ job'[r].inv = i
      BY DEF PublicGuestsHaveContact, Guest
  <1>1. CASE at'[q] \in Guest /\ job'[q].inv = i
        BY <1>1
  <1>2. CASE i \in public
    <2>1. i \in rows /\ i \notin died /\ contact[i] = 0
          BY <1>2 DEF BasicInv, TypeOK, HistoryOK
    <2>2. PICK r \in Request : at[r] \in Guest /\ job[r].inv = i
          BY <1>2, <2>1 DEF PublicGuestsHaveContact, Guest
    <2> QED BY <2>2
  <1> QED BY <1>1, <1>2

LEMMA StillPublic ==
    ASSUME BasicInv, PublicGuestsHaveContact, UNCHANGED <<at, job>>,
           public' \subseteq public,
           \A i \in public \cap rows' : contact'[i] = contact[i],
           \A i \in died \cap rows' : i \in died'
    PROVE  PublicGuestsHaveContact'
  BY DEF PublicGuestsHaveContact, BasicInv, TypeOK, HistoryOK

LEMMA EndPublic ==
    ASSUME BasicInv, PublicGuestsHaveContact, NEW q \in Request, End(q),
           public' \subseteq public,
           \A i \in public \cap rows' : contact'[i] = contact[i] \/ contact'[i] # 0,
           \A i \in died \cap rows' : i \in died',
           at[q] \in Guest => \/ job[q].inv \notin rows' \/ job[q].inv \in died'
                             \/ contact'[job[q].inv] # 0
    PROVE  PublicGuestsHaveContact'
  <1>1. \A r \in Request \ {q} : at'[r] = at[r] /\ job'[r] = job[r]
        BY EndTypes DEF BasicInv
  <1> QED BY <1>1, QuietPublic

LEMMA GotoPublic ==
    ASSUME BasicInv, PublicGuestsHaveContact, NEW q \in Request,
           at[q] \notin Guest, NEW place, NEW j, Goto(q, place, j),
           public' = public, contact' = contact, UNCHANGED died
    PROVE  PublicGuestsHaveContact'
  <1>1. \A r \in Request \ {q} : at'[r] = at[r] /\ job'[r] = job[r]
        BY DEF Goto, BasicInv, TypeOK, RequestsOK
  <1> QED BY <1>1, QuietPublic

LEMMA StorePublic ==
    ASSUME BasicInv, PublicGuestsHaveContact, NEW q \in Request, End(q),
           at[q] \in Holding, UNCHANGED <<public, died>>,
           contact' = [contact EXCEPT ![job[q].inv] = job[q].token]
    PROVE  PublicGuestsHaveContact'
  <1>1. Fits(at[q], job[q], used) /\ at[q] \in Writing
        BY DEF BasicInv, JobInv, Writing
  <1>2. job[q].inv \in Invitation /\ job[q].token # 0
        BY <1>1, Zenon DEF Fits, BasicInv, TypeOK, TableOK
  <1>3. /\ contact'[job[q].inv] # 0
        /\ \A i \in public : contact'[i] = contact[i] \/ contact'[i] # 0
        BY <1>2 DEF BasicInv, TypeOK, TableOK, HistoryOK
  <1> QED BY <1>3, EndPublic

LEMMA PublicStep ==
    ASSUME BasicInv, PublicGuestsHaveContact, Next PROVE PublicGuestsHaveContact'
  <1>1. ASSUME NEW i \in Invitation, NEW p \in Invitation \cup {None},
               Create(i, p)
         PROVE  PublicGuestsHaveContact'
        BY <1>1, StillPublic DEF Create, Stay
  <1>2. ASSUME NEW q \in Request, NEW f \in File, ImportRead(q, f)
         PROVE  PublicGuestsHaveContact'
    <2>1. \A r \in Request \ {q} : at'[r] = at[r] /\ job'[r] = job[r]
          BY <1>2 DEF ImportRead, BasicInv, TypeOK, RequestsOK
    <2> QED BY <1>2, <2>1, QuietPublic DEF ImportRead, table, Guest
  <1>3. ASSUME NEW q \in Request, ImportLine(q) PROVE PublicGuestsHaveContact'
    <2>1. CASE UNCHANGED <<at, job>>
          BY <1>3, <2>1, StillPublic DEF ImportLine
    <2>2. CASE End(q)
          BY <1>3, <2>2, EndPublic DEF ImportLine, Importing, Guest
    <2> QED BY <1>3, <2>1, <2>2 DEF ImportLine
  <1>4. ASSUME NEW q \in Request, ImportEnds(q) PROVE PublicGuestsHaveContact'
        BY <1>4, EndPublic DEF ImportEnds, Importing, Guest, table, history
  <1>5. ASSUME NEW q \in Request, NEW i \in Invitation,
               NEW S \in SUBSET Invitation, CreateFromPublicRsvp(q, i, S)
         PROVE  PublicGuestsHaveContact'
    <2>1. /\ \A r \in Request \ {q} : at'[r] = at[r] /\ job'[r] = job[r]
          /\ at'[q] = "cache guest" /\ job'[q].inv = i
          BY <1>5 DEF CreateFromPublicRsvp, Goto, NoJob, BasicInv, TypeOK,
             RequestsOK
    <2> QED BY <1>5, <2>1, QuietPublic DEF CreateFromPublicRsvp, Guest
  <1>6. ASSUME NEW q \in Request, CacheGuest(q) PROVE PublicGuestsHaveContact'
    <2>1. /\ \A r \in Request \ {q} : at'[r] = at[r] /\ job'[r] = job[r]
          /\ at'[q] = "attach" /\ job'[q].inv = job[q].inv
          BY <1>6 DEF CacheGuest, Goto, Job, BasicInv, TypeOK, RequestsOK
    <2> QED BY <1>6, <2>1, QuietPublic DEF CacheGuest, Guest, table, history
  <1>7. ASSUME NEW q \in Request, AttachContact(q)
         PROVE  PublicGuestsHaveContact'
    <2>1. CASE job[q].inv \in rows
          BY <1>7, <2>1, StorePublic DEF AttachContact, Holding, history
    <2>2. CASE job[q].inv \notin rows
          BY <1>7, <2>2, EndPublic DEF AttachContact, history
    <2> QED BY <2>1, <2>2
  <1>8. ASSUME NEW q \in Request, NEW p \in Invitation, NEW c \in Invitation,
               CreatePlusOne(q, p, c)
         PROVE  PublicGuestsHaveContact'
        BY <1>8, GotoPublic DEF CreatePlusOne, Guest, table
  <1>9. ASSUME NEW q \in Request, CacheChild(q) PROVE PublicGuestsHaveContact'
        BY <1>9, GotoPublic DEF CacheChild, Guest, table, history
  <1>10. ASSUME NEW q \in Request, CommitChild(q)
         PROVE  PublicGuestsHaveContact'
        BY <1>10, StorePublic DEF CommitChild, Holding, history
  <1>11. ASSUME NEW q \in Request, NEW i \in Invitation, ReplyRead(q, i)
         PROVE  PublicGuestsHaveContact'
        BY <1>11, GotoPublic DEF ReplyRead, Guest, table, history
  <1>12. ASSUME NEW q \in Request, ReplyBegin(q) PROVE PublicGuestsHaveContact'
    <2>1. CASE job[q].inv \in rows
          BY <1>12, <2>1, GotoPublic DEF ReplyBegin, Guest, table, history
    <2>2. CASE job[q].inv \notin rows
          BY <1>12, <2>2, EndPublic DEF ReplyBegin, Guest, table, history
    <2> QED BY <2>1, <2>2
  <1>13. ASSUME NEW q \in Request, NEW S \in SUBSET Invitation, ReplyCommit(q,
               S)
         PROVE  PublicGuestsHaveContact'
        BY <1>13, StorePublic DEF ReplyCommit, Holding
  <1>14. ASSUME NEW q \in Request, NEW c \in Invitation, DeletePlusOne(q, c)
         PROVE  PublicGuestsHaveContact'
        BY <1>14, GotoPublic
        DEF DeletePlusOne, DeleteRead, Guest, table, history
  <1>15. ASSUME NEW q \in Request, NEW p \in Invitation, DeleteAllPlusOnes(q,
               p)
         PROVE  PublicGuestsHaveContact'
        BY <1>15, GotoPublic
        DEF DeleteAllPlusOnes, DeleteRead, Guest, table, history
  <1>16. ASSUME NEW q \in Request, NEW c \in Invitation, DropContact(q, c)
         PROVE  PublicGuestsHaveContact'
        BY <1>16, GotoPublic DEF DropContact, Guest, table, history
  <1>17. ASSUME NEW q \in Request, DeleteRow(q) PROVE PublicGuestsHaveContact'
    <2>1. CASE End(q)
          BY <1>17, <2>1, EndPublic DEF DeleteRow, Guest, table
    <2>2. CASE ~End(q)
          BY <1>17, <2>2, GotoPublic DEF DeleteRow, Guest, table
    <2> QED BY <2>1, <2>2
  <1>18. ASSUME NEW q \in Request, SendDeleteGuest(q)
         PROVE  PublicGuestsHaveContact'
        BY <1>18, GotoPublic DEF SendDeleteGuest, Guest, table, history
  <1>19. ASSUME NEW q \in Request, DeleteCommit(q)
         PROVE  PublicGuestsHaveContact'
        BY <1>19, EndPublic, RemoveEffect
        DEF DeleteCommit, Guest, BasicInv, TypeOK, TableOK, HistoryOK
  <1>20. ASSUME NEW S \in SUBSET Invitation, Delete(S)
         PROVE  PublicGuestsHaveContact'
        BY <1>20, StillPublic, RemoveEffect
        DEF Delete, Stay, BasicInv, TypeOK, TableOK, HistoryOK
  <1>21. ASSUME NEW i \in Invitation, AddGuestId(i)
         PROVE  PublicGuestsHaveContact'
        BY <1>21, StillPublic DEF AddGuestId, Stay, history
  <1>22. ASSUME NEW q \in Request, Fail(q) PROVE PublicGuestsHaveContact'
        BY <1>22, EndPublic DEF Fail, Guest, table
  <1> QED BY <1>1, <1>2, <1>3, <1>4, <1>5, <1>6, <1>7, <1>8, <1>9, <1>10,
      <1>11, <1>12, <1>13, <1>14, <1>15, <1>16, <1>17, <1>18, <1>19, <1>20,
      <1>21, <1>22 DEF Next, Start, Continue

(* The guest of a public RSVP has a contact, unless its request is at work *)
(* or died.                                                                *)
THEOREM PublicContacts == Spec => []PublicGuestsHaveContact
  <1>1. Init => PublicGuestsHaveContact
        BY DEF Init, PublicGuestsHaveContact
  <1>2. BasicInv /\ PublicGuestsHaveContact /\ [Next]_vars
            => PublicGuestsHaveContact'
        BY PublicStep, StillPublic DEF vars, table, history
  <1> QED BY <1>1, <1>2, BasicInvariant, PTL DEF Spec

-----------------------------------------------------------------------------
(* Imports.                                                                *)
\* The one import at work knows the names that imports inserted.
ImportInv ==
    ~overlapped =>
        /\ \A q, r \in Request : Importing(q) /\ Importing(r) => q = r
        /\ \A q \in Request : Importing(q) =>
               \A i \in imported : NameOf[i] \in import[q].known
        /\ \A i, j \in imported : NameOf[i] = NameOf[j] => i = j

LEMMA QuietImport ==
    ASSUME BasicInv, ImportInv, overlapped' = overlapped,
           imported' \subseteq imported,
           \A q \in Request : at'[q] = "insert" =>
               at[q] = "insert" /\ import'[q].known = import[q].known
    PROVE  ImportInv'
  BY DEF ImportInv, Importing

LEMMA GotoImport ==
    ASSUME BasicInv, ImportInv, NEW q \in Request, NEW place,
           place # "insert", NEW j, Goto(q, place, j),
           UNCHANGED <<overlapped, imported>>
    PROVE  ImportInv'
  BY QuietImport DEF Goto, BasicInv, TypeOK, RequestsOK

LEMMA EndImport ==
    ASSUME BasicInv, ImportInv, NEW q \in Request, End(q),
           overlapped' = overlapped, imported' \subseteq imported
    PROVE  ImportInv'
  <1>1. /\ at'[q] = "idle"
        /\ \A r \in Request \ {q} : at'[r] = at[r] /\ import'[r] = import[r]
        BY EndTypes DEF BasicInv
  <1> QED BY <1>1, QuietImport

LEMMA ImportStep ==
    ASSUME BasicInv, ImportInv, Next PROVE ImportInv'
  <1>1. ASSUME NEW i \in Invitation, NEW p \in Invitation \cup {None},
               Create(i, p)
         PROVE  ImportInv'
        BY <1>1, QuietImport DEF Create, Stay
  <1>2. ASSUME NEW q \in Request, NEW f \in File, ImportRead(q, f)
         PROVE  ImportInv'
    <2>1. /\ at'[q] = "insert" /\ imported' = imported
          /\ import'[q].known = {NameOf[i] : i \in rows}
          /\ \A r \in Request \ {q} : at'[r] = at[r] /\ import'[r] = import[r]
          /\ overlapped' = (overlapped \/ \E r \in Request : Importing(r))
          BY <1>2 DEF ImportRead, BasicInv, TypeOK, RequestsOK
    <2>2. imported \subseteq rows
          BY DEF BasicInv, TypeOK, HistoryOK
    <2> QED BY <2>1, <2>2 DEF ImportInv, Importing
  <1>3. ASSUME NEW q \in Request, ImportLine(q) PROVE ImportInv'
    <2>1. /\ at[q] = "insert" /\ overlapped' = overlapped
          /\ import[q] \in Import /\ import \in [Request -> Import]
          BY <1>3 DEF ImportLine, Importing, BasicInv, TypeOK, RequestsOK
    <2>2. CASE UNCHANGED imported
      <3>1. CASE End(q)
            BY <1>3, <2>1, <2>2, <3>1, EndImport
      <3>2. CASE import' = [import EXCEPT ![q].left = Tail(@)] /\ UNCHANGED at
        <4>1. \A r \in Request : import'[r].known = import[r].known
              BY <2>1, <3>2 DEF Import
        <4> QED BY <2>1, <2>2, <3>2, <4>1, QuietImport
      <3>3. CASE ~End(q) /\ ~(import' = [import EXCEPT ![q].left = Tail(@)]
                                 /\ UNCHANGED at)
        <4>1. PICK i \in Invitation : imported' = imported \cup {i}
                                      /\ rows' = rows \cup {i} /\ i \notin used
              BY <1>3, <3>3 DEF ImportLine, Insert
        <4>2. i \notin imported
              BY <4>1 DEF BasicInv, TypeOK, TableOK, HistoryOK
        <4> QED BY <2>2, <4>1, <4>2
      <3> QED BY <3>1, <3>2, <3>3
    <2>3. CASE ~UNCHANGED imported
      <3> DEFINE n == Head(import[q].left).name
      <3>1. PICK i \in Invitation :
                /\ NameOf[i] = n /\ imported' = imported \cup {i}
                /\ n \notin import[q].known /\ UNCHANGED at
                /\ import' = [import EXCEPT ![q] =
                                 [left |-> Tail(import[q].left),
                                  known |-> KnownAfter(import[q].known, n)]]
            BY <1>3, <2>3 DEF ImportLine
      <3>2. /\ import'[q].known = import[q].known \cup {n}
            /\ \A r \in Request \ {q} : import'[r] = import[r]
            BY <2>1, <3>1 DEF KnownAfter
      <3> HIDE DEF n
      <3>3. ASSUME ~overlapped
            PROVE  /\ \A r \in Request : Importing(r) => r = q
                   /\ \A j \in imported : NameOf[j] \in import[q].known
                   /\ \A j, k \in imported : NameOf[j] = NameOf[k] => j = k
            BY <2>1, <3>3 DEF ImportInv, Importing
      <3>4. ASSUME ~overlapped
            PROVE  \A j, k \in imported' : NameOf[j] = NameOf[k] => j = k
            BY <3>1, <3>3, <3>4
      <3> QED BY <2>1, <3>1, <3>2, <3>3, <3>4 DEF ImportInv, Importing
    <2> QED BY <2>2, <2>3
  <1>4. ASSUME NEW q \in Request, ImportEnds(q) PROVE ImportInv'
        BY <1>4, EndImport DEF ImportEnds, history
  <1>5. ASSUME NEW q \in Request, NEW i \in Invitation,
               NEW S \in SUBSET Invitation, CreateFromPublicRsvp(q, i, S)
         PROVE  ImportInv'
        BY <1>5, GotoImport DEF CreateFromPublicRsvp, history
  <1>6. ASSUME NEW q \in Request, CacheGuest(q) PROVE ImportInv'
        BY <1>6, GotoImport DEF CacheGuest, history
  <1>7. ASSUME NEW q \in Request, AttachContact(q) PROVE ImportInv'
        BY <1>7, EndImport DEF AttachContact, history
  <1>8. ASSUME NEW q \in Request, NEW p \in Invitation, NEW c \in Invitation,
               CreatePlusOne(q, p, c)
         PROVE  ImportInv'
        BY <1>8, GotoImport DEF CreatePlusOne, history
  <1>9. ASSUME NEW q \in Request, CacheChild(q) PROVE ImportInv'
        BY <1>9, GotoImport DEF CacheChild, history
  <1>10. ASSUME NEW q \in Request, CommitChild(q) PROVE ImportInv'
        BY <1>10, EndImport DEF CommitChild, history
  <1>11. ASSUME NEW q \in Request, NEW i \in Invitation, ReplyRead(q, i)
         PROVE  ImportInv'
        BY <1>11, GotoImport DEF ReplyRead, history
  <1>12. ASSUME NEW q \in Request, ReplyBegin(q) PROVE ImportInv'
        BY <1>12, GotoImport, EndImport DEF ReplyBegin, history
  <1>13. ASSUME NEW q \in Request, NEW S \in SUBSET Invitation, ReplyCommit(q,
               S)
         PROVE  ImportInv'
        BY <1>13, EndImport DEF ReplyCommit, history
  <1>14. ASSUME NEW q \in Request, NEW c \in Invitation, DeletePlusOne(q, c)
         PROVE  ImportInv'
        BY <1>14, GotoImport DEF DeletePlusOne, DeleteRead, history
  <1>15. ASSUME NEW q \in Request, NEW p \in Invitation, DeleteAllPlusOnes(q,
               p)
         PROVE  ImportInv'
        BY <1>15, GotoImport DEF DeleteAllPlusOnes, DeleteRead, history
  <1>16. ASSUME NEW q \in Request, NEW c \in Invitation, DropContact(q, c)
         PROVE  ImportInv'
        BY <1>16, GotoImport DEF DropContact, history
  <1>17. ASSUME NEW q \in Request, DeleteRow(q) PROVE ImportInv'
        BY <1>17, GotoImport, EndImport DEF DeleteRow
  <1>18. ASSUME NEW q \in Request, SendDeleteGuest(q) PROVE ImportInv'
        BY <1>18, GotoImport DEF SendDeleteGuest, history
  <1>19. ASSUME NEW q \in Request, DeleteCommit(q) PROVE ImportInv'
        BY <1>19, EndImport, RemoveEffect DEF DeleteCommit, BasicInv
  <1>20. ASSUME NEW S \in SUBSET Invitation, Delete(S) PROVE ImportInv'
        BY <1>20, QuietImport, RemoveEffect DEF Delete, Stay, BasicInv
  <1>21. ASSUME NEW i \in Invitation, AddGuestId(i) PROVE ImportInv'
        BY <1>21, QuietImport DEF AddGuestId, Stay, history
  <1>22. ASSUME NEW q \in Request, Fail(q) PROVE ImportInv'
        BY <1>22, EndImport DEF Fail, history
  <1> QED BY <1>1, <1>2, <1>3, <1>4, <1>5, <1>6, <1>7, <1>8, <1>9, <1>10,
      <1>11, <1>12, <1>13, <1>14, <1>15, <1>16, <1>17, <1>18, <1>19, <1>20,
      <1>21, <1>22 DEF Next, Start, Continue

(* Imports that do not overlap insert no name twice.                       *)
THEOREM NamesImportedOnce == Spec => []ImportedOnce
  <1>1. Init => ImportInv
        BY DEF Init, ImportInv, Importing
  <1>2. BasicInv /\ ImportInv /\ [Next]_vars => ImportInv'
        BY ImportStep, QuietImport DEF vars, history
  <1>3. ImportInv => ImportedOnce
        BY DEF ImportInv, ImportedOnce
  <1> QED BY <1>1, <1>2, <1>3, BasicInvariant, PTL DEF Spec

-----------------------------------------------------------------------------
(* The newest contact.                                                     *)

\* What a request holds is the newest for its row.
HeldNewest ==
    \A q \in Request : job[q].token # 0 =>
        \A t \in 1..Len(owner) : owner[t] = job[q].inv => t <= job[q].token

NewestInv == HeldNewest /\ NewestIsAttached

LEMMA Tokens ==
    ASSUME BasicInv
    PROVE  /\ owner \in Seq(Invitation) /\ DOMAIN owner = 1..Len(owner)
           /\ \A q \in Request : job[q].token # 0 => at[q] \in Holding
  <1>1. owner \in Seq(Invitation) /\ DOMAIN owner = 1..Len(owner)
        BY DEF BasicInv, TypeOK, StoresOK
  <1>2. ASSUME NEW q \in Request, job[q].token # 0 PROVE at[q] \in Holding
    <2>1. Fits(at[q], job[q], used) /\ at[q] \in Place
          BY DEF BasicInv, JobInv, TypeOK, RequestsOK
    <2>2. CASE at[q] \in Writing
          BY <1>2, <2>1, <2>2, Zenon DEF Fits
    <2>3. CASE at[q] \in Deleting
          BY <1>2, <2>1, <2>3, Zenon DEF Fits
    <2>4. CASE at[q] \in {"idle", "insert"}
      <3>1. job[q] = NoJob
            BY <2>1, <2>4, Zenon DEF Fits
      <3> QED BY <1>2, <3>1 DEF NoJob
    <2> QED BY <2>1, <2>2, <2>3, <2>4 DEF Place, Writing, Holding, Deleting
  <1> QED BY <1>1, <1>2

LEMMA QuietNewest ==
    ASSUME BasicInv, NewestInv, NEW q \in Request, owner' = owner,
           \A r \in Request \ {q} : job'[r] = job[r],
           \/ job'[q].token = job[q].token /\ job'[q].inv = job[q].inv
           \/ /\ job'[q].token = 0
              /\ job[q].token # 0 => \/ job[q].inv \notin rows'
                                     \/ job[q].inv \in died',
           \A i \in rows \cap rows' : contact'[i] = contact[i],
           \A i \in rows' \ rows : i \notin used,
           \A i \in died \cap rows' : i \in died'
    PROVE  NewestInv'
  <1>1. HeldNewest'
        BY DEF NewestInv, HeldNewest
  <1>2. NewestIsAttached'
    <2> SUFFICES ASSUME NEW i \in rows' \ died',
                        ~\E r \in Request : job'[r].inv = i /\ job'[r].token # 0,
                        NEW t \in DOMAIN owner, owner[t] = i
                 PROVE  t <= contact'[i]
        BY DEF NewestIsAttached, InHand
    <2>1. CASE i \in rows
      <3>1. ~InHand(i)
            BY <2>1 DEF InHand
      <3> QED BY <2>1, <3>1 DEF NewestInv, NewestIsAttached
    <2>2. CASE i \notin rows
          BY <2>2, Tokens DEF BasicInv, FreshInv
    <2> QED BY <2>1, <2>2
  <1> QED BY <1>1, <1>2 DEF NewestInv

LEMMA StillNewest ==
    ASSUME BasicInv, NewestInv, UNCHANGED <<owner, job>>,
           \A i \in rows \cap rows' : contact'[i] = contact[i],
           \A i \in rows' \ rows : i \notin used,
           \A i \in died \cap rows' : i \in died'
    PROVE  NewestInv'
  <1>1. HeldNewest'
        BY DEF NewestInv, HeldNewest
  <1>2. NewestIsAttached'
        BY Tokens DEF NewestInv, NewestIsAttached, InHand, BasicInv, FreshInv
  <1> QED BY <1>1, <1>2 DEF NewestInv

LEMMA EndNewest ==
    ASSUME BasicInv, NewestInv, NEW q \in Request, End(q), owner' = owner,
           at[q] \in Holding => \/ job[q].inv \notin rows'
                               \/ job[q].inv \in died',
           \A i \in rows \cap rows' : contact'[i] = contact[i],
           \A i \in rows' \ rows : i \notin used,
           \A i \in died \cap rows' : i \in died'
    PROVE  NewestInv'
  <1>1. job'[q].token = 0 /\ \A r \in Request \ {q} : job'[r] = job[r]
        BY EndTypes DEF BasicInv, NoJob
  <1>2. job[q].token # 0 => job[q].inv \notin rows' \/ job[q].inv \in died'
        BY Tokens
  <1> QED BY <1>1, <1>2, QuietNewest

LEMMA GotoNewest ==
    ASSUME BasicInv, NewestInv, NEW q \in Request, at[q] \notin Holding,
           NEW place, NEW j, Goto(q, place, j), j.token = 0,
           UNCHANGED <<owner, contact, died>>,
           \A i \in rows' \ rows : i \notin used
    PROVE  NewestInv'
  <1>1. job'[q] = j /\ \A r \in Request \ {q} : job'[r] = job[r]
        BY DEF Goto, BasicInv, TypeOK, RequestsOK
  <1>2. job[q].token = 0
        BY Tokens
  <1> QED BY <1>1, <1>2, QuietNewest

\* No other request holds a contact for the row.
LEMMA CacheNewest ==
    ASSUME BasicInv, NewestInv, NEW q \in Request, NEW place,
           at[q] \in Writing \ Holding, CacheContact(job[q].inv),
           Goto(q, place, [job[q] EXCEPT !.token = NewToken]),
           UNCHANGED <<table, history>>,
           \A r \in Request \ {q} : at[r] \in Holding =>
                                      job[r].inv # job[q].inv
    PROVE  NewestInv'
  <1>1. job[q].inv \in Invitation
        BY DEF BasicInv, JobInv, Fits, TypeOK, TableOK
  <1>2. /\ NewToken \in 1..MaxTokens /\ owner'[NewToken] = job[q].inv
        /\ \A t \in 1..Len(owner) : owner'[t] = owner[t]
        /\ 1..Len(owner') = 1..Len(owner) \cup {NewToken}
        /\ owner' \in Seq(Invitation)
        BY <1>1, CacheTypes DEF BasicInv
  <1>3. NewToken = Len(owner) + 1 /\ Len(owner) \in Nat
        BY Tokens DEF NewToken
  <1>4. /\ job'[q].token = NewToken /\ job'[q].inv = job[q].inv
        /\ \A r \in Request \ {q} : job'[r] = job[r]
        BY DEF Goto, Job, BasicInv, TypeOK, RequestsOK
  <1>5. UNCHANGED <<contact, rows, died>>
        BY DEF table, history
  <1>6. \A r \in Request \ {q} : job[r].token # 0 => job[r].inv # job[q].inv
        BY Tokens
  <1>7. HeldNewest'
    <2>1. \A t \in 1..Len(owner') : t <= NewToken
          BY <1>2, <1>3
    <2>2. ASSUME NEW r \in Request \ {q}, job[r].token # 0,
                 NEW t \in 1..Len(owner'), owner'[t] = job[r].inv
          PROVE  t <= job[r].token
          BY <1>2, <1>6, <2>2 DEF NewestInv, HeldNewest
    <2> QED BY <1>4, <2>1, <2>2 DEF HeldNewest
  <1>8. NewestIsAttached'
    <2> SUFFICES ASSUME NEW i \in rows \ died,
                        ~\E r \in Request : job'[r].inv = i /\ job'[r].token # 0,
                        NEW t \in 1..Len(owner'), owner'[t] = i
                 PROVE  t <= contact[i]
        BY <1>2, <1>5 DEF NewestIsAttached, InHand
    <2>1. i # job[q].inv
          BY <1>2, <1>4
    <2>2. t \in 1..Len(owner) /\ owner[t] = i
          BY <1>2, <2>1
    <2>3. job[q].token = 0
          BY Tokens
    <2>4. ~InHand(i)
          BY <1>4, <2>3 DEF InHand
    <2> QED BY <2>2, <2>4, Tokens DEF NewestInv, NewestIsAttached
  <1> QED BY <1>7, <1>8 DEF NewestInv

LEMMA StoreNewest ==
    ASSUME BasicInv, NewestInv, NEW q \in Request, at[q] \in Holding, End(q),
           contact' = [contact EXCEPT ![job[q].inv] = job[q].token],
           UNCHANGED <<owner, died>>,
           \A i \in rows' \ rows : i \notin used \/ i = job[q].inv
    PROVE  NewestInv'
  <1>1. Fits(at[q], job[q], used) /\ at[q] \in Writing
        BY DEF BasicInv, JobInv, Writing
  <1>2. job[q].inv \in Invitation /\ job[q].token # 0
        BY <1>1, Zenon DEF Fits, BasicInv, TypeOK, TableOK
  <1>3. /\ contact'[job[q].inv] = job[q].token
        /\ \A i \in Invitation \ {job[q].inv} : contact'[i] = contact[i]
        BY <1>2 DEF BasicInv, TypeOK, TableOK
  <1>4. job'[q].token = 0 /\ \A r \in Request \ {q} : job'[r] = job[r]
        BY EndTypes DEF BasicInv, NoJob
  <1>5. HeldNewest'
        BY <1>4 DEF NewestInv, HeldNewest
  <1>6. NewestIsAttached'
    <2> SUFFICES ASSUME NEW i \in rows' \ died,
                        ~\E r \in Request : job'[r].inv = i /\ job'[r].token # 0,
                        NEW t \in 1..Len(owner), owner[t] = i
                 PROVE  t <= contact'[i]
        BY Tokens DEF NewestIsAttached, InHand
    <2>1. CASE i = job[q].inv
          BY <1>2, <1>3, <2>1 DEF NewestInv, HeldNewest
    <2>2. CASE i # job[q].inv
      <3>1. i \in rows
            BY <2>2 DEF BasicInv, FreshInv
      <3>2. ~InHand(i)
            BY <1>4, <2>2 DEF InHand
      <3>3. i \in Invitation
            BY <3>1 DEF BasicInv, TypeOK, TableOK
      <3> QED BY <1>3, <2>2, <3>1, <3>2, <3>3, Tokens
              DEF NewestInv, NewestIsAttached
    <2> QED BY <2>1, <2>2
  <1> QED BY <1>5, <1>6 DEF NewestInv

LEMMA NewestStep ==
    ASSUME BasicInv, CustodyInv, NewestInv, Next PROVE NewestInv'
  <1>1. ASSUME NEW i \in Invitation, NEW p \in Invitation \cup {None},
               Create(i, p)
         PROVE  NewestInv'
        BY <1>1, StillNewest
        DEF Create, Stay, Insert, stores, BasicInv, TypeOK, TableOK
  <1>2. ASSUME NEW q \in Request, NEW f \in File, ImportRead(q, f)
         PROVE  NewestInv'
        BY <1>2, StillNewest DEF ImportRead, table, stores
  <1>3. ASSUME NEW q \in Request, ImportLine(q) PROVE NewestInv'
    <2>1. CASE UNCHANGED job
          BY <1>3, <2>1, StillNewest
          DEF ImportLine, Insert, stores
    <2>2. CASE End(q) /\ UNCHANGED rows
          BY <1>3, <2>2, EndNewest
          DEF ImportLine, Importing, Holding, stores
    <2> QED BY <1>3, <2>1, <2>2 DEF ImportLine
  <1>4. ASSUME NEW q \in Request, ImportEnds(q) PROVE NewestInv'
        BY <1>4, EndNewest
        DEF ImportEnds, Importing, Holding, table, stores, history
  <1>5. ASSUME NEW q \in Request, NEW i \in Invitation,
               NEW S \in SUBSET Invitation, CreateFromPublicRsvp(q, i, S)
         PROVE  NewestInv'
        BY <1>5, GotoNewest
        DEF CreateFromPublicRsvp, Holding, NoJob, stores
  <1>6. ASSUME NEW q \in Request, CacheGuest(q) PROVE NewestInv'
        BY <1>6, CacheNewest
        DEF CacheGuest, CustodyInv, Guest, Child, Writing, Holding, table,
            history
  <1>7. ASSUME NEW q \in Request, AttachContact(q) PROVE NewestInv'
    <2>1. CASE job[q].inv \in rows
          BY <1>7, <2>1, StoreNewest
          DEF AttachContact, Holding, stores, history
    <2>2. CASE job[q].inv \notin rows
          BY <1>7, <2>2, EndNewest DEF AttachContact, stores, history
    <2> QED BY <2>1, <2>2
  <1>8. ASSUME NEW q \in Request, NEW p \in Invitation, NEW c \in Invitation,
               CreatePlusOne(q, p, c)
         PROVE  NewestInv'
        BY <1>8, GotoNewest
        DEF CreatePlusOne, Holding, NoJob, table, stores, history
  <1>9. ASSUME NEW q \in Request, CacheChild(q) PROVE NewestInv'
        BY <1>9, CacheNewest
        DEF CacheChild, CustodyInv, Guest, Child, Writing, Holding, table,
            history
  <1>10. ASSUME NEW q \in Request, CommitChild(q) PROVE NewestInv'
        BY <1>10, StoreNewest DEF CommitChild, Holding, stores, history
  <1>11. ASSUME NEW q \in Request, NEW i \in Invitation, ReplyRead(q, i)
         PROVE  NewestInv'
        BY <1>11, GotoNewest
        DEF ReplyRead, Holding, NoJob, table, stores, history
  <1>12. ASSUME NEW q \in Request, ReplyBegin(q) PROVE NewestInv'
    <2>1. CASE job[q].inv \in rows
      <3>1. ASSUME NEW r \in Request \ {q}, at[r] \in Holding
            PROVE  job[r].inv # job[q].inv
        <4>1. CASE at[r] = "commit reply"
              BY <1>12, <4>1 DEF ReplyBegin, Free, Locked
        <4>2. CASE at[r] \in Guest \cup Child
              BY <1>12, <4>2 DEF ReplyBegin, CustodyInv, Writing
        <4> QED BY <3>1, <4>1, <4>2 DEF Holding, Guest, Child
      <3> QED BY <1>12, <2>1, <3>1, CacheNewest
              DEF ReplyBegin, Writing, Holding, table, history
    <2>2. CASE job[q].inv \notin rows
          BY <1>12, <2>2, EndNewest DEF ReplyBegin, Holding, table, history
    <2> QED BY <2>1, <2>2
  <1>13. ASSUME NEW q \in Request, NEW S \in SUBSET Invitation, ReplyCommit(q,
               S)
         PROVE  NewestInv'
        BY <1>13, StoreNewest DEF ReplyCommit, Holding, stores
  <1>14. ASSUME NEW q \in Request, NEW c \in Invitation, DeletePlusOne(q, c)
         PROVE  NewestInv'
        BY <1>14, GotoNewest
        DEF DeletePlusOne, DeleteRead, Holding, NoJob, table, stores, history
  <1>15. ASSUME NEW q \in Request, NEW p \in Invitation, DeleteAllPlusOnes(q,
               p)
         PROVE  NewestInv'
        BY <1>15, GotoNewest
        DEF DeleteAllPlusOnes, DeleteRead, Holding, NoJob, table, stores,
            history
  <1>16. ASSUME NEW q \in Request, NEW c \in Invitation, DropContact(q, c)
         PROVE  NewestInv'
    <2>1. /\ job'[q].token = job[q].token
          /\ \A r \in Request \ {q} : job'[r] = job[r]
          BY <1>16, DropEffect
    <2>2. job[q].token = 0
          BY <1>16, Tokens DEF DropContact, Holding
    <2> QED BY <1>16, <2>1, <2>2, QuietNewest DEF DropContact, table, history
  <1>17. ASSUME NEW q \in Request, DeleteRow(q) PROVE NewestInv'
    <2>1. UNCHANGED <<rows, contact, owner, died>> /\ at[q] \notin Holding
          BY <1>17 DEF DeleteRow, table, stores, Holding
    <2>2. CASE End(q)
          BY <2>1, <2>2, EndNewest
    <2>3. CASE ~End(q)
          BY <1>17, <2>1, <2>3, DeleteRowEffect, QuietNewest
    <2> QED BY <2>2, <2>3
  <1>18. ASSUME NEW q \in Request, SendDeleteGuest(q) PROVE NewestInv'
    <2>1. job' = job
          BY <1>18 DEF SendDeleteGuest, Goto, BasicInv, TypeOK, RequestsOK
    <2> QED BY <1>18, <2>1, StillNewest DEF SendDeleteGuest, table, history
  <1>19. ASSUME NEW q \in Request, DeleteCommit(q) PROVE NewestInv'
        BY <1>19, EndNewest, RemoveEffect
        DEF DeleteCommit, Holding, stores, BasicInv, TypeOK, TableOK
  <1>20. ASSUME NEW S \in SUBSET Invitation, Delete(S) PROVE NewestInv'
        BY <1>20, StillNewest, RemoveEffect
        DEF Delete, Stay, stores, BasicInv, TypeOK, TableOK
  <1>21. ASSUME NEW i \in Invitation, AddGuestId(i) PROVE NewestInv'
        BY <1>21, StillNewest DEF AddGuestId, Stay, stores, history
  <1>22. ASSUME NEW q \in Request, Fail(q) PROVE NewestInv'
        BY <1>22, EndNewest DEF Fail, table, stores
  <1> QED BY <1>1, <1>2, <1>3, <1>4, <1>5, <1>6, <1>7, <1>8, <1>9, <1>10,
      <1>11, <1>12, <1>13, <1>14, <1>15, <1>16, <1>17, <1>18, <1>19, <1>20,
      <1>21, <1>22 DEF Next, Start, Continue

(* A row keeps the newest contact that was cached for it, unless a request *)
(* died with one in its hands.                                             *)
THEOREM NewestContact == Spec => []NewestIsAttached
  <1>1. Init => NewestInv
        BY DEF Init, NewestInv, HeldNewest, NewestIsAttached, NoJob
  <1>2. BasicInv /\ CustodyInv /\ NewestInv /\ [Next]_vars => NewestInv'
        BY NewestStep, StillNewest DEF vars, table, stores, history
  <1>3. NewestInv => NewestIsAttached
        BY DEF NewestInv
  <1> QED BY <1>1, <1>2, <1>3, BasicInvariant, CustodyInvariant, PTL DEF Spec
=============================================================================
