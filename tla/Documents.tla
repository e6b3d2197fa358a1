----------------------------- MODULE Documents -----------------------------
(***************************************************************************)
(* One document and its history.  An edit locks the row, decides whether    *)
(* the text it replaces becomes a revision, and writes; a restore always    *)
(* keeps what it replaces; a deletion clears what hangs off the document    *)
(* before it waits for the row.                                             *)
(***************************************************************************)
EXTENDS Naturals, FiniteSets

CONSTANTS
  Editors, Texts,
  Comments,       \* ids of comments
  Clients,        \* concurrent requests
  MaxRevisions,   \* bound
  None

VARIABLES
  document,    \* None, or [text, by, rested]: by is last_edited_by, rested that REVISION_GAP has passed
  revisions,   \* document_revisions: [id, text, by]
  comments,    \* document_comments: [id, by]
  request,     \* the transaction of each client
  owed,        \* history: <<text, author>> that were replaced at a boundary
  born         \* history: the document was created; its id is not used again

documentVars == <<document, revisions, comments, request, owed, born>>

Document == [text : Texts, by : Editors, rested : BOOLEAN]
Revision == [id : 1..MaxRevisions, text : Texts, by : Editors]
Comment == [id : Comments, by : Editors]
Inactive == [kind |-> "none"]

LegalDocumentConstants == MaxRevisions \in Nat /\ None \notin Texts \union Document

DocumentTypeOK ==
  /\ document \in Document \union {None}
  /\ revisions \subseteq Revision /\ comments \subseteq Comment
  /\ \A c \in Clients :
       \/ request[c] = Inactive
       \/ request[c] \in [kind : {"change"}, current : Document]
       \/ request[c] \in [kind : {"delete"}, cleared : SUBSET (Revision \union Comment)]
  /\ owed \subseteq Texts \X Editors /\ born \in BOOLEAN

DocumentInit ==
  /\ document = None /\ revisions = {} /\ comments = {} /\ owed = {} /\ born = FALSE
  /\ request = [c \in Clients |-> Inactive]

CreateDocument(text, creator) ==
  /\ ~born /\ born' = TRUE
  /\ document' = [text |-> text, by |-> creator, rested |-> FALSE]
  /\ UNCHANGED <<revisions, comments, request, owed>>

\* REVISION_GAP passes.
Rest ==
  /\ document # None /\ ~document.rested
  /\ document' = [document EXCEPT !.rested = TRUE]
  /\ UNCHANGED <<revisions, comments, request, owed, born>>

\* Mutant: a plain SELECT.
NeverLocked == TRUE
\* FOR UPDATE.
Unlocked == \A c \in Clients : request[c].kind # "change"

\* lock_for_edit, of an edit or a restore.
LockForEdit(c) ==
  /\ request[c] = Inactive /\ document # None /\ Unlocked
  /\ request' = [request EXCEPT ![c] = [kind |-> "change", current |-> document]]
  /\ UNCHANGED <<document, revisions, comments, owed, born>>

Close(c) == request' = [request EXCEPT ![c] = Inactive]

IsBoundary(c, editor, snapshot) ==
  \/ snapshot
  \/ request[c].current.by # editor
  \/ request[c].current.rested \/ document.rested

\* create_revision copies the row as it is now, under the name of who wrote it.
CreateRevision ==
  \E id \in 1..MaxRevisions :
    /\ \A r \in revisions : r.id < id
    /\ \A n \in 1..(id - 1) : \E r \in revisions : r.id = n
    /\ revisions' = revisions \union {[id |-> id, text |-> document.text, by |-> document.by]}

Put(c, text, editor) ==
  /\ document' = [text |-> text, by |-> editor, rested |-> FALSE]
  /\ Close(c)
  /\ UNCHANGED <<comments, born>>

\* What somebody is entitled to find in the history again.
Owe == owed' = owed \union {<<document.text, document.by>>}

\* edit: nothing at all when the text is the present one.
Edit(c, editor, text, snapshot) ==
  /\ request[c].kind = "change" /\ document # None
  /\ text # document.text
  /\ IF IsBoundary(c, editor, snapshot) THEN CreateRevision ELSE UNCHANGED revisions
  /\ IF editor # document.by \/ document.rested \/ snapshot THEN Owe ELSE UNCHANGED owed
  /\ Put(c, text, editor)

Restore(c, editor, r) ==
  /\ request[c].kind = "change" /\ document # None /\ r \in revisions
  /\ CreateRevision /\ Owe
  /\ Put(c, r.text, editor)

\* No change, no such revision, or the connection lost.
Leave(c) ==
  /\ request[c] # Inactive /\ Close(c)
  /\ UNCHANGED <<document, revisions, comments, owed, born>>

\* delete: clear_comments and clear_revisions, not yet committed.
BeginDelete(c) ==
  /\ request[c] = Inactive /\ document # None
  /\ request' = [request EXCEPT ![c] = [kind |-> "delete", cleared |-> revisions \union comments]]
  /\ UNCHANGED <<document, revisions, comments, owed, born>>

\* DELETE waits for the row; a revision or comment added since breaks its foreign key.
FinishDelete(c) ==
  /\ request[c].kind = "delete" /\ Unlocked
  /\ IF document # None /\ revisions \union comments \subseteq request[c].cleared
     THEN document' = None /\ revisions' = {} /\ comments' = {}
     ELSE UNCHANGED <<document, revisions, comments>>
  /\ Close(c)
  /\ UNCHANGED <<owed, born>>

\* The foreign key needs the document.
CreateComment(id, author) ==
  /\ document # None /\ \A m \in comments : m.id # id
  /\ comments' = comments \union {[id |-> id, by |-> author]}
  /\ UNCHANGED <<document, revisions, request, owed, born>>

\* By its author; a deletion of the document that has cleared it is waited for.
DeleteComment(m) ==
  /\ m \in comments
  /\ \A c \in Clients : request[c].kind = "delete" => m \notin request[c].cleared
  /\ comments' = comments \ {m}
  /\ UNCHANGED <<document, revisions, request, owed, born>>

DocumentNext ==
  \/ \E text \in Texts, e \in Editors : CreateDocument(text, e)
  \/ Rest
  \/ \E c \in Clients : LockForEdit(c) \/ Leave(c) \/ BeginDelete(c) \/ FinishDelete(c)
  \/ \E c \in Clients, e \in Editors, text \in Texts, snapshot \in BOOLEAN : Edit(c, e, text, snapshot)
  \/ \E c \in Clients, e \in Editors, r \in Revision : Restore(c, e, r)
  \/ \E id \in Comments, e \in Editors : CreateComment(id, e)
  \/ \E m \in Comment : DeleteComment(m)

DocumentSpec == DocumentInit /\ [][DocumentNext]_documentVars

-----------------------------------------------------------------------------
(* Every text that was handed over to another editor, left to rest,         *)
(* snapshotted or restored over is in the history under its author's name,  *)
(* however the edits of several people interleave.                          *)
NoVersionIsLost ==
  document # None => owed \subseteq {<<r.text, r.by>> : r \in revisions}
=============================================================================
