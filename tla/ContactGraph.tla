---------------------------- MODULE ContactGraph ----------------------------
(***************************************************************************)
(* What hangs on the contacts of one user: relationship edges and notes,    *)
(* while contacts are merged and deleted.                                  *)
(*                                                                         *)
(* A transaction is one step, since writers are serialised.  A handler that *)
(* reads outside its transaction is a request in flight between its steps;  *)
(* the copies it holds may be stale by then.  The other associations        *)
(* (reminders, memberships, life events ...) are moved and deleted by the   *)
(* statements next to those for notes and edges, in the same transactions.  *)
(***************************************************************************)
EXTENDS FiniteSets

CONSTANTS
    Contacts, Notes, Edges,  \* identities; a note or an edge is created once
    Types, InverseOf,        \* relation types, and the reciprocal of each
    Slots,                   \* requests the server handles at a time
    New, Gone,               \* not created yet, deleted
    NoContact                \* contact_id is NULL

ASSUME InverseAssumption == /\ InverseOf \in [Types -> Types]
                            /\ \A t \in Types : InverseOf[InverseOf[t]] = t

VARIABLES
    fate,     \* how each contact came to its tombstone, if it has one
    edge,     \* relationship_edges
    note,     \* notes: the contact of each, as far as it is live
    op,       \* the request in each slot of the server
    held      \* contacts in the hands of a request when they were swept

graphVars == <<fate, edge, note, op, held>>

EdgeRows == [source : Contacts, target : Contacts, type : Types,
             status : {"suggested", "confirmed"}]

ASSUME NullAssumption == /\ New \notin EdgeRows /\ Gone \notin EdgeRows
                         /\ New \notin Contacts /\ Gone \notin Contacts /\ New # Gone
                         /\ NoContact \notin Contacts \cup {New, Gone}

Owners == Contacts \cup {NoContact}

Idle == [kind |-> "idle"]

Requested ==
    [kind : {"deleteContact", "createNote"}, contact : Contacts]
      \cup [kind : {"loadedNote"}, note : Notes, seen : Owners, fresh : BOOLEAN]
      \cup [kind : {"saveNote"}, note : Notes, seen : Owners, fresh : BOOLEAN, contact : Owners]
      \cup [kind : {"update"}, edge : Edges, status : {"suggested", "confirmed"}]
      \cup [kind : {"accept"}, edge : Edges, row : EdgeRows]
      \cup [kind : {"suggest", "insertSuggestion"}, row : EdgeRows]

GraphTypeOK ==
    /\ fate \in [Contacts -> {"live", "deleted", "merged", "bare"}]
    /\ edge \in [Edges -> EdgeRows \cup {New, Gone}]
    /\ note \in [Notes -> Owners \cup {New, Gone}]
    /\ op \in [Slots -> Requested \cup {Idle}]
    /\ held \in SUBSET Contacts

GraphInit ==
    /\ fate = [c \in Contacts |-> "live"]
    /\ edge = [e \in Edges |-> New]
    /\ note = [n \in Notes |-> New]
    /\ op = [r \in Slots |-> Idle]
    /\ held = {}

Live(c) == fate[c] = "live"
LiveEdges == {e \in Edges : edge[e] \in EdgeRows}
LiveNotes == {n \in Notes : note[n] \in Owners}

Ends(row) == {row.source, row.target}
Key(row) == <<row.source, row.target, row.type>>

Begin(r, request) == op[r] = Idle /\ op' = [op EXCEPT ![r] = request]
Finish(r) == op' = [op EXCEPT ![r] = Idle]

-----------------------------------------------------------------------------
(* Edges *)

(* No other edge holds the natural key: the checked 409, and the unique index. *)
KeyFree(row, e) == \A f \in LiveEdges \ {e} : Key(edge[f]) # Key(row)

(* Mutant: a contact may be related to itself. *)
AnyEndpoints(row) == \A c \in Ends(row) : Live(c)

(* resolveRelationshipEndpoint, twice, and the check that the two differ. *)
EndpointsResolve(row) == /\ \A c \in Ends(row) : Live(c)
                         /\ row.source # row.target

(* One transaction: resolve, check, insert. *)
CreateEdge(e, row) == /\ edge[e] = New
                      /\ row.status = "confirmed"
                      /\ EndpointsResolve(row)
                      /\ KeyFree(row, e)
                      /\ edge' = [edge EXCEPT ![e] = row]
                      /\ UNCHANGED <<fate, note, op, held>>

(* Accept and update load the row before they write it; an update keeps only
   its status, accept refuses a row that is not a suggestion. *)
LoadEdge(r, e) == /\ e \in LiveEdges
                  /\ \/ Begin(r, [kind |-> "update", edge |-> e, status |-> edge[e].status])
                     \/ /\ edge[e].status = "suggested"
                        /\ Begin(r, [kind |-> "accept", edge |-> e, row |-> edge[e]])
                  /\ UNCHANGED <<fate, edge, note, held>>

(* GORM's Save writes every column of the loaded copy, and inserts the row
   when there is none to update. *)
SavedEdge(e, row) == edge' = IF KeyFree(row, e) THEN [edge EXCEPT ![e] = row] ELSE edge

(* UpdateRelationshipEdge: the endpoints are resolved in the transaction. *)
UpdateEdge(r) == /\ op[r].kind = "update"
                 /\ \/ \E row \in EdgeRows : /\ row.status = op[r].status
                                             /\ EndpointsResolve(row)
                                             /\ SavedEdge(op[r].edge, row)
                    \/ UNCHANGED edge
                 /\ Finish(r)
                 /\ UNCHANGED <<fate, note, held>>

(* AcceptRelationshipEdge: nothing is looked at again. *)
AcceptEdge(r) == /\ op[r].kind = "accept"
                 /\ SavedEdge(op[r].edge, [op[r].row EXCEPT !.status = "confirmed"])
                 /\ Finish(r)
                 /\ UNCHANGED <<fate, note, held>>

DeleteEdge(e) == /\ e \in LiveEdges
                 /\ edge' = [edge EXCEPT ![e] = Gone]
                 /\ UNCHANGED <<fate, note, op, held>>

(* GenerateHouseholdSuggestions loads two members ... *)
LoadMembers(r, row) == /\ Begin(r, [kind |-> "suggest", row |-> row])
                       /\ row.status = "suggested"
                       /\ EndpointsResolve(row)
                       /\ UNCHANGED <<fate, edge, note, held>>

Reciprocal(row) == <<row.target, row.source, InverseOf[row.type]>>

(* ... and suggestEdgeIfNew counts the relationship, told either way round,
   and, if there is none, inserts it. *)
CountKnown(r) ==
    LET known == {Key(edge[e]) : e \in LiveEdges}
        row == op[r].row
    IN  /\ op[r].kind = "suggest"
        /\ IF known \cap {Key(row), Reciprocal(row)} = {}
           THEN op' = [op EXCEPT ![r].kind = "insertSuggestion"]
           ELSE Finish(r)
        /\ UNCHANGED <<fate, edge, note, held>>

InsertSuggestion(r) ==
    /\ op[r].kind = "insertSuggestion"
    /\ \E e \in Edges : edge[e] = New /\ SavedEdge(e, op[r].row)
    /\ Finish(r)
    /\ UNCHANGED <<fate, note, held>>

-----------------------------------------------------------------------------
(* Notes *)

(* DeleteContact and CreateNote begin by loading the contact. *)
LoadContact(r, c) == /\ Live(c)
                     /\ \E kind \in {"deleteContact", "createNote"} :
                           Begin(r, [kind |-> kind, contact |-> c])
                     /\ UNCHANGED <<fate, edge, note, held>>

CreateNote(r) == /\ op[r].kind = "createNote"
                 /\ \E n \in Notes : /\ note[n] = New
                                     /\ note' = [note EXCEPT ![n] = op[r].contact]
                 /\ Finish(r)
                 /\ UNCHANGED <<fate, edge, held>>

CreateUnassignedNote(n) == /\ note[n] = New
                           /\ note' = [note EXCEPT ![n] = NoContact]
                           /\ UNCHANGED <<fate, edge, op, held>>

(* UpdateNote loads the note, looks up the contact it is moved to, and saves. *)
LoadNote(r, n) ==
    /\ n \in LiveNotes
    /\ Begin(r, [kind |-> "loadedNote", note |-> n, seen |-> note[n], fresh |-> TRUE])
    /\ UNCHANGED <<fate, edge, note, held>>

FindOwner(r, c) ==
    /\ op[r].kind = "loadedNote"
    /\ IF c # NoContact => Live(c)
       THEN op' = [op EXCEPT ![r] = [kind |-> "saveNote", note |-> @.note, seen |-> @.seen,
                                     fresh |-> @.fresh, contact |-> c]]
       ELSE Finish(r)
    /\ UNCHANGED <<fate, edge, note, held>>

Holds(q, n) == op[q].kind \in {"loadedNote", "saveNote"} /\ op[q].note = n

(* Mutant: the tombstone is not part of the compare-and-swap. *)
UnbumpedOnly(r) == op[r].fresh

(* bumpRevisionCAS: the row is live and has the revision it was loaded with.
   Revisions are compared for equality only, so whether a copy is fresh stands
   for them; a save outdates every other copy. *)
NoteCASMatches(r) == op[r].note \in LiveNotes /\ op[r].fresh

(* A copy that is not going to be written: what it held no longer matters. *)
Outdated(request) == [request EXCEPT !.fresh = FALSE, !.seen = NoContact]

SaveNote(r) ==
    /\ op[r].kind = "saveNote"
    /\ IF NoteCASMatches(r)
       THEN /\ note' = [note EXCEPT ![op[r].note] = op[r].contact]
            /\ op' = [q \in Slots |->
                        IF q = r THEN Idle
                        ELSE IF Holds(q, op[r].note) THEN Outdated(op[q])
                        ELSE op[q]]
       ELSE Finish(r) /\ UNCHANGED note
    /\ UNCHANGED <<fate, edge, held>>

DeleteNote(n) == /\ n \in LiveNotes
                 /\ note' = [note EXCEPT ![n] = Gone]
                 /\ UNCHANGED <<fate, edge, op, held>>

-----------------------------------------------------------------------------
(* Contacts *)

(* Mutant: the sweep of the edges looks at their source only. *)
EdgesWithoutSource(c) == [e \in Edges |-> IF e \in LiveEdges /\ c = edge[e].source
                                          THEN Gone ELSE edge[e]]

(* deleteContactAssociations. *)
EdgesWithout(c) == [e \in Edges |-> IF e \in LiveEdges /\ c \in Ends(edge[e])
                                    THEN Gone ELSE edge[e]]
NotesWithout(c) == [n \in Notes |-> IF note[n] = c THEN Gone ELSE note[n]]

(* What the request is about to write refers to the contact, which it has
   found live. *)
Carries(request, c) ==
    \/ request.kind \in {"createNote", "saveNote"} /\ request.contact = c
    \/ request.kind \in {"accept", "suggest", "insertSuggestion"} /\ c \in Ends(request.row)

(* For the properties: the sweep of c meets a request that carries it, or not. *)
Sweep(c, others) == held' = IF \E q \in others : Carries(op[q], c)
                            THEN held \cup {c} ELSE held \ {c}

(* DeleteContact: the sweep runs, and the tombstone is written if there is
   none, whatever has become of the contact since it was loaded. *)
DeleteContact(r) ==
    LET c == op[r].contact
    IN  /\ op[r].kind = "deleteContact"
        /\ edge' = EdgesWithout(c)
        /\ note' = NotesWithout(c)
        /\ fate' = [fate EXCEPT ![c] = IF @ = "merged" THEN @ ELSE "deleted"]
        /\ Sweep(c, Slots \ {r})
        /\ Finish(r)

(* Backend.DeleteAddressObject (CardDAV): the tombstone and nothing else. *)
DeleteAddressObject(c) == /\ Live(c)
                          /\ fate' = [fate EXCEPT ![c] = "bare"]
                          /\ UNCHANGED <<edge, note, op, held>>

Moved(k, l, c) == IF c = l THEN k ELSE c
MovedRow(k, l, row) == [row EXCEPT !.source = Moved(k, l, @), !.target = Moved(k, l, @)]

(* edgesConflict *)
SameFact(a, b) == Key(b) \in {Key(a), Reciprocal(a)}

(* Mutant: a fact told twice is dropped twice. *)
NoDuplicates(k, l, kept) ==
    LET touching == {e \in LiveEdges : Ends(edge[e]) \cap {k, l} # {}}
        row(e) == MovedRow(k, l, edge[e])
    IN  kept = {e \in touching : /\ row(e).source # row(e).target
                                 /\ \A f \in touching \ {e} : ~SameFact(row(e), row(f))}

(* repointRelationshipEdges: of the edges of keeper and loser, self-loops are
   dropped, and of each relationship the most authoritative edge is kept. *)
Survive(k, l, kept) ==
    LET touching == {e \in LiveEdges : Ends(edge[e]) \cap {k, l} # {}}
        row(e) == MovedRow(k, l, edge[e])
    IN  /\ kept \subseteq touching
        /\ \A e \in kept : /\ row(e).source # row(e).target
                           /\ \A f \in kept \ {e} : ~SameFact(row(e), row(f))
        /\ \A e \in touching \ kept : \/ row(e).source = row(e).target
                                      \/ \E f \in kept : SameFact(row(e), row(f))

MergedEdges(k, l, kept) ==
    [e \in Edges |-> IF e \in kept THEN MovedRow(k, l, edge[e])
                     ELSE IF e \in LiveEdges /\ Ends(edge[e]) \cap {k, l} # {} THEN Gone
                     ELSE edge[e]]

(* The bulk update of the notes moves them and bumps no revision. *)
MovedNotes(k, l) == [n \in Notes |-> Moved(k, l, note[n])]

(* The note that documents the merge, if there is something to say. *)
WithAudit(notes, k) == {notes} \cup {[notes EXCEPT ![n] = k] : n \in {m \in Notes : notes[m] = New}}

(* CommitContactMerge: one transaction that loads the pair and moves all that
   the loser has to the keeper. *)
Merge(k, l) == /\ k # l /\ Live(k) /\ Live(l)
               /\ \E kept \in SUBSET LiveEdges : /\ Survive(k, l, kept)
                                                 /\ edge' = MergedEdges(k, l, kept)
               /\ note' \in WithAudit(MovedNotes(k, l), k)
               /\ fate' = [fate EXCEPT ![l] = "merged"]
               /\ Sweep(l, Slots)
               /\ UNCHANGED op

GraphNext ==
    \/ \E r \in Slots :
         \/ \E e \in Edges : LoadEdge(r, e)
         \/ \E row \in EdgeRows : LoadMembers(r, row)
         \/ UpdateEdge(r) \/ AcceptEdge(r) \/ CountKnown(r) \/ InsertSuggestion(r)
         \/ \E c \in Contacts : LoadContact(r, c)
         \/ \E n \in Notes : LoadNote(r, n)
         \/ \E c \in Owners : FindOwner(r, c)
         \/ CreateNote(r) \/ SaveNote(r) \/ DeleteContact(r)
    \/ \E e \in Edges, row \in EdgeRows : CreateEdge(e, row)
    \/ \E e \in Edges : DeleteEdge(e)
    \/ \E n \in Notes : CreateUnassignedNote(n) \/ DeleteNote(n)
    \/ \E c \in Contacts : DeleteAddressObject(c)
    \/ \E k, l \in Contacts : Merge(k, l)

GraphSpec == GraphInit /\ [][GraphNext]_graphVars

-----------------------------------------------------------------------------
(* The edges stay a graph of relationships through every merge, deletion and
   stale save: nobody is related to himself and no fact is stored twice under
   one natural key, so that the unique index never aborts a merge. *)
EdgesAreFacts ==
    \A e \in LiveEdges : /\ edge[e].source # edge[e].target
                         /\ KeyFree(edge[e], e)

Tombstoned(c, how) == Live(c) /\ fate[c]' = how

(* A merge loses nothing: a live note stays live, and each relationship is
   still told by some edge with the keeper in place of the loser, unless it was
   between the two. *)
MergeLosesNothing ==
    [][\A l \in Contacts : Tombstoned(l, "merged") =>
         /\ \A n \in LiveNotes : note'[n] \in Owners \ {l}
         /\ \E k \in Contacts \ {l} : \A e \in LiveEdges :
              LET row == MovedRow(k, l, edge[e])
              IN  row.source # row.target =>
                    \E f \in Edges : edge'[f] \in EdgeRows /\ SameFact(edge'[f], row)]_graphVars

RefersTo(c) == \/ \E e \in LiveEdges : c \in Ends(edge[e])
               \/ \E n \in Notes : note[n] = c

(* Whatever is accepted, updated, moved, suggested or merged afterwards, no
   live edge or note ever refers again to a contact that was deleted through
   the API or merged away (INV-D3, INV-D7), unless a request that had found the
   contact live was still at work when it was swept. *)
NothingRefersToTheDeleted ==
    \A c \in Contacts \ held : fate[c] \in {"deleted", "merged"} => ~RefersTo(c)

(* A note that was deleted, by itself or with its contact, is not brought back
   by an update that loaded it before (ADR 0018). *)
NotesStayDeleted == [][\A n \in Notes : note[n] = Gone => note'[n] = Gone]_graphVars

-----------------------------------------------------------------------------
(* Claims of the documentation that the code does not keep; no run names them. *)

(* INV-D7: a soft-deleted contact is not the source or target of a confirmed
   edge; here, of contacts deleted through the API or merged away. *)
DeletedIsNotATarget ==
    \A e \in LiveEdges : edge[e].status = "confirmed" =>
        \A c \in Ends(edge[e]) : fate[c] \notin {"deleted", "merged"}

(* ADR 0018: an update never silently overwrites a write it has not seen. *)
UpdateSeesTheNote ==
    [][\A r \in Slots : op[r].kind = "saveNote" /\ op'[r] = Idle /\ note' # note
          => note[op[r].note] = op[r].seen]_graphVars
=============================================================================
