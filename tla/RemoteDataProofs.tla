--------------------------- MODULE RemoteDataProofs ---------------------------
(***************************************************************************)
(* Proofs about SourceImport and CalendarSync: what becomes of the data     *)
(* another system holds.                                                    *)
(*                                                                         *)
(* SourceImport: what an import leaves in the database, for every account,  *)
(* every number of wizards and goroutines, and every failure of the model.  *)
(* Only Apply and DeleteTarget touch the database; all other steps leave    *)
(* it alone.  What a wizard shows is another matter: Reported follows a     *)
(* committed import to its last words.                                      *)
(*                                                                         *)
(* CalendarSync, for any events, paths and contents.  EditsWait is almost   *)
(* inductive (Waits); what a push has in hand (InHand) is the last edit     *)
(* until its PUT, so a link that is marked has nothing left to push.        *)
(***************************************************************************)
EXTENDS SourceImport, CalendarSync, TLAPS

(* What is in the database is what the ledger says, and no row twice. *)
Ledger == /\ links \subseteq SourceRows
          /\ landed \in [SourceRows -> {0, 1}]
          /\ links = {x \in SourceRows : landed[x] = 1}

DataInv == /\ Ledger
           /\ members \in [Groups -> SUBSET Contacts]
           /\ NoOrphans
           /\ NoResurrection

(* Every step but the commit of an import leaves the ledger and what it speaks of. *)
LEMMA OnlyApplyWrites ==
  ASSUME Next,
         ~ \E j \in Jobs, seen \in {links, {}}, bad \in SUBSET Fallible : Apply(j, seen, bad)
  PROVE  UNCHANGED database
BY DEF database, data, Next, CheckLimit, Connect, Cancel, Expire, StartFetch, Confirm,
       FetchProgress, JobStep, FetchReady, FetchFails, StartImport, ResolveFails, ApplyPlan, ImportFails, FinishImport,
       FinishPhotos, DeleteTarget, Restart

(* The rows an import makes are rows of the account. *)
LEMMA MadeRows ==
  ASSUME NEW acts, NEW seen, NEW bad, NEW got, got = ContactsOf(acts, seen, bad),
         NEW made, made = RecordsOf(got, seen, bad)
  PROVE  got \subseteq Contacts /\ made \subseteq Records
BY DEF ContactsOf, RecordsOf, EdgesOf, NotesOf, ActivitiesOf, GroupsOf, Records

(* A commit keeps the ledger true: the unique index admits new rows only. *)
LEMMA LedgerStep ==
  ASSUME Ledger, NEW j \in Jobs, NEW seen \in {links, {}}, NEW bad \in SUBSET Fallible,
         Apply(j, seen, bad)
  PROVE  Ledger'
<1> DEFINE got == ContactsOf(job[j].acts, seen, bad)
           made == RecordsOf(got, seen, bad)
<1>1. got \subseteq Contacts /\ made \subseteq Records
  BY MadeRows
<1>2. /\ (got \cup made) \cap links = {}
      /\ links' = links \cup (got \cup made)
      /\ landed' = [x \in SourceRows |-> IF x \in got \cup made THEN landed[x] + 1 ELSE landed[x]]
  BY DEF Apply, LinksOf
<1>3. got \cup made \subseteq SourceRows
  BY <1>1 DEF SourceRows
<1> HIDE DEF got, made
<1>4. ASSUME NEW x \in SourceRows
      PROVE  /\ landed'[x] \in {0, 1}
             /\ x \in links' <=> landed'[x] = 1
  <2>1. CASE x \in got \cup made
    <3>1. x \notin links
      BY <1>2, <2>1
    <3>2. landed[x] = 0
      BY <3>1 DEF Ledger
    <3>3. landed'[x] = 1
      BY <1>2, <2>1, <3>2
    <3> QED BY <1>2, <2>1, <3>3
  <2>2. CASE x \notin got \cup made
    BY <1>2, <2>2 DEF Ledger
  <2> QED BY <2>1, <2>2
<1>5. links' \subseteq SourceRows
  BY <1>2, <1>3 DEF Ledger
<1>6. landed' \in [SourceRows -> {0, 1}]
  BY <1>2, <1>4
<1> QED BY <1>4, <1>5, <1>6 DEF Ledger


(* A commit makes a record only beside the contacts it needs. *)
LEMMA OrphanStep ==
  ASSUME Ledger, NoOrphans, members \in [Groups -> SUBSET Contacts],
         NEW j \in Jobs, NEW seen \in {links, {}}, NEW bad \in SUBSET Fallible,
         Apply(j, seen, bad)
  PROVE  NoOrphans' /\ members' \in [Groups -> SUBSET Contacts]
<1> DEFINE got == ContactsOf(job[j].acts, seen, bad)
           made == RecordsOf(got, seen, bad)
<1>1. got \subseteq Contacts /\ made \subseteq Records
  BY MadeRows
<1>2. /\ landed' = [x \in SourceRows |-> IF x \in got \cup made THEN landed[x] + 1 ELSE landed[x]]
      /\ members' = [r \in Groups |-> IF r \in made THEN Ends[r] \cap got ELSE members[r]]
  BY DEF Apply
<1>3. \A x \in SourceRows : landed[x] \in {0, 1}
  BY DEF Ledger
<1>4. \A x \in SourceRows : landed'[x] > 0 <=> (landed[x] > 0 \/ x \in got \cup made)
  BY <1>2, <1>3
<1>5. /\ \A r \in Records : Ends[r] \subseteq Contacts
      /\ Contacts \subseteq SourceRows /\ Records \subseteq SourceRows
  BY AccountAssumption DEF SourceRows
<1>6. ASSUME NEW r \in Edges \cup Notes, landed'[r] > 0, NEW c \in Ends[r]
      PROVE  landed'[c] > 0
  <2>1. r \in Records /\ c \in SourceRows /\ r \in SourceRows /\ r \notin got
    BY <1>1, <1>5, AccountAssumption DEF Records
  <2>2. CASE landed[r] > 0
    BY <1>4, <2>1, <2>2 DEF NoOrphans
  <2>3. CASE r \in made
    <3>1. r \notin Activities \cup Groups
      BY AccountAssumption
    <3>2. Ends[r] \subseteq got
      BY <2>3, <3>1 DEF RecordsOf, EdgesOf, NotesOf, ActivitiesOf, GroupsOf
    <3> QED BY <1>4, <2>1, <3>2
  <2> QED BY <1>4, <1>6, <2>1, <2>2, <2>3
<1>7. ASSUME NEW r \in Activities, landed'[r] > 0
      PROVE  \E c \in Ends[r] : landed'[c] > 0
  <2>1. r \in Records /\ r \in SourceRows /\ r \notin got
    BY <1>1, <1>5, AccountAssumption DEF Records
  <2>2. CASE landed[r] > 0
    <3>1. PICK c \in Ends[r] : landed[c] > 0
      BY <2>2 DEF NoOrphans
    <3> QED BY <1>4, <1>5, <2>1, <3>1
  <2>3. CASE r \in made
    <3>1. r \notin Edges \cup Notes \cup Groups
      BY AccountAssumption
    <3>2. PICK c \in Ends[r] : c \in got
      BY <2>3, <3>1 DEF RecordsOf, EdgesOf, NotesOf, ActivitiesOf, GroupsOf
    <3> QED BY <1>4, <1>5, <2>1, <3>2
  <2> QED BY <1>4, <1>7, <2>1, <2>2, <2>3
<1>8. ASSUME NEW r \in Groups, NEW c \in members'[r]
      PROVE  landed'[c] > 0
  <2>1. c \in members[r] \/ c \in got
    BY <1>2
  <2>2. c \in SourceRows
    BY <1>1, <1>5, <2>1
  <2> QED BY <1>4, <2>1, <2>2 DEF NoOrphans
<1>9. members' \in [Groups -> SUBSET Contacts]
  BY <1>1, <1>2
<1> HIDE DEF got, made
<1> QED BY <1>6, <1>7, <1>8, <1>9 DEF NoOrphans

(* A merge finds its local contact or does nothing. *)
LEMMA ResurrectionStep ==
  ASSUME NoResurrection, NEW j \in Jobs, NEW seen \in {links, {}}, NEW bad \in SUBSET Fallible,
         Apply(j, seen, bad)
  PROVE  NoResurrection'
BY DEF NoResurrection, Apply, ContactsOf, MergeLands

LEMMA DataInvInit == Init => DataInv
<1> SUFFICES ASSUME Init PROVE DataInv
  OBVIOUS
<1>1. Ledger
  BY DEF Init, Ledger
<1>2. members \in [Groups -> SUBSET Contacts] /\ NoResurrection
  BY DEF Init, NoResurrection
<1>3. NoOrphans
  <2>1. \A x \in SourceRows : ~(landed[x] > 0)
    BY DEF Init
  <2>2. Edges \cup Notes \cup Activities \subseteq SourceRows
    BY DEF SourceRows, Records
  <2> QED BY <2>1, <2>2 DEF NoOrphans, Init
<1> QED BY <1>1, <1>2, <1>3 DEF DataInv

LEMMA DataInvStep == DataInv /\ [Next]_vars => DataInv'
<1> SUFFICES ASSUME DataInv, [Next]_vars PROVE DataInv'
  OBVIOUS
<1>1. CASE UNCHANGED database
  BY <1>1 DEF database, DataInv, Ledger, NoOrphans, NoResurrection
<1>2. CASE \E j \in Jobs, seen \in {links, {}}, bad \in SUBSET Fallible : Apply(j, seen, bad)
  <2>1. PICK j \in Jobs, seen \in {links, {}}, bad \in SUBSET Fallible : Apply(j, seen, bad)
    BY <1>2
  <2>2. Ledger /\ members \in [Groups -> SUBSET Contacts] /\ NoOrphans /\ NoResurrection
    BY DEF DataInv
  <2>3. Ledger'
    BY <2>1, <2>2, LedgerStep
  <2>4. NoOrphans' /\ members' \in [Groups -> SUBSET Contacts]
    BY <2>1, <2>2, OrphanStep
  <2>6. NoResurrection'
    BY <2>1, <2>2, ResurrectionStep
  <2> QED BY <2>3, <2>4, <2>6 DEF DataInv
<1>3. CASE vars' = vars
  BY <1>1, <1>3 DEF vars, data, database
<1> QED BY <1>1, <1>2, <1>3, OnlyApplyWrites

(* The inductive invariant of what an import leaves in the database. *)
THEOREM DataCorrect == Spec => []DataInv
BY DataInvInit, DataInvStep, PTL DEF Spec

(* A source row is created or merged at most once, whatever is confirmed twice, *)
(* cancelled late, restarted or imported again (executeSourceImport).           *)
THEOREM ImportedAtMostOnce == Spec => []ImportedOnce
<1>1. DataInv => ImportedOnce
  BY DEF DataInv, Ledger, ImportedOnce
<1> QED BY <1>1, DataCorrect, PTL

(* The ledger names the rows that have landed and no other (recordSourceLink). *)
THEOREM LedgerCorrect == Spec => []LedgerIsTrue
<1>1. DataInv => LedgerIsTrue
  <2> SUFFICES ASSUME Ledger PROVE links = {x \in SourceRows : landed[x] > 0}
    BY DEF DataInv, LedgerIsTrue
  <2>1. \A x \in SourceRows : landed[x] > 0 <=> landed[x] = 1
    BY DEF Ledger
  <2> QED BY <2>1 DEF Ledger
<1> QED BY <1>1, DataCorrect, PTL

(* No imported record is there without its contacts (importRelationships and the *)
(* other passes that resolve references).                                        *)
THEOREM NoOrphansCorrect == Spec => []NoOrphans
<1>1. DataInv => NoOrphans
  BY DEF DataInv
<1> QED BY <1>1, DataCorrect, PTL

(* A merge does not bring back a deleted contact (mergeSourceContact). *)
THEOREM NoResurrectionCorrect == Spec => []NoResurrection
<1>1. DataInv => NoResurrection
  BY DEF DataInv
<1> QED BY <1>1, DataCorrect, PTL

-----------------------------------------------------------------------------
(* Types: whoever is at work is so for some session. *)
Employed == \A j \in Jobs : job[j].at # "idle" => Of(j) \in Sessions

Typed == TypeOK /\ Employed

(* Sessions and goroutines are changed a field at a time. *)
LEMMA SessionFields ==
  ASSUME NEW row \in SessionRows
  PROVE  /\ \A at \in {"none", "checked", "live", "gone"} : [row EXCEPT !.at = at] \in SessionRows
         /\ \A phase \in Phases : [row EXCEPT !.phase = phase] \in SessionRows
         /\ \A b \in BOOLEAN : [row EXCEPT !.plan = b] \in SessionRows
         /\ \A b \in BOOLEAN : [row EXCEPT !.match = b] \in SessionRows
         /\ \A j \in Jobs \cup {Nobody} : [row EXCEPT !.cancel = j] \in SessionRows
         /\ \A b \in BOOLEAN : [row EXCEPT !.wrote = b] \in SessionRows
<1>1. /\ \A at \in {"none", "checked", "live", "gone"} : [row EXCEPT !.at = at] \in SessionRows
      /\ \A phase \in Phases : [row EXCEPT !.phase = phase] \in SessionRows
  BY DEF SessionRows
<1>2. /\ \A b \in BOOLEAN : [row EXCEPT !.plan = b] \in SessionRows
      /\ \A b \in BOOLEAN : [row EXCEPT !.match = b] \in SessionRows
  BY DEF SessionRows
<1>3. /\ \A j \in Jobs \cup {Nobody} : [row EXCEPT !.cancel = j] \in SessionRows
      /\ \A b \in BOOLEAN : [row EXCEPT !.wrote = b] \in SessionRows
  BY DEF SessionRows
<1> QED BY <1>1, <1>2, <1>3

LEMMA SessionChanges ==
  ASSUME NEW rows \in [Sessions -> SessionRows], NEW s \in Sessions
  PROVE  /\ \A at \in {"none", "checked", "live", "gone"} :
               [rows EXCEPT ![s].at = at] \in [Sessions -> SessionRows]
         /\ \A phase \in Phases : [rows EXCEPT ![s].phase = phase] \in [Sessions -> SessionRows]
         /\ \A b \in BOOLEAN : [rows EXCEPT ![s].plan = b] \in [Sessions -> SessionRows]
         /\ \A b \in BOOLEAN : [rows EXCEPT ![s].match = b] \in [Sessions -> SessionRows]
         /\ \A j \in Jobs \cup {Nobody} :
               [rows EXCEPT ![s].cancel = j] \in [Sessions -> SessionRows]
         /\ \A b \in BOOLEAN : [rows EXCEPT ![s].wrote = b] \in [Sessions -> SessionRows]
<1>1. rows[s] \in SessionRows
  OBVIOUS
<1>2. \A row \in SessionRows : [rows EXCEPT ![s] = row] \in [Sessions -> SessionRows]
  OBVIOUS
<1> QED BY <1>1, <1>2, SessionFields

LEMMA SessionSteps ==
  ASSUME TypeOK, NEW s \in Sessions
  PROVE  /\ \A phase \in Phases : SetPhase(s, phase) \in [Sessions -> SessionRows]
         /\ Drop(s) \in [Sessions -> SessionRows]
<1>1. session \in [Sessions -> SessionRows]
  BY DEF TypeOK
<1>2. NoSession \in SessionRows
  BY DEF NoSession, SessionRows, Phases
<1>3. [NoSession EXCEPT !.at = "gone"] \in SessionRows
  BY <1>2, SessionFields
<1>4. Drop(s) \in [Sessions -> SessionRows]
  BY <1>1, <1>3 DEF Drop
<1>5. \A phase \in Phases : SetPhase(s, phase) \in [Sessions -> SessionRows]
  BY <1>1, SessionChanges DEF SetPhase
<1> QED BY <1>4, <1>5

LEMMA ForgetKeepsRows ==
  ASSUME NEW j, NEW rows \in [Sessions -> SessionRows]
  PROVE  Forget(j, rows) \in [Sessions -> SessionRows]
<1>1. \A s \in Sessions : [rows[s] EXCEPT !.cancel = Nobody] \in SessionRows
  BY SessionFields
<1> QED BY <1>1 DEF Forget

LEMMA JobFields ==
  ASSUME NEW row \in JobRows
  PROVE  /\ \A at \in {"fetch", "resolve", "import", "commit", "photos"} :
               /\ [row EXCEPT !.at = at] \in JobRows
               /\ [row EXCEPT !.at = at].session = row.session
         /\ \A s \in Sessions : /\ [row EXCEPT !.session = s] \in JobRows
                                /\ [row EXCEPT !.session = s].session = s
         /\ \A acts \in [Contacts -> Actions] : /\ [row EXCEPT !.acts = acts] \in JobRows
                                                /\ [row EXCEPT !.acts = acts].session = row.session
         /\ \A b \in BOOLEAN : /\ [row EXCEPT !.photos = b] \in JobRows
                               /\ [row EXCEPT !.photos = b].session = row.session
<1>1. /\ \A at \in {"fetch", "resolve", "import", "commit", "photos"} :
            [row EXCEPT !.at = at] \in JobRows /\ [row EXCEPT !.at = at].session = row.session
      /\ \A s \in Sessions :
            [row EXCEPT !.session = s] \in JobRows /\ [row EXCEPT !.session = s].session = s
  BY DEF JobRows
<1>2. /\ \A acts \in [Contacts -> Actions] :
            [row EXCEPT !.acts = acts] \in JobRows /\ [row EXCEPT !.acts = acts].session = row.session
      /\ \A b \in BOOLEAN :
            [row EXCEPT !.photos = b] \in JobRows /\ [row EXCEPT !.photos = b].session = row.session
  BY DEF JobRows
<1> QED BY <1>1, <1>2

LEMMA IdleIsTyped == Idle \in JobRows /\ Idle.at = "idle"
BY DEF Idle, JobRows, Actions

(* One goroutine changes: it must be of some session unless it ends. *)
LEMMA JobChanges ==
  ASSUME Typed, NEW j \in Jobs, NEW row \in JobRows,
         row.at # "idle" => row.session \in Sessions,
         job' = [job EXCEPT ![j] = row]
  PROVE  job' \in [Jobs -> JobRows] /\ Employed'
<1>1. job \in [Jobs -> JobRows]
  BY DEF Typed, TypeOK
<1>2. \A i \in Jobs : job'[i].at # "idle" => job'[i].session \in Sessions
  BY <1>1 DEF Typed, Employed, Of
<1> QED BY <1>1, <1>2 DEF Employed, Of

(* Steps that leave the database and what is said of it alone need only keep the
   two tables. *)
LEMMA TablesSuffice ==
  ASSUME Typed, session' \in [Sessions -> SessionRows], job' \in [Jobs -> JobRows], Employed',
         UNCHANGED data, target' \in {"live", "deleted"}
  PROVE  Typed'
BY DEF Typed, TypeOK, data, database

(* A goroutine that ends, and the cancellation of one, keep the table of goroutines. *)
LEMMA JobSteps ==
  ASSUME Typed
  PROVE  /\ \A j \in Jobs : End(j) => job' \in [Jobs -> JobRows] /\ Employed'
         /\ \A s \in Sessions : CancelContext(s) => job' \in [Jobs -> JobRows] /\ Employed'
         /\ UNCHANGED job => job' \in [Jobs -> JobRows] /\ Employed'
<1>1. \A j \in Jobs : End(j) => job' \in [Jobs -> JobRows] /\ Employed'
  BY IdleIsTyped, JobChanges DEF End
<1>2. \A s \in Sessions : CancelContext(s) => job' \in [Jobs -> JobRows] /\ Employed'
  <2> SUFFICES ASSUME NEW s \in Sessions, CancelContext(s)
               PROVE  job' \in [Jobs -> JobRows] /\ Employed'
    OBVIOUS
  <2>1. \A j \in Jobs : job[j] \in JobRows
    BY DEF Typed, TypeOK
  <2>2. \A row \in JobRows : /\ [row EXCEPT !.cancelled = TRUE] \in JobRows
                             /\ [row EXCEPT !.cancelled = TRUE].at = row.at
                             /\ [row EXCEPT !.cancelled = TRUE].session = row.session
    BY DEF JobRows
  <2>3. \A j \in Jobs : /\ job'[j] \in JobRows
                        /\ job'[j].at = job[j].at /\ job'[j].session = job[j].session
    BY <2>1, <2>2 DEF CancelContext
  <2>4. job' \in [Jobs -> JobRows]
    BY <2>3 DEF CancelContext
  <2> QED BY <2>3, <2>4 DEF Employed, Of, Typed
<1>3. UNCHANGED job => job' \in [Jobs -> JobRows] /\ Employed'
  BY DEF Typed, TypeOK, Employed, Of
<1> QED BY <1>1, <1>2, <1>3

LEMMA RequestTyped ==
  ASSUME Typed, NEW s \in Sessions,
         \/ CheckLimit(s) \/ Connect(s) \/ Cancel(s) \/ Expire(s)
         \/ \E j \in Jobs : StartFetch(s, j) \/ Confirm(s, j)
  PROVE  Typed'
<1>1. CASE CheckLimit(s) \/ Connect(s)
  <2>1. session' \in [Sessions -> SessionRows]
    <3>1. \E at \in {"none", "checked", "live", "gone"} : session' = [session EXCEPT ![s].at = at]
      BY <1>1 DEF CheckLimit, Connect
    <3>2. session \in [Sessions -> SessionRows]
      BY DEF Typed, TypeOK
    <3>3. \A at \in {"none", "checked", "live", "gone"} :
             [session EXCEPT ![s].at = at] \in [Sessions -> SessionRows]
      BY <3>2, SessionChanges
    <3> QED BY <3>1, <3>3
  <2> QED BY <2>1, <1>1, JobSteps, TablesSuffice DEF CheckLimit, Connect, Typed, TypeOK
<1>2. CASE Cancel(s) \/ Expire(s)
  <2>1. session' \in [Sessions -> SessionRows]
    <3>1. Drop(s) \in [Sessions -> SessionRows]
      BY SessionSteps DEF Typed
    <3>2. [session EXCEPT ![s].phase = "cancelled"] \in [Sessions -> SessionRows]
      BY SessionChanges DEF Typed, TypeOK, Phases
    <3> QED BY <3>1, <3>2, <1>2 DEF Cancel, Expire
  <2> QED BY <2>1, <1>2, JobSteps, TablesSuffice DEF Cancel, Expire, Typed, TypeOK
<1>3. ASSUME NEW j \in Jobs, StartFetch(s, j) PROVE Typed'
  <2>1. session' \in [Sessions -> SessionRows]
    <3>1. session \in [Sessions -> SessionRows]
      BY DEF Typed, TypeOK
    <3> DEFINE begun == [session EXCEPT ![s].phase = "fetching"]
               emptied == [begun EXCEPT ![s].plan = FALSE]
    <3>2. begun \in [Sessions -> SessionRows]
      BY <3>1, SessionChanges DEF Phases
    <3> HIDE DEF begun
    <3>3. emptied \in [Sessions -> SessionRows]
      BY <3>2, SessionChanges
    <3> HIDE DEF emptied
    <3>4. [emptied EXCEPT ![s].cancel = j] \in [Sessions -> SessionRows]
      BY <3>3, SessionChanges
    <3> QED BY <3>4, <1>3 DEF StartFetch, begun, emptied
  <2>2. job' \in [Jobs -> JobRows] /\ Employed'
    <3> DEFINE begun == [Idle EXCEPT !.at = "fetch"]
               row == [begun EXCEPT !.session = s]
    <3>1. begun \in JobRows
      BY IdleIsTyped, JobFields
    <3> HIDE DEF begun
    <3>2. row \in JobRows /\ row.session = s
      BY <3>1, JobFields
    <3>3. job' = [job EXCEPT ![j] = row]
      BY <1>3 DEF StartFetch, begun
    <3> HIDE DEF row
    <3> QED BY <3>2, <3>3, JobChanges
  <2> QED BY <2>1, <2>2, <1>3, TablesSuffice DEF StartFetch, Typed, TypeOK
<1>4. ASSUME NEW j \in Jobs, Confirm(s, j) PROVE Typed'
  <2>1. PICK acts \in Choices :
          job' = [job EXCEPT ![j] = [Idle EXCEPT !.at = "resolve", !.session = s, !.acts = acts]]
    BY <1>4 DEF Confirm
  <2>2. job' \in [Jobs -> JobRows] /\ Employed'
    <3> DEFINE begun == [Idle EXCEPT !.at = "resolve"]
               owned == [begun EXCEPT !.session = s]
               row == [owned EXCEPT !.acts = acts]
    <3>1. begun \in JobRows
      BY IdleIsTyped, JobFields
    <3> HIDE DEF begun
    <3>2. owned \in JobRows /\ owned.session = s
      BY <3>1, JobFields
    <3> HIDE DEF owned
    <3>3. row \in JobRows /\ row.session = s
      BY <3>2, JobFields DEF Choices
    <3>4. job' = [job EXCEPT ![j] = row]
      BY <2>1 DEF begun, owned
    <3> HIDE DEF row
    <3> QED BY <3>3, <3>4, JobChanges
  <2> QED BY <2>2, <1>4, TablesSuffice DEF Confirm, Typed, TypeOK
<1> QED BY <1>1, <1>2, <1>3, <1>4

LEMMA JobTyped ==
  ASSUME Typed, NEW j \in Jobs, job[j].at # "idle",
         FetchProgress(j) \/ FetchReady(j) \/ FetchFails(j) \/ StartImport(j) \/ ResolveFails(j)
         \/ ImportFails(j) \/ FinishImport(j) \/ FinishPhotos(j)
  PROVE  Typed'
<1> DEFINE s == Of(j)
<1>1. s \in Sessions
  BY DEF Typed, Employed
<1> HIDE DEF s
<1>2. session \in [Sessions -> SessionRows] /\ job \in [Jobs -> JobRows]
  BY DEF Typed, TypeOK
<1>3. /\ \A phase \in Phases : SetPhase(s, phase) \in [Sessions -> SessionRows]
      /\ \A rows \in [Sessions -> SessionRows] : Forget(j, rows) \in [Sessions -> SessionRows]
  BY <1>1, SessionSteps, ForgetKeepsRows DEF Typed
<1>4. CASE FetchProgress(j) \/ ResolveFails(j) \/ FinishPhotos(j)
  <2>1. session' \in [Sessions -> SessionRows]
    BY <1>2, <1>3, <1>4 DEF FetchProgress, ResolveFails, FinishPhotos, Phases, s
  <2> QED BY <2>1, <1>4, JobSteps, TablesSuffice
          DEF FetchProgress, ResolveFails, FinishPhotos, Typed, TypeOK
<1>5. CASE FetchReady(j)
  <2>1. [session EXCEPT ![s].phase = "ready", ![s].plan = TRUE, ![s].match = (target = "live")]
           \in [Sessions -> SessionRows]
    <3> DEFINE told == [session EXCEPT ![s].phase = "ready"]
               planned == [told EXCEPT ![s].plan = TRUE]
    <3>1. told \in [Sessions -> SessionRows]
      BY <1>1, <1>2, SessionChanges DEF Phases
    <3> HIDE DEF told
    <3>2. planned \in [Sessions -> SessionRows]
      BY <1>1, <3>1, SessionChanges
    <3> HIDE DEF planned
    <3>3. [planned EXCEPT ![s].match = (target = "live")] \in [Sessions -> SessionRows]
      BY <1>1, <3>2, SessionChanges
    <3> QED BY <3>3 DEF told, planned
  <2>2. session' \in [Sessions -> SessionRows]
    BY <2>1, <1>2, <1>3, <1>5 DEF FetchReady, s
  <2> QED BY <2>2, <1>5, JobSteps, TablesSuffice DEF FetchReady, Typed, TypeOK
<1>6. CASE FetchFails(j) \/ ImportFails(j)
  <2>1. session' \in [Sessions -> SessionRows]
    BY <1>2, <1>3, <1>6 DEF FetchFails, ImportFails, Phases, s
  <2> QED BY <2>1, <1>6, JobSteps, TablesSuffice DEF FetchFails, ImportFails, Typed, TypeOK
<1>7. CASE StartImport(j)
  <2>1. session' \in [Sessions -> SessionRows]
    <3> DEFINE told == [session EXCEPT ![s].phase = "importing"]
    <3>1. told \in [Sessions -> SessionRows]
      BY <1>1, <1>2, SessionChanges DEF Phases
    <3> HIDE DEF told
    <3>2. [told EXCEPT ![s].cancel = j] \in [Sessions -> SessionRows]
      BY <1>1, <3>1, SessionChanges
    <3>3. session' = session \/ session' = [told EXCEPT ![s].cancel = j]
      BY <1>7 DEF StartImport, told, s
    <3> QED BY <1>2, <3>2, <3>3
  <2>2. job' \in [Jobs -> JobRows] /\ Employed'
    <3> DEFINE begun == [job[j] EXCEPT !.at = "import"]
               row == [begun EXCEPT !.acts = Resolve(job[j].acts, session[s].match /\ target = "live")]
    <3>1. job[j] \in JobRows
      BY <1>2
    <3>2. begun \in JobRows /\ begun.session = s
      BY <3>1, JobFields DEF s, Of
    <3> HIDE DEF begun
    <3>3. \A m \in BOOLEAN : Resolve(job[j].acts, m) \in [Contacts -> Actions]
      BY <3>1 DEF Resolve, JobRows, Actions
    <3>4. Resolve(job[j].acts, session[s].match /\ target = "live") \in [Contacts -> Actions]
      BY <3>3
    <3>5. row \in JobRows /\ row.session = s
      BY <3>2, <3>4, JobFields
    <3>6. job' = [job EXCEPT ![j] = row]
      BY <1>7 DEF StartImport, begun, s
    <3> HIDE DEF row
    <3> QED BY <1>1, <3>5, <3>6, JobChanges
  <2> QED BY <2>1, <2>2, <1>7, TablesSuffice DEF StartImport, Typed, TypeOK
<1>8. CASE FinishImport(j)
  <2>1. [session EXCEPT ![s].phase = PhaseAfter(j), ![s].plan = FALSE]
           \in [Sessions -> SessionRows]
    <3> DEFINE told == [session EXCEPT ![s].phase = PhaseAfter(j)]
    <3>1. told \in [Sessions -> SessionRows]
      BY <1>1, <1>2, SessionChanges DEF Phases, PhaseAfter
    <3> HIDE DEF told
    <3>2. [told EXCEPT ![s].plan = FALSE] \in [Sessions -> SessionRows]
      BY <1>1, <3>1, SessionChanges
    <3> QED BY <3>2 DEF told
  <2>2. session' \in [Sessions -> SessionRows]
    BY <2>1, <1>2, <1>3, <1>8 DEF FinishImport, s
  <2>3. job' \in [Jobs -> JobRows] /\ Employed'
    <3> DEFINE begun == [Idle EXCEPT !.at = "photos"]
               row == [begun EXCEPT !.session = s]
    <3>1. begun \in JobRows
      BY IdleIsTyped, JobFields
    <3> HIDE DEF begun
    <3>2. row \in JobRows /\ row.session = s
      BY <1>1, <3>1, JobFields
    <3>3. job' = [job EXCEPT ![j] = Idle] \/ job' = [job EXCEPT ![j] = row]
      BY <1>8 DEF FinishImport, begun, s
    <3> HIDE DEF row
    <3> QED BY <1>1, <3>2, <3>3, IdleIsTyped, JobChanges
  <2>4. report' \in [Jobs -> SUBSET Issues]
    BY <1>8 DEF FinishImport, Typed, TypeOK
  <2>5. result' \in [Sessions -> Results]
    <3>1. [asked |-> Asked(j), errors |-> Errors(report[j])] \in Results
      BY DEF Results, Asked, Errors
    <3> QED BY <1>8, <3>1 DEF FinishImport, Typed, TypeOK
  <2> QED BY <2>2, <2>3, <2>4, <2>5, <1>8 DEF FinishImport, Typed, TypeOK, database
<1> QED BY <1>4, <1>5, <1>6, <1>7, <1>8

LEMMA ReportTyped ==
  ASSUME NEW acts, NEW got, NEW seen \in SUBSET SourceRows, NEW bad \in SUBSET Fallible
  PROVE  ReportOf(acts, got, seen, bad) \subseteq Issues
<1>1. NotLanded(acts, got, seen) \subseteq SourceRows /\ Lost(got, seen) \subseteq SourceRows
  BY DEF NotLanded, Lost, SourceRows
<1>2. {c \in Contacts : acts[c] = "skip"} \subseteq SourceRows
  BY DEF SourceRows
<1>3. bad \subseteq SourceRows
  BY AccountAssumption
<1> QED BY <1>1, <1>2, <1>3 DEF ReportOf, Issues, Categories

LEMMA ApplyTyped ==
  ASSUME Typed, NEW j \in Jobs, NEW seen \in SUBSET SourceRows, NEW bad \in SUBSET Fallible,
         Apply(j, seen, bad)
  PROVE  Typed'
<1> DEFINE got == ContactsOf(job[j].acts, seen, bad)
           made == RecordsOf(got, seen, bad)
<1>1. got \subseteq Contacts /\ made \subseteq Records
  BY MadeRows
<1> HIDE DEF got, made
<1>2. links' \subseteq SourceRows
  BY <1>1 DEF Apply, LinksOf, Typed, TypeOK, SourceRows, got, made
<1>3. landed' \in [SourceRows -> Nat]
  BY DEF Apply, Typed, TypeOK
<1>4. members' \in [Groups -> SUBSET Contacts]
  BY <1>1, AccountAssumption DEF Apply, Typed, TypeOK, Records, got
<1>5. report' \in [Jobs -> SUBSET Issues] /\ result' \in [Sessions -> Results]
  <2>1. ReportOf(job[j].acts, got, seen, bad) \subseteq Issues
    BY ReportTyped
  <2>2. report' = [report EXCEPT ![j] = ReportOf(job[j].acts, got, seen, bad)]
        /\ UNCHANGED result
    BY DEF Apply, got
  <2> QED BY <2>1, <2>2 DEF Typed, TypeOK
<1>6. resurrected' \in BOOLEAN /\ target' \in {"live", "deleted"}
  BY DEF Apply, Typed, TypeOK
<1>7. session' \in [Sessions -> SessionRows]
  <2>1. job[j].at # "idle"
    BY DEF Apply
  <2>2. Of(j) \in Sessions /\ session \in [Sessions -> SessionRows]
    BY <2>1 DEF Typed, TypeOK, Employed
  <2>3. [session EXCEPT ![Of(j)].wrote = TRUE] \in [Sessions -> SessionRows]
    BY <2>2, SessionChanges
  <2>4. session' = session \/ session' = [session EXCEPT ![Of(j)].wrote = TRUE]
    BY DEF Apply
  <2> QED BY <2>2, <2>3, <2>4
<1>8. job' \in [Jobs -> JobRows] /\ Employed'
  <2> DEFINE done == [job[j] EXCEPT !.at = "commit"]
             row == [done EXCEPT !.photos = (got \cap Photos # {})]
  <2>1. job[j] \in JobRows /\ job[j].session \in Sessions
    BY DEF Apply, Typed, TypeOK, Employed, Of
  <2>2. done \in JobRows /\ done.session = job[j].session
    BY <2>1, JobFields
  <2> HIDE DEF done
  <2>3. \A b \in BOOLEAN : /\ [done EXCEPT !.photos = b] \in JobRows
                          /\ [done EXCEPT !.photos = b].session = done.session
    BY <2>2, JobFields
  <2>4. row \in JobRows /\ row.session \in Sessions
    BY <2>1, <2>2, <2>3
  <2>5. job' = [job EXCEPT ![j] = row]
    BY DEF Apply, done, got
  <2> HIDE DEF row
  <2> QED BY <2>4, <2>5, JobChanges
<1> QED BY <1>2, <1>3, <1>4, <1>5, <1>6, <1>7, <1>8 DEF Typed, TypeOK

LEMMA TypedStep == Typed /\ [Next]_vars => Typed'
<1> SUFFICES ASSUME Typed, [Next]_vars PROVE Typed'
  OBVIOUS
<1>1. CASE UNCHANGED vars
  BY <1>1 DEF vars, data, database, Typed, TypeOK, Employed, Of
<1>2. CASE DeleteTarget
  BY <1>2 DEF DeleteTarget, Typed, TypeOK, Employed, Of, data, database
<1>3. CASE Restart
  <2>3. report' \in [Jobs -> SUBSET Issues] /\ UNCHANGED <<target, result, database>>
    BY <1>3 DEF Restart
  <2>1. session' \in [Sessions -> SessionRows]
    BY <1>3 DEF Restart, SessionRows, NoSession, Phases
  <2>2. job' \in [Jobs -> JobRows] /\ Employed'
    BY <1>3, IdleIsTyped DEF Restart, Employed, Of
  <2> QED BY <2>1, <2>2, <2>3 DEF Typed, TypeOK, database
<1>4. ASSUME NEW s \in Sessions, CheckLimit(s) \/ Connect(s) \/ Cancel(s) \/ Expire(s)
      PROVE Typed'
  BY <1>4, RequestTyped
<1>5. ASSUME NEW s \in Sessions, NEW j \in Jobs, StartFetch(s, j) \/ Confirm(s, j)
      PROVE Typed'
  BY <1>5, RequestTyped
<1>6. ASSUME NEW j \in Jobs, FetchProgress(j) \/ JobStep(j) PROVE Typed'
  <2>1. CASE ApplyPlan(j)
    BY <2>1, ApplyTyped DEF ApplyPlan, Typed, TypeOK
  <2>2. CASE ~ApplyPlan(j)
    <3>1. job[j].at # "idle"
      BY <1>6, <2>2 DEF JobStep, FetchProgress, FetchReady, FetchFails, StartImport, ResolveFails,
                        ImportFails, FinishImport, FinishPhotos
    <3> QED BY <3>1, <2>2, <1>6, JobTyped DEF JobStep
  <2> QED BY <2>1, <2>2
<1> QED BY <1>1, <1>2, <1>3, <1>4, <1>5, <1>6 DEF Next

LEMMA InitTyped == Init => Typed
<1> SUFFICES ASSUME Init PROVE Typed
  OBVIOUS
<1>1. NoSession \in SessionRows
  BY DEF NoSession, SessionRows, Phases
<1>2. job \in [Jobs -> JobRows] /\ Employed
  BY IdleIsTyped DEF Init, Employed
<1>3. /\ landed \in [SourceRows -> Nat] /\ members \in [Groups -> SUBSET Contacts]
      /\ links = {} /\ target \in {"live", "deleted"} /\ resurrected \in BOOLEAN
      /\ report \in [Jobs -> SUBSET Issues] /\ result \in [Sessions -> Results]
  BY DEF Init, Results
<1> QED BY <1>1, <1>2, <1>3 DEF Init, Typed, TypeOK

(* The state of wizards, goroutines and the ledger has its type. *)
THEOREM TypeCorrect == Spec => []TypeOK
BY InitTyped, TypedStep, PTL DEF Spec, Typed

-----------------------------------------------------------------------------
(* A committed import has everything it was asked for in the ledger or in its
   report, and so has what a wizard shows. *)
Reported == \A j \in Jobs :
    job[j].at = "commit" => Asked(j) \subseteq links \cup Errors(report[j])

Accounted == Reported /\ NoContactIsDropped

(* An import that has committed is not asked for anything else. *)
Settled == \A j \in Jobs : job'[j].at = "commit" => job[j].at = "commit" /\ job'[j].acts = job[j].acts

LEMMA SettledStep ==
  ASSUME Typed, Next,
         ~ \E j \in Jobs, seen \in {links, {}}, bad \in SUBSET Fallible : Apply(j, seen, bad)
  PROVE  Settled
<1>1. \A j \in Jobs : job[j] \in JobRows
  BY DEF Typed, TypeOK
<1>2. job \in [Jobs -> JobRows] /\ Idle.at = "idle"
  BY IdleIsTyped DEF Typed, TypeOK
<1>3. ASSUME UNCHANGED job PROVE Settled
  BY <1>3 DEF Settled
<1>4. ASSUME NEW i \in Jobs, NEW row, row.at # "commit", job' = [job EXCEPT ![i] = row]
      PROVE  Settled
  BY <1>2, <1>4 DEF Settled
<1>5. ASSUME NEW i \in Jobs, End(i) PROVE Settled
  BY <1>2, <1>4, <1>5 DEF End
<1>6. ASSUME NEW s \in Sessions, CancelContext(s) PROVE Settled
  <2>1. \A row \in JobRows : /\ [row EXCEPT !.cancelled = TRUE].at = row.at
                             /\ [row EXCEPT !.cancelled = TRUE].acts = row.acts
    BY DEF JobRows
  <2> QED BY <1>1, <1>6, <2>1 DEF CancelContext, Settled
<1>7. ASSUME NEW s \in Sessions, CheckLimit(s) \/ Connect(s) \/ Cancel(s) \/ Expire(s)
      PROVE  Settled
  BY <1>3, <1>6, <1>7 DEF CheckLimit, Connect, Cancel, Expire
<1>8. ASSUME NEW s \in Sessions, NEW j \in Jobs, StartFetch(s, j) PROVE Settled
  <2>1. [Idle EXCEPT !.at = "fetch", !.session = s].at = "fetch"
    BY DEF Idle
  <2> QED BY <1>4, <1>8, <2>1 DEF StartFetch
<1>9. ASSUME NEW s \in Sessions, NEW j \in Jobs, Confirm(s, j) PROVE Settled
  <2>1. \A acts : [Idle EXCEPT !.at = "resolve", !.session = s, !.acts = acts].at = "resolve"
    BY DEF Idle
  <2> QED BY <1>4, <1>9, <2>1 DEF Confirm
<1>10. ASSUME NEW j \in Jobs, FetchProgress(j) PROVE Settled
  BY <1>3, <1>10 DEF FetchProgress
<1>11. ASSUME NEW j \in Jobs, FetchReady(j) \/ FetchFails(j) \/ ResolveFails(j) \/ ImportFails(j)
                             \/ FinishPhotos(j)
       PROVE  Settled
  BY <1>5, <1>11 DEF FetchReady, FetchFails, ResolveFails, ImportFails, FinishPhotos
<1>12. ASSUME NEW j \in Jobs, StartImport(j) PROVE Settled
  <2> DEFINE acts == Resolve(job[j].acts, session[Of(j)].match /\ target = "live")
             row == [job[j] EXCEPT !.at = "import", !.acts = acts]
  <2>1. row.at = "import"
    BY <1>1 DEF JobRows
  <2>2. job' = [job EXCEPT ![j] = row]
    BY <1>2, <1>12 DEF StartImport
  <2> QED BY <1>4, <2>1, <2>2
<1>13. ASSUME NEW j \in Jobs, FinishImport(j) PROVE Settled
  <2>1. [Idle EXCEPT !.at = "photos", !.session = Of(j)].at = "photos"
    BY DEF Idle
  <2> QED BY <1>2, <1>4, <1>13, <2>1 DEF FinishImport
<1>14. CASE DeleteTarget \/ Restart
  BY <1>2, <1>14 DEF DeleteTarget, Restart, Settled
<1> QED BY <1>7, <1>8, <1>9, <1>10, <1>11, <1>12, <1>13, <1>14 DEF Next, JobStep, ApplyPlan

(* What is committed is in the ledger, was there before, or is reported. *)
LEMMA ReportedCommit ==
  ASSUME Typed, Reported, NEW j \in Jobs, NEW seen \in {links, {}}, NEW bad \in SUBSET Fallible,
         Apply(j, seen, bad)
  PROVE  Reported'
<1> DEFINE got == ContactsOf(job[j].acts, seen, bad)
           made == RecordsOf(got, seen, bad)
           issues == ReportOf(job[j].acts, got, seen, bad)
<1>1. /\ links' = links \cup (got \cup made)
      /\ report' = [report EXCEPT ![j] = issues]
      /\ job' = [job EXCEPT ![j].at = "commit", ![j].photos = (got \cap Photos # {})]
  BY DEF Apply, LinksOf
<1> HIDE DEF got, made, issues
<1>2. job \in [Jobs -> JobRows] /\ job[j] \in JobRows /\ report \in [Jobs -> SUBSET Issues]
  BY DEF Typed, TypeOK
<1>3. job'[j].acts = job[j].acts /\ \A i \in Jobs \ {j} : job'[i] = job[i]
  BY <1>1, <1>2 DEF JobRows
<1>4. report'[j] = issues /\ \A i \in Jobs \ {j} : report'[i] = report[i]
  BY <1>1, <1>2
<1> SUFFICES ASSUME NEW i \in Jobs, job'[i].at = "commit",
                    NEW c \in Contacts, job'[i].acts[c] # "skip"
             PROVE  c \in links' \cup Errors(report'[i])
  BY DEF Reported, Asked
<1>5. CASE i # j
  BY <1>1, <1>3, <1>4, <1>5 DEF Reported, Asked
<1>6. CASE i = j /\ c \in seen \cup got
  BY <1>1, <1>6
<1>7. CASE i = j /\ c \notin seen \cup got
  <2>1. c \in NotLanded(job[j].acts, got, seen)
    BY <1>3, <1>7 DEF NotLanded
  <2>2. <<c, "invalid">> \in issues /\ c \in SourceRows
    BY <2>1 DEF issues, ReportOf, SourceRows
  <2> QED BY <1>4, <1>7, <2>2 DEF Errors
<1> QED BY <1>5, <1>6, <1>7

LEMMA AccountedStep == Typed /\ Accounted /\ [Next]_vars => Accounted'
<1> SUFFICES ASSUME Typed, Accounted, [Next]_vars PROVE Accounted'
  OBVIOUS
<1>1. CASE UNCHANGED vars
  BY <1>1 DEF vars, data, database, Accounted, Reported, NoContactIsDropped, Asked
<1>2. ASSUME NEW j \in Jobs, NEW seen \in {links, {}}, NEW bad \in SUBSET Fallible,
             Apply(j, seen, bad)
      PROVE  Accounted'
  <2>1. links \subseteq links' /\ UNCHANGED result
    BY <1>2 DEF Apply
  <2>2. NoContactIsDropped'
    BY <2>1 DEF Accounted, NoContactIsDropped
  <2> QED BY <1>2, <2>2, ReportedCommit DEF Accounted
<1>3. CASE Next /\ ~ \E j \in Jobs, seen \in {links, {}}, bad \in SUBSET Fallible : Apply(j, seen, bad)
  <2>1. Settled /\ UNCHANGED links
    BY <1>3, SettledStep, OnlyApplyWrites DEF database
  <2>2. ASSUME NEW j \in Jobs, FinishImport(j) PROVE Accounted'
    <3>1. /\ job[j].at = "commit" /\ Of(j) \in Sessions
          /\ report \in [Jobs -> SUBSET Issues] /\ result \in [Sessions -> Results]
      BY <2>2 DEF FinishImport, Typed, TypeOK, Employed
    <3>2. /\ result' = [result EXCEPT ![Of(j)] = [asked |-> Asked(j), errors |-> Errors(report[j])]]
          /\ report' = [report EXCEPT ![j] = {}]
      BY <2>2 DEF FinishImport
    <3>3. Asked(j) \subseteq links \cup Errors(report[j])
      BY <3>1 DEF Accounted, Reported
    <3>4. NoContactIsDropped'
      BY <2>1, <3>1, <3>2, <3>3 DEF Accounted, NoContactIsDropped
    <3>5. job'[j].at # "commit"
      BY <2>2 DEF FinishImport, Idle, Typed, TypeOK
    <3>6. Reported'
      BY <2>1, <3>1, <3>2, <3>5 DEF Accounted, Reported, Settled, Asked
    <3> QED BY <3>4, <3>6 DEF Accounted
  <2>3. CASE Restart
    <3>1. \A j \in Jobs : job'[j].at # "commit"
      BY <2>3 DEF Restart, Idle
    <3> QED BY <2>1, <2>3, <3>1 DEF Restart, Accounted, Reported, NoContactIsDropped
  <2>4. CASE UNCHANGED <<report, result>>
    <3>1. report' = report /\ result' = result
      BY <2>4
    <3>2. NoContactIsDropped'
      BY <2>1, <3>1 DEF Accounted, NoContactIsDropped
    <3>3. Reported'
      BY <2>1, <3>1 DEF Accounted, Reported, Settled, Asked
    <3> QED BY <3>2, <3>3 DEF Accounted
  <2>5. UNCHANGED <<report, result>> \/ Restart \/ \E j \in Jobs : FinishImport(j)
    BY <1>3 DEF data, Next, CheckLimit, Connect, Cancel, Expire, StartFetch, Confirm, FetchProgress,
                JobStep, FetchReady, FetchFails, StartImport, ResolveFails, ApplyPlan, ImportFails,
                FinishPhotos, DeleteTarget
  <2> QED BY <2>2, <2>3, <2>4, <2>5
<1> QED BY <1>1, <1>2, <1>3

(* Whatever confirmations, cancellations and deletions fall between, a finished import
   has every contact it was asked for, or its result says which it has not
   (mergeSourceContact, sourceImportResultFromReport). *)
THEOREM NoContactIsDroppedUnnamed == Spec => []NoContactIsDropped
<1>1. Init => Typed /\ Accounted
  BY InitTyped DEF Init, Idle, Accounted, Reported, NoContactIsDropped
<1>2. Typed /\ Accounted /\ [Next]_vars => (Typed /\ Accounted)'
  BY TypedStep, AccountedStep
<1>3. Typed /\ Accounted => NoContactIsDropped
  BY DEF Accounted
<1> QED BY <1>1, <1>2, <1>3, PTL DEF Spec

-----------------------------------------------------------------------------
(* With the sync in both directions, an edit the remote has not got is in its
   activity, which is pending. *)
Waits == twoWay => \A u \in Uids \ raced :
    mine[u] # Nil => link[u] # Nil /\ link[u].activity = mine[u] /\ link[u].pending

(* What is pushed is the last edit, until its PUT, and an edit in between is
   marked as raced. *)
InHand ==
    run # Nil =>
        /\ run.phase = "push" => twoWay
        /\ run.at # Nil =>
              /\ run.phase = "push" /\ link[run.at] # Nil /\ run.copy \in Contents
              /\ run.at \notin raced /\ mine[run.at] # Nil =>
                    mine[run.at] = run.copy /\ ~run.put
        /\ run.at = Nil => ~run.put
        /\ \A u \in run.todo : link[u] # Nil

CalendarIInv == CalendarTypeOK /\ Waits /\ InHand

-----------------------------------------------------------------------------
(* A link that is made of an event, or updated by one, is a link. *)
LEMMA LinkTyped ==
    ASSUME NEW e \in Events
    PROVE  /\ NewLink(e) \in Links /\ NewLink(e) # Nil
           /\ \A l \in Links : Updated(l, e) \in Links
<1>1. e.content \in Contents /\ e.path \in Paths
  BY DEF Events
<1>2. NewLink(e) \in Links
  BY <1>1 DEF NewLink, Links
<1>3. \A l : Updated(l, e) \in {l, NewLink(e)}
  BY DEF Updated
<1> QED BY <1>2, <1>3, CalendarAssumption

(* What the import makes of the link of u, when the new events take over the
   links that `from' says. *)
Makes(from, u) ==
    /\ u \in New /\ from[u] # Nil =>
          /\ from[u] \in Linked
          /\ link'[u] = [link[from[u]] EXCEPT !.pending = FALSE]
          /\ mine'[u] = mine[from[u]]
          /\ link[from[u]].pending \/ from[u] \in raced => u \in raced'
    /\ u \in New /\ from[u] = Nil =>
          link'[u] = NewLink(run.events[u]) /\ mine'[u] = Nil
    /\ u \in Linked \ {from[v] : v \in New} =>
          /\ link'[u] = IF run.events[u] # Nil
                        THEN Updated(link[u], run.events[u]) ELSE link[u]
          /\ mine'[u] = mine[u]
          /\ u \in raced => u \in raced'
    /\ u \notin New /\ u \notin Linked \ {from[v] : v \in New} =>
          link'[u] = Nil /\ mine'[u] = Nil

LEMMA ImportMakes ==
    ASSUME CalendarTypeOK, Import
    PROVE  /\ run # Nil /\ run \in Runs /\ run.phase = "import"
           /\ \E from \in Adoptions : \A u \in Uids : Makes(from, u)
           /\ link' = [u \in Uids |-> link'[u]] /\ mine' = [u \in Uids |-> mine'[u]]
           /\ raced' \subseteq Uids
<1> USE CalendarAssumption DEF CalendarTypeOK
<1>1. run # Nil /\ run \in Runs /\ run.phase = "import"
  BY DEF Import, InPhase
<1>2. New \subseteq Uids /\ New \cap Linked = {} /\ Linked \subseteq Uids
  BY DEF New, Linked, Present
<1> DEFINE taken(from) == {from[u] : u \in New} \ {Nil}
           adopts(from, u) == u \in New /\ from[u] # Nil
           kept(from, u) == u \in Linked \ taken(from)
<1>3. PICK from \in Adoptions :
        /\ link' = [u \in Uids |->
              IF adopts(from, u) THEN [link[from[u]] EXCEPT !.pending = FALSE]
              ELSE IF u \in New THEN NewLink(run.events[u])
              ELSE IF ~kept(from, u) THEN Nil
              ELSE IF run.events[u] # Nil THEN Updated(link[u], run.events[u]) ELSE link[u]]
        /\ mine' = [u \in Uids |-> IF adopts(from, u) THEN mine[from[u]]
                                   ELSE IF kept(from, u) THEN mine[u] ELSE Nil]
        /\ raced' = (raced \ taken(from)) \cup
              {u \in New : adopts(from, u) /\ (link[from[u]].pending \/ from[u] \in raced)}
  BY DEF Import
<1>4. \A u \in New : from[u] # Nil => from[u] \in Linked
  BY <1>3 DEF Adoptions, Adoptable
<1>5. Nil \notin Linked
  BY <1>2
<1>6. raced' \subseteq Uids
  BY <1>2, <1>3
<1>7. link' = [u \in Uids |-> link'[u]] /\ mine' = [u \in Uids |-> mine'[u]]
  BY <1>3
<1>8. ASSUME NEW u \in Uids PROVE Makes(from, u)
  <2>0. u # Nil
    OBVIOUS
  <2>1. CASE u \in New /\ from[u] # Nil
    BY <1>2, <1>3, <1>4, <2>0, <2>1 DEF Makes
  <2>2. CASE u \in New /\ from[u] = Nil
    BY <1>2, <1>3, <2>0, <2>2 DEF Makes
  <2>3. CASE u \notin New
    BY <1>3, <2>0, <2>3 DEF Makes
  <2> QED BY <2>1, <2>2, <2>3
<1> HIDE DEF taken, adopts, kept
<1> QED BY <1>1, <1>6, <1>7, <1>8

LEMMA CalendarTypeStep == CalendarIInv /\ [CalendarNext]_calendarVars => CalendarTypeOK'
<1> SUFFICES ASSUME CalendarTypeOK, InHand, [CalendarNext]_calendarVars PROVE CalendarTypeOK'
  BY DEF CalendarIInv
<1> USE CalendarAssumption DEF CalendarTypeOK
<1>1. ASSUME NEW p \in Paths, NEW o \in Objects \cup {Nil}, RemoteChange(p, o)
      PROVE  CalendarTypeOK'
  BY <1>1 DEF RemoteChange
<1>2. ASSUME NEW u \in Uids, NEW c \in Contents \cup {Deleted}, Edit(u, c) PROVE CalendarTypeOK'
  <2>1. link[u] \in Links
    BY <1>2 DEF Edit
  <2>2. [link[u] EXCEPT !.activity = c, !.pending = TRUE] \in Links
    BY <2>1 DEF Links
  <2>3. link' = [link EXCEPT ![u] = [link[u] EXCEPT !.activity = c, !.pending = TRUE]]
    BY <1>2 DEF Edit
  <2>4. link' \in [Uids -> Links \cup {Nil}]
    BY <2>2, <2>3
  <2>5. mine' \in [Uids -> Contents \cup {Nil}]
    BY <1>2 DEF Edit
  <2> QED BY <1>2, <2>4, <2>5 DEF Edit
<1>3. ASSUME NEW scheduled \in BOOLEAN, StartRun(scheduled) PROVE CalendarTypeOK'
  <2>1. run' \in Runs
    BY <1>3 DEF StartRun, Runs, RunPhases, NoEvents
  <2> QED BY <1>3, <2>1 DEF StartRun
<1>4. CASE Fetch
  <2>1. run \in Runs
    BY <1>4 DEF Fetch, InPhase
  <2>2. Fetched \in [Uids -> Events \cup {Nil}]
    <3> SUFFICES ASSUME NEW u \in Uids, u \in UidsOf(remote)
                 PROVE  LET p == CHOOSE q \in Paths : remote[q] # Nil /\ remote[q].uid = u
                        IN  [path |-> p, content |-> remote[p].content] \in Events
      BY DEF Fetched
    <3> DEFINE p == CHOOSE q \in Paths : remote[q] # Nil /\ remote[q].uid = u
    <3>1. \E q \in Paths : remote[q] # Nil /\ remote[q].uid = u
      BY DEF UidsOf
    <3>2. p \in Paths /\ remote[p] # Nil
      BY <3>1
    <3>3. remote[p].content \in Contents
      BY <3>2 DEF Objects
    <3> HIDE DEF p
    <3>4. [path |-> p, content |-> remote[p].content] \in Events
      BY <3>2, <3>3 DEF Events
    <3> QED BY <3>4 DEF p
  <2>3. run' = [run EXCEPT !.phase = "import", !.events = Fetched]
    BY <1>4 DEF Fetch
  <2>4. run' \in Runs
    BY <2>1, <2>2, <2>3 DEF Runs, RunPhases
  <2> QED BY <1>4, <2>4 DEF Fetch
<1>5. CASE Import
  <2>1. PICK from \in Adoptions : \A u \in Uids : Makes(from, u)
    BY <1>5, ImportMakes
  <2>2. run \in Runs /\ New \subseteq Present(run.events) /\ raced' \subseteq Uids
        /\ link' = [u \in Uids |-> link'[u]] /\ mine' = [u \in Uids |-> mine'[u]]
    BY <1>5, ImportMakes DEF New
  <2>3. \A u \in Uids : run.events[u] # Nil => run.events[u] \in Events
    BY <2>2 DEF Runs
  <2>4. ASSUME NEW u \in Uids
        PROVE  link'[u] \in Links \cup {Nil} /\ mine'[u] \in Contents \cup {Nil}
    <3>1. CASE u \in New /\ from[u] # Nil
      <4>1. link[from[u]] \in Links
        BY <2>1, <3>1 DEF Linked, Makes
      <4>2. [link[from[u]] EXCEPT !.pending = FALSE] \in Links
        BY <4>1 DEF Links
      <4> QED BY <2>1, <3>1, <4>2 DEF Makes, Linked
    <3>2. CASE u \in New /\ from[u] = Nil
      <4>1. run.events[u] # Nil
        BY <2>2, <3>2 DEF Present
      <4>2. NewLink(run.events[u]) \in Links
        BY <2>3, <4>1, LinkTyped
      <4>3. link'[u] = NewLink(run.events[u]) /\ mine'[u] = Nil
        BY <2>1, <3>2 DEF Makes
      <4> QED BY <4>2, <4>3
    <3>3. CASE u \in Linked \ {from[v] : v \in New}
      <4>1. link[u] \in Links
        BY <3>3 DEF Linked
      <4>2. run.events[u] # Nil => Updated(link[u], run.events[u]) \in Links
        BY <2>3, <4>1, LinkTyped
      <4>3. /\ link'[u] = IF run.events[u] # Nil
                          THEN Updated(link[u], run.events[u]) ELSE link[u]
            /\ mine'[u] = mine[u]
        BY <2>1, <3>3 DEF Makes
      <4> QED BY <4>1, <4>2, <4>3
    <3>4. CASE u \notin New /\ u \notin Linked \ {from[v] : v \in New}
      BY <2>1, <3>4 DEF Makes
    <3> QED BY <3>1, <3>2, <3>3, <3>4
  <2>5. link' \in [Uids -> Links \cup {Nil}] /\ mine' \in [Uids -> Contents \cup {Nil}]
    BY <2>2, <2>4
  <2>6. run' \in Runs \cup {Nil}
    <3>1. run' = AfterImport(link')
      BY <1>5 DEF Import
    <3>2. PICK todo \in SUBSET Uids : todo = {u \in Uids : link'[u] # Nil}
      OBVIOUS
    <3>3. NoEvents \in [Uids -> Events \cup {Nil}]
      BY DEF NoEvents
    <3>4. [run EXCEPT !.phase = "push", !.events = NoEvents, !.todo = todo] \in Runs
      BY <2>2, <3>3 DEF Runs, RunPhases
    <3> QED BY <3>1, <3>2, <3>4 DEF AfterImport
  <2>7. /\ UNCHANGED <<twoWay, remote, remoteChanges, edits, fails>>
        /\ terminal' \in BOOLEAN
    BY <1>5 DEF Import
  <2> QED BY <2>2, <2>5, <2>6, <2>7
<1>6. ASSUME NEW u \in Uids, TakeLink(u) PROVE CalendarTypeOK'
  <2>1. run \in Runs /\ u \in run.todo /\ link[u] \in Links
    BY <1>6 DEF TakeLink, InPhase, InHand
  <2>2. PICK c \in Contents \cup {Nil}, at \in Uids \cup {Nil} :
          run' = [run EXCEPT !.todo = run.todo \ {u}, !.at = at, !.copy = c]
    <3>1. link[u].activity \in Contents \cup {Deleted}
      BY <2>1 DEF Links
    <3> QED BY <1>6, <3>1 DEF TakeLink
  <2>3. run.todo \ {u} \in SUBSET Uids
    BY <2>1 DEF Runs
  <2>4. run' \in Runs
    BY <2>1, <2>2, <2>3 DEF Runs
  <2> QED BY <1>6, <2>4 DEF TakeLink
<1>7. ASSUME NEW u \in Uids, Put(u) PROVE CalendarTypeOK'
  <2>1. run \in Runs /\ run # Nil /\ run.at = u
    BY <1>7 DEF Put, InPhase
  <2>2. link[u] \in Links /\ run.copy \in Contents
    BY <2>1 DEF InHand
  <2>3. [uid |-> u, content |-> run.copy] \in Objects /\ link[u].path \in Paths
    BY <2>2 DEF Objects, Links
  <2>4. run' \in Runs
    BY <1>7, <2>1 DEF Put, Runs
  <2> QED BY <1>7, <2>3, <2>4 DEF Put
<1>8. CASE MarkPushed
  <2>1. run \in Runs /\ run # Nil /\ run.at # Nil
    BY <1>8 DEF MarkPushed, InPhase, Answered
  <2>2. run.at \in Uids /\ link[run.at] \in Links /\ run.copy \in Contents
    BY <2>1 DEF InHand, Runs
  <2>3. [link[run.at] EXCEPT !.hash = run.copy, !.pending = FALSE] \in Links
    BY <2>2 DEF Links
  <2>4. link' = [link EXCEPT ![run.at] = [link[run.at] EXCEPT !.hash = run.copy,
                                                              !.pending = FALSE]]
    BY <1>8 DEF MarkPushed
  <2>5. link' \in [Uids -> Links \cup {Nil}]
    BY <2>2, <2>3, <2>4
  <2>6. run' \in Runs
    BY <1>8, <2>1 DEF MarkPushed, Runs
  <2> QED BY <1>8, <2>5, <2>6 DEF MarkPushed
<1>9. CASE Finish \/ \E forGood \in BOOLEAN : Fail(forGood)
  <2>1. /\ run' = Nil /\ fails' \in 0 .. MaxFails
        /\ UNCHANGED <<twoWay, remote, link, remoteChanges, edits, mine, raced>>
    BY <1>9 DEF Finish, Fail
  <2>2. terminal' \in BOOLEAN
    BY <1>9, Zenon DEF Finish, Fail
  <2> QED BY <2>1, <2>2
<1>10. CASE UNCHANGED calendarVars
  BY <1>10 DEF calendarVars
<1> QED BY <1>1, <1>2, <1>3, <1>4, <1>5, <1>6, <1>7, <1>8, <1>9, <1>10 DEF CalendarNext, RunStep

(* The import, which overwrites activities, lets an edit that waits win, or
   marks it as raced when its link is taken over. *)
LEMMA ImportKeepsWaiting ==
    ASSUME CalendarIInv, Import
    PROVE  Waits'
<1> USE CalendarAssumption
<1>1. PICK from \in Adoptions : \A u \in Uids : Makes(from, u)
  BY ImportMakes DEF CalendarIInv
<1>2. run \in Runs /\ link \in [Uids -> Links \cup {Nil}] /\ twoWay' = twoWay
      /\ New \subseteq Present(run.events) /\ Linked \subseteq Uids
  BY ImportMakes DEF CalendarIInv, CalendarTypeOK, Linked, New, Import
<1> SUFFICES ASSUME twoWay, NEW u \in Uids, u \notin raced', mine'[u] # Nil
             PROVE  link'[u] # Nil /\ link'[u].activity = mine'[u] /\ link'[u].pending
  BY <1>2 DEF Waits
<1>3. CASE u \in New /\ from[u] # Nil
  <2>1. from[u] \in Uids \ raced /\ mine[from[u]] # Nil /\ ~link[from[u]].pending
    BY <1>1, <1>2, <1>3 DEF Makes
  <2> QED BY <2>1 DEF CalendarIInv, Waits
<1>4. CASE u \in Linked \ {from[v] : v \in New}
  <2>1. u \notin raced /\ mine'[u] = mine[u]
    BY <1>1, <1>4 DEF Makes
  <2>2. link[u] # Nil /\ link[u].activity = mine[u] /\ link[u].pending
    BY <2>1 DEF CalendarIInv, Waits
  <2>3. Updated(link[u], run.events[u]) = link[u]
    BY <2>2 DEF Updated, LocalWins
  <2>4. link'[u] = link[u]
    BY <1>1, <1>4, <2>3 DEF Makes
  <2> QED BY <2>1, <2>2, <2>4
<1> QED BY <1>1, <1>3, <1>4 DEF Makes

(* Every other step but the user's leaves an edit waiting, or knows it put. *)
LEMMA CalendarStep == CalendarIInv /\ [CalendarNext]_calendarVars => CalendarIInv'
<1> SUFFICES ASSUME CalendarIInv, [CalendarNext]_calendarVars PROVE CalendarIInv'
  OBVIOUS
<1> USE CalendarAssumption
<1>0. CalendarTypeOK'
  BY CalendarTypeStep
<1>1. ASSUME NEW p \in Paths, NEW o \in Objects \cup {Nil}, RemoteChange(p, o)
      PROVE  Waits' /\ InHand'
  BY <1>1 DEF RemoteChange, CalendarIInv, Waits, InHand
<1>2. ASSUME NEW u \in Uids, NEW c \in Contents \cup {Deleted}, Edit(u, c) PROVE Waits' /\ InHand'
  <2>1. link[u] \in Links /\ link[u] # Nil
    BY <1>2 DEF Edit, CalendarIInv, CalendarTypeOK
  <2>2. /\ link' = [link EXCEPT ![u] = [link[u] EXCEPT !.activity = c, !.pending = TRUE]]
        /\ mine' = [mine EXCEPT ![u] = IF c = Deleted THEN Nil ELSE c]
        /\ raced' = IF run # Nil /\ run.at = u THEN raced \cup {u} ELSE raced \ {u}
        /\ UNCHANGED <<twoWay, run>>
    BY <1>2 DEF Edit
  <2>3. [link[u] EXCEPT !.activity = c, !.pending = TRUE] \in Links
    BY <2>1 DEF Links
  <2>4. link'[u] # Nil /\ link'[u].activity = c /\ link'[u].pending
    BY <2>1, <2>2, <2>3 DEF CalendarIInv, CalendarTypeOK, Links
  <2>5. \A v \in Uids \ {u} : /\ link'[v] = link[v] /\ mine'[v] = mine[v]
                              /\ v \in raced' <=> v \in raced
    BY <2>2 DEF CalendarIInv, CalendarTypeOK
  <2>6. mine'[u] # Nil => mine'[u] = c
    BY <2>2 DEF CalendarIInv, CalendarTypeOK
  <2>7. Waits'
    BY <2>2, <2>4, <2>5, <2>6 DEF CalendarIInv, Waits
  <2>8. run # Nil => run.at \in Uids \cup {Nil} /\ run.todo \subseteq Uids
    BY DEF CalendarIInv, CalendarTypeOK, Runs
  <2>9. InHand'
    BY <2>2, <2>4, <2>5, <2>8 DEF CalendarIInv, InHand
  <2> QED BY <2>7, <2>9
<1>3. ASSUME NEW scheduled \in BOOLEAN, StartRun(scheduled) PROVE Waits' /\ InHand'
  BY <1>3 DEF StartRun, CalendarIInv, Waits, InHand
<1>4. CASE Fetch
  <2>1. run \in Runs /\ run # Nil /\ run.phase = "fetch"
    BY <1>4 DEF Fetch, InPhase, CalendarIInv, CalendarTypeOK
  <2>2. /\ run'.phase = "import" /\ run'.at = run.at /\ run'.put = run.put
        /\ run'.todo = run.todo /\ run'.copy = run.copy
        /\ UNCHANGED <<twoWay, link, mine, raced>>
    BY <1>4, <2>1 DEF Fetch, Runs
  <2> QED BY <1>0, <2>1, <2>2 DEF CalendarIInv, Waits, InHand
<1>5. CASE Import
  <2>1. Waits'
    BY <1>5, ImportKeepsWaiting
  <2>2. run # Nil /\ run \in Runs /\ run.phase = "import" /\ run.at = Nil /\ ~run.put
    BY <1>5, ImportMakes DEF CalendarIInv, InHand
  <2>3. run' = AfterImport(link') /\ twoWay' = twoWay
    BY <1>5 DEF Import
  <2>4. InHand'
    <3>1. CASE ~twoWay
      BY <2>3, <3>1 DEF AfterImport, InHand
    <3>2. CASE twoWay
      <4>1. PICK todo \in SUBSET Uids : todo = {u \in Uids : link'[u] # Nil}
        OBVIOUS
      <4>2. run' = [run EXCEPT !.phase = "push", !.events = NoEvents, !.todo = todo]
        BY <2>3, <3>2, <4>1 DEF AfterImport
      <4>3. run'.at = Nil /\ ~run'.put /\ run'.todo = todo
        BY <2>2, <4>2 DEF Runs
      <4> QED BY <2>3, <3>2, <4>1, <4>3 DEF InHand
    <3> QED BY <3>1, <3>2
  <2> QED BY <1>0, <2>1, <2>4 DEF CalendarIInv
<1>6. ASSUME NEW u \in Uids, TakeLink(u) PROVE Waits' /\ InHand'
  <2>1. run \in Runs /\ run # Nil /\ run.phase = "push" /\ run.at = Nil /\ u \in run.todo
    BY <1>6 DEF TakeLink, InPhase, CalendarIInv, CalendarTypeOK
  <2>2. twoWay /\ ~run.put /\ link[u] # Nil /\ \A v \in run.todo : link[v] # Nil
    BY <2>1 DEF CalendarIInv, InHand
  <2>3. UNCHANGED <<twoWay, link, mine, raced>>
    BY <1>6 DEF TakeLink
  <2>4. Waits'
    BY <2>3 DEF CalendarIInv, Waits
  <2>5. /\ run'.phase = "push" /\ run'.put = run.put /\ run'.todo = run.todo \ {u}
        /\ run'.at \in {u, Nil}
        /\ run'.at = u => link[u].activity # Deleted /\ run'.copy = link[u].activity
    BY <1>6, <2>1 DEF TakeLink, Runs
  <2>6. link[u].activity \in Contents \cup {Deleted}
    BY <2>2 DEF CalendarIInv, CalendarTypeOK, Links
  <2>7. InHand'
    BY <2>2, <2>3, <2>5, <2>6 DEF CalendarIInv, Waits, InHand
  <2> QED BY <2>4, <2>7
<1>7. ASSUME NEW u \in Uids, Put(u) PROVE Waits' /\ InHand'
  <2>1. run \in Runs /\ run # Nil /\ run.at = u /\ ~run.put /\ run.phase = "push"
    BY <1>7 DEF Put, InPhase, CalendarIInv, CalendarTypeOK
  <2>2. /\ mine' = [mine EXCEPT ![u] = IF mine[u] = run.copy THEN Nil ELSE mine[u]]
        /\ UNCHANGED <<twoWay, link, raced>>
    BY <1>7 DEF Put
  <2>3. /\ run'.phase = run.phase /\ run'.at = run.at /\ run'.todo = run.todo
        /\ run'.copy = run.copy
    BY <1>7, <2>1 DEF Put, Runs
  <2>4. u \notin raced => mine'[u] = Nil
    BY <2>1, <2>2 DEF CalendarIInv, CalendarTypeOK, InHand
  <2>5. Waits'
    BY <2>2 DEF CalendarIInv, CalendarTypeOK, Waits
  <2>6. InHand'
    BY <2>1, <2>2, <2>3, <2>4 DEF CalendarIInv, InHand
  <2> QED BY <2>5, <2>6
<1>8. CASE MarkPushed
  <2> DEFINE u == run.at
  <2>1. run \in Runs /\ run # Nil /\ u # Nil /\ run.put /\ run.phase = "push"
    BY <1>8 DEF MarkPushed, InPhase, Answered, CalendarIInv, CalendarTypeOK
  <2>2. /\ link' = [link EXCEPT ![u].hash = run.copy, ![u].pending = FALSE]
        /\ UNCHANGED <<twoWay, mine, raced>>
    BY <1>8 DEF MarkPushed
  <2>3. /\ run'.phase = run.phase /\ run'.at = Nil /\ ~run'.put /\ run'.todo = run.todo
    BY <1>8, <2>1 DEF MarkPushed, Runs
  <2>4. u \in Uids /\ link[u] \in Links /\ (u \notin raced => mine[u] = Nil)
    BY <2>1 DEF CalendarIInv, CalendarTypeOK, InHand, Runs
  <2>5. \A v \in Uids \ {u} : link'[v] = link[v]
    BY <2>2, <2>4 DEF CalendarIInv, CalendarTypeOK
  <2>6. link'[u] # Nil
    <3>1. [link[u] EXCEPT !.hash = run.copy, !.pending = FALSE] \in Links
      <4>1. run.copy \in Contents
        BY <2>1 DEF CalendarIInv, InHand
      <4> QED BY <2>4, <4>1 DEF Links
    <3>2. link' = [link EXCEPT ![u] = [link[u] EXCEPT !.hash = run.copy, !.pending = FALSE]]
      BY <2>2
    <3> QED BY <2>4, <3>1, <3>2 DEF CalendarIInv, CalendarTypeOK
  <2> HIDE DEF u
  <2>7. Waits'
    BY <2>2, <2>4, <2>5 DEF CalendarIInv, Waits
  <2>8. InHand'
    <3>1. run.todo \subseteq Uids
      BY <2>1 DEF Runs
    <3> QED BY <2>1, <2>2, <2>3, <2>5, <2>6, <3>1 DEF CalendarIInv, InHand
  <2> QED BY <1>0, <2>7, <2>8 DEF CalendarIInv
<1>9. CASE Finish \/ \E forGood \in BOOLEAN : Fail(forGood)
  BY <1>0, <1>9 DEF Finish, Fail, CalendarIInv, Waits, InHand
<1>10. CASE UNCHANGED calendarVars
  BY <1>0, <1>10 DEF calendarVars, CalendarIInv, Waits, InHand
<1> QED BY <1>0, <1>1, <1>2, <1>3, <1>4, <1>5, <1>6, <1>7, <1>8, <1>9, <1>10
        DEF CalendarIInv, CalendarNext, RunStep

(* A link is pushed and marked only with what its activity was. *)
THEOREM CalendarInvariance == CalendarSpec => []CalendarIInv
<1>1. CalendarInit => CalendarIInv
  <2> SUFFICES ASSUME CalendarInit PROVE CalendarIInv
    OBVIOUS
  <2>1. CalendarTypeOK
    <3>1. twoWay \in BOOLEAN /\ terminal \in BOOLEAN
      BY DEF CalendarInit
    <3>2. /\ remote \in [Paths -> Objects \cup {Nil}] /\ link \in [Uids -> Links \cup {Nil}]
          /\ run = Nil /\ mine \in [Uids -> Contents \cup {Nil}] /\ raced = {}
          /\ remoteChanges = 0 /\ edits = 0 /\ fails = 0
      BY DEF CalendarInit, NoEvents
    <3> QED BY <3>1, <3>2, CalendarAssumption DEF CalendarTypeOK
  <2>2. Waits /\ InHand
    BY DEF CalendarInit, Waits, InHand, NoEvents
  <2> QED BY <2>1, <2>2 DEF CalendarIInv
<1> QED BY <1>1, CalendarStep, PTL DEF CalendarSpec

(* Links, runs and the calendar have their types. *)
THEOREM CalendarTypes == CalendarSpec => []CalendarTypeOK
<1>1. CalendarIInv => CalendarTypeOK
  BY DEF CalendarIInv
<1> QED BY CalendarInvariance, <1>1, PTL

(* An edit the calendar has not got is kept, and waits to be pushed, unless it
   raced its push or its link was taken over. *)
THEOREM PendingEditsWait == CalendarSpec => []EditsWait
<1>1. CalendarIInv => EditsWait
  BY DEF CalendarIInv, Waits, EditsWait
<1> QED BY CalendarInvariance, <1>1, PTL
=============================================================================
