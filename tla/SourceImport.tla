---------------------------- MODULE SourceImport ----------------------------
(***************************************************************************)
(* The assistants that import a whole account of another system: wizard     *)
(* sessions that live in memory, the goroutines that fetch the account and  *)
(* apply it, and the ledger import_source_links that keeps two imports of   *)
(* the same account apart.  The Monica assistant has every step below; the  *)
(* Meerkat assistant is the case Photos = {}.                               *)
(*                                                                         *)
(* The account is given by its contacts and by the records that hang on     *)
(* them.  A transaction holds SQLite's write lock from its start (BEGIN     *)
(* IMMEDIATE), so what it does is one step.                                 *)
(***************************************************************************)
EXTENDS Naturals, FiniteSets

CONSTANTS
    Sessions,       \* wizard sessions of one user, used once each
    Jobs,           \* bound: requests and goroutines that are under way at a time
    Nobody,         \* no job, no session
    MaxPerUser,     \* MaxMonicaImportSessionsPerUser
    Contacts,       \* the contacts of the account
    Matched,        \* the contact that looks like a local one
    Photos,         \* the contacts with a picture to download
    Edges,          \* relationships: both ends are needed
    Notes,          \* notes, reminders, gifts, preferences, custom values: of one contact
    Activities,     \* some attendee is needed
    Groups,         \* households, circles and tags: made with the members there are
    Ends,           \* the contacts a record refers to
    Fallible        \* bound: the rows that an import may have to refuse

Records == Edges \cup Notes \cup Activities \cup Groups
SourceRows == Contacts \cup Records

(* A record that is not a group refers to some contact; every kind has identities *)
(* of its own ("contact/7", "note/12").                                            *)
ASSUME AccountAssumption == /\ Matched \in Contacts /\ Photos \subseteq Contacts
                            /\ Ends \in [Records -> SUBSET Contacts]
                            /\ \A r \in Records \ Groups : Ends[r] # {}
                            /\ Nobody \notin Jobs \cup Sessions
                            /\ Contacts \cap Records = {}
                            /\ Edges \cap (Notes \cup Activities \cup Groups) = {}
                            /\ Notes \cap (Activities \cup Groups) = {} /\ Activities \cap Groups = {}
                            /\ Fallible \subseteq SourceRows \ Groups
                            /\ MaxPerUser \in Nat \ {0}

VARIABLES
    session,        \* the manager's map of sessions
    job,            \* what each request and goroutine is at
    links,          \* rows of import_source_links
    landed,         \* how often a source row was created or merged
    members,        \* contacts of a group, as it was created
    report,         \* of each goroutine: the issues of the import it has committed
    result,         \* of each session: what its wizard shows of the last import
    target,         \* the local contact that Matched looks like
    resurrected     \* whether a merge wrote to the target after its deletion

database == <<links, landed, members, resurrected>>
data == <<database, report, result>>
vars == <<session, job, target, data>>

Phases == {"connecting", "fetching", "ready", "importing", "importing_photos",
           "done", "cancelled", "failed"}

(* Where the session is; its phase; whether it holds a plan; whether the preview *)
(* found the local contact; the goroutine that its cancel function reaches;      *)
(* whether an import of it has written anything.                                 *)
SessionRows == [at : {"none", "checked", "live", "gone"}, phase : Phases, plan : BOOLEAN,
                match : BOOLEAN, cancel : Jobs \cup {Nobody}, wrote : BOOLEAN]

Actions == {"add", "skip", "update"}

JobRows == [at : {"idle", "fetch", "resolve", "import", "commit", "photos"},
            session : Sessions \cup {Nobody}, acts : [Contacts -> Actions], cancelled : BOOLEAN,
            photos : BOOLEAN]

Categories == {"invalid", "unsupported", "skipped"}

(* A contact or record, and what became of it. *)
Issues == SourceRows \X Categories

(* What the user asked an import to add or merge; the rows that are named in the
   end. *)
Results == [asked : SUBSET Contacts, errors : SUBSET SourceRows]

TypeOK == /\ session \in [Sessions -> SessionRows]
          /\ job \in [Jobs -> JobRows]
          /\ links \subseteq SourceRows
          /\ landed \in [SourceRows -> Nat]
          /\ members \in [Groups -> SUBSET Contacts]
          /\ report \in [Jobs -> SUBSET Issues]
          /\ result \in [Sessions -> Results]
          /\ target \in {"live", "deleted"}
          /\ resurrected \in BOOLEAN

-----------------------------------------------------------------------------
NoSession == [at |-> "none", phase |-> "connecting", plan |-> FALSE, match |-> FALSE,
              cancel |-> Nobody, wrote |-> FALSE]

Idle == [at |-> "idle", session |-> Nobody,
         acts |-> [c \in Contacts |-> "skip"], cancelled |-> FALSE, photos |-> FALSE]

Init == /\ session = [s \in Sessions |-> NoSession]
        /\ job = [j \in Jobs |-> Idle]
        /\ links = {}
        /\ report = [j \in Jobs |-> {}]
        /\ result = [s \in Sessions |-> [asked |-> {}, errors |-> {}]]
        /\ landed = [x \in SourceRows |-> 0]
        /\ members = [r \in Groups |-> {}]
        /\ target = "live" /\ resurrected = FALSE

Live(s) == session[s].at = "live"
Of(j) == job[j].session

(* A goroutine keeps its session after the manager dropped it: what it writes *)
(* there nobody reads.                                                        *)
SetPhase(s, phase) == IF Live(s) THEN [session EXCEPT ![s].phase = phase] ELSE session

(* No session refers to a goroutine that has ended. *)
Forget(j, sessions) ==
    [s \in Sessions |-> IF sessions[s].cancel = j
                        THEN [sessions[s] EXCEPT !.cancel = Nobody] ELSE sessions[s]]

End(j) == job' = [job EXCEPT ![j] = Idle]

CancelContext(s) == job' = [j \in Jobs |-> IF j = session[s].cancel
                                           THEN [job[j] EXCEPT !.cancelled = TRUE]
                                           ELSE job[j]]

CountActive == Cardinality({s \in Sessions : Live(s)})

-----------------------------------------------------------------------------
(* Connect and Upload: the limit is checked, the account is probed (up to 150 *)
(* seconds) or the file is parsed, and then the session is stored.            *)
CheckLimit(s) == /\ session[s].at = "none"
                 /\ CountActive < MaxPerUser
                 /\ session' = [session EXCEPT ![s].at = "checked"]
                 /\ UNCHANGED <<job, target, data>>

Connect(s) == /\ session[s].at = "checked"
              /\ \E outcome \in {"live", "gone"} :
                    session' = [session EXCEPT ![s].at = outcome]
              /\ UNCHANGED <<job, target, data>>

StartFetch(s, j) == /\ Live(s) /\ job[j].at = "idle"
                    /\ session[s].phase \in {"connecting", "failed"}
                    /\ session' = [session EXCEPT ![s].phase = "fetching",
                                                  ![s].plan = FALSE, ![s].cancel = j]
                    /\ job' = [job EXCEPT ![j] = [Idle EXCEPT !.at = "fetch", !.session = s]]
                    /\ UNCHANGED <<target, data>>

(* The next kind of record, or the preview, is begun. *)
FetchProgress(j) == /\ job[j].at = "fetch"
                    /\ session' = SetPhase(Of(j), "fetching")
                    /\ UNCHANGED <<job, target, data>>

(* Nothing stops a fetch any more once the last record has come. *)
FetchReady(j) == LET s == Of(j) IN
    /\ job[j].at = "fetch"
    /\ session' = IF ~Live(s) THEN session
                  ELSE Forget(j, [session EXCEPT ![s].phase = "ready", ![s].plan = TRUE,
                                                 ![s].match = (target = "live")])
    /\ End(j)
    /\ UNCHANGED <<target, data>>

(* A cancelled fetch leaves without a word. *)
FetchFails(j) == /\ job[j].at = "fetch"
                 /\ session' = Forget(j, IF job[j].cancelled THEN session
                                         ELSE SetPhase(Of(j), "failed"))
                 /\ End(j)
                 /\ UNCHANGED <<target, data>>

-----------------------------------------------------------------------------
(* Preview and Confirm require the same of a session. *)
Confirmable(s) == session[s].phase = "ready" /\ session[s].plan

(* A row that looks like nothing local is not offered as an update. *)
Choices == {acts \in [Contacts -> Actions] : \A c \in Contacts \ {Matched} : acts[c] # "update"}

(* Confirm looks at the session under its mutex and lets go of it ... *)
Confirm(s, j) == /\ Live(s) /\ job[j].at = "idle"
                 /\ Confirmable(s)
                 /\ \E acts \in Choices :
                       job' = [job EXCEPT ![j] = [Idle EXCEPT !.at = "resolve", !.session = s,
                                                              !.acts = acts]]
                 /\ UNCHANGED <<session, target, data>>

(* What is not known to match is added. *)
Resolve(acts, match) == [c \in Contacts |->
    IF acts[c] = "update" /\ ~match THEN "add" ELSE acts[c]]

(* ... resolves what the user chose, takes the mutex again and starts the import. *)
StartImport(j) == LET s == Of(j) IN
    /\ job[j].at = "resolve"
    /\ session' = IF Live(s)
                  THEN [session EXCEPT ![s].phase = "importing", ![s].cancel = j]
                  ELSE session
    /\ job' = [job EXCEPT ![j].at = "import",
                          ![j].acts = Resolve(@, session[s].match /\ target = "live")]
    /\ UNCHANGED <<target, data>>

(* The database does not answer: Confirm does. *)
ResolveFails(j) == /\ job[j].at = "resolve"
                   /\ End(j)
                   /\ UNCHANGED <<session, target, data>>

-----------------------------------------------------------------------------
(* A merge needs its local contact, at the time of the import. *)
MergeLands(c) == target = "live"

(* Pass 1: the contacts that get a local row, when the ledger shows seen and *)
(* those in bad are not valid or cannot be stored.                           *)
ContactsOf(acts, seen, bad) == {c \in Contacts \ (seen \cup bad) :
    \/ acts[c] = "add"
    \/ acts[c] = "update" /\ MergeLands(c)}

(* Mutant: a relationship is made when one of its ends has landed. *)
EdgesOfAny(got, seen, bad) == {r \in Edges \ (seen \cup bad) : Ends[r] \cap got # {}}

(* Pass 2: what hangs on them.  A relationship may exist already, the date of *)
(* a note or activity may not be readable.                                    *)
EdgesOf(got, seen, bad) == {r \in Edges \ (seen \cup bad) : Ends[r] \subseteq got}
NotesOf(got, seen, bad) == {r \in Notes \ (seen \cup bad) : Ends[r] \subseteq got}
ActivitiesOf(got, seen, bad) == {r \in Activities \ (seen \cup bad) : Ends[r] \cap got # {}}
GroupsOf(seen) == Groups \ seen

RecordsOf(got, seen, bad) == EdgesOf(got, seen, bad) \cup NotesOf(got, seen, bad)
                             \cup ActivitiesOf(got, seen, bad) \cup GroupsOf(seen)

(* Mutant: nothing is said of a merge that finds no local contact. *)
NotAdded(acts, got, seen) == {c \in Contacts \ (seen \cup got) : acts[c] = "add"}

(* Contacts that are not valid, cannot be stored, or have nothing to merge with. *)
NotLanded(acts, got, seen) == {c \in Contacts \ (seen \cup got) : acts[c] # "skip"}

(* uidOf: records that refer to a contact that this run has not imported. *)
Lost(got, seen) == {r \in Records \ seen : ~(Ends[r] \subseteq got)}

(* The report of the engine. *)
ReportOf(acts, got, seen, bad) ==
    LET lost == Lost(got, seen)
        refused == (bad \cap (Activities \ seen)) \cup (bad \cap (Notes \ (seen \cup lost)))
        skipped == seen \cup {c \in Contacts : acts[c] = "skip"} \cup (bad \cap Edges)
    IN  ((NotLanded(acts, got, seen) \cup refused) \X {"invalid"})
        \cup (lost \X {"unsupported"})
        \cup (skipped \X {"skipped"})

(* sourceImportResultFromReport: the wizard names what was rejected, and nothing
   else of the report. *)
Errors(issues) == {x \in SourceRows : <<x, "invalid">> \in issues}

(* Mutant: a merge leaves no row in the ledger. *)
LinksOfAdds(acts, got, made) == {c \in got : acts[c] = "add"} \cup made

(* Rows of the ledger that the transaction adds: one per row it created or merged. *)
LinksOf(acts, got, made) == got \cup made

(* The whole import in one transaction.  The ledger may not load, which reads as *)
(* empty; its unique index then refuses a second link and all is rolled back.    *)
Apply(j, seen, bad) ==
    LET s == Of(j)
        got == ContactsOf(job[j].acts, seen, bad)
        made == RecordsOf(got, seen, bad)
        new == LinksOf(job[j].acts, got, made)
    IN /\ job[j].at = "import" /\ ~job[j].cancelled
       /\ new \cap links = {}
       /\ links' = links \cup new
       /\ landed' = [x \in SourceRows |-> IF x \in got \cup made THEN landed[x] + 1 ELSE landed[x]]
       /\ members' = [r \in Groups |-> IF r \in made THEN Ends[r] \cap got ELSE members[r]]
       /\ report' = [report EXCEPT ![j] = ReportOf(job[j].acts, got, seen, bad)]
       /\ resurrected' = (resurrected \/
                          (target = "deleted" /\ \E c \in got : job[j].acts[c] = "update"))
       /\ session' = IF Live(s) /\ new # {} THEN [session EXCEPT ![s].wrote = TRUE] ELSE session
       /\ job' = [job EXCEPT ![j].at = "commit", ![j].photos = (got \cap Photos # {})]
       /\ UNCHANGED <<target, result>>

ApplyPlan(j) == \E seen \in {links, {}} :
                \E bad \in SUBSET Fallible : Apply(j, seen, bad)

(* The transaction was rolled back: cancelled, or for an error of its own. *)
ImportFails(j) ==
    /\ job[j].at = "import"
    /\ session' = Forget(j, SetPhase(Of(j), IF job[j].cancelled THEN "cancelled" ELSE "failed"))
    /\ End(j)
    /\ UNCHANGED <<target, data>>

(* Mutant: the phase waits for pictures that nobody downloads. *)
PhaseWithPhotos(j) == "importing_photos"

(* After the commit the plan is dropped; pictures are downloaded in a goroutine *)
(* that no cancel function reaches.                                             *)
PhaseAfter(j) == IF job[j].photos THEN "importing_photos" ELSE "done"

(* The contacts that a goroutine is to add or merge. *)
Asked(j) == {c \in Contacts : job[j].acts[c] # "skip"}

FinishImport(j) == LET s == Of(j) IN
    /\ job[j].at = "commit"
    /\ session' = Forget(j, IF ~Live(s) THEN session
                            ELSE [session EXCEPT ![s].phase = PhaseAfter(j), ![s].plan = FALSE])
    /\ job' = [job EXCEPT ![j] = IF job[j].photos
                                 THEN [Idle EXCEPT !.at = "photos", !.session = s] ELSE Idle]
    /\ result' = [result EXCEPT ![s] = [asked |-> Asked(j), errors |-> Errors(report[j])]]
    /\ report' = [report EXCEPT ![j] = {}]
    /\ UNCHANGED <<target, database>>

FinishPhotos(j) == /\ job[j].at = "photos"
                   /\ session' = SetPhase(Of(j), "done")
                   /\ End(j)
                   /\ UNCHANGED <<target, data>>

-----------------------------------------------------------------------------
InFlight(s) == session[s].phase \in {"importing", "importing_photos"}

Drop(s) == [session EXCEPT ![s] = [NoSession EXCEPT !.at = "gone"]]

Cancel(s) == /\ Live(s)
             /\ session' = IF InFlight(s) THEN [session EXCEPT ![s].phase = "cancelled"] ELSE Drop(s)
             /\ CancelContext(s)
             /\ UNCHANGED <<target, data>>

(* CleanupExpired, or the request that finds the session expired. *)
Expire(s) == /\ Live(s)
             /\ session' = Drop(s)
             /\ CancelContext(s)
             /\ UNCHANGED <<target, data>>

DeleteTarget == /\ target = "live"
                /\ target' = "deleted"
                /\ UNCHANGED <<session, job, data>>

(* A process that ends takes its sessions and goroutines along. *)
Restart == /\ session' = [s \in Sessions |-> IF session[s].at = "none" THEN NoSession
                                             ELSE [NoSession EXCEPT !.at = "gone"]]
           /\ job' = [j \in Jobs |-> Idle]
           /\ report' = [j \in Jobs |-> {}]
           /\ UNCHANGED <<target, result, database>>

JobStep(j) == \/ FetchReady(j) \/ FetchFails(j)
              \/ StartImport(j) \/ ResolveFails(j)
              \/ ApplyPlan(j) \/ ImportFails(j)
              \/ FinishImport(j) \/ FinishPhotos(j)

Next == \/ \E s \in Sessions : CheckLimit(s) \/ Connect(s) \/ Cancel(s) \/ Expire(s)
        \/ \E s \in Sessions, j \in Jobs : StartFetch(s, j) \/ Confirm(s, j)
        \/ \E j \in Jobs : FetchProgress(j) \/ JobStep(j)
        \/ DeleteTarget \/ Restart

(* Goroutines run to their end: every request to another server has a timeout, *)
(* and a picture that does not come is counted and passed over.                *)
Spec == Init /\ [][Next]_vars /\ \A j \in Jobs : WF_vars(JobStep(j))
-----------------------------------------------------------------------------
(* However confirmations, cancellations, restarts and repeated imports of the *)
(* account fall together, a source row is created or merged at most once.     *)
ImportedOnce == \A x \in SourceRows : landed[x] <= 1

(* The ledger names the rows that have landed and no other: what failed or was *)
(* left out can still come with a later import.                                *)
LedgerIsTrue == links = {x \in SourceRows : landed[x] > 0}

(* No record is there without the contacts it is about. *)
NoOrphans == /\ \A r \in Edges \cup Notes : landed[r] > 0 => \A c \in Ends[r] : landed[c] > 0
             /\ \A r \in Activities : landed[r] > 0 => \E c \in Ends[r] : landed[c] > 0
             /\ \A r \in Groups : \A c \in members[r] : landed[c] > 0

(* Every contact that the user asked a finished import to add or merge is in the *)
(* ledger, or the result names it: a merge target that was deleted since the      *)
(* preview, a refused row or an import that overlaps leave none unmentioned.      *)
NoContactIsDropped == \A s \in Sessions : result[s].asked \subseteq links \cup result[s].errors

(* A local contact that was deleted between the review and the import is not *)
(* written again.                                                            *)
NoResurrection == ~resurrected

(* All goroutines of a live wizard have ended. *)
AtRest(s) == Live(s) /\ \A j \in Jobs : job[j].at # "idle" => Of(j) # s

(* An import that was begun comes to an end that the wizard is told of, or the *)
(* session is gone.                                                            *)
ImportSettles == \A s \in Sessions :
    (Live(s) /\ session[s].phase = "importing")
        ~> (~Live(s) \/ session[s].phase \in {"done", "cancelled", "failed"})

(* Promised: the limit on sessions holds. *)
SessionsBounded == CountActive <= MaxPerUser

(* Promised: when an import is cancelled, nothing of it is there.  What is said *)
(* between a commit and its change of phase does not count.                     *)
CancelledCommitsNothing == \A s \in Sessions :
    /\ Live(s) /\ session[s].phase = "cancelled"
    /\ \A j \in Jobs : job[j].at = "commit" => Of(j) # s
    => ~session[s].wrote

(* Promised: the session is kept so that the user can confirm again. *)
CancelledIsRetryable == \A s \in Sessions :
    AtRest(s) /\ session[s].phase = "cancelled" => Confirmable(s)

(* Promised: "every loss" is reported.  So a relationship or a membership that is *)
(* missing between contacts that are there is named when the wizard is done.       *)
LossesAreShown == \A s \in Sessions :
    Live(s) /\ session[s].phase = "done" =>
        /\ \A r \in Edges : Ends[r] \subseteq links => r \in links \cup result[s].errors
        /\ \A r \in Groups \cap links :
              r \in result[s].errors \/ Ends[r] \cap links \subseteq members[r]
=============================================================================
