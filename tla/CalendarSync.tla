---------------------------- MODULE CalendarSync ----------------------------
(***************************************************************************)
(* Two-way sync of one calendar subscription (CalendarSyncService): a run   *)
(* fetches the events, imports them as activities in one transaction, and   *)
(* pushes local edits back with one PUT per activity, while the user edits  *)
(* activities and other clients change the calendar.                       *)
(*                                                                         *)
(* An event's content stands for the four fields that are imported and for  *)
(* their hash.  Of the times, only their order counts: an activity is       *)
(* pending when its updated_at is after that of its link.  A PUT with       *)
(* If-Match that is answered 412 is repeated without: whatever the remote   *)
(* holds is overwritten, so the two are one step.  A calendar that is       *)
(* fetched as one plain .ics file has no object paths and is never pushed;  *)
(* that fallback is left out.                                               *)
(***************************************************************************)
EXTENDS Naturals, FiniteSets

CONSTANTS
    Uids,          \* event UIDs
    Paths,         \* of the calendar objects, one event in each
    Contents,      \* of an event, and of an activity
    Nil,           \* no event, no link, no edit
    Deleted,       \* the activity the user deleted
    MaxRemote,     \* bound: changes by other clients of the calendar
    MaxEdits,      \* bound: changes by the user
    MaxFails       \* bound: runs that fail

VARIABLES
    twoWay,      \* CALDAV_TWO_WAY_ENABLED
    remote,      \* the objects of the calendar
    link,        \* CalendarEventLink of each uid, with its activity
    run,         \* the sync that holds the subscription's mutex
    terminal,    \* TerminalFailureAt: the scheduler leaves the subscription alone
    remoteChanges, edits, fails,
    mine,        \* the user's edit that the remote has not got yet
    raced        \* an edit came between the load and the mark of a push, or
                 \* was pending when the link was adopted by another uid

calendarVars == <<twoWay, remote, link, run, terminal, remoteChanges, edits, fails, mine, raced>>

Links == [hash : Contents,                       \* ContentHash
          path : Paths,                          \* RemotePath
          activity : Contents \cup {Deleted},
          pending : BOOLEAN]

Objects == [uid : Uids, content : Contents]

Events == [path : Paths, content : Contents]

RunPhases == {"fetch", "import", "push"}

Runs == [phase : RunPhases, events : [Uids -> Events \cup {Nil}],
         todo : SUBSET Uids,                     \* links to look at
         at : Uids \cup {Nil},                   \* the link that is pushed
         copy : Contents \cup {Nil},             \* its activity, as loaded
         put : BOOLEAN]                          \* the PUT was answered

ASSUME CalendarAssumption ==
    /\ MaxRemote \in Nat /\ MaxEdits \in Nat /\ MaxFails \in Nat
    /\ Deleted \notin Contents
    /\ Nil \notin Uids \cup Contents \cup {Deleted}
    /\ Nil \notin Events /\ Nil \notin Objects /\ Nil \notin Links /\ Nil \notin Runs

CalendarTypeOK == /\ twoWay \in BOOLEAN /\ terminal \in BOOLEAN
                  /\ remote \in [Paths -> Objects \cup {Nil}]
                  /\ link \in [Uids -> Links \cup {Nil}]
                  /\ run \in Runs \cup {Nil}
                  /\ remoteChanges \in 0 .. MaxRemote /\ edits \in 0 .. MaxEdits
                  /\ fails \in 0 .. MaxFails
                  /\ mine \in [Uids -> Contents \cup {Nil}]
                  /\ raced \subseteq Uids

NoEvents == [u \in Uids |-> Nil]
Present(events) == {u \in Uids : events[u] # Nil}

-----------------------------------------------------------------------------
UidsOf(objects) == {objects[p].uid : p \in {q \in Paths : objects[q] # Nil}}

(* A calendar that was not synced yet. *)
CalendarInit == /\ twoWay \in BOOLEAN
                /\ remote \in [Paths -> Objects \cup {Nil}]
                /\ \A p, q \in Paths : p # q /\ remote[p] # Nil /\ remote[q] # Nil
                                        => remote[p].uid # remote[q].uid
                /\ link = NoEvents
                /\ run = Nil
                /\ terminal = FALSE
                /\ remoteChanges = 0 /\ edits = 0 /\ fails = 0
                /\ mine = NoEvents /\ raced = {}

(* Another client writes or removes an event; a calendar that is generated
   gives it a UID that was never used. *)
RemoteChange(p, o) ==
    /\ remoteChanges < MaxRemote
    /\ remote[p] # Nil /\ o # remote[p]
    /\ o # Nil /\ o.uid # remote[p].uid => o.uid \notin UidsOf(remote) /\ link[o.uid] = Nil
    /\ remoteChanges' = remoteChanges + 1
    /\ remote' = [remote EXCEPT ![p] = o]
    /\ UNCHANGED <<twoWay, link, run, terminal, edits, fails, mine, raced>>

(* The user edits an activity, be it only its participants, or deletes it. *)
Edit(u, c) ==
    /\ edits < MaxEdits
    /\ link[u] # Nil /\ link[u].activity # Deleted
    /\ edits' = edits + 1
    /\ link' = [link EXCEPT ![u].activity = c, ![u].pending = TRUE]
    /\ mine' = [mine EXCEPT ![u] = IF c = Deleted THEN Nil ELSE c]
    /\ raced' = IF run # Nil /\ run.at = u THEN raced \cup {u} ELSE raced \ {u}
    /\ UNCHANGED <<twoWay, remote, run, terminal, remoteChanges, fails>>

-----------------------------------------------------------------------------
(* SyncSubscription.  SyncAllCalendars leaves out a subscription in terminal
   failure; the user's "sync now" does not. *)
StartRun(scheduled) ==
    /\ run = Nil
    /\ scheduled => ~terminal
    /\ run' = [phase |-> "fetch", events |-> NoEvents, todo |-> {}, at |-> Nil,
               copy |-> Nil, put |-> FALSE]
    /\ UNCHANGED <<twoWay, remote, link, terminal, remoteChanges, edits, fails, mine, raced>>

InPhase(p) == run # Nil /\ run.phase = p

(* fetchEvents *)
Fetched == [u \in Uids |->
    IF u \notin UidsOf(remote) THEN Nil
    ELSE LET p == CHOOSE q \in Paths : remote[q] # Nil /\ remote[q].uid = u
         IN  [path |-> p, content |-> remote[p].content]]

Fetch == /\ InPhase("fetch")
         /\ run' = [run EXCEPT !.phase = "import", !.events = Fetched]
         /\ UNCHANGED <<twoWay, remote, link, terminal, remoteChanges, edits, fails, mine, raced>>

(* Mutant: remote wins. *)
RemoteWins(l) == FALSE

(* The both-changed conflict: the local edit wins. *)
LocalWins(l) == twoWay /\ l.pending

NewLink(e) == [hash |-> e.content, path |-> e.path, activity |-> e.content, pending |-> FALSE]

(* What a fetched event makes of its link and activity. *)
Updated(l, e) ==
    IF l.hash = e.content \/ l.activity = Deleted \/ LocalWins(l) THEN l ELSE NewLink(e)

Linked == {u \in Uids : link[u] # Nil}
New == Present(run.events) \ Linked

(* Links an event under a new UID may take over: same content, UID not in the feed. *)
Adoptable(u) == {v \in Linked \ Present(run.events) : link[v].hash = run.events[u].content}

(* Which link each new event takes over, Nil if none is left for it. *)
Adoptions == {from \in [New -> Uids \cup {Nil}] :
    \A u \in New :
        /\ from[u] # Nil => from[u] \in Adoptable(u) /\ \A v \in New \ {u} : from[v] # from[u]
        /\ from[u] = Nil => Adoptable(u) \subseteq {from[v] : v \in New}}

(* The import is followed by the push, if that is enabled. *)
AfterImport(ls) == IF ~twoWay THEN Nil
                   ELSE [run EXCEPT !.phase = "push", !.events = NoEvents,
                                    !.todo = {u \in Uids : ls[u] # Nil}]

(* importEvents, one transaction: an event with a link updates it; an event
   without takes over a link, whose updated_at that sets, or makes an activity. *)
Import ==
    /\ InPhase("import")
    /\ \E from \in Adoptions :
         LET taken == {from[u] : u \in New} \ {Nil}
             adopts(u) == u \in New /\ from[u] # Nil
             kept(u) == u \in Linked \ taken
         IN  /\ link' = [u \in Uids |->
                   IF adopts(u) THEN [link[from[u]] EXCEPT !.pending = FALSE]
                   ELSE IF u \in New THEN NewLink(run.events[u])
                   ELSE IF ~kept(u) THEN Nil
                   ELSE IF run.events[u] # Nil THEN Updated(link[u], run.events[u]) ELSE link[u]]
             /\ mine' = [u \in Uids |-> IF adopts(u) THEN mine[from[u]]
                                        ELSE IF kept(u) THEN mine[u] ELSE Nil]
             /\ raced' = (raced \ taken) \cup
                   {u \in New : adopts(u) /\ (link[from[u]].pending \/ from[u] \in raced)}
    /\ run' = AfterImport(link')
    /\ terminal' = (run' # Nil /\ terminal)
    /\ UNCHANGED <<twoWay, remote, remoteChanges, edits, fails>>

-----------------------------------------------------------------------------
(* pushLocalEdits looks at the next link: a deleted activity and one that is
   not pending are passed over. *)
TakeLink(u) ==
    LET l == link[u]
        push == l.activity # Deleted /\ l.pending
    IN  /\ InPhase("push")
        /\ run.at = Nil /\ u \in run.todo
        /\ run' = [run EXCEPT !.todo = @ \ {u}, !.at = IF push THEN u ELSE Nil,
                              !.copy = IF push THEN l.activity ELSE Nil]
        /\ UNCHANGED <<twoWay, remote, link, terminal, remoteChanges, edits, fails, mine, raced>>

(* putCalendarObject: the remote holds the activity as it was loaded, also when
   another client removed the event in the meantime. *)
Put(u) == /\ InPhase("push")
          /\ run.at = u /\ ~run.put
          /\ remote' = [remote EXCEPT ![link[u].path] = [uid |-> u, content |-> run.copy]]
          /\ mine' = [mine EXCEPT ![u] = IF @ = run.copy THEN Nil ELSE @]
          /\ run' = [run EXCEPT !.put = TRUE]
          /\ UNCHANGED <<twoWay, link, terminal, remoteChanges, edits, fails, raced>>

(* Mutant: the link is marked although nothing was put. *)
Unanswered == run.at # Nil

Answered == run.at # Nil /\ run.put

(* Save(link): the hash of what was pushed; updated_at becomes now. *)
MarkPushed ==
    LET u == run.at
    IN  /\ InPhase("push")
        /\ Answered
        /\ link' = [link EXCEPT ![u].hash = run.copy, ![u].pending = FALSE]
        /\ run' = [run EXCEPT !.at = Nil, !.copy = Nil, !.put = FALSE]
        /\ UNCHANGED <<twoWay, remote, terminal, remoteChanges, edits, fails, mine, raced>>

(* The run is recorded as a success, which lifts the terminal state. *)
Finish == /\ InPhase("push")
          /\ run.at = Nil /\ run.todo = {}
          /\ run' = Nil
          /\ terminal' = FALSE
          /\ UNCHANGED <<twoWay, remote, link, remoteChanges, edits, fails, mine, raced>>

(* A request fails, for now or for good, the transaction fails, or the process
   dies: the rest of the run does not happen. *)
Fail(forGood) == /\ run # Nil
                 /\ fails < MaxFails
                 /\ fails' = fails + 1
                 /\ run' = Nil
                 /\ terminal' = (terminal \/ forGood)
                 /\ UNCHANGED <<twoWay, remote, link, remoteChanges, edits, mine, raced>>

RunStep == \/ \E u \in Uids : TakeLink(u) \/ Put(u)
           \/ Fetch \/ Import \/ MarkPushed \/ Finish

CalendarNext == \/ \E p \in Paths, o \in Objects \cup {Nil} : RemoteChange(p, o)
                \/ \E u \in Uids, c \in Contents \cup {Deleted} : Edit(u, c)
                \/ \E scheduled \in BOOLEAN : StartRun(scheduled)
                \/ RunStep
                \/ \E forGood \in BOOLEAN : Fail(forGood)

CalendarSpec == CalendarInit /\ [][CalendarNext]_calendarVars

(* The scheduler starts a run every hour, and a run gets on: after MaxFails
   failures the server answers. *)
CalendarFairness == WF_calendarVars(StartRun(TRUE)) /\ WF_calendarVars(RunStep)

CalendarFairSpec == CalendarSpec /\ CalendarFairness

-----------------------------------------------------------------------------
(* An edit the remote has not got yet is in the activity, and waits to be
   pushed: the import lets it win, and a failed push keeps it.  Not so if it
   was made while its activity was being pushed, or waited when its link was
   taken over by another UID. *)
EditsWait ==
    twoWay => \A u \in Uids \ raced :
        mine[u] # Nil => link[u].activity = mine[u] /\ link[u].pending

(* With a scheduler that keeps running, an edit reaches the remote, or is
   superseded, unless the subscription is in terminal failure or the edit came
   in a push. *)
EditsArePushed ==
    \A u \in Uids : twoWay /\ mine[u] # Nil ~> mine[u] = Nil \/ terminal \/ u \in raced

(* What the code's comment promises, and no run names: an adopted link loses
   its pending mark, as in EditsWait.
   "local-wins": the import of a remote change never discards what the user
   typed and the remote has not seen (pushLocalEdits' conflict policy). *)
LocalEditsWin ==
    [][Import => \A u \in Uids :
          twoWay /\ mine[u] # Nil /\ link'[u] # Nil => link'[u].activity = mine[u]]_calendarVars
=============================================================================
