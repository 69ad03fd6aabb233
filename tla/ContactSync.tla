----------------------------- MODULE ContactSync -----------------------------
(***************************************************************************)
(* One subscription to a remote CardDAV address book (ContactSyncService):  *)
(* sync runs, each a few requests to the server and one transaction, while  *)
(* other clients change the book, and the user edits and deletes the        *)
(* contacts and changes the subscription.                                  *)
(*                                                                         *)
(* A card stands for the vCard and for the flat fields taken from it.  A    *)
(* sync-token is the book it was issued for; what it stands for, the state  *)
(* of that book, is kept as the set of hrefs that changed since.  A copy of *)
(* a subscription carries its token, so also that set.  The subscription    *)
(* can be pointed at another book, which is empty.                         *)
(***************************************************************************)
EXTENDS Naturals, FiniteSets

CONSTANTS
    Hrefs,          \* resource paths of cards
    Cards,          \* contents of a card
    Nil,            \* no card, contact, link, baseline, token or run
    MaxPerSync,     \* maxContactsPerSync
    MaxChanges,     \* bound: changes other clients make to the book
    MaxEdits,       \* bound: what the user does to the contacts
    MaxForms        \* bound: what the user does to the subscription

Books == {"home", "other"}
Tokens == Books \cup {Nil}
Copies == [book : Books, token : Tokens, since : SUBSET Hrefs]

VARIABLES
    remote,      \* the cards of the book at home
    sub,         \* the subscription's row: URL, SyncToken
    link,        \* ContactSyncLink of each href
    contact,     \* what the linked contact holds, Nil if the user deleted it
    copy,        \* the subscription as a request that waits for the mutex loaded it
    form,        \* the subscription as UpdateContactSubscription loaded it
    run,         \* the sync that holds the subscription's mutex
    changes, edits, forms,
    mine,        \* the user's edit that no conflict has recorded yet
    refused,     \* hrefs whose contact the user deleted
    blind,       \* hrefs of which a stored token hides a change
    crossed      \* the URL was changed with a request to sync under way

subscription == <<sub, copy, form>>
contacts == <<link, contact>>
counters == <<changes, edits, forms>>
history == <<mine, refused, blind, crossed>>
syncVars == <<remote, subscription, contacts, run, counters, history>>

Links == [hash : Cards, synced : Cards \cup {Nil}]
Phases == {"begun", "listed", "fetched", "reconciled"}

(* What a run carries: its request's copy, whose token and since become those
   the server answers with; the pre-sync baselines; and the server's answers. *)
Runs == [phase : Phases, book : Books, token : Tokens, since : SUBSET Hrefs,
         base : [Hrefs -> Cards \cup {Nil}],
         updated : SUBSET Hrefs, deleted : SUBSET Hrefs, full : BOOLEAN,
         got : [Hrefs -> Cards \cup {Nil}], missed : SUBSET Hrefs]

ASSUME SyncAssumption ==
    /\ MaxChanges \in Nat /\ MaxEdits \in Nat /\ MaxForms \in Nat
    /\ Nil \notin Cards \cup Books /\ Nil \notin Links /\ Nil \notin Copies /\ Nil \notin Runs

SyncTypeOK == /\ remote \in [Hrefs -> Cards \cup {Nil}]
              /\ sub \in Copies
              /\ link \in [Hrefs -> Links \cup {Nil}]
              /\ contact \in [Hrefs -> Cards \cup {Nil}]
              /\ copy \in Copies \cup {Nil}
              /\ form \in Copies \cup {Nil}
              /\ run \in Runs \cup {Nil}
              /\ changes \in 0 .. MaxChanges /\ edits \in 0 .. MaxEdits /\ forms \in 0 .. MaxForms
              /\ mine \in [Hrefs -> Cards \cup {Nil}]
              /\ refused \subseteq Hrefs /\ blind \subseteq Hrefs /\ crossed \in BOOLEAN

None == [h \in Hrefs |-> Nil]
Card(book, h) == IF book = "home" THEN remote[h] ELSE Nil
Listing(book) == {h \in Hrefs : Card(book, h) # Nil}

-----------------------------------------------------------------------------
(* A subscription that was just made, or one synced before migration 000032,
   whose links have no baseline. *)
SyncInit == /\ remote \in [Hrefs -> Cards \cup {Nil}]
            /\ \/ /\ link = None /\ contact = None
                  /\ sub = [book |-> "home", token |-> Nil, since |-> {}]
               \/ /\ link = [h \in Hrefs |-> IF remote[h] = Nil THEN Nil
                                             ELSE [hash |-> remote[h], synced |-> Nil]]
                  /\ contact = remote
                  /\ sub = [book |-> "home", token |-> "home", since |-> {}]
            /\ copy = Nil
            /\ form = Nil
            /\ run = Nil
            /\ changes = 0 /\ edits = 0 /\ forms = 0
            /\ mine = None /\ refused = {} /\ blind = {} /\ crossed = FALSE

Noticed(c, h) == IF c = Nil THEN Nil ELSE [c EXCEPT !.since = @ \cup {h}]

(* Another client writes or deletes a card at home.  Every outstanding token
   has one more change to tell. *)
RemoteChange(h, c) ==
    /\ changes < MaxChanges
    /\ c # remote[h]
    /\ changes' = changes + 1
    /\ remote' = [remote EXCEPT ![h] = c]
    /\ sub' = Noticed(sub, h)
    /\ copy' = Noticed(copy, h)
    /\ form' = Noticed(form, h)
    /\ run' = Noticed(run, h)
    /\ UNCHANGED <<contacts, edits, forms, history>>

-----------------------------------------------------------------------------
(* findContactSubscription: the request's copy of the row, taken before the
   subscription's mutex. *)
Load == /\ copy = Nil
        /\ copy' = sub
        /\ UNCHANGED <<remote, sub, form, contacts, run, counters, history>>

(* capturePreSyncBaselines *)
Baselines == [h \in Hrefs |-> IF link[h] # Nil /\ link[h].synced = Nil
                              THEN contact[h] ELSE Nil]

(* The run gets the mutex and looks at the links without a baseline.  What the
   user did to their contacts so far counts as synced. *)
Begin == /\ run = Nil
         /\ copy # Nil
         /\ run' = [phase |-> "begun",
                    book |-> copy.book, token |-> copy.token, since |-> copy.since,
                    base |-> Baselines, updated |-> {}, deleted |-> {}, full |-> FALSE,
                    got |-> None, missed |-> {}]
         /\ copy' = Nil
         /\ mine' = [h \in Hrefs |-> IF link[h] # Nil /\ link[h].synced = Nil
                                     THEN Nil ELSE mine[h]]
         /\ UNCHANGED <<remote, sub, form, contacts, counters, refused, blind, crossed>>

InPhase(p) == run # Nil /\ run.phase = p
OnlyRun == UNCHANGED <<remote, subscription, contacts, counters, history>>

(* SyncCollection answered: the hrefs to get, those deleted, a new token.  An
   initial listing, without a token, does not tell of deletions. *)
ListChanges ==
    LET listed == Listing(run.book)
        initial == run.token = Nil
        told == IF initial THEN Hrefs ELSE run.since
        updated == told \cap listed
    IN  /\ InPhase("begun")
        /\ run.token \in {Nil, run.book}
        /\ run' = [run EXCEPT !.phase = IF updated = {} THEN "fetched" ELSE "listed",
                              !.updated = updated,
                              !.deleted = IF initial THEN {} ELSE told \ listed,
                              !.missed = IF initial THEN Hrefs \ listed ELSE {},
                              !.token = run.book, !.since = {}]
        /\ OnlyRun

(* At most maxContactsPerSync of the cards are kept. *)
Kept(hs) == {k \in SUBSET hs : Cardinality(k) = IF Cardinality(hs) < MaxPerSync
                                               THEN Cardinality(hs) ELSE MaxPerSync}

Fetched(keep, book) == [h \in Hrefs |-> IF h \in keep THEN Card(book, h) ELSE Nil]

(* MultiGetAddressBook: a second request, which finds the cards of its time. *)
GetChanged ==
    LET found == run.updated \cap Listing(run.book)
    IN  /\ InPhase("listed")
        /\ \E keep \in Kept(found) :
             run' = [run EXCEPT !.phase = "fetched", !.updated = {},
                                !.got = Fetched(keep, run.book),
                                !.missed = @ \cup (found \ keep)]
        /\ OnlyRun

(* QueryAddressBook: the whole book, when sync-collection failed or its answer
   bears no token; the old token is kept only in the latter case. *)
GetBook(keepsToken) ==
    LET found == Listing(run.book)
    IN  /\ InPhase("begun")
        /\ keepsToken => run.token \in {Nil, run.book}
        /\ \E keep \in Kept(found) :
             run' = [run EXCEPT !.phase = "fetched", !.full = TRUE,
                                !.got = Fetched(keep, run.book), !.missed = found \ keep,
                                !.token = IF keepsToken THEN @ ELSE Nil,
                                !.since = IF keepsToken THEN @ ELSE {}]
        /\ OnlyRun

-----------------------------------------------------------------------------
(* The card is not the one last imported. *)
Changed(h) == link[h] # Nil /\ link[h].hash # run.got[h]

(* Mutant: without a baseline of the link, no conflict. *)
StoredBaselineOf(h) == link[h].synced

(* The effective baseline of a linked contact. *)
BaselineOf(h) == IF link[h].synced # Nil THEN link[h].synced ELSE run.base[h]

(* diffSyncConflictFields: the contact was edited, and the edit goes. *)
Conflict(h) == BaselineOf(h) \notin {Nil, contact[h]} /\ contact[h] # run.got[h]

(* What one card of the answer makes of its contact and link. *)
Imported(h) ==
    LET synced == [hash |-> run.got[h], synced |-> run.got[h]]
    IN  CASE link[h] = Nil -> <<run.got[h], synced>>                \* created
          [] Changed(h) /\ contact[h] = Nil -> <<Nil, Nil>>         \* the user deleted it
          [] Changed(h) /\ contact[h] # Nil -> <<run.got[h], synced>>
          [] OTHER -> <<contact[h], link[h]>>

Arrived == {h \in Hrefs : run.got[h] # Nil}

(* Hrefs whose contact is archived and whose link is dropped. *)
Vanished == run.deleted \cup (IF run.full THEN Hrefs \ Arrived ELSE {})

(* reconcileContactSyncWithBaselines, in one transaction.  Cards that cannot be
   parsed are skipped.  What is told to be deleted and what was got are
   different hrefs. *)
Reconcile(skipped) ==
    LET new == [h \in Hrefs |-> IF h \in Vanished THEN <<Nil, Nil>>
                                ELSE IF h \in Arrived \ skipped THEN Imported(h)
                                ELSE <<contact[h], link[h]>>]
        settled == {h \in Arrived \ skipped : Changed(h) /\ contact[h] # Nil
                                     /\ (Conflict(h) \/ contact[h] = run.got[h])}
    IN  /\ InPhase("fetched")
        /\ skipped \subseteq Arrived
        /\ contact' = [h \in Hrefs |-> new[h][1]]
        /\ link' = [h \in Hrefs |-> new[h][2]]
        /\ mine' = [h \in Hrefs |-> IF h \in settled \cup Vanished THEN Nil ELSE mine[h]]
        /\ refused' = refused \ Vanished
        /\ blind' = (blind \ ((Arrived \ skipped) \cup Vanished)) \cup (run.missed \cap Vanished)
        /\ run' = [run EXCEPT !.phase = "reconciled", !.missed = @ \cup skipped, !.base = None,
                              !.deleted = {}, !.full = FALSE, !.got = None]
        /\ UNCHANGED <<remote, subscription, counters, crossed>>

(* SyncSubscription stores the new token: an update of the row by id. *)
StoreToken ==
    /\ InPhase("reconciled")
    /\ sub' = [sub EXCEPT !.token = run.token, !.since = run.since]
    /\ blind' = blind \cup run.missed
    /\ run' = Nil
    /\ UNCHANGED <<remote, copy, form, contacts, counters, mine, refused, crossed>>

(* Mutant: the new token is stored whether the run succeeded or not. *)
FailButStore == /\ run # Nil
                /\ run' = Nil
                /\ sub' = [sub EXCEPT !.token = run.token, !.since = run.since]
                /\ UNCHANGED <<remote, copy, form, contacts, counters, history>>

(* A request to the server or the transaction fails, or the process dies: the
   token stays. *)
Fail == /\ run # Nil
        /\ run' = Nil
        /\ OnlyRun

-----------------------------------------------------------------------------
(* The user writes a contact, or restores the value of a conflict: neither
   touches the link's baseline. *)
Edit(h, c) ==
    LET base == IF link[h].synced = Nil /\ run # Nil THEN run.base[h] ELSE link[h].synced
    IN  /\ edits < MaxEdits
        /\ link[h] # Nil /\ contact[h] \notin {Nil, c}
        /\ edits' = edits + 1
        /\ contact' = [contact EXCEPT ![h] = c]
        /\ mine' = [mine EXCEPT ![h] = IF base \in {Nil, c} THEN Nil ELSE c]
        /\ UNCHANGED <<remote, subscription, link, run, changes, forms, refused, blind, crossed>>

(* The user deletes the contact: the API drops the link with it
   (deleteContactAssociations), a deletion by a CardDAV device leaves it. *)
DropContact(h, byDevice) ==
    /\ edits < MaxEdits
    /\ contact[h] # Nil
    /\ edits' = edits + 1
    /\ contact' = [contact EXCEPT ![h] = Nil]
    /\ link' = [link EXCEPT ![h] = IF byDevice THEN @ ELSE Nil]
    /\ mine' = [mine EXCEPT ![h] = Nil]
    /\ refused' = refused \cup {h}
    /\ UNCHANGED <<remote, subscription, run, changes, forms, blind, crossed>>

(* UpdateContactSubscription reads the row, and later saves all of it. *)
OpenForm == /\ forms < MaxForms
            /\ form = Nil
            /\ form' = sub
            /\ forms' = forms + 1
            /\ UNCHANGED <<remote, sub, copy, contacts, run, changes, edits, history>>

TokenFor(book) == IF book = form.book THEN form.token ELSE Nil

SaveForm(book) ==
    /\ form # Nil
    /\ sub' = [book |-> book, token |-> TokenFor(book), since |-> form.since]
    /\ form' = Nil
    /\ crossed' = (crossed \/ (book # form.book /\ (run # Nil \/ copy # Nil)))
    /\ UNCHANGED <<remote, copy, contacts, run, counters, mine, refused, blind>>

SyncNext == \/ \E h \in Hrefs, c \in Cards \cup {Nil} : RemoteChange(h, c)
            \/ Load \/ Begin
            \/ ListChanges \/ GetChanged \/ \E keepsToken \in BOOLEAN : GetBook(keepsToken)
            \/ \E skipped \in SUBSET Hrefs : Reconcile(skipped)
            \/ StoreToken \/ Fail
            \/ \E h \in Hrefs : \/ \E byDevice \in BOOLEAN : DropContact(h, byDevice)
                               \/ \E c \in Cards : Edit(h, c)
            \/ OpenForm \/ \E book \in Books : SaveForm(book)

SyncSpec == SyncInit /\ [][SyncNext]_syncVars

-----------------------------------------------------------------------------
(* What the user last wrote is still in the contact, or a conflict holds it:
   also when it was written while a run was under way, and when the link had no
   baseline before that run (issues #395 and #919). *)
OverwritesAreRecorded ==
    \A h \in Hrefs : mine[h] # Nil => contact[h] = mine[h]

(* A token is stored only with what it stands for: what has not changed since
   has been imported as it is on the server, is not there any more, or was
   deleted here.  Hidden from this are hrefs that were cut off at
   maxContactsPerSync, cards that do not parse, and deletions an initial listing does not tell of; and
   a run that outlives the URL it was started for spoils links and token. *)
TokenTellsNoLie ==
    sub.token = sub.book /\ ~crossed =>
        \A h \in Hrefs \ (sub.since \cup blind) :
            \/ link[h] = Nil /\ (Card(sub.book, h) = Nil \/ h \in refused)
            \/ link[h] # Nil /\ link[h].hash = Card(sub.book, h)

(* What the code's comment promises, and no run names, because a device that
   deletes a contact and a first sync after that bring it back.
   The user deleted the contact: a change of its card does not bring it back
   (reconcileContactSync: "respect that and drop the stale link instead of
   recreating it"). *)
DeletionIsRespected == \A h \in refused : contact[h] = Nil
=============================================================================
