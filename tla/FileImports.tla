---------------------------- MODULE FileImports ----------------------------
(***************************************************************************)
(* The import of a file (CSV, vCard or JSContact, device records) and of a  *)
(* shared contact: upload or acceptance, preview, and a confirmation that a *)
(* client may repeat because it did not hear the answer.  Sessions and the   *)
(* results of consumed sessions live in memory; shares are rows.             *)
(***************************************************************************)
EXTENDS Naturals, FiniteSets

CONSTANTS
    Ids,            \* session ids, used once each
    Shares,         \* contacts shared with the user
    NoShare,
    Requests,       \* bound: requests under way at a time
    Nobody,         \* no request, no id
    MaxPerUser      \* MaxImportSessionsPerUser

ASSUME NamesAssumption == NoShare \notin Shares /\ Nobody \notin Requests \cup Ids

VARIABLES
    session,        \* what became of each importSessionData
    confirmedResults,   \* ids whose result is remembered
    share,          \* status of the rows of contact_shares
    request,        \* what each handler is at, and its last answer
    applied,        \* how often the import of a session was committed
    aged,           \* ids whose session or result has expired or was lost
    dropped         \* ids whose import left out a row it could have brought

vars == <<session, confirmedResults, share, request, applied, aged, dropped>>
history == <<applied, aged, dropped>>

Kinds == {"csv", "vcf", "records"}
Endpoints == {"import", "vcf", "share"}

(* A session is in the map ("live"), or was taken out of it while handlers may  *)
(* still hold it ("gone"), or went with its process ("lost").  It is bound  *)
(* to a share or not; has a preview; is confirmed; is locked; its rows carry ids *)
(* of a transaction that was rolled back.                                        *)
SessionRows == [at : {"none", "live", "gone", "lost"}, kind : Kinds,
                bound : Shares \cup {NoShare}, previewed : BOOLEAN, confirmed : BOOLEAN,
                holder : Requests \cup {Nobody}, marked : BOOLEAN]

RequestRows == [at : {"idle", "parse", "belongs", "get", "replay", "lock", "apply",
                      "record", "forget", "accept", "decline"},
                id : Ids \cup {Nobody}, share : Shares \cup {NoShare}, endpoint : Endpoints,
                kind : Kinds, answer : {"none", "result", "notFound", "refused"}]

TypeOK == /\ session \in [Ids -> SessionRows]
          /\ confirmedResults \subseteq Ids
          /\ share \in [Shares -> {"pending", "accepted", "declined", "purged"}]
          /\ request \in [Requests -> RequestRows]
          /\ applied \in [Ids -> Nat]
          /\ aged \subseteq Ids /\ dropped \subseteq Ids

-----------------------------------------------------------------------------
NoSession == [at |-> "none", kind |-> "csv", bound |-> NoShare,
              previewed |-> FALSE, confirmed |-> FALSE, holder |-> Nobody, marked |-> FALSE]

(* The session that is stored for a file or for a share; only CSV needs a preview. *)
NewSession(kind, h) == [at |-> "live", kind |-> kind, bound |-> h, previewed |-> (kind # "csv"),
                        confirmed |-> FALSE, holder |-> Nobody, marked |-> FALSE]

At(at, i, h, endpoint, kind) == [at |-> at, id |-> i, share |-> h, endpoint |-> endpoint,
                                 kind |-> kind, answer |-> "none"]

(* The last answer is kept, and of what a result is the result. *)
Answered(answer, i) == [at |-> "idle", id |-> i, share |-> NoShare, endpoint |-> "import",
                        kind |-> "csv", answer |-> answer]
Idle == Answered("none", Nobody)

Init == /\ session = [i \in Ids |-> NoSession]
        /\ confirmedResults = {} /\ aged = {} /\ dropped = {}
        /\ share = [h \in Shares |-> "pending"]
        /\ request = [r \in Requests |-> Idle]
        /\ applied = [i \in Ids |-> 0]

Begin(r, row) == request[r].at = "idle" /\ request' = [request EXCEPT ![r] = row]
Goto(r, at) == request' = [request EXCEPT ![r].at = at]

Answer(r, answer) == request' = [request EXCEPT ![r] =
    Answered(answer, IF answer = "result" THEN request[r].id ELSE Nobody)]

(* A confirmation that succeeded; that of a share has its row to save yet. *)
Succeed(r) == IF request[r].endpoint = "share" THEN Goto(r, "accept") ELSE Answer(r, "result")

Usable(i) == session[i].at = "live" /\ i \notin aged

(* The lookup of a session that is past its time takes it out of the map. *)
Lookup(i) == session' = IF session[i].at = "live" /\ i \in aged
                        THEN [session EXCEPT ![i].at = "gone"] ELSE session

CountActive == Cardinality({i \in Ids : Usable(i)})

-----------------------------------------------------------------------------
(* The limit is checked, the file or the payload of the share is parsed, and the *)
(* session stored.                                                               *)
Upload(r, kind) == /\ CountActive < MaxPerUser
                   /\ Begin(r, At("parse", Nobody, NoShare, "import", kind))
                   /\ UNCHANGED <<session, confirmedResults, share, history>>

AcceptShare(r, h) == /\ share[h] = "pending"
                     /\ CountActive < MaxPerUser
                     /\ Begin(r, At("parse", Nobody, h, "import", "vcf"))
                     /\ UNCHANGED <<session, confirmedResults, share, history>>

CreateSession(r) ==
    /\ request[r].at = "parse"
    /\ \E i \in Ids :
          /\ session[i].at = "none"
          /\ session' = [session EXCEPT ![i] = NewSession(request[r].kind, request[r].share)]
    /\ Answer(r, "none")
    /\ UNCHANGED <<confirmedResults, share, history>>

ParseFails(r) == /\ request[r].at = "parse"
                 /\ Answer(r, "refused")
                 /\ UNCHANGED <<session, confirmedResults, share, history>>

(* Which rows the preview shows is not modelled. *)
PreviewCSV(i) == /\ Usable(i)
                 /\ session' = [session EXCEPT ![i].previewed = TRUE]
                 /\ UNCHANGED <<confirmedResults, share, request, history>>

-----------------------------------------------------------------------------
(* Confirm and ConfirmVCF. *)
BeginConfirm(r, i, endpoint) ==
    /\ endpoint \in {"import", "vcf"} /\ session[i].at # "none"
    /\ Begin(r, At("get", i, NoShare, endpoint, "csv"))
    /\ UNCHANGED <<session, confirmedResults, share, history>>

(* ConfirmContactShare loads the share ... *)
BeginShareConfirm(r, h, i) ==
    /\ session[i].at # "none"
    /\ IF share[h] = "pending"
       THEN Begin(r, At("belongs", i, h, "share", "csv"))
       ELSE request[r].at = "idle" /\ Answer(r, "refused")
    /\ UNCHANGED <<session, confirmedResults, share, history>>

(* Mutant: any usable session serves any share. *)
BelongsToAnyone(i, h) == Usable(i)
Belongs(i, h) == Usable(i) /\ session[i].bound = h

(* ... and sees that the session is one of this share. *)
SessionBelongsToShare(r) ==
    /\ request[r].at = "belongs"
    /\ Lookup(request[r].id)
    /\ IF Belongs(request[r].id, request[r].share) THEN Goto(r, "get") ELSE Answer(r, "refused")
    /\ UNCHANGED <<confirmedResults, share, history>>

Get(r) == /\ request[r].at = "get"
          /\ Lookup(request[r].id)
          /\ Goto(r, IF Usable(request[r].id) THEN "lock" ELSE "replay")
          /\ UNCHANGED <<confirmedResults, share, history>>

(* No session: the result may be remembered. *)
ReplayConfirmed(r) ==
    /\ request[r].at = "replay"
    /\ IF request[r].id \in confirmedResults THEN Succeed(r) ELSE Answer(r, "notFound")
    /\ UNCHANGED <<session, confirmedResults, share, history>>

-----------------------------------------------------------------------------
(* Mutant: the flag is not looked at under the lock. *)
NeverConfirmed(i) == FALSE

(* The lock of the session, confirmMu, is free, and what the handler finds then. *)
CanLock(r) == request[r].at = "lock" /\ session[request[r].id].holder = Nobody
IsConfirmed(i) == session[i].confirmed

(* Device records are confirmed by ConfirmVCF only, CSV rows by Confirm only. *)
Accepted(r) == LET s == session[request[r].id] IN
    /\ s.kind \in (IF request[r].endpoint = "import" THEN {"csv", "vcf"} ELSE {"vcf", "records"})
    /\ s.previewed

LockAndReplay(r) == /\ CanLock(r) /\ IsConfirmed(request[r].id)
                    /\ Succeed(r)
                    /\ UNCHANGED <<session, confirmedResults, share, history>>

(* Mutant: a way out that does not unlock. *)
RefuseHolding(r) == /\ CanLock(r) /\ ~IsConfirmed(request[r].id)
                    /\ Answer(r, "refused")
                    /\ session' = [session EXCEPT ![request[r].id].holder = r]
                    /\ UNCHANGED <<confirmedResults, share, history>>

(* Mutant: the session is judged before its flag is looked at. *)
RefuseFirst(r) == /\ CanLock(r)
                  /\ Answer(r, "refused")
                  /\ UNCHANGED <<session, confirmedResults, share, history>>

(* The wrong kind, no preview, or no space on the disk. *)
LockAndRefuse(r) == /\ CanLock(r) /\ ~IsConfirmed(request[r].id)
                    /\ Answer(r, "refused")
                    /\ UNCHANGED <<session, confirmedResults, share, history>>

LockAndApply(r) == /\ CanLock(r) /\ ~IsConfirmed(request[r].id) /\ Accepted(r)
                   /\ session' = [session EXCEPT ![request[r].id].holder = r]
                   /\ Goto(r, "apply")
                   /\ UNCHANGED <<confirmedResults, share, history>>

(* Confirm writes the ids of the contacts it makes into the rows of a vCard *)
(* session before the commit.                                               *)
Marks(r) == request[r].endpoint = "import" /\ session[request[r].id].kind = "vcf"

(* The handler that held the lock returns. *)
Released(i) == [session EXCEPT ![i].holder = Nobody]

(* The transaction.  A row with an id of an earlier one is refused when the id was *)
(* given away meanwhile, or is that of a contact to merge with.                    *)
Commit(r) == LET i == request[r].id IN
    /\ request[r].at = "apply"
    /\ applied' = [applied EXCEPT ![i] = @ + 1]
    /\ dropped' \in IF session[i].marked THEN {dropped, dropped \cup {i}} ELSE {dropped}
    /\ Goto(r, "record")
    /\ UNCHANGED <<session, confirmedResults, share, aged>>

Rollback(r) == LET i == request[r].id IN
    /\ request[r].at = "apply"
    /\ session' \in IF Marks(r) THEN {Released(i), [Released(i) EXCEPT ![i].marked = TRUE]}
                                 ELSE {Released(i)}
    /\ Answer(r, "refused")
    /\ UNCHANGED <<confirmedResults, share, history>>

(* Pictures are stored, then the session is confirmed and its result remembered, ... *)
RecordConfirmed(r) == LET i == request[r].id IN
    /\ request[r].at = "record"
    /\ session' = [session EXCEPT ![i].confirmed = TRUE]
    /\ confirmedResults' = confirmedResults \cup {i}
    /\ Goto(r, "forget")
    /\ UNCHANGED <<share, history>>

(* ... and then it is taken out of the map. *)
Delete(r) == LET i == request[r].id IN
    /\ request[r].at = "forget"
    /\ session' = [Released(i) EXCEPT ![i].at = "gone"]
    /\ Succeed(r)
    /\ UNCHANGED <<confirmedResults, share, history>>

-----------------------------------------------------------------------------
(* The row of the share as it was loaded is saved: that is an INSERT if it has been *)
(* purged.  A failure is logged, the answer is the result.                          *)
SaveAccepted(r) == LET h == request[r].share IN
    /\ request[r].at = "accept"
    /\ share' \in {share, [share EXCEPT ![h] = "accepted"]}
    /\ Answer(r, "result")
    /\ UNCHANGED <<session, confirmedResults, applied, aged, dropped>>

DeclineContactShare(r, h) ==
    /\ share[h] = "pending"
    /\ Begin(r, At("decline", Nobody, h, "import", "csv"))
    /\ UNCHANGED <<session, confirmedResults, share, history>>

SaveDeclined(r) == LET h == request[r].share IN
    /\ request[r].at = "decline"
    /\ \/ share' = [share EXCEPT ![h] = "declined"] /\ Answer(r, "none")
       \/ share' = share /\ Answer(r, "refused")
    /\ UNCHANGED <<session, confirmedResults, applied, aged, dropped>>

PurgeShare(h) == /\ share[h] # "purged"
                 /\ share' = [share EXCEPT ![h] = "purged"]
                 /\ UNCHANGED <<session, confirmedResults, request, history>>

-----------------------------------------------------------------------------
(* Fifteen minutes pass, for a session or for a remembered result, which is not *)
(* found from then on.                                                          *)
Expire(i) == /\ Usable(i)
             /\ aged' = aged \cup {i}
             /\ UNCHANGED <<session, confirmedResults, share, request, applied, dropped>>

ExpireResult(i) == /\ i \in confirmedResults
                   /\ confirmedResults' = confirmedResults \ {i}
                   /\ aged' = aged \cup {i}
                   /\ UNCHANGED <<session, share, request, applied, dropped>>

CleanupExpired(i) == /\ session[i].at = "live" /\ i \in aged
                     /\ Lookup(i)
                     /\ UNCHANGED <<confirmedResults, share, request, history>>

(* The process ends and another one starts. *)
Restart == /\ session' = [i \in Ids |-> IF session[i].at = "none" THEN session[i]
                                        ELSE [Released(i)[i] EXCEPT !.at = "lost"]]
           /\ confirmedResults' = {}
           /\ request' = [r \in Requests |-> Idle]
           /\ aged' = aged \cup {i \in Ids : session[i].at # "none"}
           /\ UNCHANGED <<share, applied, dropped>>

-----------------------------------------------------------------------------
Lock(r) == LockAndReplay(r) \/ LockAndRefuse(r) \/ LockAndApply(r)

HandlerStep(r) == \/ CreateSession(r) \/ ParseFails(r)
                  \/ SessionBelongsToShare(r) \/ Get(r) \/ ReplayConfirmed(r)
                  \/ Commit(r) \/ Rollback(r) \/ RecordConfirmed(r) \/ Delete(r)
                  \/ SaveAccepted(r) \/ SaveDeclined(r)

BeginRequest(r) ==
    \/ \E kind \in Kinds : Upload(r, kind)
    \/ \E h \in Shares : AcceptShare(r, h) \/ DeclineContactShare(r, h)
    \/ \E i \in Ids : \/ \E endpoint \in Endpoints : BeginConfirm(r, i, endpoint)
                      \/ \E h \in Shares : BeginShareConfirm(r, h, i)

Next == \/ \E r \in Requests : BeginRequest(r) \/ Lock(r) \/ HandlerStep(r)
        \/ \E i \in Ids : PreviewCSV(i) \/ Expire(i) \/ ExpireResult(i) \/ CleanupExpired(i)
        \/ \E h \in Shares : PurgeShare(h)
        \/ Restart

Spec == Init /\ [][Next]_vars

(* A handler gets on, and Go's mutex starves nobody. *)
FairSpec == Spec /\ \A r \in Requests : WF_vars(HandlerStep(r)) /\ SF_vars(Lock(r))
-----------------------------------------------------------------------------
(* However often a session is confirmed, at once or again, its import is applied *)
(* once.                                                                         *)
AppliedOnce == \A i \in Ids : applied[i] <= 1

(* Whoever hears a result, the first or a replayed one, has an import. *)
ResultIsTrue == \A r \in Requests : request[r].answer = "result" => applied[request[r].id] = 1

(* Nobody hears "not found" before the time of the session is over: who repeats a *)
(* confirmation in time need not upload again, and import twice.                  *)
FoundInTime ==
    [][\A r \in Requests : (request[r].at = "replay" /\ request'[r].answer = "notFound")
          => request[r].id \in aged]_vars

Landings(h) == {i \in Ids : session[i].bound = h /\ applied[i] > 0}

(* A share reads accepted only if a session of this very share was imported. *)
ShareTellsTruth == \A h \in Shares : share[h] = "accepted" => Landings(h) # {}

(* A confirmation asks for an import from its own lookup of the session on; that   *)
(* of a share first has to name a session of this share.                           *)
Confirming(row) == row.at \in {"get", "replay", "lock", "apply", "record", "forget", "accept"}

About(row) == IF Confirming(row) \/ row.answer = "result" THEN {row.id} ELSE {}

Offered == {i \in Ids : session[i].at # "none"}
Purpose == [i \in Ids |-> session[i].bound]
Asking == {r \in Requests : Confirming(request[r])}
Heard == [r \in Requests |-> request[r].answer]
Wanted == [r \in Requests |-> About(request[r])]
AcceptedShares == {h \in Shares : share[h] = "accepted"}

(* Handlers, sessions and remembered results behave as imports that a client may   *)
(* repeat (import_session.go:22-28, 397-404): besides the above, a refusal means that *)
(* nothing has landed.                                                             *)
Repeatable == INSTANCE RepeatableImport WITH
                 offered <- Offered, purpose <- Purpose, over <- aged, imports <- applied,
                 asking <- Asking, about <- Wanted, answer <- Heard,
                 accepted <- AcceptedShares
RepeatableSpec == Repeatable!Spec

(* Every confirmation is answered: nobody waits for a lock that is not given back. *)
ConfirmsEnd == \A r \in Requests : request[r].at = "lock" ~> request[r].at = "idle"

(* Promised: who confirms a share that was responded to gets a conflict, and *)
(* nothing is imported.                                                      *)
NothingLandsAfterResponse ==
    [][\A r \in Requests :
          (request[r].endpoint = "share" /\ request[r].at = "apply" /\ request'[r].at = "record")
             => share[request[r].share] \notin {"accepted", "declined"}]_vars

(* Promised: a confirmation that was rolled back can be repeated as if it were the *)
(* first.                                                                          *)
RetryBringsAll == dropped = {}
=============================================================================
