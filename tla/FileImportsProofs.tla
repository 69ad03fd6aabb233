------------------------- MODULE FileImportsProofs -------------------------
(***************************************************************************)
(* A session is imported at most once and a repeated confirmation is        *)
(* answered, for any number of sessions, shares and requests.                *)
(***************************************************************************)
EXTENDS FileImports, TLAPS

Held == {"apply", "record", "forget"}
Looking == {"get", "replay", "lock", "accept"} \cup Held

(* What a handler relies on at each point. *)
GoodRow(r, row) ==
    /\ row \in RequestRows
    /\ row.at \in Looking \cup {"belongs"} => row.id \in Ids /\ session[row.id].at # "none"
    /\ row.at \in {"belongs", "accept", "decline"} => row.share \in Shares
    /\ row.at \in Looking /\ row.endpoint = "share" =>
          row.share \in Shares /\ session[row.id].bound = row.share
    /\ row.at = "accept" => row.endpoint = "share"
    /\ row.at = "replay" => row.id \in aged \cup confirmedResults
    /\ row.at \in Held \cup {"lock"} => session[row.id].at \in {"live", "gone"}
    /\ row.at \in Held => session[row.id].holder = r
    /\ row.at = "apply" => applied[row.id] = 0
    /\ row.at \in {"record", "forget", "accept"} => applied[row.id] = 1
    /\ row.answer = "none" \/ row.at = "idle"
    /\ row.answer = "result" => row.id \in Ids /\ applied[row.id] = 1
    /\ row.at = "forget" => session[row.id].confirmed /\ row.id \in aged \cup confirmedResults

GoodRequests == /\ request \in [Requests -> RequestRows]
                /\ \A r \in Requests : GoodRow(r, request[r])

(* Who imported a session that is not confirmed yet. *)
Recorder(i) == \E r \in Requests : /\ request[r].at = "record" /\ request[r].id = i
                                   /\ session[i].holder = r

GoodSessions ==
    /\ session \in [Ids -> SessionRows] /\ confirmedResults \subseteq Ids /\ aged \subseteq Ids
    /\ dropped \subseteq Ids
    /\ applied \in [Ids -> {0, 1}]
    /\ \A i \in Ids :
          /\ session[i].confirmed \/ i \in confirmedResults => applied[i] = 1
          /\ session[i].at = "none" => applied[i] = 0
          /\ applied[i] = 1 => session[i].confirmed \/ session[i].at = "lost" \/ Recorder(i)
          /\ session[i].at \in {"none", "live"} \/ i \in aged \cup confirmedResults
          /\ session[i].at = "lost" => i \in aged

GoodShares == /\ share \in [Shares -> {"pending", "accepted", "declined", "purged"}]
              /\ ShareTellsTruth

IInv == GoodRequests /\ GoodSessions /\ GoodShares

-----------------------------------------------------------------------------
(* A handler that gets on without touching anything else. *)
LEMMA RowMoves ==
  ASSUME IInv, NEW r \in Requests, NEW row, GoodRow(r, row),
         request[r].at # "record", request' = [request EXCEPT ![r] = row],
         UNCHANGED <<session, confirmedResults, share, history>>
  PROVE  IInv'
<1>1. GoodRequests'
  BY DEF IInv, GoodRequests, GoodRow, history
<1>2. \A i \in Ids : Recorder(i) => Recorder(i)'
  BY DEF IInv, GoodRequests, Recorder
<1>3. GoodSessions'
  BY <1>2 DEF IInv, GoodSessions, history
<1>4. GoodShares'
  BY DEF IInv, GoodShares, ShareTellsTruth, Landings, history
<1> QED BY <1>1, <1>3, <1>4 DEF IInv

(* The lookup of a session changes nothing that anybody relies on. *)
LEMMA LookupMoves ==
  ASSUME IInv, NEW r \in Requests, NEW i \in Ids, NEW row, GoodRow(r, row),
         request[r].at # "record", request' = [request EXCEPT ![r] = row], Lookup(i),
         UNCHANGED <<confirmedResults, share, history>>
  PROVE  IInv'
<1>1. session' \in [Ids -> SessionRows]
  BY DEF IInv, GoodSessions, Lookup, SessionRows
<1>2. \A k \in Ids : /\ session'[k].holder = session[k].holder
                     /\ session'[k].bound = session[k].bound
                     /\ session'[k].confirmed = session[k].confirmed
                     /\ session'[k].at # session[k].at =>
                           session[k].at = "live" /\ session'[k].at = "gone" /\ k \in aged
  BY DEF IInv, GoodSessions, Lookup, SessionRows
<1>3. GoodRow(r, row)'
  BY <1>2 DEF GoodRow, history, Held, Looking
<1>4. GoodRequests'
  BY <1>2, <1>3 DEF IInv, GoodRequests, GoodRow, history, Held, Looking
<1>5. \A k \in Ids : Recorder(k) => Recorder(k)'
  BY <1>2 DEF IInv, GoodRequests, Recorder
<1>6. GoodSessions'
  BY <1>1, <1>2, <1>5 DEF IInv, GoodSessions, history
<1>7. GoodShares'
  BY <1>2 DEF IInv, GoodShares, ShareTellsTruth, Landings, history
<1> QED BY <1>4, <1>6, <1>7 DEF IInv
-----------------------------------------------------------------------------
LEMMA AnsweredRow ==
  ASSUME IInv, NEW r \in Requests, NEW answer \in {"none", "result", "notFound", "refused"},
         NEW i \in Ids \cup {Nobody}, answer = "result" => i \in Ids /\ applied[i] = 1
  PROVE  GoodRow(r, Answered(answer, i))
BY DEF Answered, RequestRows, GoodRow, Kinds, Endpoints, Looking, Held

(* A refusal, and what is said without an import. *)
LEMMA AnswerMoves ==
  ASSUME IInv, NEW r \in Requests, request[r].at # "record",
         NEW answer \in {"none", "notFound", "refused"}, Answer(r, answer),
         UNCHANGED <<session, confirmedResults, share, history>>
  PROVE  IInv'
<1>1. GoodRow(r, Answered(answer, Nobody))
  BY AnsweredRow
<1> QED BY <1>1, RowMoves DEF Answer

(* A success that needs nothing but what was applied before. *)
LEMMA SucceedRow ==
  ASSUME IInv, NEW r \in Requests, request[r].at \in Looking,
         applied[request[r].id] = 1, Succeed(r)
  PROVE  \E row : /\ GoodRow(r, row) /\ row.at \in {"accept", "idle"}
                  /\ request' = [request EXCEPT ![r] = row]
<1>1. GoodRow(r, request[r]) /\ request[r] \in RequestRows
  BY DEF IInv, GoodRequests
<1>2. CASE request[r].endpoint = "share"
  <2> DEFINE row == [request[r] EXCEPT !.at = "accept"]
  <2>1. GoodRow(r, row)
    BY <1>1, <1>2 DEF GoodRow, RequestRows, Looking, Held
  <2>2. request' = [request EXCEPT ![r] = row]
    BY <1>2 DEF Succeed, Goto
  <2>3. row.at = "accept"
    BY <1>1 DEF RequestRows
  <2> QED BY <2>1, <2>2, <2>3
<1>3. CASE request[r].endpoint # "share"
  <2> DEFINE row == Answered("result", request[r].id)
  <2>1. GoodRow(r, row)
    BY <1>1, AnsweredRow DEF GoodRow
  <2>2. request' = [request EXCEPT ![r] = row]
    BY <1>3 DEF Succeed, Answer
  <2>3. row.at = "idle"
    BY DEF Answered
  <2> QED BY <2>1, <2>2, <2>3
<1> QED BY <1>2, <1>3

LEMMA BeginStep ==
  ASSUME IInv, NEW r \in Requests, BeginRequest(r)
  PROVE  IInv'
<1> USE DEF Begin
<1>1. ASSUME NEW kind \in Kinds, Upload(r, kind) PROVE IInv'
  <2>1. GoodRow(r, At("parse", Nobody, NoShare, "import", kind))
    BY DEF GoodRow, At, RequestRows, Kinds, Endpoints, Looking, Held
  <2> QED BY <2>1, <1>1, RowMoves DEF Upload
<1>2. ASSUME NEW h \in Shares, AcceptShare(r, h) PROVE IInv'
  <2>1. GoodRow(r, At("parse", Nobody, h, "import", "vcf"))
    BY DEF GoodRow, At, RequestRows, Kinds, Endpoints, Looking, Held
  <2> QED BY <2>1, <1>2, RowMoves DEF AcceptShare
<1>3. ASSUME NEW h \in Shares, DeclineContactShare(r, h) PROVE IInv'
  <2>1. GoodRow(r, At("decline", Nobody, h, "import", "csv"))
    BY DEF GoodRow, At, RequestRows, Kinds, Endpoints, Looking, Held
  <2> QED BY <2>1, <1>3, RowMoves DEF DeclineContactShare
<1>4. ASSUME NEW i \in Ids, NEW endpoint \in Endpoints, BeginConfirm(r, i, endpoint) PROVE IInv'
  <2>1. GoodRow(r, At("get", i, NoShare, endpoint, "csv"))
    BY <1>4 DEF GoodRow, At, RequestRows, Kinds, Endpoints, Looking, Held, BeginConfirm
  <2> QED BY <2>1, <1>4, RowMoves DEF BeginConfirm
<1>5. ASSUME NEW i \in Ids, NEW h \in Shares, BeginShareConfirm(r, h, i) PROVE IInv'
  <2>1. CASE share[h] = "pending"
    <3>1. GoodRow(r, At("belongs", i, h, "share", "csv"))
      BY <1>5 DEF GoodRow, At, RequestRows, Kinds, Endpoints, Looking, Held, BeginShareConfirm
    <3> QED BY <3>1, <2>1, <1>5, RowMoves DEF BeginShareConfirm
  <2>2. CASE share[h] # "pending"
    BY <2>2, <1>5, AnswerMoves DEF BeginShareConfirm
  <2> QED BY <2>1, <2>2
<1> QED BY <1>1, <1>2, <1>3, <1>4, <1>5 DEF BeginRequest

-----------------------------------------------------------------------------
(* Handlers that look a session up, wait for its lock, or give up. *)
LEMMA ReadStep ==
  ASSUME IInv, NEW r \in Requests,
         \/ ParseFails(r) \/ SessionBelongsToShare(r) \/ Get(r) \/ ReplayConfirmed(r)
         \/ LockAndReplay(r) \/ LockAndRefuse(r)
  PROVE  IInv'
<1> DEFINE i == request[r].id
<1>1. GoodRow(r, request[r]) /\ request[r] \in RequestRows /\ GoodSessions
  BY DEF IInv, GoodRequests
<1>2. CASE ParseFails(r)
  BY <1>2, AnswerMoves DEF ParseFails
<1>3. CASE SessionBelongsToShare(r)
  <2>1. i \in Ids
    BY <1>1, <1>3 DEF SessionBelongsToShare, GoodRow
  <2>2. CASE Belongs(i, request[r].share)
    <3>1. GoodRow(r, [request[r] EXCEPT !.at = "get"])
      BY <1>1, <1>3, <2>2 DEF SessionBelongsToShare, Belongs, GoodRow, RequestRows, Looking, Held
    <3>2. request' = [request EXCEPT ![r] = [request[r] EXCEPT !.at = "get"]]
      BY <1>3, <2>2 DEF SessionBelongsToShare, Goto
    <3> QED BY <3>1, <3>2, <2>1, <1>3, LookupMoves DEF SessionBelongsToShare
  <2>3. CASE ~Belongs(i, request[r].share)
    <3> DEFINE row == Answered("refused", Nobody)
    <3>1. GoodRow(r, row)
      BY AnsweredRow
    <3>2. request' = [request EXCEPT ![r] = row]
      BY <1>3, <2>3 DEF SessionBelongsToShare, Answer
    <3> QED BY <3>1, <3>2, <2>1, <1>3, LookupMoves DEF SessionBelongsToShare
  <2> QED BY <2>2, <2>3
<1>4. CASE Get(r)
  <2>1. i \in Ids /\ session[i].at # "none" /\ request[r].at = "get"
    BY <1>1, <1>4 DEF Get, GoodRow, Looking
  <2> DEFINE row == [request[r] EXCEPT !.at = IF Usable(i) THEN "lock" ELSE "replay"]
  <2>2. GoodRow(r, row)
    <3>1. CASE Usable(i)
      BY <1>1, <2>1, <3>1 DEF Usable, GoodRow, RequestRows, Looking, Held
    <3>2. CASE ~Usable(i)
      <4>1. i \in aged \cup confirmedResults
        BY <1>1, <2>1, <3>2 DEF Usable, GoodSessions
      <4> QED BY <1>1, <2>1, <3>2, <4>1 DEF GoodRow, RequestRows, Looking, Held
    <3> QED BY <3>1, <3>2
  <2>3. request' = [request EXCEPT ![r] = row]
    BY <1>4 DEF Get, Goto
  <2> QED BY <2>1, <2>2, <2>3, <1>4, LookupMoves DEF Get
<1>5. CASE ReplayConfirmed(r)
  <2>1. CASE i \in confirmedResults
    <3>1. applied[i] = 1 /\ request[r].at \in Looking
      BY <1>1, <1>5, <2>1 DEF GoodSessions, ReplayConfirmed, Looking
    <3>2. PICK row : GoodRow(r, row) /\ request' = [request EXCEPT ![r] = row]
      BY <3>1, <2>1, <1>5, SucceedRow DEF ReplayConfirmed
    <3> QED BY <3>2, <1>5, RowMoves DEF ReplayConfirmed
  <2>2. CASE i \notin confirmedResults
    BY <2>2, <1>5, AnswerMoves DEF ReplayConfirmed
  <2> QED BY <2>1, <2>2
<1>6. CASE LockAndReplay(r)
  <2>1. applied[i] = 1 /\ request[r].at = "lock" /\ request[r].at \in Looking
    BY <1>1, <1>6 DEF LockAndReplay, CanLock, IsConfirmed, GoodRow, GoodSessions, Looking
  <2>2. PICK row : GoodRow(r, row) /\ request' = [request EXCEPT ![r] = row]
    BY <2>1, <1>6, SucceedRow DEF LockAndReplay
  <2> QED BY <2>1, <2>2, <1>6, RowMoves DEF LockAndReplay
<1>7. CASE LockAndRefuse(r)
  BY <1>7, AnswerMoves DEF LockAndRefuse, CanLock
<1> QED BY <1>2, <1>3, <1>4, <1>5, <1>6, <1>7
-----------------------------------------------------------------------------
LEMMA RowsMove ==
  ASSUME GoodRequests, NEW r \in Requests, NEW row, GoodRow(r, row)',
         request' = [request EXCEPT ![r] = row],
         \A q \in Requests : q # r => GoodRow(q, request[q])'
  PROVE  GoodRequests'
<1>1. request' \in [Requests -> RequestRows]
  BY DEF GoodRequests, GoodRow
<1>2. ASSUME NEW q \in Requests PROVE GoodRow(q, request[q])'
  BY DEF GoodRequests
<1> QED BY <1>1, <1>2 DEF GoodRequests

(* Handlers that change the session they hold, or come to hold. *)
LEMMA CreateStep ==
  ASSUME IInv, NEW r \in Requests, CreateSession(r)
  PROVE  IInv'
<1>1. /\ GoodRow(r, request[r]) /\ request[r] \in RequestRows
      /\ GoodRequests /\ GoodSessions /\ GoodShares
  BY DEF IInv, GoodRequests
<1>2. PICK i \in Ids : /\ session[i].at = "none"
                       /\ session' = [session EXCEPT ![i] =
                                        NewSession(request[r].kind, request[r].share)]
  BY DEF CreateSession
<1>3. /\ NewSession(request[r].kind, request[r].share) \in SessionRows
      /\ NewSession(request[r].kind, request[r].share).at = "live"
      /\ ~NewSession(request[r].kind, request[r].share).confirmed
  BY <1>1 DEF NewSession, RequestRows, SessionRows
<1>4. /\ session' \in [Ids -> SessionRows]
      /\ \A k \in Ids : k # i => session'[k] = session[k]
      /\ session'[i].at = "live" /\ ~session'[i].confirmed /\ applied[i] = 0
      /\ i \notin confirmedResults
  BY <1>1, <1>2, <1>3 DEF GoodSessions
<1>5. request' = [request EXCEPT ![r] = Answered("none", Nobody)] /\ request[r].at = "parse"
  BY DEF CreateSession, Answer
<1>6. GoodRow(r, Answered("none", Nobody))'
  <2>1. Answered("none", Nobody) \in RequestRows
    BY DEF Answered, RequestRows, Kinds, Endpoints
  <2> QED BY <2>1 DEF Answered, GoodRow, Looking, Held
<1>7. GoodRequests'
  <2>1. ASSUME NEW q \in Requests, q # r PROVE GoodRow(q, request[q])'
    BY <2>1, <1>1, <1>2, <1>4, <1>5
       DEF GoodRequests, GoodRow, CreateSession, history, Held, Looking
  <2> QED BY <2>1, <1>1, <1>5, <1>6, RowsMove
<1>8. \A k \in Ids : k # i /\ Recorder(k) => Recorder(k)'
  BY <1>1, <1>4, <1>5 DEF GoodRequests, Recorder
<1>9. GoodSessions'
  BY <1>1, <1>2, <1>4, <1>8 DEF GoodSessions, CreateSession, history
<1>10. GoodShares'
  BY <1>1, <1>4 DEF GoodShares, GoodSessions, ShareTellsTruth, Landings, CreateSession, history
<1> QED BY <1>7, <1>9, <1>10 DEF IInv

(* A session is changed a field at a time. *)
LEMMA HolderField ==
  ASSUME NEW row \in SessionRows, NEW q \in Requests \cup {Nobody}
  PROVE  /\ [row EXCEPT !.holder = q] \in SessionRows
         /\ [row EXCEPT !.holder = q].at = row.at
         /\ [row EXCEPT !.holder = q].bound = row.bound
         /\ [row EXCEPT !.holder = q].confirmed = row.confirmed
         /\ [row EXCEPT !.holder = q].holder = q
BY DEF SessionRows

LEMMA ConfirmedField ==
  ASSUME NEW row \in SessionRows, NEW b \in BOOLEAN
  PROVE  /\ [row EXCEPT !.confirmed = b] \in SessionRows
         /\ [row EXCEPT !.confirmed = b].at = row.at
         /\ [row EXCEPT !.confirmed = b].bound = row.bound
         /\ [row EXCEPT !.confirmed = b].confirmed = b
         /\ [row EXCEPT !.confirmed = b].holder = row.holder
BY DEF SessionRows

LEMMA PreviewedField ==
  ASSUME NEW row \in SessionRows, NEW b \in BOOLEAN
  PROVE  /\ [row EXCEPT !.previewed = b] \in SessionRows
         /\ [row EXCEPT !.previewed = b].at = row.at
         /\ [row EXCEPT !.previewed = b].bound = row.bound
         /\ [row EXCEPT !.previewed = b].confirmed = row.confirmed
         /\ [row EXCEPT !.previewed = b].holder = row.holder
BY DEF SessionRows

LEMMA MarkedField ==
  ASSUME NEW row \in SessionRows, NEW b \in BOOLEAN
  PROVE  /\ [row EXCEPT !.marked = b] \in SessionRows
         /\ [row EXCEPT !.marked = b].at = row.at
         /\ [row EXCEPT !.marked = b].bound = row.bound
         /\ [row EXCEPT !.marked = b].confirmed = row.confirmed
         /\ [row EXCEPT !.marked = b].holder = row.holder
BY DEF SessionRows

LEMMA AtField ==
  ASSUME NEW row \in SessionRows, NEW at \in {"none", "live", "gone", "lost"}
  PROVE  /\ [row EXCEPT !.at = at] \in SessionRows
         /\ [row EXCEPT !.at = at].at = at
         /\ [row EXCEPT !.at = at].bound = row.bound
         /\ [row EXCEPT !.at = at].confirmed = row.confirmed
         /\ [row EXCEPT !.at = at].holder = row.holder
BY DEF SessionRows

(* ... and one at a time. *)
LEMMA OneSession ==
  ASSUME NEW rows \in [Ids -> SessionRows], NEW i \in Ids, NEW row \in SessionRows
  PROVE  /\ [rows EXCEPT ![i] = row] \in [Ids -> SessionRows]
         /\ [rows EXCEPT ![i] = row][i] = row
         /\ \A k \in Ids : k # i => [rows EXCEPT ![i] = row][k] = rows[k]
OBVIOUS

LEMMA LockAndApplyStep ==
  ASSUME IInv, NEW r \in Requests, LockAndApply(r)
  PROVE  IInv'
<1>i. PICK i : i = request[r].id
  OBVIOUS
<1>r. PICK row : row = [request[r] EXCEPT !.at = "apply"]
  OBVIOUS
<1>1. /\ GoodRow(r, request[r]) /\ request[r] \in RequestRows /\ request[r].at = "lock"
      /\ GoodRequests /\ GoodSessions /\ GoodShares
  BY DEF IInv, GoodRequests, LockAndApply, CanLock
<1>2. /\ i \in Ids /\ session[i].holder = Nobody /\ ~session[i].confirmed
      /\ session[i].at \in {"live", "gone"}
  BY <1>1, <1>i DEF LockAndApply, CanLock, IsConfirmed, GoodRow, Looking
<1>3. /\ session' = [session EXCEPT ![i].holder = r]
      /\ request' = [request EXCEPT ![r] = row]
      /\ UNCHANGED <<confirmedResults, share, history>>
  BY <1>i, <1>r DEF LockAndApply, Goto
<1>4. \A q \in Requests : request[q].at \in Held => request[q].id # i
  BY <1>1, <1>2, NamesAssumption DEF GoodRequests, GoodRow
<1>5. applied[i] = 0
  BY <1>1, <1>2, <1>4 DEF GoodSessions, Recorder, Held
<1>6. /\ session' \in [Ids -> SessionRows]
      /\ \A k \in Ids : /\ session'[k].at = session[k].at
                        /\ session'[k].bound = session[k].bound
                        /\ session'[k].confirmed = session[k].confirmed
                        /\ k # i => session'[k].holder = session[k].holder
      /\ session'[i].holder = r
  <2>1. session \in [Ids -> SessionRows] /\ session[i] \in SessionRows
    BY <1>1, <1>2 DEF GoodSessions
  <2>2. PICK new : new = [session[i] EXCEPT !.holder = r]
    OBVIOUS
  <2>3. /\ new \in SessionRows /\ new.at = session[i].at /\ new.bound = session[i].bound
        /\ new.confirmed = session[i].confirmed /\ new.holder = r
    BY <2>1, <2>2, HolderField
  <2>4. session' = [session EXCEPT ![i] = new]
    BY <1>3, <2>2
  <2> QED BY <1>2, <2>1, <2>3, <2>4, OneSession
<1>7. GoodRow(r, row)'
  BY <1>i, <1>r, <1>1, <1>2, <1>3, <1>5, <1>6 DEF GoodRow, RequestRows, history, Looking, Held
<1>8. GoodRequests'
  <2>1. ASSUME NEW q \in Requests, q # r PROVE GoodRow(q, request[q])'
    BY <2>1, <1>1, <1>3, <1>4, <1>6 DEF GoodRequests, GoodRow, history, Held, Looking
  <2> QED BY <2>1, <1>1, <1>3, <1>7, RowsMove
<1>9. \A k \in Ids : Recorder(k) => Recorder(k)'
  BY <1>1, <1>3, <1>4, <1>6 DEF GoodRequests, Recorder, Held
<1>10. GoodSessions'
  BY <1>1, <1>3, <1>6, <1>9 DEF GoodSessions, history
<1>11. GoodShares'
  BY <1>1, <1>3, <1>6 DEF GoodShares, ShareTellsTruth, Landings, history
<1> QED BY <1>8, <1>10, <1>11 DEF IInv

(* Only one handler is past the lock of a session. *)
LEMMA HolderAlone ==
  ASSUME IInv, NEW r \in Requests, request[r].at \in Held
  PROVE  /\ request[r].id \in Ids /\ session[request[r].id].at \in {"live", "gone"}
         /\ session[request[r].id].holder = r
         /\ \A q \in Requests : q # r /\ request[q].at \in Held => request[q].id # request[r].id
         /\ \A k \in Ids : k # request[r].id /\ Recorder(k) =>
               \E q \in Requests : q # r /\ request[q].at = "record" /\ request[q].id = k
                                  /\ session[k].holder = q
BY DEF IInv, GoodRequests, GoodRow, Looking, Recorder

LEMMA CommitStep ==
  ASSUME IInv, NEW r \in Requests, Commit(r)
  PROVE  IInv'
<1>i. PICK i : i = request[r].id
  OBVIOUS
<1>r. PICK row : row = [request[r] EXCEPT !.at = "record"]
  OBVIOUS
<1>1. /\ GoodRow(r, request[r]) /\ request[r] \in RequestRows /\ request[r].at = "apply"
      /\ GoodRequests /\ GoodSessions /\ GoodShares
  BY DEF IInv, GoodRequests, Commit
<1>2. /\ i \in Ids /\ session[i].at \in {"live", "gone"} /\ session[i].holder = r
      /\ applied[i] = 0
      /\ \A q \in Requests : q # r /\ request[q].at \in Held => request[q].id # i
  BY <1>i, <1>1, HolderAlone DEF GoodRow, Held
<1>3. /\ request' = [request EXCEPT ![r] = row] /\ applied' = [applied EXCEPT ![i] = @ + 1]
      /\ UNCHANGED <<session, confirmedResults, share, aged>>
      /\ dropped' \in {dropped, dropped \cup {i}}
  BY <1>i, <1>r DEF Commit, Goto
<1>4. /\ applied' \in [Ids -> {0, 1}] /\ applied'[i] = 1
      /\ \A k \in Ids : k # i => applied'[k] = applied[k]
  BY <1>1, <1>2, <1>3 DEF GoodSessions
<1>5. GoodRow(r, row)'
  BY <1>i, <1>r, <1>1, <1>2, <1>3, <1>4 DEF GoodRow, RequestRows, Looking, Held
<1>6. ASSUME NEW q \in Requests, q # r PROVE GoodRow(q, request[q])'
  BY <1>1, <1>2, <1>3, <1>4, <1>6 DEF GoodRequests, GoodRow, Held, Looking
<1>7. GoodRequests'
  BY <1>1, <1>3, <1>5, <1>6, RowsMove
<1>8. Recorder(i)' /\ \A k \in Ids : k # i /\ Recorder(k) => Recorder(k)'
  <2>1. row.at = "record" /\ row.id = i
    BY <1>i, <1>r, <1>1 DEF RequestRows
  <2> QED BY <2>1, <1>i, <1>1, <1>2, <1>3 DEF GoodRequests, Recorder
<1>9. GoodSessions'
  BY <1>1, <1>2, <1>3, <1>4, <1>8 DEF GoodSessions
<1>10. GoodShares'
  BY <1>1, <1>2, <1>3, <1>4 DEF GoodShares, ShareTellsTruth, Landings
<1> QED BY <1>7, <1>9, <1>10 DEF IInv

(* The handler that held a lock returns. *)
LEMMA ReleasedRow ==
  ASSUME session \in [Ids -> SessionRows], NEW i \in Ids
  PROVE  /\ Released(i) \in [Ids -> SessionRows]
         /\ \A k \in Ids : /\ Released(i)[k].at = session[k].at
                           /\ Released(i)[k].bound = session[k].bound
                           /\ Released(i)[k].confirmed = session[k].confirmed
                           /\ k # i => Released(i)[k].holder = session[k].holder
<1>1. PICK new : new = [session[i] EXCEPT !.holder = Nobody]
  OBVIOUS
<1>2. /\ new \in SessionRows /\ new.at = session[i].at /\ new.bound = session[i].bound
      /\ new.confirmed = session[i].confirmed
  BY <1>1, HolderField
<1>3. Released(i) = [session EXCEPT ![i] = new]
  BY <1>1 DEF Released
<1> QED BY <1>2, <1>3, OneSession

LEMMA RollbackStep ==
  ASSUME IInv, NEW r \in Requests, Rollback(r)
  PROVE  IInv'
<1>i. PICK i : i = request[r].id
  OBVIOUS
<1>1. /\ request[r].at = "apply" /\ GoodRequests /\ GoodSessions /\ GoodShares
      /\ GoodRow(r, request[r])
  BY DEF IInv, Rollback, GoodRequests
<1>2. /\ i \in Ids /\ applied[i] = 0
      /\ \A q \in Requests : q # r /\ request[q].at \in Held => request[q].id # i
  BY <1>i, <1>1, HolderAlone DEF GoodRow, Held
<1>r. PICK row : row = Answered("refused", Nobody)
  OBVIOUS
<1>3. /\ request' = [request EXCEPT ![r] = row]
      /\ UNCHANGED <<confirmedResults, share, history>>
  BY <1>r DEF Rollback, Answer
<1>4. session' = Released(i) \/ session' = [Released(i) EXCEPT ![i].marked = TRUE]
  BY <1>i DEF Rollback
<1>5. /\ session' \in [Ids -> SessionRows]
      /\ \A k \in Ids : /\ session'[k].at = session[k].at
                        /\ session'[k].bound = session[k].bound
                        /\ session'[k].confirmed = session[k].confirmed
                        /\ k # i => session'[k].holder = session[k].holder
  <2>1. PICK released : released = Released(i)
    OBVIOUS
  <2>2. /\ released \in [Ids -> SessionRows]
        /\ \A k \in Ids : /\ released[k].at = session[k].at
                          /\ released[k].bound = session[k].bound
                          /\ released[k].confirmed = session[k].confirmed
                          /\ k # i => released[k].holder = session[k].holder
    BY <1>1, <1>2, <2>1, ReleasedRow DEF GoodSessions
  <2>3. session' = released \/ session' = [released EXCEPT ![i].marked = TRUE]
    BY <1>4, <2>1
  <2>4. PICK new : new = [released[i] EXCEPT !.marked = TRUE]
    OBVIOUS
  <2>5. /\ new \in SessionRows /\ new.at = released[i].at /\ new.bound = released[i].bound
        /\ new.confirmed = released[i].confirmed
    BY <1>2, <2>2, <2>4, MarkedField
  <2>6. session' = released \/ session' = [released EXCEPT ![i] = new]
    BY <2>3, <2>4
  <2> QED BY <1>2, <2>2, <2>5, <2>6, OneSession
<1>6. GoodRow(r, row)'
  <2>1. row \in RequestRows /\ row.at = "idle" /\ row.answer = "refused"
    BY <1>r DEF Answered, RequestRows, Kinds, Endpoints
  <2> QED BY <2>1 DEF GoodRow, Looking, Held
<1>7. ASSUME NEW q \in Requests, q # r PROVE GoodRow(q, request[q])'
  BY <1>1, <1>2, <1>3, <1>5, <1>7 DEF GoodRequests, GoodRow, history, Held, Looking
<1>8. GoodRequests'
  BY <1>1, <1>3, <1>6, <1>7, RowsMove
<1>9. \A k \in Ids : k # i /\ Recorder(k) => Recorder(k)'
  BY <1>1, <1>3, <1>5 DEF GoodRequests, Recorder
<1>10. GoodSessions'
  BY <1>1, <1>2, <1>3, <1>5, <1>9 DEF GoodSessions, history
<1>11. GoodShares'
  BY <1>1, <1>3, <1>5 DEF GoodShares, ShareTellsTruth, Landings, history
<1> QED BY <1>8, <1>10, <1>11 DEF IInv

LEMMA RecordStep ==
  ASSUME IInv, NEW r \in Requests, RecordConfirmed(r)
  PROVE  IInv'
<1>i. PICK i : i = request[r].id
  OBVIOUS
<1>r. PICK row : row = [request[r] EXCEPT !.at = "forget"]
  OBVIOUS
<1>1. /\ GoodRow(r, request[r]) /\ request[r] \in RequestRows /\ request[r].at = "record"
      /\ GoodRequests /\ GoodSessions /\ GoodShares
  BY DEF IInv, GoodRequests, RecordConfirmed
<1>2. i \in Ids /\ applied[i] = 1 /\ session[i].holder = r /\ session[i].at \in {"live", "gone"}
  BY <1>i, <1>1, HolderAlone DEF GoodRow, Held
<1>3. /\ session' = [session EXCEPT ![i].confirmed = TRUE]
      /\ request' = [request EXCEPT ![r] = row]
      /\ confirmedResults' = confirmedResults \cup {i}
      /\ UNCHANGED <<share, history>>
  BY <1>i, <1>r DEF RecordConfirmed, Goto
<1>4. /\ session' \in [Ids -> SessionRows] /\ session'[i].confirmed
      /\ \A k \in Ids :
            /\ session'[k].at = session[k].at
            /\ session'[k].bound = session[k].bound
            /\ session'[k].holder = session[k].holder
            /\ k # i => session'[k].confirmed = session[k].confirmed
  <2>1. session \in [Ids -> SessionRows] /\ session[i] \in SessionRows
    BY <1>1, <1>2 DEF GoodSessions
  <2>2. PICK new : new = [session[i] EXCEPT !.confirmed = TRUE]
    OBVIOUS
  <2>3. /\ new \in SessionRows /\ new.at = session[i].at /\ new.bound = session[i].bound
        /\ new.confirmed = TRUE /\ new.holder = session[i].holder
    BY <2>1, <2>2, ConfirmedField
  <2>4. session' = [session EXCEPT ![i] = new]
    BY <1>3, <2>2
  <2> QED BY <1>2, <2>1, <2>3, <2>4, OneSession
<1>5. GoodRow(r, row)'
  BY <1>i, <1>r, <1>1, <1>2, <1>3, <1>4 DEF GoodRow, RequestRows, history, Looking, Held
<1>6. ASSUME NEW q \in Requests, q # r PROVE GoodRow(q, request[q])'
  BY <1>1, <1>2, <1>3, <1>4, <1>6 DEF GoodRequests, GoodRow, history, Held, Looking
<1>7. GoodRequests'
  BY <1>1, <1>3, <1>5, <1>6, RowsMove
<1>8. \A k \in Ids : k # i /\ Recorder(k) => Recorder(k)'
  BY <1>i, <1>1, <1>3, <1>4 DEF GoodRequests, Recorder
<1>9. GoodSessions'
  BY <1>1, <1>2, <1>3, <1>4, <1>8 DEF GoodSessions, history
<1>10. GoodShares'
  BY <1>1, <1>3, <1>4 DEF GoodShares, ShareTellsTruth, Landings, history
<1> QED BY <1>7, <1>9, <1>10 DEF IInv

LEMMA DeleteStep ==
  ASSUME IInv, NEW r \in Requests, Delete(r)
  PROVE  IInv'
<1>i. PICK i : i = request[r].id
  OBVIOUS
<1>1. /\ GoodRow(r, request[r]) /\ request[r].at = "forget" /\ request[r].at \in Looking
      /\ GoodRequests /\ GoodSessions /\ GoodShares
  BY DEF IInv, GoodRequests, Delete, Looking, Held
<1>2. /\ i \in Ids /\ applied[i] = 1 /\ session[i].at \in {"live", "gone"}
      /\ session[i].confirmed /\ i \in aged \cup confirmedResults
      /\ \A q \in Requests : q # r /\ request[q].at \in Held => request[q].id # i
  BY <1>i, <1>1, HolderAlone DEF GoodRow, Held
<1>3. PICK row : /\ GoodRow(r, row) /\ row.at \in {"accept", "idle"}
                 /\ request' = [request EXCEPT ![r] = row]
  BY <1>i, <1>1, <1>2, SucceedRow DEF Delete
<1>4. /\ session' = [Released(i) EXCEPT ![i].at = "gone"]
      /\ UNCHANGED <<confirmedResults, share, history>>
  BY <1>i DEF Delete
<1>5. /\ session' \in [Ids -> SessionRows] /\ session'[i].at = "gone"
      /\ \A k \in Ids :
            /\ session'[k].bound = session[k].bound
            /\ session'[k].confirmed = session[k].confirmed
            /\ k # i => session'[k].holder = session[k].holder /\ session'[k].at = session[k].at
  <2>1. PICK released : released = Released(i)
    OBVIOUS
  <2>2. /\ released \in [Ids -> SessionRows]
        /\ \A k \in Ids :
              /\ released[k].at = session[k].at
              /\ released[k].bound = session[k].bound
              /\ released[k].confirmed = session[k].confirmed
              /\ k # i => released[k].holder = session[k].holder
    BY <1>1, <1>2, <2>1, ReleasedRow DEF GoodSessions
  <2>3. session' = [released EXCEPT ![i].at = "gone"]
    BY <1>4, <2>1
  <2>4. PICK new : new = [released[i] EXCEPT !.at = "gone"]
    OBVIOUS
  <2>5. /\ new \in SessionRows /\ new.at = "gone" /\ new.bound = released[i].bound
        /\ new.confirmed = released[i].confirmed /\ new.holder = released[i].holder
    BY <1>2, <2>2, <2>4, AtField
  <2>6. session' = [released EXCEPT ![i] = new]
    BY <2>3, <2>4
  <2> QED BY <1>2, <2>2, <2>5, <2>6, OneSession
<1>6. GoodRow(r, row)'
  BY <1>3, <1>4, <1>5 DEF GoodRow, history, Looking, Held
<1>7. ASSUME NEW q \in Requests, q # r PROVE GoodRow(q, request[q])'
  BY <1>1, <1>2, <1>3, <1>4, <1>5, <1>7 DEF GoodRequests, GoodRow, history, Held, Looking
<1>8. GoodRequests'
  BY <1>1, <1>3, <1>6, <1>7, RowsMove
<1>9. \A k \in Ids : k # i /\ Recorder(k) => Recorder(k)'
  BY <1>1, <1>3, <1>5 DEF GoodRequests, Recorder
<1>10. GoodSessions'
  BY <1>1, <1>2, <1>4, <1>5, <1>9 DEF GoodSessions, history
<1>11. GoodShares'
  BY <1>1, <1>4, <1>5 DEF GoodShares, ShareTellsTruth, Landings, history
<1> QED BY <1>8, <1>10, <1>11 DEF IInv

(* Nothing but the row of a share, and who saves it. *)
LEMMA SaveStep ==
  ASSUME IInv, NEW r \in Requests, SaveAccepted(r) \/ SaveDeclined(r)
  PROVE  IInv'
<1>h. PICK h : h = request[r].share
  OBVIOUS
<1>1. /\ GoodRow(r, request[r]) /\ GoodRequests /\ GoodSessions /\ GoodShares
      /\ request[r].at \in {"accept", "decline"}
  BY DEF IInv, GoodRequests, SaveAccepted, SaveDeclined
<1>2. PICK row : GoodRow(r, row) /\ request' = [request EXCEPT ![r] = row]
  <2>1. CASE SaveAccepted(r)
    <3>1. request[r].id \in Ids /\ applied[request[r].id] = 1
      BY <1>1, <2>1 DEF SaveAccepted, GoodRow, Looking
    <3>2. request' = [request EXCEPT ![r] = Answered("result", request[r].id)]
      BY <2>1 DEF SaveAccepted, Answer
    <3> QED BY <3>1, <3>2, AnsweredRow
  <2>2. CASE SaveDeclined(r)
    <3>1. PICK answer \in {"none", "refused"} :
            request' = [request EXCEPT ![r] = Answered(answer, Nobody)]
      BY <2>2 DEF SaveDeclined, Answer
    <3> QED BY <3>1, AnsweredRow
  <2> QED BY <2>1, <2>2
<1>4. UNCHANGED <<session, confirmedResults, applied, aged, dropped>>
  BY DEF SaveAccepted, SaveDeclined
<1>6. GoodRow(r, row)' /\ request' = [request EXCEPT ![r] = row]
  BY <1>2, <1>4 DEF GoodRow
<1>7. ASSUME NEW q \in Requests, q # r PROVE GoodRow(q, request[q])'
  BY <1>1, <1>4, <1>6, <1>7 DEF GoodRequests, GoodRow
<1>8. GoodRequests'
  BY <1>1, <1>6, <1>7, RowsMove
<1>9. \A k \in Ids : Recorder(k) => Recorder(k)'
  BY <1>1, <1>4, <1>6 DEF GoodRequests, Recorder
<1>10. GoodSessions'
  BY <1>1, <1>4, <1>9 DEF GoodSessions
<1>11. GoodShares'
  <2>1. \A g \in Shares : Landings(g)' = Landings(g)
    BY <1>4 DEF Landings
  <2>2. CASE SaveAccepted(r)
    <3>1. h \in Shares /\ request[r].id \in Landings(h)
      BY <1>h, <1>1, <2>2 DEF SaveAccepted, GoodRow, Looking, Landings
    <3>2. share' = share \/ share' = [share EXCEPT ![h] = "accepted"]
      BY <1>h, <2>2 DEF SaveAccepted
    <3> QED BY <1>1, <2>1, <3>1, <3>2 DEF GoodShares, ShareTellsTruth
  <2>3. CASE SaveDeclined(r)
    <3>1. share' = share \/ share' = [share EXCEPT ![h] = "declined"]
      BY <1>h, <2>3 DEF SaveDeclined
    <3> QED BY <1>1, <2>1, <3>1 DEF GoodShares, ShareTellsTruth
  <2> QED BY <2>2, <2>3
<1> QED BY <1>8, <1>10, <1>11 DEF IInv

-----------------------------------------------------------------------------
(* What happens outside the handlers. *)
LEMMA PreviewStep ==
  ASSUME IInv, NEW i \in Ids, PreviewCSV(i) \/ CleanupExpired(i)
  PROVE  IInv'
<1>1. GoodRequests /\ GoodSessions /\ GoodShares
  BY DEF IInv
<1>2. /\ session' \in [Ids -> SessionRows]
      /\ \A k \in Ids :
            /\ session'[k].bound = session[k].bound
            /\ session'[k].confirmed = session[k].confirmed
            /\ session'[k].holder = session[k].holder
            /\ session'[k].at # session[k].at =>
                  session[k].at = "live" /\ session'[k].at = "gone" /\ k \in aged
  <2>1. CASE PreviewCSV(i)
    <3>1. session' = [session EXCEPT ![i].previewed = TRUE]
      BY <2>1 DEF PreviewCSV
    <3>2. session \in [Ids -> SessionRows] /\ session[i] \in SessionRows
      BY <1>1 DEF GoodSessions
    <3>3. PICK new : new = [session[i] EXCEPT !.previewed = TRUE]
      OBVIOUS
    <3>4. /\ new \in SessionRows /\ new.at = session[i].at /\ new.bound = session[i].bound
          /\ new.confirmed = session[i].confirmed /\ new.holder = session[i].holder
      BY <3>2, <3>3, PreviewedField
    <3>5. session' = [session EXCEPT ![i] = new]
      BY <3>1, <3>3
    <3> QED BY <3>2, <3>4, <3>5, OneSession
  <2>2. CASE CleanupExpired(i)
    BY <1>1, <2>2 DEF CleanupExpired, Lookup, GoodSessions, SessionRows
  <2> QED BY <2>1, <2>2
<1>3. UNCHANGED <<confirmedResults, share, request, history>>
  BY DEF PreviewCSV, CleanupExpired
<1>4. GoodRequests'
  BY <1>1, <1>2, <1>3 DEF GoodRequests, GoodRow, history, Held, Looking
<1>5. \A k \in Ids : Recorder(k) => Recorder(k)'
  BY <1>2, <1>3 DEF Recorder
<1>6. GoodSessions'
  BY <1>1, <1>2, <1>3, <1>5 DEF GoodSessions, history
<1>7. GoodShares'
  BY <1>1, <1>2, <1>3 DEF GoodShares, ShareTellsTruth, Landings, history
<1> QED BY <1>4, <1>6, <1>7 DEF IInv

(* An id that is forgotten is one whose time is over. *)
LEMMA ExpireStep ==
  ASSUME IInv, NEW i \in Ids, Expire(i) \/ ExpireResult(i)
  PROVE  IInv'
<1>1. GoodRequests /\ GoodSessions /\ GoodShares
  BY DEF IInv
<1>2. /\ UNCHANGED <<session, share, request, applied, dropped>>
      /\ aged' = aged \cup {i} /\ confirmedResults' \in {confirmedResults, confirmedResults \ {i}}
  BY DEF Expire, ExpireResult
<1>3. GoodRequests'
  BY <1>1, <1>2 DEF GoodRequests, GoodRow
<1>4. \A k \in Ids : Recorder(k) => Recorder(k)'
  BY <1>2 DEF Recorder
<1>5. GoodSessions'
  BY <1>1, <1>2, <1>4 DEF GoodSessions
<1>6. GoodShares'
  BY <1>1, <1>2 DEF GoodShares, ShareTellsTruth, Landings
<1> QED BY <1>3, <1>5, <1>6 DEF IInv

LEMMA PurgeStep ==
  ASSUME IInv, NEW h \in Shares, PurgeShare(h)
  PROVE  IInv'
<1>1. GoodRequests /\ GoodSessions /\ GoodShares
  BY DEF IInv
<1>2. GoodRequests'
  BY <1>1 DEF PurgeShare, GoodRequests, GoodRow, history
<1>3. \A k \in Ids : Recorder(k) => Recorder(k)'
  BY DEF PurgeShare, Recorder
<1>4. GoodSessions'
  BY <1>1, <1>3 DEF PurgeShare, GoodSessions, history
<1>5. GoodShares'
  BY <1>1 DEF PurgeShare, GoodShares, ShareTellsTruth, Landings, history
<1> QED BY <1>2, <1>4, <1>5 DEF IInv

LEMMA IdleRow == Idle \in RequestRows /\ Idle.at = "idle" /\ Idle.answer = "none"
BY DEF Idle, Answered, RequestRows, Kinds, Endpoints

LEMMA RestartStep == IInv /\ Restart => IInv'
<1> SUFFICES ASSUME IInv, Restart PROVE IInv'
  OBVIOUS
<1>1. GoodRequests /\ GoodSessions /\ GoodShares
  BY DEF IInv
<1>2. /\ session' \in [Ids -> SessionRows]
      /\ \A k \in Ids :
            /\ session'[k].bound = session[k].bound
            /\ session'[k].confirmed = session[k].confirmed
            /\ session[k].at = "none" => session'[k].at = "none"
            /\ session[k].at # "none" => session'[k].at = "lost"
  <2>1. ASSUME NEW k \in Ids
        PROVE  /\ session'[k] \in SessionRows
               /\ session'[k].bound = session[k].bound
               /\ session'[k].confirmed = session[k].confirmed
               /\ session[k].at = "none" => session'[k].at = "none"
               /\ session[k].at # "none" => session'[k].at = "lost"
    <3>1. PICK released : released = Released(k)[k]
      OBVIOUS
    <3>2. /\ released \in SessionRows
          /\ released.bound = session[k].bound /\ released.confirmed = session[k].confirmed
      BY <1>1, <3>1, ReleasedRow DEF GoodSessions
    <3>3. session'[k] = IF session[k].at = "none" THEN session[k]
                        ELSE [released EXCEPT !.at = "lost"]
      BY <3>1 DEF Restart
    <3> QED BY <1>1, <3>2, <3>3 DEF GoodSessions, SessionRows
  <2>2. session' = [k \in Ids |-> session'[k]]
    BY DEF Restart
  <2> QED BY <2>1, <2>2
<1>3. GoodRequests'
  BY <1>1, IdleRow DEF Restart, GoodRequests, GoodRow, Held, Looking
<1>4. GoodSessions'
  BY <1>1, <1>2 DEF Restart, GoodSessions
<1>5. GoodShares'
  BY <1>1, <1>2 DEF Restart, GoodShares, ShareTellsTruth, Landings
<1> QED BY <1>3, <1>4, <1>5 DEF IInv

LEMMA RequestStep ==
  ASSUME IInv, NEW r \in Requests, BeginRequest(r) \/ Lock(r) \/ HandlerStep(r)
  PROVE  IInv'
BY BeginStep, ReadStep, CreateStep, LockAndApplyStep, CommitStep, RollbackStep, RecordStep,
   DeleteStep, SaveStep DEF Lock, HandlerStep

(* A handler moves itself only. *)
LEMMA OthersStay ==
  ASSUME IInv, NEW q \in Requests, BeginRequest(q) \/ Lock(q) \/ HandlerStep(q),
         NEW r \in Requests, q # r
  PROVE  request'[r] = request[r]
BY DEF IInv, GoodRequests, BeginRequest, Upload, AcceptShare, DeclineContactShare, BeginConfirm,
       BeginShareConfirm, Begin, Lock, LockAndReplay, LockAndRefuse, LockAndApply, HandlerStep,
       CreateSession, ParseFails, SessionBelongsToShare, Get, ReplayConfirmed, Commit, Rollback,
       RecordConfirmed, Delete, SaveAccepted, SaveDeclined, Goto, Answer, Succeed

LEMMA Init_IInv == Init => IInv
<1> SUFFICES ASSUME Init PROVE IInv
  OBVIOUS
<1>1. NoSession \in SessionRows /\ NoSession.at = "none" /\ ~NoSession.confirmed
  BY DEF NoSession, SessionRows, Kinds
<1>2. GoodRequests
  BY IdleRow DEF Init, GoodRequests, GoodRow, Held, Looking
<1>3. GoodSessions
  BY <1>1 DEF Init, GoodSessions
<1>4. GoodShares
  BY DEF Init, GoodShares, ShareTellsTruth
<1> QED BY <1>2, <1>3, <1>4 DEF IInv

LEMMA Next_IInv == IInv /\ [Next]_vars => IInv'
<1> SUFFICES ASSUME IInv, [Next]_vars PROVE IInv'
  OBVIOUS
<1>1. ASSUME NEW r \in Requests, BeginRequest(r) \/ Lock(r) \/ HandlerStep(r) PROVE IInv'
  BY <1>1, RequestStep
<1>2. ASSUME NEW i \in Ids,
             PreviewCSV(i) \/ Expire(i) \/ ExpireResult(i) \/ CleanupExpired(i)
      PROVE  IInv'
  BY <1>2, PreviewStep, ExpireStep
<1>3. ASSUME NEW h \in Shares, PurgeShare(h) PROVE IInv'
  BY <1>3, PurgeStep
<1>4. CASE Restart
  BY <1>4, RestartStep
<1>5. CASE UNCHANGED vars
  BY <1>5 DEF vars, history, IInv, GoodRequests, GoodRow, GoodSessions, Recorder, GoodShares,
              ShareTellsTruth, Landings
<1> QED BY <1>1, <1>2, <1>3, <1>4, <1>5 DEF Next

(* What handlers, sessions and shares rely on holds throughout. *)
THEOREM InvariantCorrect == Spec => []IInv
BY Init_IInv, Next_IInv, PTL DEF Spec

(* The state of sessions, shares and handlers has its type. *)
THEOREM TypeCorrect == Spec => []TypeOK
<1>1. IInv => TypeOK
  BY DEF IInv, GoodRequests, GoodSessions, GoodShares, TypeOK
<1> QED BY <1>1, InvariantCorrect, PTL

(* Confirmations of one session, however many and however they overlap, import *)
(* it once (Confirm and ConfirmVCF under confirmMu).                            *)
THEOREM AppliedOnceCorrect == Spec => []AppliedOnce
<1>1. IInv => AppliedOnce
  BY DEF IInv, GoodSessions, AppliedOnce
<1> QED BY <1>1, InvariantCorrect, PTL

(* A result that is answered, at first or replayed, is that of an import. *)
THEOREM ResultCorrect == Spec => []ResultIsTrue
<1>1. IInv => ResultIsTrue
  BY DEF IInv, GoodRequests, GoodRow, ResultIsTrue
<1> QED BY <1>1, InvariantCorrect, PTL

(* A share that reads accepted was imported, out of a session of its own. *)
THEOREM ShareCorrect == Spec => []ShareTellsTruth
<1>1. IInv => ShareTellsTruth
  BY DEF IInv, GoodShares
<1> QED BY <1>1, InvariantCorrect, PTL

(* A confirmation that is repeated in time is not answered "not found": the result *)
(* is remembered before the session is taken out of the map.                       *)
THEOREM FoundInTimeCorrect == Spec => FoundInTime
<1> DEFINE Found == \A r \in Requests :
              (request[r].at = "replay" /\ request'[r].answer = "notFound")
                 => request[r].id \in aged
<1>1. IInv /\ [Next]_vars => [Found]_vars
  <2> SUFFICES ASSUME IInv, Next, NEW r \in Requests,
                      request[r].at = "replay", request'[r].answer = "notFound"
               PROVE  request[r].id \in aged
    OBVIOUS
  <2>1. request[r].answer = "none" /\ request[r].id \in aged \cup confirmedResults
    BY DEF IInv, GoodRequests, GoodRow
  <2>2. ASSUME NEW q \in Requests, BeginRequest(q) \/ Lock(q) \/ HandlerStep(q)
        PROVE  ReplayConfirmed(r)
    <3>1. q = r
      BY <2>1, <2>2, OthersStay
    <3> QED BY <2>2, <3>1 DEF BeginRequest, Upload, AcceptShare, DeclineContactShare,
         BeginConfirm, BeginShareConfirm, Begin, Lock, LockAndReplay, LockAndRefuse,
         LockAndApply, CanLock, HandlerStep, CreateSession, ParseFails, SessionBelongsToShare,
         Get, Commit, Rollback, RecordConfirmed, Delete, SaveAccepted, SaveDeclined
  <2>3. ReplayConfirmed(r)
    <3>1. CASE Restart
      BY <3>1, IdleRow DEF Restart
    <3>2. CASE UNCHANGED request
      BY <2>1, <3>2
    <3> QED BY <2>2, <3>1, <3>2
         DEF Next, PreviewCSV, Expire, ExpireResult, CleanupExpired, PurgeShare
  <2> QED
    <3>1. CASE request[r].id \in confirmedResults
      <4>1. CASE request[r].endpoint = "share"
        BY <2>1, <2>3, <3>1, <4>1 DEF ReplayConfirmed, Succeed, Goto, IInv, GoodRequests, RequestRows
      <4>2. CASE request[r].endpoint # "share"
        <5>1. request'[r] = Answered("result", request[r].id)
          BY <2>3, <3>1, <4>2 DEF ReplayConfirmed, Succeed, Answer, IInv, GoodRequests
        <5> QED BY <5>1 DEF Answered
      <4> QED BY <4>1, <4>2
    <3> QED BY <2>1, <3>1
<1>2. [][Found]_vars => FoundInTime
  BY PTL DEF FoundInTime
<1> QED BY <1>1, <1>2, InvariantCorrect, PTL DEF Spec

-----------------------------------------------------------------------------
(* Handlers as repeatable imports. *)

(* What a handler's step looks like from there. *)
LEMMA RowMapped ==
  ASSUME IInv, NEW r \in Requests, NEW row, request' = [request EXCEPT ![r] = row]
  PROVE  /\ Asking' = IF Confirming(row) THEN Asking \cup {r} ELSE Asking \ {r}
         /\ Wanted' = [Wanted EXCEPT ![r] = About(row)]
         /\ Heard' = [Heard EXCEPT ![r] = row.answer]
<1>1. /\ request \in [Requests -> RequestRows] /\ request'[r] = row
      /\ \A q \in Requests : q # r => request'[q] = request[q]
  BY DEF IInv, GoodRequests
<1>2. Asking' = IF Confirming(row) THEN Asking \cup {r} ELSE Asking \ {r}
  BY <1>1 DEF Asking, Confirming
<1>3. \A q \in Requests : Wanted'[q] = [Wanted EXCEPT ![r] = About(row)][q]
  BY <1>1 DEF Wanted, About, Confirming
<1>4. Wanted' = [Wanted EXCEPT ![r] = About(row)]
  BY <1>3 DEF Wanted
<1>5. Heard' = [Heard EXCEPT ![r] = row.answer]
  BY <1>1 DEF Heard
<1> QED BY <1>2, <1>4, <1>5

(* Locks, flags and the map of sessions are not seen. *)
LEMMA SessionsMapped ==
  ASSUME \A i \in Ids : /\ session'[i].bound = session[i].bound
                        /\ session'[i].at = "none" <=> session[i].at = "none"
  PROVE  UNCHANGED <<Offered, Purpose>>
BY DEF Offered, Purpose

LEMMA RowNow ==
  ASSUME IInv, NEW r \in Requests
  PROVE  /\ request[r] \in RequestRows /\ GoodRow(r, request[r])
         /\ r \in Asking <=> Confirming(request[r])
         /\ Wanted[r] = About(request[r]) /\ Heard[r] = request[r].answer
BY DEF IInv, GoodRequests, Asking, Wanted, Heard

LEMMA NowAsking ==
  ASSUME IInv, NEW r \in Requests, Confirming(request[r])
  PROVE  /\ r \in Asking /\ request[r].id \in Ids
         /\ Wanted[r] = {request[r].id} /\ Heard[r] = "none" /\ request[r].answer = "none"
<1>1. GoodRow(r, request[r])
  BY RowNow
<1>2. request[r].id \in Ids /\ request[r].answer = "none"
  BY <1>1 DEF GoodRow, Confirming, Looking, Held
<1>3. About(request[r]) = {request[r].id}
  BY DEF About
<1> QED BY <1>2, <1>3, RowNow

(* A handler that has more to do for its client. *)
LEMMA GotoHides ==
  ASSUME IInv, NEW r \in Requests, Confirming(request[r]),
         NEW at \in {"get", "replay", "lock", "apply", "record", "forget", "accept"},
         Goto(r, at)
  PROVE  UNCHANGED <<Asking, Wanted, Heard>>
<1> DEFINE row == [request[r] EXCEPT !.at = at]
<1>1. request' = [request EXCEPT ![r] = row]
  BY DEF Goto
<1>2. row.at = at /\ row.id = request[r].id /\ row.answer = request[r].answer
  BY RowNow DEF RequestRows
<1>3. Confirming(row) /\ About(row) = Wanted[r] /\ row.answer = Heard[r]
  BY <1>2, NowAsking DEF Confirming, About
<1> HIDE DEF row
<1>4. Asking' = Asking \cup {r} /\ Wanted' = [Wanted EXCEPT ![r] = Wanted[r]]
      /\ Heard' = [Heard EXCEPT ![r] = Heard[r]]
  BY <1>1, <1>3, RowMapped
<1> QED BY <1>4, NowAsking DEF Wanted, Heard

(* A handler answers. *)
LEMMA AnswerMapped ==
  ASSUME IInv, NEW r \in Requests, NEW answer, Answer(r, answer)
  PROVE  /\ Asking' = Asking \ {r}
         /\ Wanted' = [Wanted EXCEPT ![r] = IF answer = "result" THEN {request[r].id} ELSE {}]
         /\ Heard' = [Heard EXCEPT ![r] = answer]
<1> DEFINE row == Answered(answer, IF answer = "result" THEN request[r].id ELSE Nobody)
<1>1. request' = [request EXCEPT ![r] = row]
  BY DEF Answer
<1>2. /\ ~Confirming(row) /\ row.answer = answer
      /\ About(row) = IF answer = "result" THEN {request[r].id} ELSE {}
  BY DEF Answered, Confirming, About
<1> HIDE DEF row
<1>3. /\ Asking' = IF Confirming(row) THEN Asking \cup {r} ELSE Asking \ {r}
      /\ Wanted' = [Wanted EXCEPT ![r] = About(row)]
      /\ Heard' = [Heard EXCEPT ![r] = row.answer]
  BY <1>1, RowMapped
<1>4. Wanted' = [Wanted EXCEPT ![r] = IF answer = "result" THEN {request[r].id} ELSE {}]
  BY <1>2, <1>3, Zenon
<1> QED BY <1>2, <1>3, <1>4

(* Who asked for no import is still no part of it. *)
LEMMA TurnsBy ==
  ASSUME IInv, NEW r \in Requests, ~Confirming(request[r]),
         NEW what \in {"none", "refused"}, Answer(r, what),
         UNCHANGED <<Offered, Purpose, aged, applied, AcceptedShares>>
  PROVE  Repeatable!Turn(r, what)
<1>1. r \notin Asking
  BY RowNow
<1>2. /\ Asking' = Asking \ {r} /\ Wanted' = [Wanted EXCEPT ![r] = {}]
      /\ Heard' = [Heard EXCEPT ![r] = what]
  BY AnswerMapped
<1> QED BY <1>1, <1>2 DEF Repeatable!Turn

(* Of what has landed the client hears, or, if it is a share, will hear. *)
LEMMA SucceedHears ==
  ASSUME IInv, NEW r \in Requests, Confirming(request[r]), applied[request[r].id] = 1,
         Succeed(r), UNCHANGED <<Offered, Purpose, aged, applied, AcceptedShares>>
  PROVE  Repeatable!Hear(r, request[r].id) \/ UNCHANGED Repeatable!repeatable
<1>1. CASE request[r].endpoint = "share"
  <2>1. UNCHANGED <<Asking, Wanted, Heard>>
    BY <1>1, GotoHides DEF Succeed
  <2> QED BY <2>1 DEF Repeatable!repeatable
<1>2. CASE request[r].endpoint # "share"
  <2>1. /\ Asking' = Asking \ {r} /\ Wanted' = [Wanted EXCEPT ![r] = {request[r].id}]
        /\ Heard' = [Heard EXCEPT ![r] = "result"]
    BY <1>2, AnswerMapped DEF Succeed
  <2>2. UNCHANGED Wanted
    BY <2>1, NowAsking DEF Wanted
  <2> QED BY <2>1, <2>2, NowAsking DEF Repeatable!Hear, Repeatable!Tell
<1> QED BY <1>1, <1>2

LEMMA RefusedBy ==
  ASSUME IInv, NEW r \in Requests, Confirming(request[r]), applied[request[r].id] = 0,
         Answer(r, "refused"), UNCHANGED <<Offered, Purpose, aged, applied, AcceptedShares>>
  PROVE  Repeatable!Refuse(r, request[r].id)
<1>1. /\ Asking' = Asking \ {r} /\ Wanted' = [Wanted EXCEPT ![r] = {}]
      /\ Heard' = [Heard EXCEPT ![r] = "refused"]
  BY AnswerMapped
<1> QED BY <1>1, NowAsking DEF Repeatable!Refuse, Repeatable!Tell

-----------------------------------------------------------------------------
(* Each step of the code as a step, or none, of the promise. *)

LEMMA StartsBy ==
  ASSUME IInv, NEW r \in Requests, request[r].at = "idle", NEW row, ~Confirming(row),
         row.answer = "none", request' = [request EXCEPT ![r] = row],
         UNCHANGED <<Offered, Purpose, aged, applied, AcceptedShares>>
  PROVE  Repeatable!Turn(r, "none")
<1>1. r \notin Asking
  BY RowNow DEF Confirming
<1>2. About(row) = {}
  BY DEF About
<1>3. /\ Asking' = Asking \ {r} /\ Wanted' = [Wanted EXCEPT ![r] = {}]
      /\ Heard' = [Heard EXCEPT ![r] = "none"]
  BY <1>2, RowMapped
<1> QED BY <1>1, <1>3 DEF Repeatable!Turn

LEMMA AsksBy ==
  ASSUME IInv, NEW r \in Requests, ~Confirming(request[r]), NEW row, Confirming(row),
         row.answer = "none", row.id \in Offered, request' = [request EXCEPT ![r] = row],
         UNCHANGED <<Offered, Purpose, aged, applied, AcceptedShares>>
  PROVE  Repeatable!Ask(r, row.id)
<1>1. r \notin Asking
  BY RowNow
<1>2. About(row) = {row.id}
  BY DEF About
<1>3. /\ Asking' = Asking \cup {r} /\ Wanted' = [Wanted EXCEPT ![r] = {row.id}]
      /\ Heard' = [Heard EXCEPT ![r] = "none"]
  BY <1>2, RowMapped
<1> QED BY <1>1, <1>3 DEF Repeatable!Ask

LEMMA BeginIsAsked ==
  ASSUME IInv, NEW r \in Requests, BeginRequest(r)
  PROVE  Repeatable!Next
<1>1. UNCHANGED <<Offered, Purpose, aged, applied, AcceptedShares>> /\ request[r].at = "idle"
  BY DEF BeginRequest, Upload, AcceptShare, DeclineContactShare, BeginConfirm, BeginShareConfirm,
         Begin, history, Offered, Purpose, AcceptedShares
<1>2. ~Confirming(request[r])
  BY <1>1 DEF Confirming
<1>3. ASSUME NEW at \in {"parse", "belongs", "decline"}, NEW i, NEW h, NEW endpoint, NEW kind,
             Begin(r, At(at, i, h, endpoint, kind))
      PROVE  Repeatable!Turn(r, "none")
  <2>1. ~Confirming(At(at, i, h, endpoint, kind)) /\ At(at, i, h, endpoint, kind).answer = "none"
    BY DEF At, Confirming
  <2> QED BY <1>1, <1>3, <2>1, StartsBy DEF Begin
<1>4. ASSUME NEW i \in Ids, NEW endpoint \in Endpoints, BeginConfirm(r, i, endpoint)
      PROVE  Repeatable!Ask(r, i)
  <2> DEFINE row == At("get", i, NoShare, endpoint, "csv")
  <2>1. row.id = i /\ row.answer = "none" /\ Confirming(row)
    BY DEF At, Confirming
  <2>2. i \in Offered /\ request' = [request EXCEPT ![r] = row]
    BY <1>4 DEF BeginConfirm, Begin, Offered
  <2> HIDE DEF row
  <2> QED BY <1>1, <1>2, <2>1, <2>2, AsksBy
<1>5. ASSUME NEW i \in Ids, NEW h \in Shares, BeginShareConfirm(r, h, i)
      PROVE  \E what \in {"none", "refused"} : Repeatable!Turn(r, what)
  BY <1>1, <1>2, <1>3, <1>5, TurnsBy DEF BeginShareConfirm
<1>6. ASSUME NEW kind \in Kinds, Upload(r, kind) PROVE Repeatable!Turn(r, "none")
  BY <1>3, <1>6 DEF Upload
<1>7. ASSUME NEW h \in Shares, AcceptShare(r, h) \/ DeclineContactShare(r, h)
      PROVE  Repeatable!Turn(r, "none")
  BY <1>3, <1>7 DEF AcceptShare, DeclineContactShare
<1> QED BY <1>4, <1>5, <1>6, <1>7 DEF BeginRequest, Repeatable!Next

LEMMA CreateOffers ==
  ASSUME IInv, NEW r \in Requests, CreateSession(r)
  PROVE  Repeatable!Next
<1>1. PICK i \in Ids : /\ session[i].at = "none"
                       /\ session' = [session EXCEPT ![i] = NewSession(request[r].kind, request[r].share)]
  BY DEF CreateSession
<1> DEFINE h == request[r].share
<1>2. session \in [Ids -> SessionRows] /\ h \in Shares \cup {NoShare}
  BY RowNow DEF IInv, GoodSessions, RequestRows
<1>3. i \notin Offered /\ Offered' = Offered \cup {i}
  BY <1>1, <1>2 DEF Offered, NewSession
<1>4. \A k \in Ids : Purpose'[k] = [Purpose EXCEPT ![i] = h][k]
  BY <1>1, <1>2 DEF Purpose, NewSession
<1>5. Purpose' = [Purpose EXCEPT ![i] = h]
  BY <1>4 DEF Purpose
<1>6. ~Confirming(request[r]) /\ request[r].answer = "none"
  BY RowNow DEF CreateSession, Confirming, GoodRow
<1>7. /\ Asking' = Asking \ {r} /\ Wanted' = [Wanted EXCEPT ![r] = {}]
      /\ Heard' = [Heard EXCEPT ![r] = "none"]
  BY AnswerMapped DEF CreateSession
<1>8. r \notin Asking /\ Wanted[r] = {} /\ Heard[r] = "none"
  BY <1>6, RowNow DEF About
<1>9. UNCHANGED <<Asking, Wanted, Heard>>
  BY <1>7, <1>8 DEF Wanted, Heard
<1>10. UNCHANGED <<aged, applied, AcceptedShares>>
  BY DEF CreateSession, history, AcceptedShares
<1> QED BY <1>2, <1>3, <1>5, <1>9, <1>10 DEF Repeatable!Offer, Repeatable!Next

(* The lookup of a session only takes it out of the map. *)
LEMMA LookupHides ==
  ASSUME IInv, NEW i \in Ids, Lookup(i)
  PROVE  UNCHANGED <<Offered, Purpose>>
<1>1. \A k \in Ids : /\ session'[k].bound = session[k].bound
                     /\ session'[k].at = "none" <=> session[k].at = "none"
  BY DEF Lookup, IInv, GoodSessions, SessionRows
<1> QED BY <1>1, SessionsMapped

LEMMA ReadsAsk ==
  ASSUME IInv, NEW r \in Requests,
         ParseFails(r) \/ SessionBelongsToShare(r) \/ Get(r) \/ ReplayConfirmed(r)
  PROVE  [Repeatable!Next]_(Repeatable!repeatable)
<1> DEFINE i == request[r].id
<1>1. UNCHANGED <<aged, applied, AcceptedShares>>
  BY DEF ParseFails, SessionBelongsToShare, Get, ReplayConfirmed, history, AcceptedShares
<1>2. CASE ParseFails(r)
  <2>1. ~Confirming(request[r]) /\ UNCHANGED <<Offered, Purpose>>
    BY <1>2 DEF ParseFails, Confirming, Offered, Purpose
  <2>2. Repeatable!Turn(r, "refused")
    BY <1>1, <1>2, <2>1, TurnsBy DEF ParseFails
  <2> QED BY <2>2 DEF Repeatable!Next
<1>3. CASE SessionBelongsToShare(r)
  <2>1. ~Confirming(request[r]) /\ i \in Ids /\ session[i].at # "none" /\ request[r].answer = "none"
    BY <1>3, RowNow DEF SessionBelongsToShare, Confirming, GoodRow
  <2>2. UNCHANGED <<Offered, Purpose>>
    BY <1>3, <2>1, LookupHides DEF SessionBelongsToShare
  <2>3. CASE Goto(r, "get")
    <3> DEFINE row == [request[r] EXCEPT !.at = "get"]
    <3>1. row.id = i /\ row.answer = "none" /\ Confirming(row)
      BY <2>1, RowNow DEF RequestRows, Confirming
    <3>2. i \in Offered /\ request' = [request EXCEPT ![r] = row]
      BY <2>1, <2>3 DEF Goto, Offered
    <3> HIDE DEF row
    <3>3. Repeatable!Ask(r, i)
      BY <1>1, <2>1, <2>2, <3>1, <3>2, AsksBy
    <3> QED BY <2>1, <3>3 DEF Repeatable!Next
  <2>4. CASE Answer(r, "refused")
    <3>1. Repeatable!Turn(r, "refused")
      BY <1>1, <2>1, <2>2, <2>4, TurnsBy
    <3> QED BY <3>1 DEF Repeatable!Next
  <2> QED BY <1>3, <2>3, <2>4 DEF SessionBelongsToShare
<1>4. CASE Get(r)
  <2>1. Confirming(request[r])
    BY <1>4 DEF Get, Confirming
  <2>2. UNCHANGED <<Offered, Purpose>>
    BY <1>4, <2>1, NowAsking, LookupHides DEF Get
  <2>3. UNCHANGED <<Asking, Wanted, Heard>>
    BY <1>4, <2>1, GotoHides DEF Get
  <2> QED BY <1>1, <2>2, <2>3 DEF Repeatable!repeatable
<1>5. CASE ReplayConfirmed(r)
  <2>1. Confirming(request[r])
    BY <1>5 DEF ReplayConfirmed, Confirming
  <2>2. i \in Ids /\ i \in aged \cup confirmedResults
    BY <1>5, <2>1, NowAsking, RowNow DEF ReplayConfirmed, GoodRow
  <2>3. UNCHANGED <<Offered, Purpose>>
    BY <1>5 DEF ReplayConfirmed, Offered, Purpose
  <2>4. CASE i \in confirmedResults
    <3>1. applied[i] = 1
      BY <2>2, <2>4 DEF IInv, GoodSessions
    <3>2. Repeatable!Hear(r, i) \/ UNCHANGED Repeatable!repeatable
      BY <1>1, <1>5, <2>1, <2>3, <2>4, <3>1, SucceedHears DEF ReplayConfirmed
    <3> QED BY <2>2, <3>2 DEF Repeatable!Next
  <2>5. CASE i \notin confirmedResults
    <3>1. /\ Asking' = Asking \ {r} /\ Wanted' = [Wanted EXCEPT ![r] = {}]
          /\ Heard' = [Heard EXCEPT ![r] = "notFound"]
      BY <1>5, <2>5, AnswerMapped DEF ReplayConfirmed
    <3>2. Repeatable!Miss(r, i)
      BY <1>1, <2>1, <2>2, <2>3, <2>5, <3>1, NowAsking DEF Repeatable!Miss, Repeatable!Tell
    <3> QED BY <2>2, <3>2 DEF Repeatable!Next
  <2> QED BY <2>4, <2>5
<1> QED BY <1>2, <1>3, <1>4, <1>5

(* Under a free lock an unconfirmed session that is not lost has not landed. *)
LEMMA NotLanded ==
  ASSUME IInv, NEW r \in Requests, CanLock(r), ~IsConfirmed(request[r].id)
  PROVE  applied[request[r].id] = 0
<1>1. /\ request[r].id \in Ids /\ session[request[r].id].at # "lost"
      /\ session[request[r].id].holder = Nobody
  BY RowNow DEF CanLock, GoodRow, Looking, Held
<1>2. ~Recorder(request[r].id)
  BY <1>1, NamesAssumption DEF Recorder
<1> QED BY <1>1, <1>2 DEF IsConfirmed, IInv, GoodSessions

LEMMA LockAnswers ==
  ASSUME IInv, NEW r \in Requests, Lock(r)
  PROVE  [Repeatable!Next]_(Repeatable!repeatable)
<1> DEFINE i == request[r].id
<1>1. Confirming(request[r]) /\ CanLock(r)
  BY DEF Lock, LockAndReplay, LockAndRefuse, LockAndApply, CanLock, Confirming
<1>2. i \in Ids /\ UNCHANGED <<aged, applied, AcceptedShares>>
  BY <1>1, NowAsking DEF Lock, LockAndReplay, LockAndRefuse, LockAndApply, history, AcceptedShares
<1>3. CASE LockAndReplay(r)
  <2>1. applied[i] = 1
    BY <1>2, <1>3 DEF LockAndReplay, IsConfirmed, IInv, GoodSessions
  <2>2. UNCHANGED <<Offered, Purpose>>
    BY <1>3 DEF LockAndReplay, Offered, Purpose
  <2>3. Repeatable!Hear(r, i) \/ UNCHANGED Repeatable!repeatable
    BY <1>1, <1>2, <1>3, <2>1, <2>2, SucceedHears DEF LockAndReplay
  <2> QED BY <1>2, <2>3 DEF Repeatable!Next
<1>4. CASE LockAndRefuse(r)
  <2>1. UNCHANGED <<Offered, Purpose>>
    BY <1>4 DEF LockAndRefuse, Offered, Purpose
  <2>2. Repeatable!Refuse(r, i)
    BY <1>1, <1>2, <1>4, <2>1, NotLanded, RefusedBy DEF LockAndRefuse
  <2> QED BY <1>2, <2>2 DEF Repeatable!Next
<1>5. CASE LockAndApply(r)
  <2>1. \A k \in Ids : /\ session'[k].bound = session[k].bound
                       /\ session'[k].at = "none" <=> session[k].at = "none"
    BY <1>2, <1>5 DEF LockAndApply, IInv, GoodSessions, SessionRows
  <2>2. UNCHANGED <<Asking, Wanted, Heard>>
    BY <1>1, <1>5, GotoHides DEF LockAndApply
  <2> QED BY <1>2, <2>1, <2>2, SessionsMapped DEF Repeatable!repeatable
<1> QED BY <1>3, <1>4, <1>5 DEF Lock

LEMMA CommitLands ==
  ASSUME IInv, NEW r \in Requests, Commit(r)
  PROVE  Repeatable!Next
<1> DEFINE i == request[r].id
<1>1. Confirming(request[r])
  BY DEF Commit, Confirming
<1>2. i \in Ids /\ applied[i] = 0
  BY <1>1, RowNow, NowAsking DEF Commit, GoodRow
<1>3. UNCHANGED <<Asking, Wanted, Heard>>
  BY <1>1, GotoHides DEF Commit
<1>4. UNCHANGED <<Offered, Purpose, aged, AcceptedShares>>
  BY DEF Commit, Offered, Purpose, AcceptedShares
<1>5. applied' = [applied EXCEPT ![i] = 1]
  BY <1>2 DEF Commit
<1>6. Repeatable!Land(r, i)
  BY <1>1, <1>2, <1>3, <1>4, <1>5, NowAsking DEF Repeatable!Land
<1> QED BY <1>2, <1>6 DEF Repeatable!Next

LEMMA RollbackRefuses ==
  ASSUME IInv, NEW r \in Requests, Rollback(r)
  PROVE  Repeatable!Next
<1> DEFINE i == request[r].id
<1>1. Confirming(request[r])
  BY DEF Rollback, Confirming
<1>2. i \in Ids /\ applied[i] = 0
  BY <1>1, RowNow, NowAsking DEF Rollback, GoodRow
<1>3. \A k \in Ids : /\ session'[k].bound = session[k].bound
                     /\ session'[k].at = "none" <=> session[k].at = "none"
  BY <1>2 DEF Rollback, Released, IInv, GoodSessions, SessionRows
<1>4. UNCHANGED <<Offered, Purpose, aged, applied, AcceptedShares>>
  BY <1>3, SessionsMapped DEF Rollback, history, AcceptedShares
<1>5. Repeatable!Refuse(r, i)
  BY <1>1, <1>2, <1>4, RefusedBy DEF Rollback
<1> QED BY <1>2, <1>5 DEF Repeatable!Next

LEMMA RecordHides ==
  ASSUME IInv, NEW r \in Requests, RecordConfirmed(r)
  PROVE  UNCHANGED Repeatable!repeatable
<1>1. Confirming(request[r])
  BY DEF RecordConfirmed, Confirming
<1>2. \A k \in Ids : /\ session'[k].bound = session[k].bound
                     /\ session'[k].at = "none" <=> session[k].at = "none"
  BY <1>1, NowAsking DEF RecordConfirmed, IInv, GoodSessions, SessionRows
<1>3. UNCHANGED <<Asking, Wanted, Heard>>
  BY <1>1, GotoHides DEF RecordConfirmed
<1> QED BY <1>2, <1>3, SessionsMapped
     DEF RecordConfirmed, history, AcceptedShares, Repeatable!repeatable

LEMMA DeleteHears ==
  ASSUME IInv, NEW r \in Requests, Delete(r)
  PROVE  [Repeatable!Next]_(Repeatable!repeatable)
<1> DEFINE i == request[r].id
<1>1. Confirming(request[r])
  BY DEF Delete, Confirming
<1>2. i \in Ids /\ applied[i] = 1 /\ session[i].at # "none"
  BY <1>1, RowNow, NowAsking DEF Delete, GoodRow, Looking, Held
<1>3. \A k \in Ids : /\ session'[k].bound = session[k].bound
                     /\ session'[k].at = "none" <=> session[k].at = "none"
  BY <1>2 DEF Delete, Released, IInv, GoodSessions, SessionRows
<1>4. UNCHANGED <<Offered, Purpose, aged, applied, AcceptedShares>>
  BY <1>3, SessionsMapped DEF Delete, history, AcceptedShares
<1>5. Repeatable!Hear(r, i) \/ UNCHANGED Repeatable!repeatable
  BY <1>1, <1>2, <1>4, SucceedHears DEF Delete
<1> QED BY <1>2, <1>5 DEF Repeatable!Next

(* The row of a share is written for the import its handler asked for. *)
LEMMA SavesAccept ==
  ASSUME IInv, NEW r \in Requests, SaveAccepted(r)
  PROVE  Repeatable!Next
<1> DEFINE i == request[r].id  h == request[r].share
<1>1. Confirming(request[r])
  BY DEF SaveAccepted, Confirming
<1>2. i \in Ids /\ h \in Shares /\ applied[i] = 1 /\ Purpose[i] = h
  BY <1>1, RowNow, NowAsking DEF SaveAccepted, GoodRow, Looking, Purpose
<1>3. UNCHANGED <<Offered, Purpose, aged, applied>>
  BY DEF SaveAccepted, Offered, Purpose
<1>4. AcceptedShares' \in {AcceptedShares, AcceptedShares \cup {h}}
  <2>1. CASE share' = share
    BY <2>1 DEF AcceptedShares
  <2>2. CASE share' = [share EXCEPT ![h] = "accepted"]
    BY <1>2, <2>2 DEF AcceptedShares, IInv, GoodShares
  <2> QED BY <2>1, <2>2 DEF SaveAccepted
<1>5. /\ Asking' = Asking \ {r} /\ Wanted' = [Wanted EXCEPT ![r] = {i}]
      /\ Heard' = [Heard EXCEPT ![r] = "result"]
  BY AnswerMapped DEF SaveAccepted
<1>6. UNCHANGED Wanted
  BY <1>1, <1>5, NowAsking DEF Wanted
<1>7. Repeatable!Hear(r, i)
  BY <1>1, <1>2, <1>3, <1>4, <1>5, <1>6, NowAsking DEF Repeatable!Hear, Repeatable!Tell
<1> QED BY <1>2, <1>7 DEF Repeatable!Next

LEMMA SavesDecline ==
  ASSUME IInv, NEW r \in Requests, SaveDeclined(r)
  PROVE  Repeatable!Next
<1> DEFINE h == request[r].share
<1>1. ~Confirming(request[r]) /\ h \in Shares /\ request[r].answer = "none"
  BY RowNow DEF SaveDeclined, Confirming, GoodRow
<1>2. UNCHANGED <<Offered, Purpose, aged, applied>>
  BY DEF SaveDeclined, Offered, Purpose
<1>3. CASE share' = [share EXCEPT ![h] = "declined"] /\ Answer(r, "none")
  <2>1. AcceptedShares' = AcceptedShares \ {h}
    BY <1>1, <1>3 DEF AcceptedShares, IInv, GoodShares
  <2>2. r \notin Asking /\ Wanted[r] = {} /\ Heard[r] = "none"
    BY <1>1, RowNow DEF About
  <2>3. /\ Asking' = Asking \ {r} /\ Wanted' = [Wanted EXCEPT ![r] = {}]
        /\ Heard' = [Heard EXCEPT ![r] = "none"]
    BY <1>3, AnswerMapped
  <2>4. UNCHANGED <<Asking, Wanted, Heard>>
    BY <2>2, <2>3 DEF Wanted, Heard
  <2> QED BY <1>1, <1>2, <2>1, <2>4 DEF Repeatable!Withdraw, Repeatable!Next
<1>4. CASE share' = share /\ Answer(r, "refused")
  <2>1. Repeatable!Turn(r, "refused")
    BY <1>1, <1>2, <1>4, TurnsBy DEF AcceptedShares
  <2> QED BY <2>1 DEF Repeatable!Next
<1> QED BY <1>3, <1>4 DEF SaveDeclined

LEMMA TimePasses ==
  ASSUME IInv, NEW i \in Ids, Expire(i) \/ ExpireResult(i)
  PROVE  Repeatable!Next
<1>1. i \in Offered
  BY DEF Expire, ExpireResult, Usable, Offered, IInv, GoodSessions
<1>2. aged' = aged \cup {i} /\ UNCHANGED <<session, share, request, applied>>
  BY DEF Expire, ExpireResult
<1>3. UNCHANGED <<Offered, Purpose, Asking, Wanted, Heard, AcceptedShares>>
  BY <1>2 DEF Offered, Purpose, Asking, Wanted, Heard, AcceptedShares
<1> QED BY <1>1, <1>2, <1>3 DEF Repeatable!Pass, Repeatable!Next

LEMMA SessionsHide ==
  ASSUME IInv, NEW i \in Ids, PreviewCSV(i) \/ CleanupExpired(i)
  PROVE  UNCHANGED Repeatable!repeatable
<1>1. UNCHANGED <<Offered, Purpose>>
  <2>1. CASE PreviewCSV(i)
    <3>1. \A k \in Ids : /\ session'[k].bound = session[k].bound
                         /\ session'[k].at = "none" <=> session[k].at = "none"
      BY <2>1 DEF PreviewCSV, IInv, GoodSessions, SessionRows
    <3> QED BY <3>1, SessionsMapped
  <2>2. CASE CleanupExpired(i)
    BY <2>2, LookupHides DEF CleanupExpired
  <2> QED BY <2>1, <2>2
<1>2. UNCHANGED <<aged, applied, share, request>>
  BY DEF PreviewCSV, CleanupExpired, history
<1> QED BY <1>1, <1>2 DEF Asking, Wanted, Heard, AcceptedShares, Repeatable!repeatable

LEMMA PurgeWithdraws ==
  ASSUME IInv, NEW h \in Shares, PurgeShare(h)
  PROVE  Repeatable!Next
<1>1. AcceptedShares' = AcceptedShares \ {h}
  BY DEF PurgeShare, AcceptedShares, IInv, GoodShares
<1>2. UNCHANGED <<session, request, aged, applied>>
  BY DEF PurgeShare, history
<1> QED BY <1>1, <1>2 DEF Offered, Purpose, Asking, Wanted, Heard, Repeatable!Withdraw, Repeatable!Next

LEMMA RestartForgets ==
  ASSUME IInv, Restart
  PROVE  Repeatable!Next
<1>1. \A k \in Ids : /\ session'[k].bound = session[k].bound
                     /\ session'[k].at = "none" <=> session[k].at = "none"
  BY DEF Restart, Released, IInv, GoodSessions, SessionRows
<1>2. UNCHANGED <<Offered, Purpose>>
  BY <1>1, SessionsMapped
<1>3. Asking' = {} /\ Wanted' = [r \in Requests |-> {}] /\ Heard' = [r \in Requests |-> "none"]
  BY IdleRow DEF Restart, Asking, Wanted, Heard, About, Confirming
<1>4. aged' = aged \cup Offered /\ UNCHANGED <<applied, AcceptedShares>>
  BY DEF Restart, Offered, AcceptedShares
<1> QED BY <1>2, <1>3, <1>4 DEF Repeatable!Restart, Repeatable!Next

(* A confirmation that is repeated, at once or after a lost answer, after a roll back
   or a restart, behaves as one of an import that lands once (Confirm, ConfirmVCF,
   ConfirmContactShare, replayConfirmed). *)
THEOREM ConfirmationsAreRepeatable == Spec => RepeatableSpec
<1>1. Init => Repeatable!Init
  <2> SUFFICES ASSUME Init PROVE Repeatable!Init
    OBVIOUS
  <2>1. \A i \in Ids : session[i].at = "none" /\ session[i].bound = NoShare
    BY DEF Init, NoSession
  <2>2. \A r \in Requests : ~Confirming(request[r]) /\ About(request[r]) = {}
                            /\ request[r].answer = "none"
    BY DEF Init, Idle, Answered, Confirming, About
  <2>3. Offered = {} /\ Asking = {} /\ AcceptedShares = {}
    BY <2>1, <2>2 DEF Init, Offered, Asking, AcceptedShares
  <2>4. /\ Purpose = [i \in Ids |-> NoShare] /\ Wanted = [r \in Requests |-> {}]
        /\ Heard = [r \in Requests |-> "none"]
    BY <2>1, <2>2 DEF Purpose, Wanted, Heard
  <2> QED BY <2>3, <2>4 DEF Init, Repeatable!Init
<1>2. IInv /\ [Next]_vars => [Repeatable!Next]_(Repeatable!repeatable)
  <2> SUFFICES ASSUME IInv, [Next]_vars PROVE [Repeatable!Next]_(Repeatable!repeatable)
    OBVIOUS
  <2>1. ASSUME NEW r \in Requests, BeginRequest(r) \/ Lock(r)
        PROVE  [Repeatable!Next]_(Repeatable!repeatable)
    BY <2>1, BeginIsAsked, LockAnswers
  <2>2. ASSUME NEW r \in Requests, HandlerStep(r)
        PROVE  [Repeatable!Next]_(Repeatable!repeatable)
    BY <2>2, CreateOffers, ReadsAsk, CommitLands, RollbackRefuses, RecordHides, DeleteHears,
       SavesAccept, SavesDecline DEF HandlerStep
  <2>3. ASSUME NEW i \in Ids, PreviewCSV(i) \/ Expire(i) \/ ExpireResult(i) \/ CleanupExpired(i)
        PROVE  [Repeatable!Next]_(Repeatable!repeatable)
    BY <2>3, TimePasses, SessionsHide
  <2>4. ASSUME NEW h \in Shares, PurgeShare(h) PROVE Repeatable!Next
    BY <2>4, PurgeWithdraws
  <2>5. CASE Restart
    BY <2>5, RestartForgets
  <2>6. CASE UNCHANGED vars
    BY <2>6 DEF vars, history, Offered, Purpose, Asking, Wanted, Heard, AcceptedShares,
                Repeatable!repeatable
  <2> QED BY <2>1, <2>2, <2>3, <2>4, <2>5, <2>6 DEF Next
<1> QED
  BY <1>1, <1>2, InvariantCorrect, PTL DEF Spec, RepeatableSpec, Repeatable!Spec
=============================================================================
