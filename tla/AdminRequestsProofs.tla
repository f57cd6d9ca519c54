-------------------------- MODULE AdminRequestsProofs --------------------------
(***************************************************************************)
(* The invariants of AdminRequests for every set of requests, users and    *)
(* tokens, every menu of what may be sent and every limit.                 *)
(***************************************************************************)
EXTENDS AdminRequests, Functions, FiniteSetTheorems, TLAPS

\* Whatever changes data is secured and audited.
LEMMA ChangesAreAudited ==
    \A r \in Routes : Changes(r) \/ r = "register" => Secured(r) /\ Audited(r)
  BY DEF Routes, Changes, Secured, Audited, RouteOf, TableRoutes, AccountRoutes, RecordRoutes,
         Open, Secure, Action

\* A token, once it exists, stays and never becomes valid again.
Fading == \A t \in Token : Born(t) => Born(t)' /\ (ValidToken(t)' => ValidToken(t))

\* What is said of a request stays true while others step, and while its own state only
\* loses the mark of a login that ran alone.
LEMMA OthersKeep ==
    ASSUME TypeOK, Fading, NEW p \in Requests, StageFits(p), TokenFits(p), LogFits(p),
           request' \in [Requests -> RequestType],
           \/ request'[p] = request[p]
           \/ request'[p] = [request[p] EXCEPT !.alone = FALSE],
           p \in changes' <=> p \in changes, p \in actionLog' <=> p \in actionLog,
           Born(p)' => Born(p)
    PROVE  StageFits(p)' /\ TokenFits(p)' /\ LogFits(p)'
  <1>1. /\ request'[p].stage = request[p].stage /\ request'[p].route = request[p].route
        /\ request'[p].token = request[p].token /\ request'[p].user = request[p].user
        /\ request'[p].login = request[p].login /\ request'[p].email = request[p].email
        /\ request'[p].status = request[p].status
        /\ request'[p].sentValid = request[p].sentValid
        /\ request[p].token \in Token \cup {None}
    BY DEF TypeOK, RequestType
  <1>2. StageFits(p)'
    BY <1>1 DEF StageFits, Recorded
  <1>3. Passed(p)' <=> Passed(p)
    BY <1>1 DEF Passed
  <1>4. TokenFits(p)'
    BY <1>1, <1>3 DEF TokenFits, Fading
  <1>5. LogFits(p)'
    BY <1>1 DEF LogFits, Recorded
  <1> QED BY <1>2, <1>4, <1>5

\* The clock only makes tokens invalid.
LEMMA TokensUnchanged ==
    ASSUME TypeOK, UNCHANGED tokens, clock' \in Nat, clock' >= clock
    PROVE  Fading /\ \A p \in Requests : Born(p)' => Born(p)
  <1> SUFFICES ASSUME NEW t \in Token, Born(t)
               PROVE  Born(t)' /\ (ValidToken(t)' => ValidToken(t))
    BY DEF Fading, Born, TokenOf
  <1>1. clock \in Nat /\ tokens[t].expiry \in Nat
    BY DEF TypeOK
  <1> QED BY <1>1 DEF Born, ValidToken, TokenOf

\* The keys: a step that adds no user and starts no registration.
LEMMA KeysKeep ==
    ASSUME KeysFit, UNCHANGED <<users, roles>>,
           \A p \in Requests : request'[p].stage = "registering" =>
              /\ request[p].stage = "registering"
              /\ request'[p].login = request[p].login /\ request'[p].email = request[p].email
    PROVE  KeysFit'
  <1>1. \A p \in Registering' : /\ p \in Registering
                                /\ request'[p].login = request[p].login
                                /\ request'[p].email = request[p].email
    BY DEF Registering
  <1> QED BY <1>1 DEF KeysFit, RegisteredWithRole

\* A step of one request that touches neither users nor tokens nor anybody else's log.
LEMMA OneSteps ==
    ASSUME IInv, NEW q \in Requests, NEW new \in RequestType,
           request' = [request EXCEPT ![q] = new],
           UNCHANGED <<users, roles, tokens, crashes>>, clock' \in Nat, clock' >= clock,
           changes' \in {changes, changes \cup {q}},
           actionLog' \in {actionLog, actionLog \cup {q}},
           new.stage # "registering"
    PROVE  /\ TypeOK' /\ KeysFit' /\ Fading /\ request'[q] = new
           /\ \A p \in Requests \ {q} : StageFits(p)' /\ TokenFits(p)' /\ LogFits(p)'
           /\ Born(q)' => Born(q)
  <1> USE DEF IInv
  <1>1. request' \in [Requests -> RequestType] /\ request'[q] = new
        /\ \A p \in Requests \ {q} : request'[p] = request[p]
    BY DEF TypeOK
  <1>2. TypeOK'
    BY <1>1 DEF TypeOK
  <1>3. KeysFit'
    BY <1>1, KeysKeep
  <1>4. Fading /\ \A p \in Requests : Born(p)' => Born(p)
    BY TokensUnchanged
  <1>5. \A p \in Requests \ {q} : StageFits(p)' /\ TokenFits(p)' /\ LogFits(p)'
    BY <1>1, <1>4, OthersKeep
  <1> QED BY <1>1, <1>2, <1>3, <1>4, <1>5

\* A handler's answer: the request is recorded, or is done.
LEMMA AnswerKeeps ==
    ASSUME IInv, NEW q \in Requests, NEW status \in {"ok", "failed"},
           request[q].stage \in {"handling", "login", "inserting", "checked", "registering"},
           request' = Answer(q, status), ~Born(q)',
           UNCHANGED <<actionLog>>,
           \/ UNCHANGED changes
           \/ changes' = changes \cup {q} /\ Secured(request[q].route) /\ Audited(request[q].route)
    PROVE  StageFits(q)' /\ TokenFits(q)' /\ LogFits(q)'
  <1> USE DEF IInv
  <1>1. /\ request[q] \in RequestType /\ StageFits(q) /\ TokenFits(q) /\ LogFits(q)
        /\ request'[q].stage = IF Recorded(q) THEN "recording" ELSE "done"
        /\ request'[q].route = request[q].route /\ request'[q].user = request[q].user
        /\ request'[q].login = request[q].login /\ request'[q].email = request[q].email
        /\ request'[q].status = status /\ request'[q].sentValid = request[q].sentValid
    BY DEF TypeOK, RequestType, Answer
  <1>2. StageFits(q)'
    BY <1>1 DEF StageFits, Recorded
  <1>3. Passed(q)
    BY DEF Passed, Stages
  <1>4. TokenFits(q)'
    BY <1>1, <1>3 DEF TokenFits, Passed
  <1>5. LogFits(q)'
    <2>1. AuthEnabled /\ Secured(request[q].route) => request[q].user # None
      BY <1>1, <1>3 DEF TokenFits
    <2>2. q \notin actionLog /\ (q \in changes => FALSE)
      BY <1>1 DEF LogFits, Over
    <2> QED BY <1>1, <2>1, <2>2 DEF LogFits, Recorded, Over
  <1> QED BY <1>2, <1>4, <1>5

AnswerRecord(q, status) ==
    [request[q] EXCEPT !.stage = IF Recorded(q) THEN "recording" ELSE "done", !.status = status]

LEMMA AnswerIsRecord ==
    ASSUME TypeOK, NEW q \in Requests, NEW status \in {"ok", "failed"}
    PROVE  /\ AnswerRecord(q, status) \in RequestType
           /\ AnswerRecord(q, status).stage # "registering"
           /\ Answer(q, status) = [request EXCEPT ![q] = AnswerRecord(q, status)]
  <1>1. request \in [Requests -> RequestType]
    BY DEF TypeOK
  <1>2. PICK stage \in {"recording", "done"} :
           stage = IF Recorded(q) THEN "recording" ELSE "done"
    OBVIOUS
  <1>3. AnswerRecord(q, status) = [request[q] EXCEPT !.stage = stage, !.status = status]
    BY <1>2 DEF AnswerRecord
  <1>4. AnswerRecord(q, status) \in RequestType /\ AnswerRecord(q, status).stage # "registering"
    <2>1. request[q] \in RequestType /\ stage \in Stages
      BY <1>1 DEF Stages
    <2>2. [request[q] EXCEPT !.stage = stage, !.status = status] \in RequestType
      BY <2>1 DEF RequestType
    <2>3. [request[q] EXCEPT !.stage = stage, !.status = status].stage = stage
      BY <2>1 DEF RequestType
    <2> HIDE DEF AnswerRecord
    <2> QED BY <2>2, <2>3, <1>3
  <1>5. Answer(q, status) = [request EXCEPT ![q].stage = stage, ![q].status = status]
    BY <1>2 DEF Answer
  <1>6. Answer(q, status) = [request EXCEPT ![q] = AnswerRecord(q, status)]
    <2> HIDE DEF AnswerRecord
    <2> QED BY <1>1, <1>3, <1>5
  <1> QED BY <1>4, <1>6

\* An answer of a handler that changes nothing or, secured and audited, something.
LEMMA AnsweredKeeps ==
    ASSUME IInv, NEW q \in Requests, NEW status \in {"ok", "failed"},
           request[q].stage \in {"handling", "login", "inserting", "checked", "registering"},
           request' = Answer(q, status), UNCHANGED <<users, roles, tokens, clock, actionLog, crashes>>,
           \/ UNCHANGED changes
           \/ changes' = changes \cup {q} /\ Secured(request[q].route) /\ Audited(request[q].route)
    PROVE  IInv'
  <1> USE DEF IInv
  <1>1. ~Born(q) /\ clock \in Nat /\ clock >= clock
    BY DEF TokenFits, TypeOK, Over
  <1>2. /\ TypeOK' /\ KeysFit' /\ (Born(q)' => Born(q))
        /\ \A p \in Requests \ {q} : StageFits(p)' /\ TokenFits(p)' /\ LogFits(p)'
    BY <1>1, AnswerIsRecord, OneSteps
  <1>3. StageFits(q)' /\ TokenFits(q)' /\ LogFits(q)'
    BY <1>1, <1>2, AnswerKeeps
  <1> QED BY <1>2, <1>3

LEMMA HandleReadKeeps == ASSUME IInv, NEW q \in Requests, HandleRead(q) PROVE IInv'
  BY AnsweredKeeps DEF HandleRead, Handling

LEMMA HandleFailsKeeps == ASSUME IInv, NEW q \in Requests, HandleFails(q) PROVE IInv'
  BY AnsweredKeeps DEF HandleFails

LEMMA HandleChangeKeeps ==
    ASSUME IInv, NEW q \in Requests, NEW status \in {"ok", "failed"}, HandleChange(q, status)
    PROVE  IInv'
  <1>1. Handling(q, {r \in Routes : Changes(r)}) /\ request' = Answer(q, status)
        /\ changes' = changes \cup {q} /\ UNCHANGED <<users, roles, tokens, clock, actionLog, crashes>>
    BY DEF HandleChange
  <1>2. Secured(request[q].route) /\ Audited(request[q].route) /\ request[q].stage = "handling"
    BY <1>1, ChangesAreAudited DEF Handling
  <1> QED BY <1>1, <1>2, AnsweredKeeps

LEMMA SendKeeps ==
    ASSUME IInv, NEW q \in Requests, NEW m \in Sendable, NEW t \in Token \cup {None}, Send(q, m, t)
    PROVE  IInv'
  <1> USE DEF IInv
  <1> DEFINE new == [Unsent EXCEPT !.stage = "received", !.token = t,
                         !.route = m.route, !.login = m.login, !.email = m.email,
                         !.sentValid = t # None /\ tokens[t].active /\ tokens[t].expiry > clock]
  <1>1. m.route \in Routes /\ m.login \in Logins \cup {None} /\ m.email \in Emails \cup {None}
        /\ (m.route = "register" => m.login \in Logins /\ m.email \in Emails)
    BY SendableRoutes
  <1>2. /\ new \in RequestType /\ new.stage = "received" /\ new.route = m.route /\ new.token = t
        /\ new.login = m.login /\ new.email = m.email
        /\ new.sentValid = (t # None /\ tokens[t].active /\ tokens[t].expiry > clock)
    BY <1>1 DEF Unsent, RequestType, Stages
  <1>3. /\ request' = [request EXCEPT ![q] = new] /\ request[q].stage = "unsent"
        /\ (t # None => Born(t)) /\ UNCHANGED <<users, roles, tokens, clock, changes, actionLog, crashes>>
    BY DEF Send
  <1>4. clock \in Nat /\ clock >= clock
    BY DEF TypeOK
  <1> HIDE DEF new
  <1>5. /\ TypeOK' /\ KeysFit' /\ (Born(q)' => Born(q)) /\ request'[q] = new
        /\ \A p \in Requests \ {q} : StageFits(p)' /\ TokenFits(p)' /\ LogFits(p)'
    BY <1>2, <1>3, <1>4, OneSteps
  <1>6. StageFits(q)'
    BY <1>1, <1>2, <1>5 DEF StageFits
  <1>7. TokenFits(q)'
    <2>1. ~Passed(q)'
      BY <1>2, <1>5 DEF Passed
    <2>2. ~Born(q)
      BY <1>3 DEF TokenFits, Over
    <2>3. t # None => Born(t)' /\ (ValidToken(t)' => new.sentValid)
      BY <1>2, <1>3 DEF ValidToken, Born, TokenOf
    <2> QED BY <1>2, <1>5, <2>1, <2>2, <2>3 DEF TokenFits
  <1>8. LogFits(q)'
    BY <1>2, <1>3, <1>5 DEF LogFits, Over
  <1> QED BY <1>5, <1>6, <1>7, <1>8

LEMMA AuthenticateKeeps ==
    ASSUME IInv, NEW q \in Requests, Authenticate(q) PROVE IInv'
  <1> USE DEF IInv
  <1> DEFINE user == Identity(request[q].token)
             refused == AuthEnabled /\ Secured(request[q].route) /\ user = None
             new == [request[q] EXCEPT !.user = user,
                         !.stage = IF refused THEN "done" ELSE "handling",
                         !.status = IF refused THEN "refused" ELSE "none"]
  <1>1. request[q] \in RequestType /\ request[q].token \in Token \cup {None}
    BY DEF TypeOK, RequestType
  <1>2. user \in Logins \cup {None}
    BY <1>1 DEF Identity, TypeOK, TokenOf
  <1>3. /\ new \in RequestType /\ new.stage = (IF refused THEN "done" ELSE "handling")
        /\ new.status = (IF refused THEN "refused" ELSE "none") /\ new.user = user
        /\ new.route = request[q].route /\ new.token = request[q].token
        /\ new.login = request[q].login /\ new.email = request[q].email
        /\ new.sentValid = request[q].sentValid
    <2> DEFINE st == IF refused THEN "done" ELSE "handling"
               answer == IF refused THEN "refused" ELSE "none"
    <2>1. st \in Stages /\ answer \in {"none", "ok", "failed", "refused", "error"}
      BY DEF Stages
    <2>2. new = [request[q] EXCEPT !.user = user, !.stage = st, !.status = answer]
      OBVIOUS
    <2>3. st = (IF refused THEN "done" ELSE "handling")
          /\ answer = (IF refused THEN "refused" ELSE "none")
      OBVIOUS
    <2> HIDE DEF st, answer, user, refused, new
    <2>4. new \in RequestType
      BY <1>1, <1>2, <2>1, <2>2 DEF RequestType
    <2> QED BY <1>1, <2>2, <2>3, <2>4 DEF RequestType
  <1>4. user # None => request[q].token # None /\ ValidToken(request[q].token)
    BY DEF Identity
  <1>5. /\ request' = [request EXCEPT ![q] = new] /\ request[q].stage = "received"
        /\ UNCHANGED <<users, roles, tokens, clock, changes, actionLog, crashes>>
    BY <1>1 DEF Authenticate, TypeOK
  <1>6. clock \in Nat /\ clock >= clock
    BY DEF TypeOK
  <1> HIDE DEF new, user
  <1>7. /\ TypeOK' /\ KeysFit' /\ (Born(q)' => Born(q)) /\ request'[q] = new
        /\ \A p \in Requests \ {q} : StageFits(p)' /\ TokenFits(p)' /\ LogFits(p)'
    BY <1>3, <1>5, <1>6, OneSteps
  <1>8. StageFits(q)'
    BY <1>3, <1>5, <1>7 DEF StageFits
  <1>9. TokenFits(q)'
    <2>1. ~Born(q)
      BY <1>5 DEF TokenFits, Over
    <2>2. user # None => request[q].sentValid
      BY <1>4, <1>5 DEF TokenFits
    <2> QED BY <1>3, <1>7, <2>1, <2>2 DEF TokenFits, Passed
  <1>10. LogFits(q)'
    BY <1>3, <1>5, <1>7 DEF LogFits, Over
  <1> QED BY <1>7, <1>8, <1>9, <1>10

\* Steps of one request that keep its token, user and route and pass no handler's answer.
LEMMA StageKeeps ==
    ASSUME IInv, NEW q \in Requests,
           \/ Forbid(q) \/ AuthenticateFails(q) \/ LoginCheck(q) \/ EnsureAvailable(q)
           \/ RecordAction(q) \/ RecordFails(q)
    PROVE  IInv'
  <1> USE DEF IInv
  <1>1. PICK new \in RequestType :
           /\ request' = [request EXCEPT ![q] = new]
           /\ new.route = request[q].route /\ new.token = request[q].token
           /\ new.login = request[q].login /\ new.email = request[q].email
           /\ new.sentValid = request[q].sentValid /\ new.user = request[q].user
           /\ \/ /\ request[q].stage = "received" /\ new.stage = "done"
                 /\ new.status \in {"error", "refused"} /\ UNCHANGED actionLog
              \/ /\ request[q].stage = "handling" /\ request[q].route = "login"
                 /\ request[q].login \in Logins
                 /\ new.stage = "login" /\ UNCHANGED actionLog
              \/ /\ request[q].stage = "handling" /\ request[q].route = "register"
                 /\ new.stage = "checked" /\ UNCHANGED actionLog
              \/ /\ request[q].stage = "recording" /\ new.stage = "done"
                 /\ new.status = request[q].status /\ actionLog' = actionLog \cup {q}
              \/ /\ request[q].stage = "recording" /\ new.stage = "done" /\ new.status = "error"
                 /\ UNCHANGED actionLog
    <2>0. request[q] \in RequestType
      BY DEF TypeOK
    <2>1. CASE AuthenticateFails(q)
      <3> DEFINE n == [request[q] EXCEPT !.stage = "done", !.status = "error"]
      <3>1. n \in RequestType
        BY <2>0 DEF RequestType, Stages
      <3>2. request' = [request EXCEPT ![q] = n]
        BY <2>0, <2>1 DEF AuthenticateFails, TypeOK
      <3>3. WITNESS n \in RequestType
      <3> QED BY <2>0, <2>1, <3>2 DEF AuthenticateFails, RequestType
    <2>2. CASE LoginCheck(q)
      <3> DEFINE n == [request[q] EXCEPT !.stage = "login", !.expiry = clock + Lifetime]
      <3>0. clock + Lifetime \in Nat
        BY TimesAreNatural DEF TypeOK
      <3>1. n \in RequestType
        BY <2>0, <3>0 DEF RequestType, Stages
      <3>2. request' = [request EXCEPT ![q] = n]
        BY <2>0, <2>2 DEF LoginCheck, TypeOK
      <3>3. request[q].login \in Logins
        BY <2>2 DEF LoginCheck, TypeOK
      <3>4. WITNESS n \in RequestType
      <3> QED BY <2>0, <2>2, <3>2, <3>3 DEF LoginCheck, Handling, RequestType
    <2>3. CASE EnsureAvailable(q)
      <3> DEFINE n == [request[q] EXCEPT !.stage = "checked"]
      <3>1. n \in RequestType
        BY <2>0 DEF RequestType, Stages
      <3>2. request' = [request EXCEPT ![q] = n]
        BY <2>0, <2>3 DEF EnsureAvailable, TypeOK
      <3>3. WITNESS n \in RequestType
      <3> QED BY <2>0, <2>3, <3>2 DEF EnsureAvailable, Handling, RequestType
    <2>4. CASE RecordAction(q)
      <3> DEFINE n == [request[q] EXCEPT !.stage = "done"]
      <3>1. n \in RequestType
        BY <2>0 DEF RequestType, Stages
      <3>2. request' = [request EXCEPT ![q] = n]
        BY <2>0, <2>4 DEF RecordAction, TypeOK
      <3>3. WITNESS n \in RequestType
      <3> QED BY <2>0, <2>4, <3>2 DEF RecordAction, RequestType
    <2>5. CASE RecordFails(q)
      <3> DEFINE n == [request[q] EXCEPT !.stage = "done", !.status = "error"]
      <3>1. n \in RequestType
        BY <2>0 DEF RequestType, Stages
      <3>2. request' = [request EXCEPT ![q] = n]
        BY <2>0, <2>5 DEF RecordFails, TypeOK
      <3>3. WITNESS n \in RequestType
      <3> QED BY <2>0, <2>5, <3>2 DEF RecordFails, RequestType
    <2>6. CASE Forbid(q)
      <3> DEFINE n == [request[q] EXCEPT !.stage = "done", !.status = "refused"]
      <3>1. n \in RequestType
        BY <2>0 DEF RequestType, Stages
      <3>2. request' = [request EXCEPT ![q] = n]
        BY <2>0, <2>6 DEF Forbid, TypeOK
      <3>3. WITNESS n \in RequestType
      <3> QED BY <2>0, <2>6, <3>2 DEF Forbid, RequestType
    <2> QED BY <2>1, <2>2, <2>3, <2>4, <2>5, <2>6
  <1>2. /\ UNCHANGED <<users, roles, tokens, crashes, changes>>
        /\ clock' \in Nat /\ clock' >= clock
        /\ actionLog' \in {actionLog, actionLog \cup {q}} /\ new.stage # "registering"
    <2>1. clock' \in {clock, clock + 1} /\ UNCHANGED <<users, roles, tokens, crashes, changes>>
      BY DEF Forbid, AuthenticateFails, LoginCheck, EnsureAvailable, RecordAction, RecordFails
    <2> QED BY <1>1, <2>1 DEF TypeOK
  <1>3. /\ TypeOK' /\ KeysFit' /\ (Born(q)' => Born(q)) /\ request'[q] = new
        /\ \A p \in Requests \ {q} : StageFits(p)' /\ TokenFits(p)' /\ LogFits(p)'
    BY <1>1, <1>2, OneSteps
  <1>4. StageFits(q)'
    BY <1>1, <1>3 DEF StageFits
  <1>5. TokenFits(q)'
    <2>1. new.stage \in {"login", "checked"} => ~Born(q)
      BY <1>1 DEF TokenFits, Over
    <2>2. Passed(q)' => Passed(q)
      <3>1. new.stage \in {"login", "checked", "done"}
        BY <1>1
      <3> QED BY <1>1, <1>3 DEF Passed, Stages, StageFits
    <2>3. new.stage # "received" /\ new.stage \in Over \cup {"login", "checked"}
      BY <1>1 DEF Over
    <2> QED BY <1>1, <1>3, <2>1, <2>2, <2>3 DEF TokenFits
  <1>6. LogFits(q)'
    <2>1. q \in changes => new.stage \in Over
      BY <1>1 DEF LogFits, Over
    <2> QED BY <1>1, <1>2, <1>3, <2>1 DEF LogFits, StageFits, Recorded
  <1> QED BY <1>3, <1>4, <1>5, <1>6

LEMMA RegisterInsertKeeps ==
    ASSUME IInv, NEW q \in Requests, RegisterInsert(q) PROVE IInv'
  <1> USE DEF IInv
  <1> DEFINE new == [request[q] EXCEPT !.stage = "registering"]
  <1>1. request[q] \in RequestType
    BY DEF TypeOK
  <1>2. /\ new \in RequestType /\ new.stage = "registering"
        /\ new.route = request[q].route /\ new.token = request[q].token
        /\ new.login = request[q].login /\ new.email = request[q].email
        /\ new.sentValid = request[q].sentValid /\ new.user = request[q].user
    BY <1>1 DEF RequestType, Stages
  <1>3. /\ request[q].stage = "checked" /\ request' = [request EXCEPT ![q] = new]
        /\ UNCHANGED <<users, roles, tokens, clock, changes, actionLog, crashes>>
    BY <1>1 DEF RegisterInsert, TypeOK
  <1> HIDE DEF new
  <1>4. /\ request' \in [Requests -> RequestType] /\ request'[q] = new
        /\ \A p \in Requests \ {q} : request'[p] = request[p]
    BY <1>2, <1>3 DEF TypeOK
  <1>5. TypeOK'
    BY <1>3, <1>4 DEF TypeOK
  <1>6. Fading /\ \A p \in Requests : Born(p)' => Born(p)
    BY <1>3, TokensUnchanged DEF TypeOK
  <1>7. \A p \in Requests \ {q} : StageFits(p)' /\ TokenFits(p)' /\ LogFits(p)'
    BY <1>3, <1>4, <1>6, OthersKeep
  <1>8. StageFits(q)' /\ TokenFits(q)' /\ LogFits(q)'
    <2>1. StageFits(q)'
      BY <1>2, <1>3, <1>4 DEF StageFits
    <2>2. TokenFits(q)'
      BY <1>2, <1>3, <1>4, <1>6 DEF TokenFits, Passed, Stages, Over
    <2>3. LogFits(q)'
      BY <1>2, <1>3, <1>4 DEF LogFits, Over
    <2> QED BY <2>1, <2>2, <2>3
  <1>9. KeysFit'
    <2>1. Registering' = Registering \cup {q}
      BY <1>2, <1>3, <1>4 DEF Registering
    <2>2. \A p \in Registering : /\ p # q
                                 /\ request[p].login # request[q].login
                                 /\ request[p].email # request[q].email
                                 /\ request'[p] = request[p]
      BY <1>3, <1>4 DEF Registering, RegisterInsert
    <2>3. \A u \in users : u.login # request[q].login /\ u.email # request[q].email
      BY DEF RegisterInsert, Taken
    <2>4. \A p \in Registering' : \A u \in users' :
              u.login # request'[p].login /\ u.email # request'[p].email
      BY <1>2, <1>3, <1>4, <2>1, <2>2, <2>3 DEF KeysFit
    <2>5. \A p, r \in Registering' : p # r =>
              request'[p].login # request'[r].login /\ request'[p].email # request'[r].email
      BY <1>2, <1>4, <2>1, <2>2 DEF KeysFit
    <2>6. RegisteredWithRole'
      BY <1>3 DEF KeysFit, RegisteredWithRole
    <2> QED BY <2>4, <2>5, <2>6 DEF KeysFit
  <1> QED BY <1>5, <1>7, <1>8, <1>9

LEMMA RegisterCommitKeeps ==
    ASSUME IInv, NEW q \in Requests, RegisterCommit(q) PROVE IInv'
  <1> USE DEF IInv
  <1> DEFINE new == AnswerRecord(q, "ok")
             row == [login |-> request[q].login, email |-> request[q].email]
  <1>1. /\ request[q].stage = "registering" /\ users' = users \cup {row}
        /\ roles' = roles \cup {request[q].login} /\ changes' = changes \cup {q}
        /\ request' = Answer(q, "ok") /\ UNCHANGED <<tokens, clock, actionLog, crashes>>
    BY DEF RegisterCommit
  <1>2. /\ request[q].route = "register" /\ request[q].route \in Routes
        /\ request[q].login \in Logins /\ request[q].email \in Emails
    BY <1>1 DEF StageFits
  <1>3. /\ request' \in [Requests -> RequestType] /\ request'[q] = new
        /\ new.stage # "registering" /\ \A p \in Requests \ {q} : request'[p] = request[p]
    BY <1>1, AnswerIsRecord DEF TypeOK
  <1>4. TypeOK'
    BY <1>1, <1>2, <1>3 DEF TypeOK
  <1>5. Fading /\ \A p \in Requests : Born(p)' => Born(p)
    BY <1>1, TokensUnchanged DEF TypeOK
  <1>6. \A p \in Requests \ {q} : StageFits(p)' /\ TokenFits(p)' /\ LogFits(p)'
    BY <1>1, <1>3, <1>5, OthersKeep
  <1>7. StageFits(q)' /\ TokenFits(q)' /\ LogFits(q)'
    <2>1. ~Born(q)'
      BY <1>1, <1>5 DEF TokenFits, Over
    <2> QED BY <1>1, <1>2, <2>1, ChangesAreAudited, AnswerKeeps
  <1>8. KeysFit'
    <2>1. Registering' = Registering \ {q} /\ q \in Registering
      BY <1>1, <1>3 DEF Registering
    <2>2. \A p \in Registering' : request'[p] = request[p] /\ p \in Registering /\ p # q
      BY <1>3, <2>1 DEF Registering
    <2>3. \A p \in Registering' : row.login # request[p].login /\ row.email # request[p].email
      BY <2>1, <2>2 DEF KeysFit
    <2>4. \A u \in users : u.login # row.login /\ u.email # row.email
      BY <2>1 DEF KeysFit
    <2>5. RegisteredWithRole'
      BY <1>1, <2>4 DEF KeysFit, RegisteredWithRole
    <2>6. \A p \in Registering' : \A u \in users' :
              u.login # request'[p].login /\ u.email # request'[p].email
      BY <1>1, <2>2, <2>3 DEF KeysFit
    <2>7. \A p, r \in Registering' : p # r =>
              request'[p].login # request'[r].login /\ request'[p].email # request'[r].email
      BY <2>2 DEF KeysFit
    <2> QED BY <2>5, <2>6, <2>7 DEF KeysFit
  <1> QED BY <1>4, <1>6, <1>7, <1>8

LEMMA TickKeeps == ASSUME IInv, Tick PROVE IInv'
  <1> USE DEF IInv
  <1>1. clock' \in Nat /\ clock' >= clock
        /\ UNCHANGED <<users, roles, tokens, changes, actionLog, request, crashes>>
    BY DEF Tick, TypeOK
  <1>2. TypeOK'
    BY <1>1 DEF TypeOK
  <1>3. KeysFit'
    BY <1>1, KeysKeep
  <1>4. Fading /\ \A p \in Requests : Born(p)' => Born(p)
    BY <1>1, TokensUnchanged
  <1>5. \A p \in Requests : StageFits(p)' /\ TokenFits(p)' /\ LogFits(p)'
    BY <1>1, <1>2, <1>4, OthersKeep DEF TypeOK
  <1> QED BY <1>2, <1>3, <1>5

LEMMA CrashKeeps == ASSUME IInv, Crash PROVE IInv'
  <1> USE DEF IInv
  <1>1. UNCHANGED <<users, roles, tokens, clock, changes, actionLog>> /\ crashes' = crashes + 1
        /\ request' = [q \in Requests |-> IF request[q].stage \in Ended THEN request[q]
                                      ELSE [request[q] EXCEPT !.stage = "crashed"]]
    BY DEF Crash
  <1>2. \A q \in Requests :
           /\ request'[q] \in RequestType
           /\ \/ request'[q] = request[q]
              \/ /\ request'[q].stage = "crashed" /\ request[q].stage \notin Ended
                 /\ request'[q].route = request[q].route /\ request'[q].user = request[q].user
                 /\ request'[q].login = request[q].login /\ request'[q].email = request[q].email
                 /\ request'[q].token = request[q].token
    <2> SUFFICES ASSUME NEW q \in Requests
                 PROVE  /\ request'[q] \in RequestType
                        /\ \/ request'[q] = request[q]
                           \/ /\ request'[q].stage = "crashed" /\ request[q].stage \notin Ended
                              /\ request'[q].route = request[q].route
                              /\ request'[q].user = request[q].user
                              /\ request'[q].login = request[q].login
                              /\ request'[q].email = request[q].email
                              /\ request'[q].token = request[q].token
      OBVIOUS
    <2>1. request[q] \in RequestType
      BY DEF TypeOK
    <2> QED BY <1>1, <2>1 DEF RequestType, Stages
  <1>3. request' \in [Requests -> RequestType]
    BY <1>1, <1>2
  <1>4. TypeOK'
    BY <1>1, <1>3 DEF TypeOK
  <1>5. KeysFit'
    BY <1>1, <1>2, KeysKeep
  <1>6. Fading /\ \A p \in Requests : Born(p)' => Born(p)
    BY <1>1, TokensUnchanged DEF TypeOK
  <1>7. ASSUME NEW q \in Requests PROVE StageFits(q)' /\ TokenFits(q)' /\ LogFits(q)'
    <2>1. CASE request'[q] = request[q]
      BY <1>1, <1>3, <1>6, <2>1, OthersKeep
    <2>2. CASE request'[q] # request[q]
      <3>1. StageFits(q)'
        BY <1>2, <2>2 DEF StageFits, Ended
      <3>2. TokenFits(q)'
        BY <1>2, <2>2, <1>6 DEF TokenFits, Passed, Over
      <3>3. LogFits(q)'
        <4>1. q \notin actionLog
          BY <1>2, <2>2 DEF LogFits, Ended
        <4> QED BY <1>1, <1>2, <2>2, <4>1 DEF LogFits, Over
      <3> QED BY <3>1, <3>2, <3>3
    <2> QED BY <2>1, <2>2
  <1> QED BY <1>4, <1>5, <1>7

LEMMA LogoutKeeps == ASSUME IInv, NEW q \in Requests, Logout(q) PROVE IInv'
  <1> USE DEF IInv
  <1>1. /\ request[q].stage = "handling" /\ request' = Answer(q, "ok")
        /\ UNCHANGED <<users, roles, clock, changes, actionLog, crashes>>
    BY DEF Logout, Handling
  <1>2. \A t \in Token : /\ tokens'[t] \in [user : Logins \cup {None}, expiry : Nat, active : BOOLEAN]
                         /\ tokens'[t].user = tokens[t].user
                         /\ tokens'[t].expiry = tokens[t].expiry
                         /\ tokens'[t].active => tokens[t].active
    BY DEF Logout, TypeOK, TokenOf
  <1>3. tokens' \in [Token -> [user : Logins \cup {None}, expiry : Nat, active : BOOLEAN]]
    BY <1>2 DEF Logout
  <1>4. Fading /\ \A p \in Requests : Born(p)' => Born(p)
    BY <1>1, <1>2 DEF Fading, Born, ValidToken, TokenOf, Token
  <1>5. /\ request' \in [Requests -> RequestType]
        /\ request'[q].stage # "registering" /\ \A p \in Requests \ {q} : request'[p] = request[p]
    BY <1>1, AnswerIsRecord DEF TypeOK
  <1>6. TypeOK'
    BY <1>1, <1>3, <1>5 DEF TypeOK
  <1>7. KeysFit'
    BY <1>1, <1>5, KeysKeep
  <1>8. \A p \in Requests \ {q} : StageFits(p)' /\ TokenFits(p)' /\ LogFits(p)'
    BY <1>1, <1>4, <1>5, OthersKeep
  <1>9. StageFits(q)' /\ TokenFits(q)' /\ LogFits(q)'
    <2>1. ~Born(q)'
      BY <1>1, <1>4 DEF TokenFits, Over
    <2> QED BY <1>1, <2>1, AnswerKeeps
  <1> QED BY <1>6, <1>7, <1>8, <1>9

LEMMA LoginInsertKeeps == ASSUME IInv, NEW q \in Requests, LoginInsert(q) PROVE IInv'
  <1> USE DEF IInv
  <1>0. request[q] \in RequestType /\ q \in Token
    BY DEF TypeOK, Token
  <1>1. PICK D \in SUBSET Token, b \in BOOLEAN :
           /\ request[q].stage = "login"
           /\ UNCHANGED <<users, roles, tokens, clock, changes, actionLog, crashes>>
           /\ \A p \in Requests :
                 request'[p] = IF p = q
                               THEN [request[q] EXCEPT !.stage = "inserting", !.alone = b, !.disables = D]
                               ELSE IF p \in Inserting(request[q].login)
                                    THEN [request[p] EXCEPT !.alone = FALSE] ELSE request[p]
    <2> DEFINE n == request[q].login
               expiry == [t \in Token |-> IF t = q THEN request[q].expiry ELSE TokenOf(t).expiry]
               D == Excess(ActiveOf(n) \cup {q}, expiry)
               b == Inserting(n) = {}
    <2>1. D \in SUBSET Token
      BY <1>0 DEF Excess, ActiveOf
    <2> QED BY <2>1 DEF LoginInsert
  <1>2. \A p \in Requests \ {q} : /\ request'[p] \in RequestType
                                  /\ \/ request'[p] = request[p]
                                     \/ request'[p] = [request[p] EXCEPT !.alone = FALSE]
                                  /\ request'[p].stage = request[p].stage
                                  /\ request'[p].login = request[p].login
                                  /\ request'[p].email = request[p].email
    <2> SUFFICES ASSUME NEW p \in Requests \ {q}
                 PROVE  /\ request'[p] \in RequestType
                        /\ \/ request'[p] = request[p]
                           \/ request'[p] = [request[p] EXCEPT !.alone = FALSE]
                        /\ request'[p].stage = request[p].stage
                        /\ request'[p].login = request[p].login
                        /\ request'[p].email = request[p].email
      OBVIOUS
    <2>1. request[p] \in RequestType
      BY DEF TypeOK
    <2>2. request'[p] = request[p] \/ request'[p] = [request[p] EXCEPT !.alone = FALSE]
      BY <1>1
    <2>3. [request[p] EXCEPT !.alone = FALSE] \in RequestType
      BY <2>1 DEF RequestType
    <2>4. CASE request'[p] = request[p]
      BY <2>1, <2>4
    <2>5. CASE request'[p] = [request[p] EXCEPT !.alone = FALSE]
      BY <2>1, <2>3, <2>5 DEF RequestType
    <2> QED BY <2>2, <2>4, <2>5
  <1>3. /\ request'[q] \in RequestType /\ request'[q].stage = "inserting"
        /\ request'[q].route = request[q].route /\ request'[q].token = request[q].token
        /\ request'[q].login = request[q].login /\ request'[q].user = request[q].user
        /\ request'[q].email = request[q].email /\ request'[q].sentValid = request[q].sentValid
    <2> DEFINE new == [request[q] EXCEPT !.stage = "inserting", !.alone = b, !.disables = D]
    <2>1. request'[q] = new
      BY <1>1
    <2>2. "inserting" \in Stages
      BY DEF Stages
    <2>3. new \in RequestType
      BY <1>0, <2>2 DEF RequestType
    <2> QED BY <1>0, <2>1, <2>3 DEF RequestType
  <1>4. request' \in [Requests -> RequestType]
    BY <1>2, <1>3 DEF LoginInsert
  <1>5. TypeOK'
    BY <1>1, <1>4 DEF TypeOK
  <1>6. KeysFit'
    BY <1>1, <1>2, <1>3, KeysKeep
  <1>7. Fading /\ \A p \in Requests : Born(p)' => Born(p)
    BY <1>1, TokensUnchanged DEF TypeOK
  <1>8. \A p \in Requests \ {q} : StageFits(p)' /\ TokenFits(p)' /\ LogFits(p)'
    BY <1>1, <1>2, <1>4, <1>7, OthersKeep
  <1>9. StageFits(q)'
    BY <1>1, <1>3 DEF StageFits
  <1>10. TokenFits(q)'
    BY <1>1, <1>3, <1>7 DEF TokenFits, Passed, Stages, Over
  <1>11. LogFits(q)'
    BY <1>1, <1>3 DEF LogFits, Over
  <1> QED BY <1>5, <1>6, <1>8, <1>9, <1>10, <1>11

LEMMA LoginCommitKeeps == ASSUME IInv, NEW q \in Requests, LoginCommit(q) PROVE IInv'
  <1> USE DEF IInv
  <1>1. /\ request[q].stage = "inserting" /\ request' = Answer(q, "ok")
        /\ UNCHANGED <<users, roles, clock, changes, actionLog, crashes>>
    BY DEF LoginCommit
  <1>2. ~Born(q) /\ request[q].login \in Logins /\ request[q].route = "login"
        /\ request[q] \in RequestType
    BY <1>1 DEF TokenFits, StageFits, Over, TypeOK
  <1>3. /\ tokens'[q] \in [user : Logins \cup {None}, expiry : Nat, active : BOOLEAN]
        /\ \A t \in Token \ {q} :
              /\ tokens'[t] \in [user : Logins \cup {None}, expiry : Nat, active : BOOLEAN]
              /\ tokens'[t].user = tokens[t].user
              /\ tokens'[t].expiry = tokens[t].expiry
              /\ tokens'[t].active => tokens[t].active
    <2>1. q \in Token /\ tokens'[q] = [user |-> request[q].login, expiry |-> request[q].expiry,
                                       active |-> q \notin request[q].disables]
      BY DEF LoginCommit, Token
    <2>2. tokens'[q] \in [user : Logins \cup {None}, expiry : Nat, active : BOOLEAN]
      BY <1>2, <2>1 DEF RequestType
    <2>3. ASSUME NEW t \in Token \ {q}
          PROVE  /\ tokens'[t] \in [user : Logins \cup {None}, expiry : Nat, active : BOOLEAN]
                 /\ tokens'[t].user = tokens[t].user
                 /\ tokens'[t].expiry = tokens[t].expiry
                 /\ tokens'[t].active => tokens[t].active
      <3>1. tokens'[t] = tokens[t] \/ tokens'[t] = [tokens[t] EXCEPT !.active = FALSE]
        BY DEF LoginCommit, TokenOf
      <3>2. tokens[t] \in [user : Logins \cup {None}, expiry : Nat, active : BOOLEAN]
        BY DEF TypeOK
      <3> QED BY <3>1, <3>2
    <2> QED BY <2>2, <2>3
  <1>4. tokens' \in [Token -> [user : Logins \cup {None}, expiry : Nat, active : BOOLEAN]]
    BY <1>3 DEF LoginCommit
  <1>5. Fading /\ \A p \in Requests \ {q} : Born(p)' => Born(p)
    BY <1>1, <1>2, <1>3 DEF Fading, Born, ValidToken, TokenOf, Token
  <1>6. ~Recorded(q)
    BY <1>2 DEF Recorded, Audited, RouteOf, TableRoutes, AccountRoutes, Open
  <1>7. /\ request' \in [Requests -> RequestType] /\ request'[q] = AnswerRecord(q, "ok")
        /\ request'[q].stage = "done" /\ request'[q].status = "ok"
        /\ request'[q].route = request[q].route /\ request'[q].user = request[q].user
        /\ request'[q].sentValid = request[q].sentValid
        /\ request'[q].login = request[q].login /\ request'[q].email = request[q].email
        /\ \A p \in Requests \ {q} : request'[p] = request[p]
    <2>1. /\ request' \in [Requests -> RequestType] /\ request'[q] = AnswerRecord(q, "ok")
          /\ \A p \in Requests \ {q} : request'[p] = request[p]
      BY <1>1, AnswerIsRecord DEF TypeOK
    <2> QED BY <1>2, <1>6, <2>1 DEF AnswerRecord, RequestType
  <1>8. TypeOK'
    BY <1>1, <1>4, <1>7 DEF TypeOK
  <1>9. KeysFit'
    BY <1>1, <1>7, KeysKeep
  <1>10. \A p \in Requests \ {q} : StageFits(p)' /\ TokenFits(p)' /\ LogFits(p)'
    BY <1>1, <1>5, <1>7, OthersKeep
  <1>11. StageFits(q)'
    BY <1>1, <1>2, <1>7 DEF StageFits
  <1>12. TokenFits(q)'
    BY <1>1, <1>7 DEF TokenFits, Passed, Stages, Over
  <1>13. LogFits(q)'
    <2>1. ~Recorded(q)' /\ q \notin actionLog /\ q \notin changes
      BY <1>1, <1>6, <1>7 DEF Recorded, LogFits, Over
    <2> QED BY <1>1, <1>7, <2>1 DEF LogFits
  <1> QED BY <1>8, <1>9, <1>10, <1>11, <1>12, <1>13

-------------------------------------------------------------------------------
(* Logins: what SolitaryLoginPrunes rests on. *)

\* The trigger's choice: of tokens with different expiries no more than the limit are left.
LEMMA TriggerKeepsFew ==
    ASSUME NEW S, IsFiniteSet(S), NEW expiry, \A t \in S : expiry[t] \in Nat,
           \A t, o \in S : expiry[t] = expiry[o] => t = o
    PROVE  /\ IsFiniteSet(S \ Excess(S, expiry))
           /\ Cardinality(S \ Excess(S, expiry)) <= TokenLimit
  <1> DEFINE Later(t) == {o \in S : expiry[o] > expiry[t]}
             K == S \ Excess(S, expiry)
             rank == [t \in K |-> Cardinality(Later(t))]
  <1>1. \A t \in S : IsFiniteSet(Later(t)) /\ Cardinality(Later(t)) \in Nat
    <2> SUFFICES ASSUME NEW t \in S PROVE IsFiniteSet(Later(t)) /\ Cardinality(Later(t)) \in Nat
      OBVIOUS
    <2>1. IsFiniteSet(Later(t))
      BY FS_Subset
    <2> QED BY <2>1, FS_CardinalityType
  <1>2. ASSUME NEW t \in S, NEW o \in S, expiry[o] > expiry[t]
        PROVE  Cardinality(Later(o)) < Cardinality(Later(t))
    <2>1. o \notin Later(o) /\ Later(o) \cup {o} \in SUBSET Later(t)
      BY <1>2
    <2> HIDE DEF Later
    <2>2. Cardinality(Later(o) \cup {o}) = Cardinality(Later(o)) + 1
      BY <1>1, <2>1, FS_AddElement
    <2>3. Cardinality(Later(o) \cup {o}) <= Cardinality(Later(t))
      BY <1>1, <2>1, FS_Subset
    <2> QED BY <1>1, <2>2, <2>3
  <1>3. \A t \in K : t \in S /\ Cardinality(Later(t)) < TokenLimit
    <2> SUFFICES ASSUME NEW t \in K PROVE t \in S /\ Cardinality(Later(t)) < TokenLimit
      OBVIOUS
    <2>1. t \in S /\ ~(Cardinality(Later(t)) >= TokenLimit)
      BY DEF Excess
    <2> QED BY <1>1, <2>1, LimitIsNatural
  <1>4. IsFiniteSet(K)
    BY FS_Subset
  <1> HIDE DEF Later, K
  <1>5. rank \in Injection(K, 0 .. TokenLimit - 1)
    <2>1. \A t \in K : rank[t] = Cardinality(Later(t)) /\ rank[t] \in 0 .. TokenLimit - 1
      BY <1>1, <1>3, LimitIsNatural
    <2>2. ASSUME NEW t \in K, NEW o \in K, rank[t] = rank[o] PROVE t = o
      <3>1. t \in S /\ o \in S /\ Cardinality(Later(t)) = Cardinality(Later(o))
        BY <1>3, <2>1, <2>2
      <3>2. ~(expiry[t] > expiry[o]) /\ ~(expiry[o] > expiry[t])
        BY <1>1, <1>2, <3>1
      <3>3. expiry[t] = expiry[o]
        BY <3>1, <3>2
      <3> QED BY <3>1, <3>3
    <2>3. rank \in [K -> 0 .. TokenLimit - 1]
      BY <2>1
    <2> QED BY <2>2, <2>3 DEF Injection, IsInjective
  <1>6. IsFiniteSet(0 .. TokenLimit - 1) /\ Cardinality(0 .. TokenLimit - 1) = TokenLimit
    <2>1. TokenLimit - 1 \in Int
      BY LimitIsNatural
    <2>2. Cardinality(0 .. TokenLimit - 1) = IF 0 > TokenLimit - 1 THEN 0 ELSE (TokenLimit - 1) - 0 + 1
      BY <2>1, FS_Interval
    <2>3. IsFiniteSet(0 .. TokenLimit - 1)
      BY <2>1, FS_Interval
    <2> QED BY <2>2, <2>3, LimitIsNatural
  <1>7. Cardinality(K) <= Cardinality(0 .. TokenLimit - 1)
    BY <1>5, <1>6, FS_Injection
  <1> QED BY <1>4, <1>6, <1>7 DEF K

LEMMA ExpiriesAreNumbers ==
    ASSUME TypeOK, NEW t \in Token, Dated(t) PROVE ExpiryOf(t) \in Nat
  BY DEF TypeOK, Dated, ExpiryOf, TokenOf, RequestType

\* What a token expires at stays, and time passes.
LEMMA ExpiriesKeep ==
    ASSUME TypeOK, ExpiriesFit, clock' \in Nat, clock' >= clock,
           \A t \in Token : Dated(t)' => Dated(t) /\ ExpiryOf(t)' = ExpiryOf(t)
    PROVE  ExpiriesFit'
  <1> SUFFICES ASSUME NEW t \in Token, Dated(t)'
               PROVE  /\ ExpiryOf(t)' < clock' + Lifetime
                      /\ \A o \in Token : (Dated(o)' /\ ExpiryOf(o)' = ExpiryOf(t)') => o = t
    BY DEF ExpiriesFit
  <1>1. /\ ExpiryOf(t) < clock + Lifetime
        /\ \A o \in Token : (Dated(o) /\ ExpiryOf(o) = ExpiryOf(t)) => o = t
    BY DEF ExpiriesFit
  <1>2. ExpiryOf(t)' < clock' + Lifetime
    BY <1>1, ExpiriesAreNumbers, TimesAreNatural DEF TypeOK
  <1> QED BY <1>1, <1>2

\* The tokens a login leaves active, while it is the only one of its user, become fewer.
LEMMA AloneKeeps ==
    ASSUME TypeOK, NEW q \in Requests, AloneFits(q),
           InsertsAlone(q)' => InsertsAlone(q),
           request'[q].login = request[q].login, request'[q].disables = request[q].disables,
           InsertsAlone(q)' => Inserting(request[q].login)' \subseteq Inserting(request[q].login),
           InsertsAlone(q)' => ActiveOf(request[q].login)' \subseteq ActiveOf(request[q].login)
    PROVE  AloneFits(q)'
  <1> SUFFICES ASSUME InsertsAlone(q)'
               PROVE  Inserting(request[q].login)' = {q} /\ Cardinality(Kept(q)') <= TokenLimit
    BY DEF AloneFits
  <1>1. Inserting(request[q].login) = {q} /\ Cardinality(Kept(q)) <= TokenLimit
    BY DEF AloneFits
  <1>2. q \in Inserting(request[q].login)'
    BY DEF Inserting, InsertsAlone
  <1>3. Kept(q)' \in SUBSET Kept(q) /\ Kept(q) \in SUBSET Token
    BY DEF Kept, ActiveOf, Token
  <1>4. IsFiniteSet(Kept(q))
    BY <1>3, TokensAreFinite, FS_Subset
  <1>5. Cardinality(Kept(q)') <= Cardinality(Kept(q)) /\ IsFiniteSet(Kept(q)')
    BY <1>3, <1>4, FS_Subset
  <1>6. Cardinality(Kept(q)') \in Nat /\ Cardinality(Kept(q)) \in Nat
    BY <1>4, <1>5, FS_CardinalityType
  <1> QED BY <1>1, <1>2, <1>5, <1>6, LimitIsNatural

\* A step outside of login: requests that wait for an insert or a commit of a token stay,
\* and tokens at most lose their activity.
LEMMA OutsideKeeps ==
    ASSUME LoginInv, IInv', clock' >= clock,
           \A p \in Requests :
              \/ request'[p] = request[p]
              \/ request'[p].stage = "handling" /\ request'[p].status = "none"
              \/ request'[p].stage \notin {"handling", "login", "inserting"},
           \A t \in Token : /\ tokens'[t].user = tokens[t].user
                            /\ tokens'[t].expiry = tokens[t].expiry
                            /\ tokens'[t].active => tokens[t].active
    PROVE  LoginInv'
  <1>1. \A p \in Requests : request'[p].stage \in {"login", "inserting"} => request'[p] = request[p]
    OBVIOUS
  <1>2. ASSUME NEW t \in Token, Dated(t)' PROVE Dated(t) /\ ExpiryOf(t)' = ExpiryOf(t)
    <2>1. Born(t)' <=> Born(t)
      BY DEF Born, TokenOf
    <2>2. CASE Born(t)
      BY <2>1, <2>2 DEF Dated, ExpiryOf, TokenOf
    <2>3. CASE ~Born(t)
      <3>1. t \in Requests /\ request'[t].stage \in {"login", "inserting"}
        BY <1>2, <2>1, <2>3 DEF Dated
      <3>2. request'[t] = request[t]
        BY <1>1, <3>1
      <3> QED BY <2>1, <2>3, <3>1, <3>2 DEF Dated, ExpiryOf
    <2> QED BY <2>2, <2>3
  <1>3. ExpiriesFit'
    BY <1>2, ExpiriesKeep DEF LoginInv, IInv, TypeOK
  <1>4. ASSUME NEW q \in Requests PROVE Unanswered(q)' /\ AloneFits(q)'
    <2>1. Unanswered(q)'
      BY DEF LoginInv, Unanswered
    <2>2. AloneFits(q)'
      <3> SUFFICES ASSUME InsertsAlone(q)' PROVE AloneFits(q)'
        BY DEF AloneFits
      <3>1. request'[q] = request[q]
        BY <1>1 DEF InsertsAlone
      <3>2. InsertsAlone(q)
        BY <3>1 DEF InsertsAlone
      <3>3. Inserting(request[q].login)' \subseteq Inserting(request[q].login)
        BY <1>1, <3>1 DEF Inserting
      <3>4. ActiveOf(request[q].login)' \subseteq ActiveOf(request[q].login)
        BY <3>1 DEF ActiveOf, TokenOf
      <3> QED BY <3>1, <3>2, <3>3, <3>4, AloneKeeps DEF LoginInv, IInv
    <2> QED BY <2>1, <2>2
  <1> QED BY <1>3, <1>4 DEF LoginInv

\* The steps outside of login.
Outside(q) ==
    \/ \E m \in Sendable, t \in Token \cup {None} : Send(q, m, t)
    \/ Authenticate(q) \/ Forbid(q) \/ AuthenticateFails(q)
    \/ HandleRead(q) \/ HandleFails(q)
    \/ \E status \in {"ok", "failed"} : HandleChange(q, status)
    \/ Logout(q)
    \/ EnsureAvailable(q) \/ RegisterInsert(q) \/ RegisterCommit(q)
    \/ RecordAction(q) \/ RecordFails(q)

LEMMA OutsideSteps ==
    ASSUME LoginInv, IInv', NEW q \in Requests, Outside(q) PROVE LoginInv'
  <1>1. request \in [Requests -> RequestType] /\ clock \in Nat
    BY DEF LoginInv, IInv, TypeOK
  <1>2. UNCHANGED clock
    BY DEF Outside, Send, Authenticate, Forbid, AuthenticateFails, HandleRead, HandleFails, HandleChange,
           Logout, EnsureAvailable, RegisterInsert, RegisterCommit, RecordAction, RecordFails
  <1>3. ASSUME NEW p \in Requests
        PROVE  \/ request'[p] = request[p]
               \/ request'[p].stage = "handling" /\ request'[p].status = "none"
               \/ request'[p].stage \notin {"handling", "login", "inserting"}
    <2>1. CASE p # q
      <3>1. request'[p] = request[p]
        BY <1>1, <2>1 DEF Outside, Send, Authenticate, Forbid, AuthenticateFails, HandleRead, HandleFails,
           HandleChange, Logout, EnsureAvailable, RegisterInsert, RegisterCommit, RecordAction,
           RecordFails, Answer
      <3> QED BY <3>1
    <2>2. CASE p = q
      <3>0. request[q] \in RequestType
        BY <1>1
      <3>1. CASE \E m \in Sendable, t \in Token \cup {None} : Send(q, m, t)
        BY <1>1, <2>2, <3>1 DEF Send, Unsent
      <3>2. CASE Authenticate(q)
        <4>1. \/ request'[q].stage = "done"
              \/ request'[q].stage = "handling" /\ request'[q].status = "none"
          BY <1>1, <3>0, <3>2 DEF Authenticate, RequestType
        <4> QED BY <2>2, <4>1
      <3>3. ASSUME NEW status \in {"ok", "failed"}, request' = Answer(q, status)
            PROVE  request'[q].stage \in {"recording", "done"}
        BY <1>1, <3>0, <3>3 DEF Answer, RequestType
      <3>4. CASE \/ HandleRead(q) \/ HandleFails(q) \/ Logout(q) \/ RegisterCommit(q)
                 \/ \E status \in {"ok", "failed"} : HandleChange(q, status)
        BY <2>2, <3>3, <3>4 DEF HandleRead, HandleFails, HandleChange, Logout, RegisterCommit
      <3>5. CASE \/ Forbid(q) \/ AuthenticateFails(q) \/ EnsureAvailable(q) \/ RegisterInsert(q)
                 \/ RecordAction(q) \/ RecordFails(q)
        <4>1. request'[q].stage \in {"done", "checked", "registering"}
          BY <1>1, <3>0, <3>5 DEF Forbid, AuthenticateFails, EnsureAvailable, RegisterInsert, RecordAction,
             RecordFails, RequestType
        <4> QED BY <2>2, <4>1
      <3> QED BY <3>1, <3>2, <3>4, <3>5 DEF Outside
    <2> QED BY <2>1, <2>2
  <1>4. ASSUME NEW t \in Token
        PROVE  /\ tokens'[t].user = tokens[t].user
               /\ tokens'[t].expiry = tokens[t].expiry
               /\ tokens'[t].active => tokens[t].active
    <2>1. CASE Logout(q)
      <3>1. tokens'[t] = tokens[t] \/ tokens'[t] = [tokens[t] EXCEPT !.active = FALSE]
        BY <2>1 DEF Logout, TokenOf
      <3>2. tokens[t] \in [user : Logins \cup {None}, expiry : Nat, active : BOOLEAN]
        BY DEF LoginInv, IInv, TypeOK
      <3> QED BY <3>1, <3>2
    <2>2. CASE ~Logout(q)
      <3>1. UNCHANGED tokens
        BY <2>2 DEF Outside, Send, Authenticate, Forbid, AuthenticateFails, HandleRead, HandleFails,
           HandleChange, EnsureAvailable, RegisterInsert, RegisterCommit, RecordAction, RecordFails
      <3> QED BY <3>1
    <2> QED BY <2>1, <2>2
  <1> QED BY <1>1, <1>2, <1>3, <1>4, OutsideKeeps

LEMMA TickKeepsLogins == ASSUME LoginInv, IInv', Tick PROVE LoginInv'
  <1>1. clock' >= clock /\ UNCHANGED <<tokens, request>>
    BY DEF Tick, LoginInv, IInv, TypeOK
  <1> QED BY <1>1, OutsideKeeps

LEMMA CrashKeepsLogins == ASSUME LoginInv, IInv', Crash PROVE LoginInv'
  <1>1. clock \in Nat /\ UNCHANGED <<tokens, clock>>
    BY DEF Crash, LoginInv, IInv, TypeOK
  <1>2. ASSUME NEW p \in Requests
        PROVE  request'[p] = request[p] \/ request'[p].stage \notin {"handling", "login", "inserting"}
    <2>1. request[p] \in RequestType
      BY DEF LoginInv, IInv, TypeOK
    <2>2. request'[p] = request[p] \/ request'[p] = [request[p] EXCEPT !.stage = "crashed"]
      BY DEF Crash
    <2> QED BY <2>1, <2>2 DEF RequestType
  <1> QED BY <1>1, <1>2, OutsideKeeps

\* The clock advances with every login: no other token expires when its token will.
LEMMA LoginCheckKeepsLogins ==
    ASSUME LoginInv, IInv', NEW q \in Requests, LoginCheck(q) PROVE LoginInv'
  <1> USE DEF LoginInv, IInv
  <1>1. /\ request \in [Requests -> RequestType] /\ request[q] \in RequestType /\ clock \in Nat
        /\ q \in Token
    BY DEF TypeOK, Token
  <1>2. /\ request[q].stage = "handling" /\ clock' = clock + 1 /\ UNCHANGED tokens
        /\ request' = [request EXCEPT ![q].stage = "login", ![q].expiry = clock + Lifetime]
    BY DEF LoginCheck, Handling
  <1>3. /\ request'[q].stage = "login" /\ request'[q].expiry = clock + Lifetime
        /\ request'[q].login = request[q].login /\ request'[q].status = request[q].status
        /\ \A p \in Requests \ {q} : request'[p] = request[p]
    BY <1>1, <1>2 DEF RequestType
  <1>4. ~Born(q) /\ ~Born(q)' /\ \A t \in Token : Born(t)' <=> Born(t)
    <2>1. ~Born(q)
      BY <1>2 DEF TokenFits, Over
    <2> QED BY <1>2, <2>1 DEF Born, TokenOf
  <1>5. Dated(q)' /\ ExpiryOf(q)' = clock + Lifetime
    BY <1>3, <1>4 DEF Dated, ExpiryOf
  <1>6. ASSUME NEW t \in Token \ {q}, Dated(t)'
        PROVE  /\ Dated(t) /\ ExpiryOf(t)' = ExpiryOf(t) /\ ExpiryOf(t) \in Nat
               /\ ExpiryOf(t) < clock + Lifetime
    <2>1. Dated(t) /\ ExpiryOf(t)' = ExpiryOf(t)
      <3>1. Born(t)' <=> Born(t)
        BY <1>4
      <3>2. CASE Born(t)
        BY <1>2, <3>1, <3>2 DEF Dated, ExpiryOf, TokenOf
      <3>3. CASE ~Born(t)
        <4>1. t \in Requests \ {q}
          BY <1>6, <3>1, <3>3 DEF Dated
        <4>2. request'[t] = request[t]
          BY <1>3, <4>1
        <4> QED BY <1>6, <3>1, <3>3, <4>2 DEF Dated, ExpiryOf
      <3> QED BY <3>2, <3>3
    <2> QED BY <2>1, ExpiriesAreNumbers DEF ExpiriesFit
  <1>7. ExpiriesFit'
    <2> SUFFICES ASSUME NEW t \in Token, Dated(t)'
                 PROVE  /\ ExpiryOf(t)' < clock' + Lifetime
                        /\ \A o \in Token : (Dated(o)' /\ ExpiryOf(o)' = ExpiryOf(t)') => o = t
      BY DEF ExpiriesFit
    <2>1. CASE t = q
      <3>1. ExpiryOf(t)' < clock' + Lifetime
        BY <1>1, <1>2, <1>5, <2>1, TimesAreNatural
      <3>2. ASSUME NEW o \in Token, Dated(o)', ExpiryOf(o)' = ExpiryOf(t)' PROVE o = q
        BY <1>1, <1>5, <1>6, <2>1, <3>2, TimesAreNatural
      <3> QED BY <2>1, <3>1, <3>2
    <2>2. CASE t # q
      <3>1. ExpiryOf(t)' < clock' + Lifetime
        BY <1>1, <1>2, <1>6, <2>2, TimesAreNatural
      <3>2. ASSUME NEW o \in Token, Dated(o)', ExpiryOf(o)' = ExpiryOf(t)' PROVE o = t
        <4>1. o # q
          BY <1>1, <1>5, <1>6, <2>2, <3>2, TimesAreNatural
        <4>2. /\ Dated(o) /\ ExpiryOf(o) = ExpiryOf(o)'
              /\ Dated(t) /\ ExpiryOf(t) = ExpiryOf(t)'
          BY <1>6, <2>2, <3>2, <4>1
        <4>3. ExpiryOf(o) = ExpiryOf(t)
          BY <3>2, <4>2
        <4> QED BY <4>2, <4>3 DEF ExpiriesFit
      <3> QED BY <3>1, <3>2
    <2> QED BY <2>1, <2>2
  <1>8. ASSUME NEW p \in Requests PROVE Unanswered(p)' /\ AloneFits(p)'
    <2>1. Unanswered(p)'
      BY <1>2, <1>3 DEF Unanswered
    <2>2. CASE p = q
      BY <1>3, <2>1, <2>2 DEF AloneFits, InsertsAlone
    <2>3. CASE p # q
      <3>1. request'[p] = request[p] /\ (InsertsAlone(p)' => InsertsAlone(p))
        BY <1>3, <2>3 DEF InsertsAlone
      <3>2. Inserting(request[p].login)' \subseteq Inserting(request[p].login)
        BY <1>3, <3>1 DEF Inserting
      <3>3. ActiveOf(request[p].login)' \subseteq ActiveOf(request[p].login)
        BY <1>2, <3>1 DEF ActiveOf, TokenOf
      <3>4. AloneFits(p)'
        BY <3>1, <3>2, <3>3, AloneKeeps
      <3> QED BY <2>1, <3>4
    <2> QED BY <2>2, <2>3
  <1> QED BY <1>7, <1>8

\* The trigger of an insert, if no other of the user is under way, leaves no more tokens
\* than the limit; of the others it takes the mark of running alone.
LEMMA LoginInsertKeepsLogins ==
    ASSUME LoginInv, IInv', NEW q \in Requests, LoginInsert(q) PROVE LoginInv'
  <1> USE DEF LoginInv, IInv
  <1>0. PICK n : n = request[q].login
    OBVIOUS
  <1> DEFINE expiry == [t \in Token |-> IF t = q THEN request[q].expiry ELSE TokenOf(t).expiry]
             S == ActiveOf(n) \cup {q}
  <1>1. /\ \A p \in Requests : request[p] \in RequestType
        /\ q \in Token /\ request[q].stage = "login" /\ clock \in Nat
        /\ n \in Logins /\ n # None /\ S \in SUBSET Token
    BY <1>0, NoneIsApart DEF TypeOK, Token, LoginInsert, ActiveOf, StageFits
  <1>2. /\ UNCHANGED tokens /\ UNCHANGED clock
        /\ \A p \in Requests :
              request'[p] =
                 IF p = q THEN [request[q] EXCEPT !.stage = "inserting", !.alone = (Inserting(n) = {}),
                                                  !.disables = Excess(S, expiry)]
                 ELSE IF p \in Inserting(n) THEN [request[p] EXCEPT !.alone = FALSE]
                 ELSE request[p]
    BY <1>0 DEF LoginInsert
  <1>3. /\ request'[q].stage = "inserting" /\ request'[q].expiry = request[q].expiry
        /\ request'[q].login = n /\ request'[q].status = request[q].status
        /\ request'[q].alone = (Inserting(n) = {})
        /\ request'[q].disables = Excess(S, expiry)
    <2>1. PICK b, D : b = (Inserting(n) = {}) /\ D = Excess(S, expiry)
      OBVIOUS
    <2> HIDE DEF S, expiry
    <2>2. request'[q] = [request[q] EXCEPT !.stage = "inserting", !.alone = b, !.disables = D]
      BY <1>2, <2>1
    <2>3. request[q] \in RequestType
      BY <1>1
    <2> QED BY <1>0, <2>1, <2>2, <2>3 DEF RequestType
  <1>4. \A p \in Requests \ {q} :
           /\ request'[p].stage = request[p].stage /\ request'[p].expiry = request[p].expiry
           /\ request'[p].login = request[p].login /\ request'[p].status = request[p].status
           /\ request'[p].disables = request[p].disables
           /\ request'[p].alone => request[p].alone /\ p \notin Inserting(n)
    <2> SUFFICES ASSUME NEW p \in Requests \ {q}
                 PROVE  /\ request'[p].stage = request[p].stage
                        /\ request'[p].expiry = request[p].expiry
                        /\ request'[p].login = request[p].login
                        /\ request'[p].status = request[p].status
                        /\ request'[p].disables = request[p].disables
                        /\ request'[p].alone => request[p].alone /\ p \notin Inserting(n)
      OBVIOUS
    <2>1. CASE p \in Inserting(n)
      <3>1. request'[p] = [request[p] EXCEPT !.alone = FALSE]
        BY <1>2, <2>1
      <3> QED BY <1>1, <3>1 DEF RequestType
    <2>2. CASE p \notin Inserting(n)
      <3>1. request'[p] = request[p]
        BY <1>2, <2>2
      <3> QED BY <2>2, <3>1
    <2> QED BY <2>1, <2>2
  <1>5. \A t \in Token : Born(t)' <=> Born(t)
    BY <1>2 DEF Born, TokenOf
  <1>6. ASSUME NEW t \in Token, Dated(t)' PROVE Dated(t) /\ ExpiryOf(t)' = ExpiryOf(t)
    <2>1. Born(t)' <=> Born(t)
      BY <1>5
    <2>2. CASE Born(t)
      BY <1>2, <2>1, <2>2 DEF Dated, ExpiryOf, TokenOf
    <2>3. CASE ~Born(t)
      <3>1. t \in Requests /\ request'[t].stage \in {"login", "inserting"}
        BY <1>6, <2>1, <2>3 DEF Dated
      <3>2. request[t].stage \in {"login", "inserting"} /\ request'[t].expiry = request[t].expiry
        BY <1>1, <1>3, <1>4, <3>1
      <3> QED BY <2>1, <2>3, <3>1, <3>2 DEF Dated, ExpiryOf
    <2> QED BY <2>2, <2>3
  <1>7. ExpiriesFit'
    <2>1. clock' \in Nat /\ clock' >= clock
      <3>1. clock' = clock
        BY DEF LoginInsert
      <3> QED BY <3>1 DEF TypeOK
    <2> HIDE DEF expiry
    <2> QED BY <1>6, <2>1, ExpiriesKeep
  <1>8. \A p \in Requests : Unanswered(p)'
    BY <1>1, <1>3, <1>4 DEF Unanswered
  <1>9. AloneFits(q)'
    <2> SUFFICES ASSUME Inserting(n) = {}
                 PROVE  Inserting(n)' = {q} /\ Cardinality(Kept(q)') <= TokenLimit
      BY <1>3 DEF AloneFits, InsertsAlone
    <2>1. Inserting(n)' = {q}
      BY <1>3, <1>4 DEF Inserting
    <2>2. Kept(q)' = S \ Excess(S, expiry)
      <3>1. ActiveOf(n)' = ActiveOf(n)
        BY <1>2 DEF ActiveOf, TokenOf
      <3> QED BY <1>3, <3>1 DEF Kept
    <2>3. ASSUME NEW t \in S PROVE Dated(t) /\ expiry[t] = ExpiryOf(t) /\ t \in Token
      <3>1. ~Born(q)
        BY <1>1 DEF TokenFits, Over
      <3>2. CASE t = q
        BY <1>1, <3>1, <3>2 DEF Dated, ExpiryOf
      <3>3. CASE t # q
        <4>1. t \in ActiveOf(n) /\ t \in Token
          BY <1>1, <3>3
        <4>2. Born(t)
          BY <1>1, <4>1 DEF ActiveOf, Born
        <4> QED BY <3>3, <4>1, <4>2 DEF Dated, ExpiryOf
      <3> QED BY <3>2, <3>3
    <2>4. IsFiniteSet(S)
      BY <1>1, TokensAreFinite, FS_Subset
    <2> HIDE DEF S, expiry
    <2>5. \A t \in S : expiry[t] \in Nat
      BY <2>3, ExpiriesAreNumbers
    <2>6. \A t, o \in S : expiry[t] = expiry[o] => t = o
      BY <2>3 DEF ExpiriesFit
    <2>7. Cardinality(S \ Excess(S, expiry)) <= TokenLimit
      BY <2>4, <2>5, <2>6, TriggerKeepsFew
    <2> QED BY <2>1, <2>2, <2>7
  <1>10. ASSUME NEW p \in Requests \ {q} PROVE AloneFits(p)'
    <2>1. /\ InsertsAlone(p)' => InsertsAlone(p)
          /\ request'[p].login = request[p].login /\ request'[p].disables = request[p].disables
      BY <1>4 DEF InsertsAlone
    <2>2. InsertsAlone(p)' => request[p].login # n
      BY <1>4, <2>1 DEF InsertsAlone, Inserting
    <2>3. InsertsAlone(p)' => Inserting(request[p].login)' \subseteq Inserting(request[p].login)
      BY <1>3, <1>4, <2>1, <2>2 DEF Inserting
    <2>4. ActiveOf(request[p].login)' \subseteq ActiveOf(request[p].login)
      BY <1>2, <2>1 DEF ActiveOf, TokenOf
    <2> QED BY <2>1, <2>3, <2>4, AloneKeeps
  <1> QED BY <1>7, <1>8, <1>9, <1>10

\* What a commit leaves active is what its trigger kept; logins of other users that ran
\* alone are not touched.
LEMMA LoginCommitKeepsLogins ==
    ASSUME LoginInv, IInv', NEW q \in Requests, LoginCommit(q)
    PROVE  /\ LoginInv'
           /\ request'[q].login = request[q].login
           /\ ActiveOf(request[q].login)' \subseteq Kept(q)
           /\ \A p \in Requests \ {q} : request'[p] = request[p]
  <1> USE DEF LoginInv, IInv
  <1>1. /\ \A p \in Requests : request[p] \in RequestType
        /\ q \in Token /\ request[q].stage = "inserting" /\ clock \in Nat /\ UNCHANGED clock
        /\ request[q].login \in Logins /\ request[q].login # None /\ ~Born(q)
    BY NoneIsApart DEF TypeOK, Token, LoginCommit, StageFits, TokenFits, Over
  <1>2. /\ request'[q].stage \notin {"handling", "login", "inserting"}
        /\ request'[q].login = request[q].login
        /\ \A p \in Requests \ {q} : request'[p] = request[p]
    <2>1. request' = Answer(q, "ok")
      BY DEF LoginCommit
    <2>2. request'[q] = AnswerRecord(q, "ok") /\ \A p \in Requests \ {q} : request'[p] = request[p]
      BY <2>1, AnswerIsRecord DEF TypeOK
    <2> QED BY <1>1, <2>2 DEF AnswerRecord, RequestType
  <1>3. /\ tokens'[q].user = request[q].login /\ tokens'[q].expiry = request[q].expiry
        /\ tokens'[q].active => q \notin request[q].disables
    BY <1>1 DEF LoginCommit
  <1>4. ASSUME NEW t \in Token \ {q}
        PROVE  /\ tokens'[t].user = tokens[t].user /\ tokens'[t].expiry = tokens[t].expiry
               /\ tokens'[t].active => tokens[t].active /\ t \notin request[q].disables
    <2>1. tokens[t] \in [user : Logins \cup {None}, expiry : Nat, active : BOOLEAN]
      BY DEF TypeOK
    <2>2. CASE t \in request[q].disables
      <3>1. tokens'[t] = [tokens[t] EXCEPT !.active = FALSE]
        BY <2>2 DEF LoginCommit, TokenOf
      <3> QED BY <2>1, <3>1
    <2>3. CASE t \notin request[q].disables
      <3>1. tokens'[t] = tokens[t]
        BY <2>3 DEF LoginCommit, TokenOf
      <3> QED BY <2>3, <3>1
    <2> QED BY <2>2, <2>3
  <1>5. ActiveOf(request[q].login)' \subseteq Kept(q)
    BY <1>2, <1>3, <1>4 DEF ActiveOf, Kept, TokenOf
  <1>6. ASSUME NEW t \in Token, Dated(t)' PROVE Dated(t) /\ ExpiryOf(t)' = ExpiryOf(t)
    <2>1. CASE t = q
      BY <1>1, <1>3, <2>1 DEF Dated, ExpiryOf, Born, TokenOf
    <2>2. CASE t # q
      <3>1. Born(t)' <=> Born(t)
        BY <1>4, <2>2 DEF Born, TokenOf
      <3>2. CASE Born(t)
        BY <1>4, <2>2, <3>1, <3>2 DEF Dated, ExpiryOf, TokenOf
      <3>3. CASE ~Born(t)
        <4>1. t \in Requests \ {q}
          BY <1>6, <2>2, <3>1, <3>3 DEF Dated
        <4>2. request'[t] = request[t]
          BY <1>2, <4>1
        <4> QED BY <1>6, <3>1, <3>3, <4>2 DEF Dated, ExpiryOf
      <3> QED BY <3>2, <3>3
    <2> QED BY <2>1, <2>2
  <1>7. ExpiriesFit'
    <2>1. clock' \in Nat /\ clock' >= clock
      BY <1>1
    <2> QED BY <1>6, <2>1, ExpiriesKeep
  <1>8. \A p \in Requests : Unanswered(p)'
    BY <1>2 DEF Unanswered
  <1>9. AloneFits(q)'
    BY <1>2 DEF AloneFits, InsertsAlone
  <1>10. ASSUME NEW p \in Requests \ {q} PROVE AloneFits(p)'
    <2>1. request'[p] = request[p] /\ (InsertsAlone(p)' => InsertsAlone(p))
      BY <1>2 DEF InsertsAlone
    <2>2. Inserting(request[p].login)' \subseteq Inserting(request[p].login)
      BY <1>2, <2>1 DEF Inserting
    <2>3. InsertsAlone(p)' => ActiveOf(request[p].login)' \subseteq ActiveOf(request[p].login)
      <3> SUFFICES ASSUME InsertsAlone(p), NEW t \in Token,
                          tokens'[t].user = request[p].login, tokens'[t].active
                   PROVE  tokens[t].user = request[p].login /\ tokens[t].active
        BY <2>1 DEF ActiveOf, TokenOf
      <3>1. Inserting(request[p].login) = {p}
        BY DEF AloneFits
      <3>2. request[q].login # request[p].login
        BY <1>1, <3>1 DEF Inserting
      <3>3. t # q
        BY <1>3, <3>2
      <3> QED BY <1>4, <3>3
    <2> QED BY <2>1, <2>2, <2>3, AloneKeeps
  <1> QED BY <1>2, <1>5, <1>7, <1>8, <1>9, <1>10

-------------------------------------------------------------------------------
(* Theorems *)

\* The stage of a request fits its route, its user, the log and its token; registrations
\* that run at once differ.
THEOREM InductiveInvariant == Spec => []IInv
  <1>1. Init => IInv
    <2> SUFFICES ASSUME Init PROVE IInv
      OBVIOUS
    <2>1. TypeOK
      <3>1. request \in [Requests -> RequestType]
        BY DEF Init, Unsent, RequestType, Stages
      <3>2. tokens \in [Token -> [user : Logins \cup {None}, expiry : Nat, active : BOOLEAN]]
        BY TimesAreNatural, ExpiriesDiffer, UsersAreKnown DEF Init, NoToken
      <3>3. roles \subseteq Logins
        BY RolesAreApart, UsersAreKnown DEF Init
      <3> QED BY <3>1, <3>2, <3>3, UsersAreKnown DEF Init, TypeOK
    <2>2. \A q \in Requests : request[q] = Unsent /\ ~Born(q)
      BY TokensApart DEF Init, Born, TokenOf, NoToken, Token
    <2>3. KeysFit
      <3>1. Registering = {}
        BY <2>2 DEF Registering, Unsent
      <3> QED BY <3>1, InitialKeys DEF KeysFit, RegisteredWithRole, Init
    <2>4. \A q \in Requests : StageFits(q) /\ TokenFits(q) /\ LogFits(q)
      BY <2>2 DEF StageFits, TokenFits, LogFits, Unsent, Passed, Stages, Init
    <2> QED BY <2>1, <2>3, <2>4 DEF IInv
  <1>2. IInv /\ [Next]_vars => IInv'
    <2> SUFFICES ASSUME IInv, [Next]_vars PROVE IInv'
      OBVIOUS
    <2>1. CASE Tick
      BY <2>1, TickKeeps
    <2>2. CASE Crash
      BY <2>2, CrashKeeps
    <2>3. ASSUME NEW q \in Requests, NEW m \in Sendable, NEW t \in Token \cup {None}, Send(q, m, t)
          PROVE  IInv'
      BY <2>3, SendKeeps
    <2>4. ASSUME NEW q \in Requests, Authenticate(q) PROVE IInv'
      BY <2>4, AuthenticateKeeps
    <2>5. ASSUME NEW q \in Requests,
                 \/ Forbid(q) \/ AuthenticateFails(q) \/ LoginCheck(q) \/ EnsureAvailable(q)
                 \/ RecordAction(q) \/ RecordFails(q)
          PROVE  IInv'
      BY <2>5, StageKeeps
    <2>6. ASSUME NEW q \in Requests, HandleRead(q) \/ HandleFails(q) PROVE IInv'
      BY <2>6, HandleReadKeeps, HandleFailsKeeps
    <2>6a. ASSUME NEW q \in Requests, NEW status \in {"ok", "failed"}, HandleChange(q, status)
           PROVE  IInv'
      BY <2>6a, HandleChangeKeeps
    <2>7. ASSUME NEW q \in Requests, LoginInsert(q) PROVE IInv'
      BY <2>7, LoginInsertKeeps
    <2>8. ASSUME NEW q \in Requests, LoginCommit(q) PROVE IInv'
      BY <2>8, LoginCommitKeeps
    <2>9. ASSUME NEW q \in Requests, Logout(q) PROVE IInv'
      BY <2>9, LogoutKeeps
    <2>10. ASSUME NEW q \in Requests, RegisterInsert(q) PROVE IInv'
      BY <2>10, RegisterInsertKeeps
    <2>11. ASSUME NEW q \in Requests, RegisterCommit(q) PROVE IInv'
      BY <2>11, RegisterCommitKeeps
    <2>12. CASE UNCHANGED vars
      BY <2>12 DEF vars, IInv, TypeOK, KeysFit, RegisteredWithRole, Registering, StageFits,
                   TokenFits, LogFits, Born, ValidToken, TokenOf, Passed, Recorded
    <2> QED BY <2>1, <2>2, <2>3, <2>4, <2>5, <2>6, <2>7, <2>8, <2>9, <2>10, <2>11, <2>12, <2>6a DEF Next
  <1> QED BY <1>1, <1>2, PTL DEF Spec

\* The shape of the state.
THEOREM TypeCorrect == Spec => []TypeOK
  BY InductiveInvariant, PTL DEF IInv

\* A committed change is in the log but for a request that has not ended, died with the
\* process or was answered with an error.
THEOREM ChangesAreAccountedFor == Spec => []AuditAccounts
  <1>1. IInv => AuditAccounts
    BY DEF IInv, AuditAccounts, LogFits
  <1> QED BY <1>1, InductiveInvariant, PTL

\* No secured handler runs for a token that was revoked, displaced or expired when the
\* request was sent.
THEOREM HandlersNeedTokens == Spec => []HandledWithToken
  <1>1. IInv => HandledWithToken
    BY DEF IInv, HandledWithToken, TokenFits
  <1> QED BY <1>1, InductiveInvariant, PTL

\* Users have their roles and no two share a key, however registrations interleave.
THEOREM UsersAreRegistered == Spec => []RegisteredWithRole
  <1>1. IInv => RegisteredWithRole
    BY DEF IInv, KeysFit
  <1> QED BY <1>1, InductiveInvariant, PTL

\* Tokens expire at different times, and of logins of one user one that inserts alone
\* leaves no more of them than the limit.
THEOREM LoginInvariant == Spec => []LoginInv
  <1>1. Init /\ IInv => LoginInv
    <2> SUFFICES ASSUME Init, IInv PROVE LoginInv
      OBVIOUS
    <2>1. \A q \in Requests : request[q] = Unsent /\ ~Born(q)
      BY TokensApart DEF Init, Born, TokenOf, NoToken, Token
    <2>2. ASSUME NEW t \in Token, Dated(t)
          PROVE  t \in InitialTokens /\ ExpiryOf(t) = InitialExpiry[t]
      <3>1. t \notin Requests
        BY <2>1, <2>2 DEF Dated, Unsent
      <3>2. t \in InitialTokens /\ Born(t)
        BY <2>2, <3>1 DEF Token, Dated
      <3> QED BY <3>2 DEF ExpiryOf, TokenOf, Init
    <2>3. clock = 0
      BY DEF Init
    <2>4. \A t \in InitialTokens : InitialExpiry[t] < 0 + Lifetime
      BY ExpiriesDiffer, TimesAreNatural
    <2>5. ExpiriesFit
      BY <2>2, <2>3, <2>4, ExpiriesDiffer DEF ExpiriesFit
    <2>6. \A q \in Requests : Unanswered(q) /\ AloneFits(q)
      BY <2>1 DEF Unanswered, AloneFits, InsertsAlone, Unsent
    <2> QED BY <2>5, <2>6 DEF LoginInv
  <1>2. LoginInv /\ [Next]_vars /\ IInv' => LoginInv'
    <2> SUFFICES ASSUME LoginInv, [Next]_vars, IInv' PROVE LoginInv'
      OBVIOUS
    <2>1. CASE Tick
      BY <2>1, TickKeepsLogins
    <2>2. CASE Crash
      BY <2>2, CrashKeepsLogins
    <2>3. ASSUME NEW q \in Requests, Outside(q) PROVE LoginInv'
      BY <2>3, OutsideSteps
    <2>4. ASSUME NEW q \in Requests, LoginCheck(q) PROVE LoginInv'
      BY <2>4, LoginCheckKeepsLogins
    <2>5. ASSUME NEW q \in Requests, LoginInsert(q) PROVE LoginInv'
      BY <2>5, LoginInsertKeepsLogins
    <2>6. ASSUME NEW q \in Requests, LoginCommit(q) PROVE LoginInv'
      BY <2>6, LoginCommitKeepsLogins
    <2>7. CASE UNCHANGED vars
      <3>1. clock \in Nat /\ clock' = clock /\ request' = request /\ tokens' = tokens
        BY <2>7 DEF vars, LoginInv, IInv, TypeOK
      <3> QED BY <3>1, OutsideKeeps
    <2> QED BY <2>1, <2>2, <2>3, <2>4, <2>5, <2>6, <2>7 DEF Next, Outside
  <1> QED BY <1>1, <1>2, InductiveInvariant, PTL DEF Spec

\* A login whose trigger ran alone ends with no more active tokens of its user than the
\* limit, whatever logins ran at once before it.
THEOREM LoneLoginsPrune == Spec => SolitaryLoginPrunes
  <1>1. ASSUME LoginInv, LoginInv', [Next]_vars, NEW q \in Requests,
               InsertsAlone(q), request'[q].status = "ok"
        PROVE  Cardinality(ActiveOf(request[q].login)') <= TokenLimit
    <2>0. request[q].status # "ok" /\ request[q].stage = "inserting"
      BY <1>1 DEF LoginInv, Unanswered, InsertsAlone
    <2>1. LoginCommit(q)
      <3>1. request'[q] # request[q] /\ request \in [Requests -> RequestType]
        BY <1>1, <2>0 DEF LoginInv, IInv, TypeOK
      <3>2. request'[q].status # request[q].status
        BY <1>1, <2>0
      <3>3. ~Tick /\ ~UNCHANGED vars
        BY <3>1 DEF Tick, vars
      <3>4. ~Crash
        <4>1. request[q] \in RequestType
          BY <3>1
        <4> QED BY <3>2, <4>1 DEF Crash, RequestType
      <3>5. PICK p \in Requests :
               \/ Outside(p) \/ LoginCheck(p) \/ LoginInsert(p) \/ LoginCommit(p)
        BY <1>1, <3>3, <3>4 DEF Next, Outside
      <3>6. CASE p # q
        <4>1. ~Outside(p) /\ ~LoginCheck(p)
          BY <3>1, <3>6 DEF Outside, Send, Authenticate, Forbid, AuthenticateFails, HandleRead, HandleFails,
             HandleChange, Logout, EnsureAvailable, RegisterInsert, RegisterCommit, RecordAction,
             RecordFails, Answer, LoginCheck
        <4>2. ~LoginInsert(p)
          <5>1. SUFFICES ASSUME LoginInsert(p) PROVE FALSE
            OBVIOUS
          <5>2. request'[q] = request[q] \/ request'[q] = [request[q] EXCEPT !.alone = FALSE]
            BY <3>6, <5>1 DEF LoginInsert
          <5>3. request[q] \in RequestType
            BY <3>1
          <5> QED BY <3>2, <5>2, <5>3 DEF RequestType
        <4>3. ~LoginCommit(p)
          BY <1>1, <3>1, <3>6, LoginCommitKeepsLogins DEF LoginInv
        <4> QED BY <3>5, <4>1, <4>2, <4>3
      <3>7. CASE p = q
        <4>1. HandleFails(q) \/ LoginCommit(q)
          BY <2>0, <3>5, <3>7 DEF Outside, Send, Authenticate, Forbid, AuthenticateFails, HandleRead,
             HandleChange, Logout, EnsureAvailable, RegisterInsert, RegisterCommit, RecordAction,
             RecordFails, Handling, LoginCheck, LoginInsert
        <4>2. ~HandleFails(q)
          <5>1. SUFFICES ASSUME HandleFails(q) PROVE FALSE
            OBVIOUS
          <5>2. request'[q] = AnswerRecord(q, "failed")
            <6>1. request' = Answer(q, "failed")
              BY <5>1 DEF HandleFails
            <6>2. request' = [request EXCEPT ![q] = AnswerRecord(q, "failed")]
              BY <1>1, <6>1, AnswerIsRecord DEF LoginInv, IInv
            <6> QED BY <3>1, <6>2
          <5>3. request[q] \in RequestType
            BY <3>1
          <5> QED BY <1>1, <5>2, <5>3 DEF AnswerRecord, RequestType
        <4> QED BY <4>1, <4>2
      <3> QED BY <3>6, <3>7
    <2>2. /\ request'[q].login = request[q].login
          /\ ActiveOf(request[q].login)' \in SUBSET Kept(q)
      BY <1>1, <2>1, LoginCommitKeepsLogins DEF LoginInv
    <2>3. Cardinality(Kept(q)) <= TokenLimit
      BY <1>1 DEF LoginInv, AloneFits
    <2>4. Kept(q) \in SUBSET Token
      BY DEF Kept, ActiveOf, Token
    <2>5. IsFiniteSet(Kept(q))
      BY <2>4, TokensAreFinite, FS_Subset
    <2>6. /\ IsFiniteSet(ActiveOf(request[q].login)')
          /\ Cardinality(ActiveOf(request[q].login)') <= Cardinality(Kept(q))
      BY <2>2, <2>5, FS_Subset
    <2>7. Cardinality(ActiveOf(request[q].login)') \in Nat /\ Cardinality(Kept(q)) \in Nat
      BY <2>5, <2>6, FS_CardinalityType
    <2> QED BY <2>3, <2>6, <2>7, LimitIsNatural
  <1>2. LoginInv /\ LoginInv' /\ [Next]_vars =>
           [\A q \in Requests :
              (request[q].stage = "inserting" /\ request[q].alone /\ request'[q].status = "ok") =>
                 Cardinality(ActiveOf(request[q].login)') <= TokenLimit]_vars
    BY <1>1 DEF InsertsAlone
  <1> QED BY <1>2, LoginInvariant, PTL DEF Spec, SolitaryLoginPrunes
===============================================================================
