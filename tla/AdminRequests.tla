----------------------------- MODULE AdminRequests -----------------------------
(***************************************************************************)
(* A request of the admin API on its way through the server: the token is  *)
(* looked up before anything else, the handler changes the data in its own *)
(* transactions, an exception becomes a response, and only then the action *)
(* is recorded, on another connection.  Requests interleave at every       *)
(* statement, and the process may die between any two.                     *)
(*                                                                         *)
(* login, logout and register are modelled statement by statement; the     *)
(* handler of any other change is one step that commits all, a part or     *)
(* nothing of it (the other modules take it apart).  Passwords and the     *)
(* contents of requests are left out, and so are roles: an identified user *)
(* may be found not to have the role a route asks for.                     *)
(***************************************************************************)
EXTENDS Integers, FiniteSets

CONSTANTS Requests,        \* each is sent at most once
          Sendable,        \* what may be sent: [route, login, email]
          Logins, Emails,  \* names and addresses of users
          InitialUsers,    \* private.users of earlier sessions, with their roles
          InitialTokens,   \* tokens the users have got before
          InitialExpiry,   \* and when they expire
          OtherRoles,      \* database roles that are no users
          Lifetime,        \* of a token, in steps of the clock
          TokenLimit,      \* tokens that stay active: LIMIT of the trigger
          AuthEnabled,
          MaxClock,        \* bound of the clock
          MaxCrashes,      \* bound: deaths of the process
          None

VARIABLES users,           \* private.users: [login, email]
          roles,           \* pg_roles
          tokens,          \* private.tokens
          clock,
          changes,         \* requests that committed a change of the data
          actionLog,       \* requests private.action_log has a row of
          request,         \* state of each request
          crashes

vars == <<users, roles, tokens, clock, changes, actionLog, request, crashes>>
store == <<users, roles, changes>>

Token == InitialTokens \cup Requests

ASSUME TokensApart == InitialTokens \cap Requests = {}
ASSUME NoneIsApart == None \notin Token \cup Logins
ASSUME UsersAreKnown == InitialUsers \subseteq [login : Logins, email : Emails]
ASSUME InitialKeys ==
    \A u, v \in InitialUsers : (u.login = v.login \/ u.email = v.email) => u = v
ASSUME RolesAreApart == OtherRoles \subseteq Logins /\ OtherRoles \cap {u.login : u \in InitialUsers} = {}
ASSUME TimesAreNatural == Lifetime \in Nat /\ MaxClock \in Nat /\ MaxCrashes \in Nat
ASSUME ExpiriesDiffer ==
    /\ InitialExpiry \in [InitialTokens -> 0..Lifetime - 1]
    /\ \A t, o \in InitialTokens : InitialExpiry[t] = InitialExpiry[o] => t = o
ASSUME SwitchIsBoolean == AuthEnabled \in BOOLEAN
ASSUME TokensAreFinite == IsFiniteSet(Token)
ASSUME LimitIsNatural == TokenLimit \in Nat

-------------------------------------------------------------------------------
(* The routes: whether a token of an admin is needed, whether the action is   *)
(* recorded, whether the rate is limited, and whether the data change.        *)

Open    == [secured |-> FALSE, audited |-> FALSE, changes |-> FALSE]
Secure  == [secured |-> TRUE,  audited |-> FALSE, changes |-> FALSE]
Action  == [secured |-> TRUE,  audited |-> TRUE,  changes |-> TRUE]

TableRoutes ==
    [add_data |-> Action, create_source |-> Action, create_table |-> Action,
     get_table |-> Secure, get_table_list |-> Secure, get_catalogs |-> Open,
     get_records |-> Secure, patch_table |-> Action]
AccountRoutes == [login |-> Open, logout |-> Secure, register |-> Action]
RecordRoutes ==
    [set_crossmatch_results |-> Action, assign_record_pgcs |-> Action, merge_pgcs |-> Action,
     get_record_crossmatch |-> Secure, save_structured_data |-> Action, tap_sync |-> Secure]

Routes == DOMAIN TableRoutes \cup DOMAIN AccountRoutes \cup DOMAIN RecordRoutes
RouteOf(r) ==
    IF r \in DOMAIN TableRoutes THEN TableRoutes[r]
    ELSE IF r \in DOMAIN AccountRoutes THEN AccountRoutes[r] ELSE RecordRoutes[r]
Secured(r) == RouteOf(r).secured
Audited(r) == RouteOf(r).audited
Changes(r) == RouteOf(r).changes /\ r # "register"
Reads(r) == ~RouteOf(r).changes /\ r \notin {"login", "logout"}

ASSUME SendableRoutes ==
    /\ Sendable \subseteq [route : Routes, login : Logins \cup {None}, email : Emails \cup {None}]
    /\ \A m \in Sendable : m.route = "register" => m.login \in Logins /\ m.email \in Emails

-------------------------------------------------------------------------------
NoToken == [user |-> None, expiry |-> 0, active |-> FALSE]
Unsent == [stage |-> "unsent", route |-> None, token |-> None, user |-> None, login |-> None,
           email |-> None, expiry |-> 0, disables |-> {}, status |-> "none",
           sentValid |-> FALSE, alone |-> TRUE]

TokenOf(t) == tokens[t]
Born(t) == TokenOf(t).user # None

\* Mutant: an inactive token still works.
UnexpiredToken(t) == Born(t) /\ TokenOf(t).expiry > clock

\* The row authenticate() looks for.
ValidToken(t) == Born(t) /\ TokenOf(t).expiry > clock /\ TokenOf(t).active

Init ==
    /\ users = InitialUsers
    /\ roles = OtherRoles \cup {u.login : u \in InitialUsers}
    /\ \E owner \in [InitialTokens -> {u.login : u \in InitialUsers}] :
          tokens = [t \in Token |->
                       IF t \in InitialTokens
                       THEN [user |-> owner[t], expiry |-> InitialExpiry[t], active |-> TRUE]
                       ELSE NoToken]
    /\ clock = 0
    /\ changes = {} /\ actionLog = {}
    /\ request = [q \in Requests |-> Unsent]
    /\ crashes = 0

\* Time passes while the requests wait.
Tick ==
    /\ clock < MaxClock
    /\ clock' = clock + 1
    /\ UNCHANGED <<users, roles, tokens, changes, actionLog, request, crashes>>

\* A request with a token somebody got, or with none or a wrong one.
Send(q, m, t) ==
    /\ request[q].stage = "unsent"
    /\ t # None => Born(t)
    /\ request' = [request EXCEPT ![q] =
          [Unsent EXCEPT !.stage = "received", !.token = t,
                         !.route = m.route, !.login = m.login, !.email = m.email,
                         !.sentValid = t # None /\ tokens[t].active /\ tokens[t].expiry > clock]]
    /\ UNCHANGED <<users, roles, tokens, clock, changes, actionLog, crashes>>

\* Mutant: the token stands for itself.
TokenItself(t) == IF AuthEnabled /\ t # None /\ ValidToken(t) THEN t ELSE None

\* The identity a token stands for; AuthMiddleware is not installed without auth.
Identity(t) == IF AuthEnabled /\ t # None /\ ValidToken(t) THEN TokenOf(t).user ELSE None

\* AuthMiddleware, the outermost that knows the request.
Authenticate(q) ==
    /\ request[q].stage = "received"
    /\ LET user == Identity(request[q].token)
           refused == AuthEnabled /\ Secured(request[q].route) /\ user = None
       IN  request' = [request EXCEPT ![q].user = user,
                          ![q].stage = IF refused THEN "done" ELSE "handling",
                          ![q].status = IF refused THEN "refused" ELSE "none"]
    /\ UNCHANGED <<users, roles, tokens, clock, changes, actionLog, crashes>>

\* An identified user without the role of the route; a connection that was configured
\* before the type of roles was registered reads none that is allowed.
Forbid(q) ==
    /\ request[q].stage = "received" /\ Secured(request[q].route)
    /\ Identity(request[q].token) # None
    /\ request' = [request EXCEPT ![q].stage = "done", ![q].status = "refused"]
    /\ UNCHANGED <<users, roles, tokens, clock, changes, actionLog, crashes>>

\* The lookup fails: no middleware outside of it turns that into an API error.
AuthenticateFails(q) ==
    /\ request[q].stage = "received" /\ AuthEnabled /\ request[q].token # None
    /\ request' = [request EXCEPT ![q].stage = "done", ![q].status = "error"]
    /\ UNCHANGED <<users, roles, tokens, clock, changes, actionLog, crashes>>

\* ActionMiddleware records what an identified user did after the handler is through.
Recorded(q) == Audited(request[q].route) /\ request[q].user # None

\* Mutant: the exception of a handler passes the recording.
AnswerUnlessRaised(q, status) ==
    [request EXCEPT ![q].stage = IF Recorded(q) /\ status = "ok" THEN "recording" ELSE "done",
                    ![q].status = status]

\* The handler returns, or raises what ExceptionMiddleware makes a response of.
Answer(q, status) ==
    [request EXCEPT ![q].stage = IF Recorded(q) THEN "recording" ELSE "done",
                    ![q].status = status]

-------------------------------------------------------------------------------
(* Handlers *)

Handling(q, S) == request[q].stage = "handling" /\ request[q].route \in S

HandleRead(q) ==
    /\ Handling(q, {r \in Routes : Reads(r)})
    /\ request' = Answer(q, "ok")
    /\ UNCHANGED <<users, roles, tokens, clock, changes, actionLog, crashes>>

\* A change commits; a handler of several transactions may fail after one of them.
HandleChange(q, status) ==
    /\ Handling(q, {r \in Routes : Changes(r)})
    /\ changes' = changes \cup {q}
    /\ request' = Answer(q, status)
    /\ UNCHANGED <<users, roles, tokens, clock, actionLog, crashes>>

\* An invalid body, a limit of the rate, an error before any commit, and in the case
\* of a login an unknown name or a wrong password.
HandleFails(q) ==
    /\ request[q].stage \in {"handling", "login", "inserting", "checked", "registering"}
    /\ request' = Answer(q, "failed")
    /\ UNCHANGED <<users, roles, tokens, clock, changes, actionLog, crashes>>

\* The user is read, the password checked and the time taken.
LoginCheck(q) ==
    /\ Handling(q, {"login"})
    /\ \E u \in users : u.login = request[q].login
    /\ clock < MaxClock
    /\ clock' = clock + 1
    /\ request' = [request EXCEPT ![q].stage = "login", ![q].expiry = clock + Lifetime]
    /\ UNCHANGED <<users, roles, tokens, changes, actionLog, crashes>>

ActiveOf(n) == {t \in Token : TokenOf(t).user = n /\ TokenOf(t).active}
Inserting(n) == {q \in Requests : request[q].stage = "inserting" /\ request[q].login = n}

\* Mutant: the trigger keeps one token too many.
OneTooMany(S, expiry) ==
    {t \in S : Cardinality({o \in S : expiry[o] > expiry[t]}) > TokenLimit}

\* Those beyond the TokenLimit latest to expire.
Excess(S, expiry) ==
    {t \in S : Cardinality({o \in S : expiry[o] > expiry[t]}) >= TokenLimit}

\* The token is inserted and the trigger finds the excess among the rows it can see:
\* those committed, and the new one.
LoginInsert(q) ==
    /\ request[q].stage = "login"
    /\ LET n == request[q].login
           expiry == [t \in Token |-> IF t = q THEN request[q].expiry ELSE TokenOf(t).expiry]
           others == Inserting(n)
       IN  request' = [p \in Requests |->
              IF p = q THEN [request[q] EXCEPT !.stage = "inserting", !.alone = (others = {}),
                                 !.disables = Excess(ActiveOf(n) \cup {q}, expiry)]
              ELSE IF p \in others THEN [request[p] EXCEPT !.alone = FALSE]
              ELSE request[p]]
    /\ UNCHANGED <<users, roles, tokens, clock, changes, actionLog, crashes>>

LoginCommit(q) ==
    /\ request[q].stage = "inserting"
    /\ tokens' = [t \in Token |->
          IF t = q THEN [user |-> request[q].login, expiry |-> request[q].expiry,
                         active |-> q \notin request[q].disables]
          ELSE IF t \in request[q].disables THEN [TokenOf(t) EXCEPT !.active = FALSE]
          ELSE TokenOf(t)]
    /\ request' = Answer(q, "ok")
    /\ UNCHANGED <<users, roles, clock, changes, actionLog, crashes>>

\* The token of the header is revoked, whoever it belongs to.
Logout(q) ==
    /\ Handling(q, {"logout"})
    /\ tokens' = [t \in Token |-> IF t = request[q].token THEN [TokenOf(t) EXCEPT !.active = FALSE]
                                  ELSE TokenOf(t)]
    /\ request' = Answer(q, "ok")
    /\ UNCHANGED <<users, roles, clock, changes, actionLog, crashes>>

Taken(n, e) == (\E u \in users : u.login = n \/ u.email = e) \/ n \in roles

\* The name is looked for outside the transaction; who finds it fails (HandleFails).
EnsureAvailable(q) ==
    /\ Handling(q, {"register"})
    /\ ~Taken(request[q].login, request[q].email)
    /\ request' = [request EXCEPT ![q].stage = "checked"]
    /\ UNCHANGED <<users, roles, tokens, clock, changes, actionLog, crashes>>

\* The unique keys make the inserts of one name or address wait for each other, and
\* fail (HandleFails) when the other has committed.
RegisterInsert(q) ==
    /\ request[q].stage = "checked"
    /\ ~Taken(request[q].login, request[q].email)
    /\ \A p \in Requests : request[p].stage = "registering" =>
          request[p].login # request[q].login /\ request[p].email # request[q].email
    /\ request' = [request EXCEPT ![q].stage = "registering"]
    /\ UNCHANGED <<users, roles, tokens, clock, changes, actionLog, crashes>>

\* Mutant: the role is created outside the transaction, and may be lost.
CommitUser(q) ==
    /\ request[q].stage = "registering"
    /\ users' = users \cup {[login |-> request[q].login, email |-> request[q].email]}
    /\ changes' = changes \cup {q}
    /\ request' = Answer(q, "ok")
    /\ UNCHANGED <<roles, tokens, clock, actionLog, crashes>>

\* The user and its role are committed together.
RegisterCommit(q) ==
    /\ request[q].stage = "registering"
    /\ users' = users \cup {[login |-> request[q].login, email |-> request[q].email]}
    /\ roles' = roles \cup {request[q].login}
    /\ changes' = changes \cup {q}
    /\ request' = Answer(q, "ok")
    /\ UNCHANGED <<tokens, clock, actionLog, crashes>>

-------------------------------------------------------------------------------
(* After the handler *)

RecordAction(q) ==
    /\ request[q].stage = "recording"
    /\ actionLog' = actionLog \cup {q}
    /\ request' = [request EXCEPT ![q].stage = "done"]
    /\ UNCHANGED <<users, roles, tokens, clock, changes, crashes>>

\* The action is not recorded: the client gets an error for what was committed.
RecordFails(q) ==
    /\ request[q].stage = "recording"
    /\ request' = [request EXCEPT ![q].stage = "done", ![q].status = "error"]
    /\ UNCHANGED <<users, roles, tokens, clock, changes, actionLog, crashes>>

Ended == {"unsent", "done", "crashed"}

Crash ==
    /\ crashes < MaxCrashes
    /\ crashes' = crashes + 1
    /\ request' = [q \in Requests |-> IF request[q].stage \in Ended THEN request[q]
                                      ELSE [request[q] EXCEPT !.stage = "crashed"]]
    /\ UNCHANGED <<users, roles, tokens, clock, changes, actionLog>>

Next ==
    \/ \E q \in Requests :
          \/ \E m \in Sendable, t \in Token \cup {None} : Send(q, m, t)
          \/ Authenticate(q) \/ Forbid(q) \/ AuthenticateFails(q)
          \/ HandleRead(q) \/ HandleFails(q)
          \/ \E status \in {"ok", "failed"} : HandleChange(q, status)
          \/ LoginCheck(q) \/ LoginInsert(q) \/ LoginCommit(q) \/ Logout(q)
          \/ EnsureAvailable(q) \/ RegisterInsert(q) \/ RegisterCommit(q)
          \/ RecordAction(q) \/ RecordFails(q)
    \/ Tick
    \/ Crash

Spec == Init /\ [][Next]_vars

-------------------------------------------------------------------------------
(* Properties *)

Stages == {"unsent", "received", "handling", "login", "inserting", "checked",
           "registering", "recording", "done", "crashed"}
RequestType ==
    [stage : Stages, route : Routes \cup {None}, token : Token \cup {None},
     user : Logins \cup {None}, login : Logins \cup {None}, email : Emails \cup {None},
     expiry : Nat, disables : SUBSET Token,
     status : {"none", "ok", "failed", "refused", "error"},
     sentValid : BOOLEAN, alone : BOOLEAN]

\* The shape of the state.
TypeOK ==
    /\ users \subseteq [login : Logins, email : Emails]
    /\ roles \subseteq Logins
    /\ tokens \in [Token -> [user : Logins \cup {None}, expiry : Nat, active : BOOLEAN]]
    /\ clock \in Nat
    /\ changes \subseteq Requests /\ actionLog \subseteq Requests
    /\ request \in [Requests -> RequestType]
    /\ crashes \in Nat

\* With authentication a committed change is in the log, unless its request has not
\* ended, died with the process or was answered with an error although it committed;
\* an answer of the handler's own is given for recorded requests only, and the log
\* names nobody who was not identified.
AuditAccounts ==
    AuthEnabled =>
        \A q \in Requests :
            /\ q \in changes =>
                   \/ q \in actionLog
                   \/ request[q].stage \in {"recording", "crashed"}
                   \/ (request[q].stage = "done" /\ request[q].status = "error")
            /\ (request[q].stage = "done" /\ request[q].status \in {"ok", "failed"} /\ Recorded(q))
                   => q \in actionLog
            /\ q \in actionLog => request[q].user # None

\* A secured handler runs, and a secured request is answered by one, only for a token
\* that was active and unexpired when the request was sent: revoked tokens and those a
\* later login displaced do not come back.
Passed(q) ==
    \/ request[q].stage \in Stages \ {"unsent", "received", "done", "crashed"}
    \/ request[q].stage = "done" /\ request[q].status \in {"ok", "failed"}
HandledWithToken ==
    \A q \in Requests :
        (AuthEnabled /\ Passed(q) /\ Secured(request[q].route)) =>
            request[q].user # None /\ request[q].sentValid

\* A user always has its database role, and no two users share a name or an address,
\* however many registrations found the name free at the same time.
RegisteredWithRole ==
    /\ \A u \in users : u.login \in roles
    /\ \A u, v \in users : (u.login = v.login \/ u.email = v.email) => u = v

\* The inductive invariant: what the stage of a request says of its route, its user, the
\* log and the token it may have made; a token that was sent exists and, while it is
\* waited with, only loses its validity; registrations that run at once differ.
Over == {"recording", "done", "crashed"}
StageFits(q) ==
    LET stage == request[q].stage
        route == request[q].route
    IN  /\ stage # "unsent" => route \in Routes
        /\ (stage # "unsent" /\ route = "register") =>
              request[q].login \in Logins /\ request[q].email \in Emails
        /\ stage \in {"login", "inserting"} => route = "login" /\ request[q].login \in Logins
        /\ stage \in {"checked", "registering"} => route = "register"
        /\ stage = "recording" => Recorded(q) /\ request[q].status \in {"ok", "failed"}
TokenFits(q) ==
    LET t == request[q].token
    IN  /\ Born(q) => request[q].stage \in Over
        /\ (request[q].stage = "received" /\ t # None) =>
              Born(t) /\ (ValidToken(t) => request[q].sentValid)
        /\ (AuthEnabled /\ Passed(q) /\ Secured(request[q].route)) =>
              request[q].user # None /\ request[q].sentValid
LogFits(q) ==
    /\ q \in changes => request[q].stage \in Over
    /\ q \in actionLog => request[q].stage = "done"
    /\ AuthEnabled =>
          /\ q \in changes => \/ q \in actionLog
                              \/ request[q].stage \in {"recording", "crashed"}
                              \/ request[q].stage = "done" /\ request[q].status = "error"
          /\ (request[q].stage = "done" /\ request[q].status \in {"ok", "failed"} /\ Recorded(q))
                => q \in actionLog
          /\ q \in actionLog => request[q].user # None
Registering == {q \in Requests : request[q].stage = "registering"}
KeysFit ==
    /\ RegisteredWithRole
    /\ \A q \in Registering : \A u \in users :
          u.login # request[q].login /\ u.email # request[q].email
    /\ \A p, q \in Registering : p # q =>
          request[p].login # request[q].login /\ request[p].email # request[q].email
IInv ==
    /\ TypeOK /\ KeysFit
    /\ \A q \in Requests : StageFits(q) /\ TokenFits(q) /\ LogFits(q)

\* What SolitaryLoginPrunes rests on beside IInv: tokens, and logins that are to insert one,
\* expire at different times; a handler that runs has not answered; a login whose trigger ran alone is the only one of its user
\* that inserts, and its trigger leaves no more active tokens than the limit.
Dated(t) == Born(t) \/ (t \in Requests /\ request[t].stage \in {"login", "inserting"})
ExpiryOf(t) == IF Born(t) THEN TokenOf(t).expiry ELSE request[t].expiry
ExpiriesFit ==
    \A t \in Token : Dated(t) =>
        /\ ExpiryOf(t) < clock + Lifetime
        /\ \A o \in Token : (Dated(o) /\ ExpiryOf(o) = ExpiryOf(t)) => o = t
Kept(q) == (ActiveOf(request[q].login) \cup {q}) \ request[q].disables
Unanswered(q) == request[q].stage \in {"handling", "login", "inserting"} => request[q].status = "none"
InsertsAlone(q) == request[q].stage = "inserting" /\ request[q].alone
AloneFits(q) ==
    InsertsAlone(q) => /\ Inserting(request[q].login) = {q}
                       /\ Cardinality(Kept(q)) <= TokenLimit
LoginInv == IInv /\ ExpiriesFit /\ \A q \in Requests : Unanswered(q) /\ AloneFits(q)

\* V043: concurrent logins of a user may leave more tokens active than the limit, none
\* of their triggers sees the others; a login whose trigger ran alone ends with no more
\* than the limit, whatever earlier logins left.
SolitaryLoginPrunes ==
    [][\A q \in Requests :
          (request[q].stage = "inserting" /\ request[q].alone /\ request'[q].status = "ok") =>
              Cardinality(ActiveOf(request[q].login)') <= TokenLimit]_vars
===============================================================================
