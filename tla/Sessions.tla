------------------------------ MODULE Sessions ------------------------------
(***************************************************************************)
(* Accounts and browser sessions: auth.Service, the authentication         *)
(* middleware and the auth handlers of the browser API, and the rows they  *)
(* keep.  A request is a handler goroutine; every call it makes to the     *)
(* store is one action, so requests interleave between any two of them.    *)
(* Every call may fail, by the connection to the database or, when the     *)
(* browser has gone, by the request's context; it then has changed nothing.*)
(*                                                                         *)
(* A session id, its token and the hash of the token are one value.  The   *)
(* columns of a session row are written once, so grant keeps them after    *)
(* the row is deleted, for the properties; live says which rows exist.     *)
(***************************************************************************)
EXTENDS Integers

CONSTANTS
    Accounts,        \* e-mail addresses
    Sessions,        \* the sessions that may be made, each once
    Requests,        \* request slots, each used again and again
    None,            \* no account, no token, no session
    SessionTTL,      \* DM_SESSION_TTL_HOURS
    MaxClock         \* bound on the clock

ASSUME SessionsAssumption ==
    /\ None \notin Accounts \cup Sessions
    /\ SessionTTL \in Nat
    /\ MaxClock \in Nat

VARIABLES
    persistent,   \* an SQL store, or the memory store
    serving,      \* whether the control plane is up
    clock,
    users,        \* account -> its role, or "none" without a row
    live,         \* the session rows in the store
    grant,        \* session -> its columns, once made
    request,      \* slot -> the request being handled, or the last one
    held,         \* observer: tokens set as a cookie in some browser
    revoked,      \* observer: sessions a logout was answered 204 for
    lost          \* observer: sessions that went with a memory store

vars == <<persistent, serving, clock, users, live, grant, request, held, revoked, lost>>

stores == <<users, live, grant>>
observers == <<held, revoked, lost>>

Roles == {"admin", "viewer"}

NoGrant == [account |-> None, expires |-> 0]

Grants == [account : Accounts, expires : 0..(MaxClock + SessionTTL)] \cup {NoGrant}

\* Which call the handler makes next; idle: answered, or cut off.
\* Login: findUser, create, touch, profile.  The middleware: findSession,
\* reap, loadUser.  Past it: serve, findForLogout, delete.
Handling == {"serve", "findForLogout", "delete"}
Steps == {"idle", "findUser", "create", "touch", "profile",
          "findSession", "reap", "loadUser"} \cup Handling

Answers == {"none", "ok", "unauthorized", "forbidden", "error"}

\* stale (observer): the token had ended before the request came.
\* failed (observer): a call to the store failed.
RequestRecords ==
    [op : {"login", "me", "admin", "logout"}, account : Accounts \cup {None},
     token : Sessions \cup {None}, role : Roles \cup {"none"},
     step : Steps, answer : Answers, stale : BOOLEAN, failed : BOOLEAN]

NoRequest == [op |-> "me", account |-> None, token |-> None, role |-> "none",
              step |-> "idle", answer |-> "none", stale |-> FALSE, failed |-> FALSE]

SessionsTypeOK ==
    /\ persistent \in BOOLEAN /\ serving \in BOOLEAN
    /\ clock \in 0..MaxClock
    /\ users \in [Accounts -> Roles \cup {"none"}]
    /\ live \subseteq Sessions
    /\ grant \in [Sessions -> Grants]
    /\ request \in [Requests -> RequestRecords]
    /\ held \subseteq Sessions /\ revoked \subseteq Sessions /\ lost \subseteq Sessions
    /\ \A t \in live \cup held \cup revoked \cup lost : grant[t] # NoGrant

-----------------------------------------------------------------------------
(* The rows of the store.                                                  *)

NoUsers == \A a \in Accounts : users[a] = "none"

\* Mutant: CreateUser neither counts nor looks for the e-mail first.
BootstrapUnguarded(email) ==
    users' = IF email = None THEN users ELSE [users EXCEPT ![email] = "admin"]

\* BootstrapAdminIfNeeded: only into an empty table, and only if both
\* variables of the environment are set.
BootstrapAdmin(email) ==
    users' = IF NoUsers /\ email # None THEN [users EXCEPT ![email] = "admin"] ELSE users

\* Mutant: the lifetime is counted twice.
ExpiresAtTwice == clock + SessionTTL + SessionTTL

ExpiresAt == clock + SessionTTL

\* time.Now().UTC().After(sess.ExpiresAt).
Expired(t) == clock > grant[t].expires

\* Mutant: nothing is deleted.
DeleteNoRow(t) == live' = live

\* Mutant: every session of the account is deleted.
DeleteSessionsForUser(t) ==
    live' = {s \in live : grant[s].account # grant[t].account}

\* DELETE FROM sessions WHERE id = ?
DeleteSession(t) == live' = live \ {t}

\* The token can no longer be good for anything.
Ended(t) == t \in revoked \cup lost \/ clock > grant[t].expires

-----------------------------------------------------------------------------
(* A handler moves to its next call, or answers.                           *)

GoTo(r, step) == request' = [request EXCEPT ![r].step = step]

\* What the answer does not depend on is forgotten with the request.
Done(req, answer, failed) ==
    [NoRequest EXCEPT !.op = req.op, !.token = req.token,
                      !.answer = answer, !.failed = failed]

Answer(r, answer) == request' = [request EXCEPT ![r] = Done(@, answer, FALSE)]

\* The call that was to come next failed.
AnswerFailed(r, answer) == request' = [request EXCEPT ![r] = Done(@, answer, TRUE)]

At(r, step) == serving /\ request[r].step = step

Begin(r, req) ==
    /\ At(r, "idle")
    /\ request' = [request EXCEPT ![r] = req]
    /\ UNCHANGED <<persistent, serving, clock, stores, observers>>

-----------------------------------------------------------------------------
(* Login: handleLogin and Service.Login.                                   *)

BeginLogin(r, email) ==
    Begin(r, [NoRequest EXCEPT !.op = "login", !.account = email, !.step = "findUser"])

\* GetUserByEmail and VerifyPassword.  An unknown e-mail and a wrong
\* password are answered alike.  u is a copy of the row.
FindUser(r) ==
    LET email == request[r].account
    IN  /\ At(r, "findUser")
        /\ \/ AnswerFailed(r, "error")
           \/ Answer(r, "unauthorized")
           \/ /\ users[email] # "none"
              /\ request' = [request EXCEPT ![r].role = users[email], ![r].step = "create"]
        /\ UNCHANGED <<persistent, serving, clock, stores, observers>>

\* CreateSession with a fresh random token.
CreateSession(r, t) ==
    /\ At(r, "create")
    /\ grant[t] = NoGrant
    /\ grant' = [grant EXCEPT ![t] = [account |-> request[r].account,
                                      expires |-> ExpiresAt]]
    /\ live' = live \cup {t}
    /\ request' = [request EXCEPT ![r].token = t, ![r].step = "touch"]
    /\ UNCHANGED <<persistent, serving, clock, users, observers>>

\* No randomness, or no row: the login fails, and nothing has changed.
CreateFails(r) ==
    /\ At(r, "create")
    /\ AnswerFailed(r, "error")
    /\ UNCHANGED <<persistent, serving, clock, stores, observers>>

\* UpdateUser writes the whole copy back; its error is ignored.
TouchUser(r) ==
    /\ At(r, "touch")
    /\ \/ users' = [users EXCEPT ![request[r].account] = request[r].role]
       \/ users' = users
    /\ GoTo(r, "profile")
    /\ UNCHANGED <<persistent, serving, clock, live, grant, observers>>

\* The cookie is in the answer before GetUser is called: it reaches the
\* browser with a 500 as well.
LoginProfile(r) ==
    /\ At(r, "profile")
    /\ Answer(r, "ok") \/ AnswerFailed(r, "error")
    /\ held' = held \cup {request[r].token}
    /\ UNCHANGED <<persistent, serving, clock, stores, revoked, lost>>

-----------------------------------------------------------------------------
(* The middleware withSessionAuth and Service.Authenticate.                *)

BeginGuarded(r, op, t) ==
    Begin(r, [NoRequest EXCEPT !.op = op, !.token = t, !.step = "findSession",
                               !.stale = (t # None /\ Ended(t))])

\* GetSessionByTokenHash, unless there is no token, and the comparison with
\* the clock.  Any error is a 401 in the middleware.
FindSession(r) ==
    LET t == request[r].token
    IN  /\ At(r, "findSession")
        /\ \/ t # None /\ AnswerFailed(r, "unauthorized")
           \/ t \notin live /\ Answer(r, "unauthorized")
           \/ /\ t \in live
              /\ GoTo(r, IF Expired(t) THEN "reap" ELSE "loadUser")
        /\ UNCHANGED <<persistent, serving, clock, stores, observers>>

\* The expired row is deleted; the outcome is ignored.
ReapSession(r) ==
    /\ At(r, "reap")
    /\ DeleteSession(request[r].token) \/ live' = live
    /\ Answer(r, "unauthorized")
    /\ UNCHANGED <<persistent, serving, clock, users, grant, observers>>

\* requireAdmin.
Permits(op, role) == op = "admin" => role = "admin"

\* GetUser(sess.UserID), requireAdmin where the route has it, and into the
\* handler.
LoadUser(r) ==
    LET role == users[grant[request[r].token].account]
        op   == request[r].op
    IN  /\ At(r, "loadUser")
        /\ \/ AnswerFailed(r, "unauthorized")
           \/ ~Permits(op, role) /\ Answer(r, "forbidden")
           \/ /\ Permits(op, role)
              /\ request' = [request EXCEPT ![r].role = role,
                     ![r].step = IF op = "logout" THEN "findForLogout" ELSE "serve"]
        /\ UNCHANGED <<persistent, serving, clock, stores, observers>>

\* Any other handler, for as long as it takes.
Serve(r) ==
    /\ At(r, "serve")
    /\ Answer(r, "ok")
    /\ UNCHANGED <<persistent, serving, clock, stores, observers>>

-----------------------------------------------------------------------------
(* Logout: handleLogout and Service.Logout.                                *)

FindForLogout(r) ==
    LET t == request[r].token
    IN  /\ At(r, "findForLogout")
        /\ \/ AnswerFailed(r, "error") /\ revoked' = revoked
           \/ t \in live /\ GoTo(r, "delete") /\ revoked' = revoked
           \/ t \notin live /\ Answer(r, "ok") /\ revoked' = revoked \cup {t}
        /\ UNCHANGED <<persistent, serving, clock, stores, held, lost>>

\* DeleteSession reports a row that is no longer there as ErrNotFound.
DeleteForLogout(r) ==
    LET t == request[r].token
    IN  /\ At(r, "delete")
        /\ \/ AnswerFailed(r, "error") /\ UNCHANGED <<live, revoked>>
           \/ t \notin live /\ Answer(r, "error") /\ UNCHANGED <<live, revoked>>
           \/ /\ t \in live
              /\ DeleteSession(t)
              /\ Answer(r, "ok")
              /\ revoked' = revoked \cup {t}
        /\ UNCHANGED <<persistent, serving, clock, users, grant, held, lost>>

-----------------------------------------------------------------------------
(* The process, and what is outside it.                                    *)

\* main opens the store, makes sure of an administrator and listens.
Start(email) ==
    /\ ~serving
    /\ serving' = TRUE
    /\ BootstrapAdmin(email)
    /\ UNCHANGED <<persistent, clock, live, grant, request, observers>>

\* A stop or a crash cuts every request off; the memory store goes with it.
Stop ==
    /\ serving
    /\ serving' = FALSE
    /\ request' = [r \in Requests |-> NoRequest]
    /\ IF persistent
       THEN UNCHANGED <<users, live, lost>>
       ELSE /\ users' = [a \in Accounts |-> "none"]
            /\ live' = {}
            /\ lost' = lost \cup {t \in Sessions : grant[t] # NoGrant}
    /\ UNCHANGED <<persistent, clock, grant, held, revoked>>

\* An account added to the database by its operator; no route does it.
Provision(email, role) ==
    /\ persistent
    /\ users[email] = "none"
    /\ users' = [users EXCEPT ![email] = role]
    /\ UNCHANGED <<persistent, serving, clock, live, grant, request, observers>>

Tick ==
    /\ clock < MaxClock
    /\ clock' = clock + 1
    /\ UNCHANGED <<persistent, serving, stores, request, observers>>

Init ==
    /\ persistent \in BOOLEAN /\ serving = FALSE
    /\ clock = 0
    /\ users = [a \in Accounts |-> "none"]
    /\ live = {} /\ grant = [t \in Sessions |-> NoGrant]
    /\ request = [r \in Requests |-> NoRequest]
    /\ held = {} /\ revoked = {} /\ lost = {}

Handle(r) ==
    \/ \E email \in Accounts : BeginLogin(r, email)
    \/ FindUser(r)
    \/ \E t \in Sessions : CreateSession(r, t)
    \/ CreateFails(r)
    \/ TouchUser(r)
    \/ LoginProfile(r)
    \/ \E op \in {"me", "admin", "logout"}, t \in held \cup {None} : BeginGuarded(r, op, t)
    \/ FindSession(r)
    \/ ReapSession(r)
    \/ LoadUser(r)
    \/ Serve(r)
    \/ FindForLogout(r)
    \/ DeleteForLogout(r)

Next ==
    \/ \E r \in Requests : Handle(r)
    \/ \E email \in Accounts \cup {None} : Start(email)
    \/ Stop
    \/ \E email \in Accounts, role \in Roles : Provision(email, role)
    \/ Tick

Spec == Init /\ [][Next]_vars

-----------------------------------------------------------------------------
(* Properties.                                                             *)

\* A token that had ended when a request came with it (logged out, expired,
\* or of a store that is gone) never carries that request past the
\* middleware, whatever else was in progress.
EndedStaysOut ==
    \A r \in Requests : request[r].step \in Handling => ~request[r].stale

\* A token a browser holds works until something ends it: its row and its
\* account's row are in the store.  No login, logout or clean-up of another
\* session takes it away.
HeldWorks ==
    \A t \in held : ~Ended(t) => t \in live /\ users[grant[t].account] # "none"

\* Behind requireAdmin only an administrator is served, with a session that
\* an administrator's login made.
AdminOnly ==
    \A r \in Requests :
        request[r].step = "serve" /\ request[r].op = "admin"
            => users[grant[request[r].token].account] = "admin"

\* "Logout is idempotent by design" (auth/service.go:119-121, and api/auth.go:
\* 78-80): while the store answers, no logout fails, be the session there or not.
LogoutIsIdempotent ==
    \A r \in Requests :
        request[r].op = "logout" /\ ~request[r].failed => request[r].answer # "error"

\* While its store lives, an account keeps its row and its role: no restart
\* makes a second administrator, or an administrator of a viewer, and no
\* login writes back anything else.
AccountsKept ==
    [][\A a \in Accounts :
          users[a] # users'[a] =>
              \/ ~persistent /\ ~serving'
              \/ users[a] = "none" /\ (NoUsers \/ serving' = serving)]_vars

=============================================================================
