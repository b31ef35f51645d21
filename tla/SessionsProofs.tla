--------------------------- MODULE SessionsProofs ---------------------------
(***************************************************************************)
(* Proofs about Sessions: a token works from its login to its end and not  *)
(* a request longer, and accounts change in no other way than they should, *)
(* for any number of accounts, sessions and overlapping requests.          *)
(***************************************************************************)
EXTENDS Sessions, TLAPS

Granted(t) == t \in Sessions /\ grant[t] # NoGrant

\* A row goes only when its token has ended, and an ended token that has not
\* expired has no row.
RowsOK ==
    /\ \A t \in Sessions : Granted(t) =>
          /\ t \in live \/ Ended(t)
          /\ t \in live => users[grant[t].account] # "none"
    /\ (revoked \cup lost) \cap live = {}

\* What a request that is being handled knows, and goes on knowing.
RequestOK(r) ==
    LET q == request[r]
    IN  /\ q.step # "idle" => serving /\ q.answer = "none"
        /\ q.step \in {"findUser", "create", "touch"}
              => q.op = "login" /\ q.account \in Accounts
        /\ q.step \in {"create", "touch"} => q.role # "none" /\ users[q.account] = q.role
        /\ q.step \in {"touch", "profile", "reap", "loadUser"} \cup Handling => Granted(q.token)
        /\ q.step = "findSession" => q.token = None \/ Granted(q.token)
        /\ q.step = "findSession" /\ q.stale => q.token # None /\ Ended(q.token)
        /\ q.step = "reap" => Expired(q.token)
        /\ q.step \in {"loadUser"} \cup Handling => ~q.stale
        /\ q.step = "serve" /\ q.op = "admin" => users[grant[q.token].account] = "admin"

SessionsInv == SessionsTypeOK /\ RowsOK /\ \A r \in Requests : RequestOK(r)

\* What no step but a stop takes back.
Onward ==
    /\ clock <= clock'
    /\ serving => serving'
    /\ revoked \subseteq revoked' /\ lost \subseteq lost'
    /\ \A t \in Sessions : grant[t] # NoGrant => grant'[t] = grant[t]
    /\ \A a \in Accounts : users[a] # "none" => users'[a] = users[a]

-----------------------------------------------------------------------------
(* Types.                                                                  *)

LEMMA TypeInitially == Init => SessionsTypeOK
<1> SUFFICES ASSUME Init PROVE SessionsTypeOK
  OBVIOUS
<1>1. NoRequest \in RequestRecords
  BY DEF NoRequest, RequestRecords, Steps, Answers
<1>2. clock \in 0..MaxClock
  BY SessionsAssumption DEF Init
<1>3. users \in [Accounts -> Roles \cup {"none"}] /\ grant \in [Sessions -> Grants]
  BY DEF Init, Grants
<1>4. persistent \in BOOLEAN /\ serving \in BOOLEAN
  BY DEF Init
<1> QED BY <1>1, <1>2, <1>3, <1>4 DEF Init, SessionsTypeOK

\* A handler's request record stays one, whatever its next step or answer.
LEMMA RecordTypes ==
    ASSUME NEW q \in RequestRecords
    PROVE  /\ \A s \in Steps : [q EXCEPT !.step = s] \in RequestRecords
           /\ \A a \in Answers, f \in BOOLEAN : Done(q, a, f) \in RequestRecords
<1>1. NoRequest \in RequestRecords
  BY DEF NoRequest, RequestRecords, Steps, Answers
<1>2. ASSUME NEW a \in Answers, NEW f \in BOOLEAN PROVE Done(q, a, f) \in RequestRecords
  BY <1>1 DEF Done, RequestRecords
<1>3. ASSUME NEW s \in Steps PROVE [q EXCEPT !.step = s] \in RequestRecords
  BY DEF RequestRecords
<1> QED BY <1>2, <1>3

LEMMA GrantTypes ==
    ASSUME SessionsTypeOK, NEW t \in Sessions, grant[t] # NoGrant
    PROVE  /\ grant[t].account \in Accounts
           /\ grant[t].expires \in Nat
BY SessionsAssumption DEF SessionsTypeOK, Grants

\* The steps that change nothing but the request handled.
Handover(r) ==
    /\ UNCHANGED <<persistent, serving, clock, stores, observers>>
    /\ \E q \in RequestRecords : request' = [request EXCEPT ![r] = q]

LEMMA HandoverTypes ==
    ASSUME SessionsTypeOK, NEW r \in Requests, Handover(r)
    PROVE  SessionsTypeOK'
BY DEF SessionsTypeOK, Handover, stores, observers

LEMMA HandoverSteps ==
    ASSUME SessionsTypeOK, NEW r \in Requests, RequestOK(r),
           \/ \E email \in Accounts : BeginLogin(r, email)
           \/ FindUser(r) \/ CreateFails(r) \/ FindSession(r) \/ LoadUser(r) \/ Serve(r)
           \/ \E op \in {"me", "admin", "logout"}, t \in held \cup {None} :
                 BeginGuarded(r, op, t)
    PROVE  Handover(r)
<1> DEFINE q == request[r]
<1>0. q \in RequestRecords
  BY DEF SessionsTypeOK
<1>1. ASSUME NEW email \in Accounts, BeginLogin(r, email) PROVE Handover(r)
  <2>1. [NoRequest EXCEPT !.op = "login", !.account = email, !.step = "findUser"]
            \in RequestRecords
    BY DEF NoRequest, RequestRecords, Steps, Answers
  <2> QED BY <1>1, <2>1 DEF BeginLogin, Begin, Handover
<1>2. CASE FindUser(r)
  <2>1. CASE AnswerFailed(r, "error") \/ Answer(r, "unauthorized")
    BY <1>0, <1>2, <2>1, RecordTypes DEF FindUser, Handover, AnswerFailed, Answer, Answers
  <2>2. CASE /\ users[q.account] # "none"
             /\ request' = [request EXCEPT ![r].role = users[q.account], ![r].step = "create"]
    <3>1. q.account \in Accounts
      BY <1>2 DEF FindUser, At, RequestOK
    <3>2. [q EXCEPT !.role = users[q.account], !.step = "create"] \in RequestRecords
      BY <1>0, <3>1 DEF RequestRecords, Steps, SessionsTypeOK
    <3>3. request' = [request EXCEPT ![r] = [q EXCEPT !.role = users[q.account],
                                                      !.step = "create"]]
      BY <2>2 DEF SessionsTypeOK
    <3> QED BY <1>2, <3>2, <3>3 DEF FindUser, Handover
  <2> QED BY <1>2, <2>1, <2>2 DEF FindUser
<1>3. CASE CreateFails(r)
  BY <1>0, <1>3, RecordTypes DEF CreateFails, Handover, AnswerFailed, Answers
<1>4. CASE FindSession(r)
  <2>1. CASE AnswerFailed(r, "unauthorized") \/ Answer(r, "unauthorized")
    BY <1>0, <1>4, <2>1, RecordTypes DEF FindSession, Handover, AnswerFailed, Answer, Answers
  <2>2. CASE GoTo(r, IF Expired(q.token) THEN "reap" ELSE "loadUser")
    <3>1. PICK s \in Steps : GoTo(r, s)
      BY <2>2 DEF Steps
    <3>2. request' = [request EXCEPT ![r] = [q EXCEPT !.step = s]]
      BY <3>1 DEF GoTo, SessionsTypeOK
    <3> QED BY <1>0, <1>4, <3>2, RecordTypes DEF FindSession, Handover
  <2> QED BY <1>4, <2>1, <2>2 DEF FindSession
<1>5. CASE LoadUser(r)
  <2> DEFINE role == users[grant[q.token].account]
             step == IF q.op = "logout" THEN "findForLogout" ELSE "serve"
  <2>1. CASE AnswerFailed(r, "unauthorized") \/ Answer(r, "forbidden")
    BY <1>0, <1>5, <2>1, RecordTypes DEF LoadUser, Handover, AnswerFailed, Answer, Answers
  <2>2. CASE request' = [request EXCEPT ![r].role = role, ![r].step = step]
    <3>1. Granted(q.token)
      BY <1>5 DEF LoadUser, At, RequestOK
    <3>2. role \in Roles \cup {"none"}
      BY <3>1, GrantTypes DEF Granted, SessionsTypeOK
    <3>3. [q EXCEPT !.role = role, !.step = step] \in RequestRecords
      BY <1>0, <3>2 DEF RequestRecords, Steps, Handling
    <3>4. request' = [request EXCEPT ![r] = [q EXCEPT !.role = role, !.step = step]]
      BY <2>2 DEF SessionsTypeOK
    <3> QED BY <1>5, <3>3, <3>4 DEF LoadUser, Handover
  <2> QED BY <1>5, <2>1, <2>2 DEF LoadUser
<1>6. CASE Serve(r)
  BY <1>0, <1>6, RecordTypes DEF Serve, Handover, Answer, Answers
<1>7. ASSUME NEW op \in {"me", "admin", "logout"}, NEW t \in held \cup {None},
             BeginGuarded(r, op, t)
      PROVE  Handover(r)
  <2> DEFINE stale == t # None /\ Ended(t)
  <2>1. stale \in BOOLEAN
    BY DEF Ended
  <2>2. t \in Sessions \cup {None}
    BY DEF SessionsTypeOK
  <2> HIDE DEF stale
  <2>3. [NoRequest EXCEPT !.op = op, !.token = t, !.step = "findSession", !.stale = stale]
            \in RequestRecords
    BY <2>1, <2>2 DEF NoRequest, RequestRecords, Steps, Answers
  <2> QED BY <1>7, <2>3 DEF BeginGuarded, Begin, Handover, stale
<1> QED BY <1>1, <1>2, <1>3, <1>4, <1>5, <1>6, <1>7

\* A step of a handler that also writes.
LEMMA WritingTypes ==
    ASSUME SessionsTypeOK, NEW r \in Requests, RequestOK(r),
           \/ \E t \in Sessions : CreateSession(r, t)
           \/ TouchUser(r) \/ LoginProfile(r) \/ ReapSession(r)
           \/ FindForLogout(r) \/ DeleteForLogout(r)
    PROVE  SessionsTypeOK'
<1> DEFINE q == request[r]
<1>0. q \in RequestRecords
  BY DEF SessionsTypeOK
<1> USE SessionsAssumption DEF stores, observers
<1>1. ASSUME NEW t \in Sessions, CreateSession(r, t) PROVE SessionsTypeOK'
  <2> DEFINE g == [account |-> q.account, expires |-> ExpiresAt]
  <2>1. q.account \in Accounts
    BY <1>1 DEF CreateSession, At, RequestOK
  <2>2. ExpiresAt \in 0..(MaxClock + SessionTTL)
    <3>1. clock \in 0..MaxClock
      BY DEF SessionsTypeOK
    <3> QED BY <3>1 DEF ExpiresAt
  <2>9. g \in Grants /\ g # NoGrant
    BY <2>1, <2>2 DEF Grants, NoGrant
  <2>3. [q EXCEPT !.token = t, !.step = "touch"] \in RequestRecords
    BY <1>0 DEF RequestRecords, Steps
  <2>4. request' = [request EXCEPT ![r] = [q EXCEPT !.token = t, !.step = "touch"]]
    BY <1>1 DEF CreateSession, SessionsTypeOK
  <2>5. grant' = [grant EXCEPT ![t] = g] /\ live' = live \cup {t}
    BY <1>1 DEF CreateSession
  <2> HIDE DEF g
  <2>6. grant' \in [Sessions -> Grants] /\ live' \subseteq Sessions
    BY <2>9, <2>5 DEF SessionsTypeOK
  <2>7. request' \in [Requests -> RequestRecords]
    BY <2>3, <2>4 DEF SessionsTypeOK
  <2>8. \A s \in live' \cup held \cup revoked \cup lost : grant'[s] # NoGrant
    BY <2>9, <2>5 DEF SessionsTypeOK
  <2> QED BY <1>1, <2>6, <2>7, <2>8 DEF CreateSession, SessionsTypeOK
<1>2. CASE TouchUser(r)
  <2>1. q.account \in Accounts /\ q.role \in Roles
    BY <1>0, <1>2 DEF TouchUser, At, RequestOK, RequestRecords
  <2>2. users' \in [Accounts -> Roles \cup {"none"}]
    BY <1>2, <2>1 DEF TouchUser, SessionsTypeOK
  <2>3. [q EXCEPT !.step = "profile"] \in RequestRecords
    BY <1>0, RecordTypes DEF Steps
  <2>4. request' = [request EXCEPT ![r] = [q EXCEPT !.step = "profile"]]
    BY <1>2 DEF TouchUser, GoTo, SessionsTypeOK
  <2> QED BY <1>2, <2>2, <2>3, <2>4 DEF TouchUser, SessionsTypeOK
<1>3. CASE LoginProfile(r)
  <2>1. Granted(q.token)
    BY <1>3 DEF LoginProfile, At, RequestOK
  <2>2. request' \in [Requests -> RequestRecords]
    BY <1>0, <1>3, RecordTypes DEF LoginProfile, Answer, AnswerFailed, Answers, SessionsTypeOK
  <2> QED BY <1>3, <2>1, <2>2 DEF LoginProfile, SessionsTypeOK, Granted
<1>4. CASE ReapSession(r)
  <2>1. request' \in [Requests -> RequestRecords]
    BY <1>0, <1>4, RecordTypes DEF ReapSession, Answer, Answers, SessionsTypeOK
  <2>2. live' \subseteq live
    BY <1>4 DEF ReapSession, DeleteSession
  <2> QED BY <1>4, <2>1, <2>2 DEF ReapSession, SessionsTypeOK
<1>5. CASE FindForLogout(r)
  <2>1. Granted(q.token)
    BY <1>5 DEF FindForLogout, At, RequestOK, Handling
  <2>2. CASE GoTo(r, "delete")
    <3>1. request' = [request EXCEPT ![r] = [q EXCEPT !.step = "delete"]]
      BY <2>2 DEF GoTo, SessionsTypeOK
    <3>2. [q EXCEPT !.step = "delete"] \in RequestRecords
      BY <1>0, RecordTypes DEF Steps, Handling
    <3>3. request' \in [Requests -> RequestRecords]
      BY <3>1, <3>2 DEF SessionsTypeOK
    <3> QED BY <1>5, <2>1, <3>3 DEF FindForLogout, SessionsTypeOK, Granted
  <2>3. CASE AnswerFailed(r, "error") \/ Answer(r, "ok")
    <3>1. request' \in [Requests -> RequestRecords]
      BY <1>0, <2>3, RecordTypes DEF Answer, AnswerFailed, Answers, SessionsTypeOK
    <3> QED BY <1>5, <2>1, <3>1 DEF FindForLogout, SessionsTypeOK, Granted
  <2> QED BY <1>5, <2>2, <2>3 DEF FindForLogout
<1>6. CASE DeleteForLogout(r)
  <2>1. Granted(q.token)
    BY <1>6 DEF DeleteForLogout, At, RequestOK, Handling
  <2>2. request' \in [Requests -> RequestRecords]
    BY <1>0, <1>6, RecordTypes
       DEF DeleteForLogout, Answer, AnswerFailed, Answers, SessionsTypeOK
  <2>3. live' \subseteq live
    BY <1>6 DEF DeleteForLogout, DeleteSession
  <2> QED BY <1>6, <2>1, <2>2, <2>3 DEF DeleteForLogout, SessionsTypeOK, Granted
<1> QED BY <1>1, <1>2, <1>3, <1>4, <1>5, <1>6

LEMMA OutsideTypes ==
    ASSUME SessionsTypeOK,
           \/ \E email \in Accounts \cup {None} : Start(email)
           \/ Stop
           \/ \E email \in Accounts, role \in Roles : Provision(email, role)
           \/ Tick
    PROVE  SessionsTypeOK'
<1> USE SessionsAssumption DEF stores, observers
<1>1. ASSUME NEW email \in Accounts \cup {None}, Start(email) PROVE SessionsTypeOK'
  <2>1. users' \in [Accounts -> Roles \cup {"none"}]
    BY <1>1 DEF Start, BootstrapAdmin, SessionsTypeOK, Roles
  <2> QED BY <1>1, <2>1 DEF Start, SessionsTypeOK
<1>2. CASE Stop
  <2>1. NoRequest \in RequestRecords
    BY DEF NoRequest, RequestRecords, Steps, Answers
  <2>2. request' \in [Requests -> RequestRecords]
    BY <1>2, <2>1 DEF Stop
  <2>3. CASE persistent
    BY <1>2, <2>2, <2>3 DEF Stop, SessionsTypeOK
  <2>4. CASE ~persistent
    <3>1. users' \in [Accounts -> Roles \cup {"none"}] /\ live' = {}
      BY <1>2, <2>4 DEF Stop
    <3>2. lost' \subseteq Sessions /\ \A t \in lost' : grant[t] # NoGrant
      BY <1>2, <2>4 DEF Stop, SessionsTypeOK
    <3> QED BY <1>2, <2>2, <3>1, <3>2 DEF Stop, SessionsTypeOK
  <2> QED BY <2>3, <2>4
<1>3. ASSUME NEW email \in Accounts, NEW role \in Roles, Provision(email, role)
      PROVE  SessionsTypeOK'
  BY <1>3 DEF Provision, SessionsTypeOK
<1>4. CASE Tick
  BY <1>4 DEF Tick, SessionsTypeOK
<1> QED BY <1>1, <1>2, <1>3, <1>4

LEMMA TypeStep ==
    ASSUME SessionsInv, [Next]_vars
    PROVE  SessionsTypeOK'
<1>0. SessionsTypeOK /\ \A r \in Requests : RequestOK(r)
  BY DEF SessionsInv
<1>1. ASSUME NEW r \in Requests, Handle(r) PROVE SessionsTypeOK'
  BY <1>0, <1>1, HandoverSteps, HandoverTypes, WritingTypes DEF Handle
<1>2. CASE UNCHANGED vars
  BY <1>0, <1>2 DEF vars, stores, observers, SessionsTypeOK
<1> QED BY <1>0, <1>1, <1>2, OutsideTypes DEF Next

-----------------------------------------------------------------------------
(* What no step but a stop takes back, and what a request may go on         *)
(* knowing while others are handled.                                        *)

LEMMA OnwardStep ==
    ASSUME SessionsInv, [Next]_vars, ~Stop
    PROVE  Onward
<1> USE SessionsAssumption DEF stores, observers, Onward, SessionsInv
<1>0. clock \in 0..MaxClock
  BY DEF SessionsTypeOK
<1>1. ASSUME NEW r \in Requests, Handle(r) PROVE Onward
  <2>1. CASE TouchUser(r)
    <3>1. users' = users
      BY <2>1 DEF TouchUser, At, RequestOK, SessionsTypeOK
    <3> QED BY <1>0, <2>1, <3>1 DEF TouchUser
  <2>2. ASSUME NEW t \in Sessions, CreateSession(r, t) PROVE Onward
    BY <1>0, <2>2 DEF CreateSession, SessionsTypeOK
  <2>3. CASE LoginProfile(r) \/ ReapSession(r) \/ FindForLogout(r) \/ DeleteForLogout(r)
    BY <1>0, <2>3 DEF LoginProfile, ReapSession, FindForLogout, DeleteForLogout
  <2>4. CASE \/ \E email \in Accounts : BeginLogin(r, email)
             \/ FindUser(r) \/ CreateFails(r) \/ FindSession(r) \/ LoadUser(r) \/ Serve(r)
             \/ \E op \in {"me", "admin", "logout"}, t \in held \cup {None} :
                   BeginGuarded(r, op, t)
    BY <1>0, <2>4, HandoverSteps DEF Handover
  <2> QED BY <1>1, <2>1, <2>2, <2>3, <2>4 DEF Handle
<1>2. ASSUME NEW email \in Accounts \cup {None}, Start(email) PROVE Onward
  BY <1>0, <1>2 DEF Start, BootstrapAdmin, NoUsers
<1>3. ASSUME NEW email \in Accounts, NEW role \in Roles, Provision(email, role) PROVE Onward
  BY <1>0, <1>3 DEF Provision, SessionsTypeOK
<1>4. CASE Tick
  BY <1>0, <1>4 DEF Tick
<1>5. CASE UNCHANGED vars
  BY <1>0, <1>5 DEF vars
<1> QED BY <1>1, <1>2, <1>3, <1>4, <1>5 DEF Next

LEMMA GrantedStays ==
    ASSUME SessionsTypeOK, SessionsTypeOK', Onward, NEW t, Granted(t)
    PROVE  /\ Granted(t)'
           /\ grant'[t] = grant[t]
           /\ Ended(t) => Ended(t)'
           /\ Expired(t) => Expired(t)'
<1>1. grant'[t] = grant[t] /\ Granted(t)'
  BY DEF Granted, Onward
<1>2. grant[t].expires \in Nat
  BY GrantTypes DEF Granted
<1>3. clock \in Nat /\ clock' \in Nat /\ clock <= clock'
  BY SessionsAssumption DEF SessionsTypeOK, Onward
<1>4. revoked \cup lost \subseteq revoked' \cup lost'
  BY DEF Onward
<1> QED BY <1>1, <1>2, <1>3, <1>4 DEF Ended, Expired

LEMMA RequestUntouched ==
    ASSUME SessionsTypeOK, SessionsTypeOK', Onward, NEW r \in Requests,
           RequestOK(r), request'[r] = request[r]
    PROVE  RequestOK(r)'
<1> DEFINE q == request[r]
<1>1. serving => serving'
  BY DEF Onward
<1>2. Granted(q.token) => /\ Granted(q.token)'
                          /\ grant'[q.token] = grant[q.token]
                          /\ Ended(q.token) => Ended(q.token)'
                          /\ Expired(q.token) => Expired(q.token)'
  BY GrantedStays
<1>3. q.step \in {"create", "touch"} => users'[q.account] = q.role
  BY DEF Onward, RequestOK
<1>4. q.step = "serve" /\ q.op = "admin" => users'[grant'[q.token].account] = "admin"
  <2> SUFFICES ASSUME q.step = "serve" /\ q.op = "admin"
      PROVE  users'[grant'[q.token].account] = "admin"
    OBVIOUS
  <2>1. Granted(q.token) /\ users[grant[q.token].account] = "admin"
    BY DEF RequestOK, Handling
  <2>2. grant[q.token].account \in Accounts
    BY <2>1, GrantTypes DEF Granted
  <2> QED BY <1>2, <2>1, <2>2 DEF Onward
<1> QED BY <1>1, <1>2, <1>3, <1>4 DEF RequestOK, Handling

-----------------------------------------------------------------------------
(* The request a step handles.                                             *)

\* An answer that claims nothing of the token.
LEMMA AnsweredOK ==
    ASSUME NEW r \in Requests, NEW answer \in Answers, NEW failed \in BOOLEAN,
           NEW q, request'[r] = Done(q, answer, failed)
    PROVE  RequestOK(r)'
BY DEF RequestOK, Done, NoRequest, Handling

LEMMA LoginSteps ==
    ASSUME SessionsInv, SessionsTypeOK', Onward, NEW r \in Requests,
           \/ \E email \in Accounts : BeginLogin(r, email)
           \/ FindUser(r)
           \/ \E t \in Sessions : CreateSession(r, t)
           \/ CreateFails(r) \/ TouchUser(r) \/ LoginProfile(r)
    PROVE  RequestOK(r)'
<1> DEFINE q == request[r]
<1> USE DEF SessionsInv
<1>0. request \in [Requests -> RequestRecords] /\ RequestOK(r) /\ q \in RequestRecords
  BY DEF SessionsTypeOK
<1>1. ASSUME NEW email \in Accounts, BeginLogin(r, email) PROVE RequestOK(r)'
  BY <1>0, <1>1 DEF BeginLogin, Begin, At, RequestOK, NoRequest, Handling
<1>2. CASE FindUser(r)
  <2>1. CASE /\ users[q.account] # "none"
             /\ request' = [request EXCEPT ![r].role = users[q.account], ![r].step = "create"]
    <3>1. /\ request'[r] = [q EXCEPT !.role = users[q.account], !.step = "create"]
          /\ users' = users /\ serving' = serving /\ q.step = "findUser" /\ serving
      BY <1>0, <1>2, <2>1 DEF FindUser, At, stores
    <3>2. /\ request'[r].op = q.op /\ request'[r].account = q.account
          /\ request'[r].token = q.token /\ request'[r].answer = q.answer
          /\ request'[r].step = "create" /\ request'[r].role = users[q.account]
      BY <1>0, <3>1 DEF RequestRecords
    <3> QED BY <1>0, <2>1, <3>1, <3>2 DEF RequestOK, Handling
  <2>2. CASE AnswerFailed(r, "error")
    <3>1. request'[r] = Done(q, "error", TRUE)
      BY <1>0, <2>2 DEF AnswerFailed
    <3> QED BY <3>1, AnsweredOK DEF Answers
  <2>3. CASE Answer(r, "unauthorized")
    <3>1. request'[r] = Done(q, "unauthorized", FALSE)
      BY <1>0, <2>3 DEF Answer
    <3> QED BY <3>1, AnsweredOK DEF Answers
  <2> QED BY <1>2, <2>1, <2>2, <2>3 DEF FindUser
<1>3. ASSUME NEW t \in Sessions, CreateSession(r, t) PROVE RequestOK(r)'
  <2>1. /\ request'[r] = [q EXCEPT !.token = t, !.step = "touch"]
        /\ users' = users /\ serving' = serving /\ q.step = "create" /\ serving
    BY <1>0, <1>3 DEF CreateSession, At
  <2>2. /\ request'[r].op = q.op /\ request'[r].account = q.account
        /\ request'[r].token = t /\ request'[r].answer = q.answer
        /\ request'[r].step = "touch" /\ request'[r].role = q.role
    BY <1>0, <2>1 DEF RequestRecords
  <2>3. Granted(t)'
    <3>1. grant'[t] = [account |-> q.account, expires |-> ExpiresAt] /\ q.account \in Accounts
      BY <1>0, <1>3 DEF CreateSession, At, RequestOK, SessionsTypeOK
    <3> QED BY <3>1, SessionsAssumption DEF Granted, NoGrant
  <2> QED BY <1>0, <2>1, <2>2, <2>3 DEF RequestOK, Handling
<1>4. CASE CreateFails(r)
  <2>1. request'[r] = Done(q, "error", TRUE)
    BY <1>0, <1>4 DEF CreateFails, AnswerFailed
  <2> QED BY <2>1, AnsweredOK DEF Answers
<1>5. CASE TouchUser(r)
  <2>1. /\ request'[r] = [q EXCEPT !.step = "profile"]
        /\ serving' = serving /\ q.step = "touch" /\ serving
    BY <1>0, <1>5 DEF TouchUser, GoTo, At
  <2>2. /\ request'[r].op = q.op /\ request'[r].token = q.token
        /\ request'[r].answer = q.answer /\ request'[r].step = "profile"
    BY <1>0, <2>1 DEF RequestRecords
  <2>3. Granted(q.token)'
    BY <1>0, <2>1, GrantedStays DEF RequestOK
  <2> QED BY <1>0, <2>1, <2>2, <2>3 DEF RequestOK, Handling
<1>6. CASE LoginProfile(r)
  <2>1. q.step = "profile"
    BY <1>6 DEF LoginProfile, At
  <2>2. request'[r] = Done(q, "ok", FALSE) \/ request'[r] = Done(q, "error", TRUE)
    BY <1>0, <1>6 DEF LoginProfile, Answer, AnswerFailed
  <2> QED BY <2>2, AnsweredOK DEF Answers
<1> QED BY <1>1, <1>2, <1>3, <1>4, <1>5, <1>6

LEMMA GuardedSteps ==
    ASSUME SessionsInv, SessionsTypeOK', Onward, NEW r \in Requests,
           \/ \E op \in {"me", "admin", "logout"}, t \in held \cup {None} :
                 BeginGuarded(r, op, t)
           \/ FindSession(r) \/ ReapSession(r) \/ LoadUser(r) \/ Serve(r)
           \/ FindForLogout(r) \/ DeleteForLogout(r)
    PROVE  RequestOK(r)'
<1>c. PICK q : q = request[r]    \* the record before the step, also when primed
  OBVIOUS
<1> USE <1>c DEF SessionsInv
<1>0. request \in [Requests -> RequestRecords] /\ RequestOK(r) /\ q \in RequestRecords
  BY DEF SessionsTypeOK
<1>a. Granted(q.token) => /\ Granted(q.token)'
                          /\ grant'[q.token] = grant[q.token]
                          /\ Ended(q.token) => Ended(q.token)'
                          /\ Expired(q.token) => Expired(q.token)'
  BY GrantedStays
<1>1. ASSUME NEW op \in {"me", "admin", "logout"}, NEW t \in held \cup {None},
             BeginGuarded(r, op, t)
      PROVE  RequestOK(r)'
  <2> DEFINE stale == t # None /\ Ended(t)
  <2>1. t = None \/ Granted(t)
    BY DEF SessionsTypeOK, Granted
  <2>2. Granted(t) => Granted(t)' /\ (Ended(t) => Ended(t)')
    BY GrantedStays
  <2>3. stale \in BOOLEAN /\ (stale => t # None /\ Ended(t))
    BY DEF Ended
  <2>4. /\ request'[r] = [NoRequest EXCEPT !.op = op, !.token = t, !.step = "findSession",
                                            !.stale = stale]
        /\ serving /\ serving' = serving
    BY <1>0, <1>1 DEF BeginGuarded, Begin, At
  <2> HIDE DEF stale
  <2>5. stale => Ended(t)'
    BY <2>1, <2>2, <2>3
  <2> QED BY <2>1, <2>2, <2>3, <2>4, <2>5 DEF RequestOK, NoRequest, Handling
<1>2. CASE FindSession(r)
  <2>1. serving' = serving /\ serving /\ q.step = "findSession"
    BY <1>2 DEF FindSession, At
  <2>2. q.token = None \/ Granted(q.token)
    BY <1>0, <2>1 DEF RequestOK
  <2>3. CASE AnswerFailed(r, "unauthorized")
    <3>1. request'[r] = Done(q, "unauthorized", TRUE)
      BY <1>0, <2>3 DEF AnswerFailed
    <3> QED BY <3>1, AnsweredOK DEF Answers
  <2>4. CASE q.token \notin live /\ Answer(r, "unauthorized")
    <3>1. request'[r] = Done(q, "unauthorized", FALSE)
      BY <1>0, <2>4 DEF Answer
    <3> QED BY <3>1, AnsweredOK DEF Answers
  <2>5. CASE q.token \in live /\ GoTo(r, IF Expired(q.token) THEN "reap" ELSE "loadUser")
    <3> DEFINE step == IF Expired(q.token) THEN "reap" ELSE "loadUser"
    <3>1. request'[r] = [q EXCEPT !.step = step]
      BY <1>0, <2>5 DEF GoTo
    <3>2. /\ request'[r].op = q.op /\ request'[r].token = q.token
          /\ request'[r].answer = q.answer /\ request'[r].step = step
          /\ request'[r].stale = q.stale
      BY <1>0, <3>1 DEF RequestRecords
    <3>3. Granted(q.token)
      BY <2>2, <2>5, SessionsAssumption DEF SessionsTypeOK
    <3>4. step = "loadUser" => ~q.stale
      <4>1. q.token \notin revoked \cup lost
        BY <2>5 DEF RowsOK
      <4> QED BY <1>0, <2>1, <4>1 DEF RequestOK, Ended, Expired
    <3>5. step = "reap" => Expired(q.token)'
      BY <1>a, <3>3
    <3>6. step \in {"reap", "loadUser"}
      OBVIOUS
    <3> HIDE DEF step
    <3> QED BY <1>0, <1>a, <2>1, <3>2, <3>3, <3>4, <3>5, <3>6 DEF RequestOK, Handling
  <2> QED BY <1>2, <2>3, <2>4, <2>5 DEF FindSession
<1>3. CASE ReapSession(r)
  <2>1. request'[r] = Done(q, "unauthorized", FALSE)
    BY <1>0, <1>3 DEF ReapSession, Answer
  <2> QED BY <2>1, AnsweredOK DEF Answers
<1>4. CASE LoadUser(r)
  <2> DEFINE role == users[grant[q.token].account]
             step == IF q.op = "logout" THEN "findForLogout" ELSE "serve"
  <2>1. CASE AnswerFailed(r, "unauthorized")
    <3>1. request'[r] = Done(q, "unauthorized", TRUE)
      BY <1>0, <2>1 DEF AnswerFailed
    <3> QED BY <3>1, AnsweredOK DEF Answers
  <2>2. CASE Answer(r, "forbidden")
    <3>1. request'[r] = Done(q, "forbidden", FALSE)
      BY <1>0, <2>2 DEF Answer
    <3> QED BY <3>1, AnsweredOK DEF Answers
  <2>3. CASE /\ Permits(q.op, role)
             /\ request' = [request EXCEPT ![r].role = role, ![r].step = step]
    <3>1. /\ q.step = "loadUser" /\ serving /\ serving' = serving
          /\ users' = users /\ grant' = grant
      BY <1>4 DEF LoadUser, At, stores
    <3>2. request'[r] = [q EXCEPT !.role = role, !.step = step]
      BY <1>0, <2>3
    <3>3. /\ request'[r].op = q.op /\ request'[r].token = q.token
          /\ request'[r].answer = q.answer /\ request'[r].step = step
          /\ request'[r].stale = q.stale
      BY <1>0, <3>2 DEF RequestRecords
    <3>4. q.op = "admin" => users'[grant'[q.token].account] = "admin"
      BY <2>3, <3>1 DEF Permits
    <3>5. step \in {"serve", "findForLogout"}
      OBVIOUS
    <3> HIDE DEF step, role
    <3> QED BY <1>0, <1>a, <3>1, <3>3, <3>4, <3>5 DEF RequestOK, Handling
  <2> QED BY <1>4, <2>1, <2>2, <2>3 DEF LoadUser
<1>5. CASE Serve(r)
  <2>1. request'[r] = Done(q, "ok", FALSE)
    BY <1>0, <1>5 DEF Serve, Answer
  <2> QED BY <2>1, AnsweredOK DEF Answers
<1>6. CASE FindForLogout(r) \/ DeleteForLogout(r)
  <2>1. /\ q.step \in Handling /\ Granted(q.token) /\ ~q.stale
        /\ serving /\ serving' = serving /\ q.answer = "none"
    BY <1>0, <1>6 DEF FindForLogout, DeleteForLogout, At, RequestOK, Handling
  <2>2. CASE GoTo(r, "delete")
    <3>1. request'[r] = [q EXCEPT !.step = "delete"]
      BY <1>0, <2>2 DEF GoTo
    <3>2. /\ request'[r].op = q.op /\ request'[r].token = q.token
          /\ request'[r].answer = q.answer /\ request'[r].step = "delete"
          /\ request'[r].stale = q.stale
      BY <1>0, <3>1 DEF RequestRecords
    <3> QED BY <1>a, <2>1, <3>2 DEF RequestOK, Handling
  <2>3. CASE AnswerFailed(r, "error")
    <3>1. request'[r] = Done(q, "error", TRUE)
      BY <1>0, <2>3 DEF AnswerFailed
    <3> QED BY <3>1, AnsweredOK DEF Answers
  <2>4. CASE Answer(r, "ok")
    <3>1. request'[r] = Done(q, "ok", FALSE)
      BY <1>0, <2>4 DEF Answer
    <3> QED BY <3>1, AnsweredOK DEF Answers
  <2>5. CASE q.token \notin live /\ Answer(r, "error")
    <3>1. request'[r] = Done(q, "error", FALSE)
      BY <1>0, <2>5 DEF Answer
    <3> QED BY <3>1, AnsweredOK DEF Answers
  <2> QED BY <1>6, <2>2, <2>3, <2>4, <2>5 DEF FindForLogout, DeleteForLogout
<1> QED BY <1>1, <1>2, <1>3, <1>4, <1>5, <1>6

-----------------------------------------------------------------------------
(* The rows.                                                               *)

LEMMA StopStep ==
    ASSUME SessionsInv, Stop
    PROVE  RowsOK' /\ \A r \in Requests : RequestOK(r)'
<1>1. ASSUME NEW r \in Requests PROVE RequestOK(r)'
  BY <1>1 DEF Stop, RequestOK, NoRequest, Handling
<1>2. RowsOK'
  <2>1. CASE persistent
    BY <2>1 DEF Stop, SessionsInv, RowsOK, Granted, Ended
  <2>2. CASE ~persistent
    BY <2>2 DEF Stop, RowsOK, Granted, Ended
  <2> QED BY <2>1, <2>2
<1> QED BY <1>1, <1>2

\* A step that keeps every row, or deletes one whose token has ended or ends
\* with it.
LEMMA RowsKept ==
    ASSUME SessionsInv, SessionsTypeOK', Onward, grant' = grant, live' \subseteq live,
           \A t \in live \ live' : Ended(t)',
           (revoked' \cup lost') \cap live' = {}
    PROVE  RowsOK'
<1>1. ASSUME NEW t \in Sessions, Granted(t)'
      PROVE  /\ t \in live' \/ Ended(t)'
             /\ t \in live' => users'[grant'[t].account] # "none"
  <2>1. Granted(t) /\ grant'[t] = grant[t]
    BY <1>1 DEF Granted
  <2>2. t \in live \/ Ended(t)'
    BY <2>1, GrantedStays DEF SessionsInv, RowsOK
  <2>3. t \in live => users[grant[t].account] # "none"
    BY <2>1 DEF SessionsInv, RowsOK
  <2>4. grant[t].account \in Accounts
    BY <2>1, GrantTypes DEF SessionsInv, Granted
  <2> QED BY <2>1, <2>2, <2>3, <2>4 DEF Onward
<1> QED BY <1>1 DEF RowsOK

LEMMA RowsStep ==
    ASSUME SessionsInv, SessionsTypeOK', [Next]_vars, ~Stop
    PROVE  RowsOK'
<1>0. Onward
  BY OnwardStep
<1>a. SessionsTypeOK /\ \A r \in Requests : RequestOK(r)
  BY DEF SessionsInv
<1>b. (revoked \cup lost) \cap live = {}
  BY DEF SessionsInv, RowsOK
<1>c. CASE UNCHANGED <<live, grant, revoked, lost>>
  BY <1>0, <1>b, <1>c, RowsKept
<1> USE DEF stores, observers
<1>1. ASSUME NEW r \in Requests, NEW t \in Sessions, CreateSession(r, t) PROVE RowsOK'
  <2>1. /\ request[r].account \in Accounts /\ users[request[r].account] # "none"
        /\ grant'[t].account = request[r].account
        /\ live' = live \cup {t} /\ users' = users
    BY <1>a, <1>1 DEF CreateSession, At, RequestOK, SessionsTypeOK
  <2>2. t \notin revoked \cup lost
    BY <1>a, <1>1 DEF CreateSession, SessionsTypeOK
  <2>3. ASSUME NEW s \in Sessions, s # t, Granted(s)'
        PROVE  /\ s \in live' \/ Ended(s)'
               /\ s \in live' => users'[grant'[s].account] # "none"
    <3>1. grant'[s] = grant[s] /\ Granted(s) /\ (Ended(s) => Ended(s)')
      BY <1>1, <2>3 DEF CreateSession, Granted, Ended, SessionsTypeOK
    <3> QED BY <2>1, <2>3, <3>1 DEF SessionsInv, RowsOK
  <2>4. revoked' \cup lost' = revoked \cup lost
    BY <1>1 DEF CreateSession
  <2> QED BY <1>b, <2>1, <2>2, <2>3, <2>4 DEF RowsOK
<1>2. ASSUME NEW r \in Requests, ReapSession(r) PROVE RowsOK'
  <2>1. Expired(request[r].token)
    BY <1>a, <1>2 DEF ReapSession, At, RequestOK
  <2>2. \A t \in live \ live' : Ended(t)'
    BY <1>2, <2>1 DEF ReapSession, DeleteSession, Ended, Expired
  <2> QED BY <1>0, <1>2, <1>b, <2>2, RowsKept DEF ReapSession, DeleteSession
<1>3. ASSUME NEW r \in Requests, FindForLogout(r) PROVE RowsOK'
  BY <1>0, <1>3, <1>b, RowsKept DEF FindForLogout
<1>4. ASSUME NEW r \in Requests, DeleteForLogout(r) PROVE RowsOK'
  <2>1. \A t \in live \ live' : Ended(t)'
    BY <1>4 DEF DeleteForLogout, DeleteSession, Ended
  <2> QED BY <1>0, <1>4, <1>b, <2>1, RowsKept DEF DeleteForLogout, DeleteSession
<1>5. ASSUME NEW r \in Requests,
             \/ \E email \in Accounts : BeginLogin(r, email)
             \/ FindUser(r) \/ CreateFails(r) \/ FindSession(r) \/ LoadUser(r) \/ Serve(r)
             \/ \E op \in {"me", "admin", "logout"}, t \in held \cup {None} :
                   BeginGuarded(r, op, t)
      PROVE  RowsOK'
  BY <1>a, <1>c, <1>5, HandoverSteps DEF Handover
<1>6. ASSUME NEW r \in Requests, TouchUser(r) \/ LoginProfile(r) PROVE RowsOK'
  BY <1>c, <1>6 DEF TouchUser, LoginProfile
<1>7. ASSUME NEW r \in Requests, Handle(r) PROVE RowsOK'
  BY <1>1, <1>2, <1>3, <1>4, <1>5, <1>6, <1>7 DEF Handle
<1>8. CASE \/ \E email \in Accounts \cup {None} : Start(email)
           \/ \E email \in Accounts, role \in Roles : Provision(email, role)
           \/ Tick
  BY <1>c, <1>8 DEF Start, Provision, Tick
<1>9. CASE UNCHANGED vars
  BY <1>c, <1>9 DEF vars
<1> QED BY <1>7, <1>8, <1>9 DEF Next

-----------------------------------------------------------------------------
(* The invariant and what it implies.                                      *)

LEMMA SessionsInvInitially == Init => SessionsInv
<1> SUFFICES ASSUME Init PROVE SessionsInv
  OBVIOUS
<1>1. SessionsTypeOK
  BY TypeInitially
<1>2. RowsOK
  BY DEF Init, RowsOK, Granted
<1>3. \A r \in Requests : RequestOK(r)
  BY DEF Init, RequestOK, NoRequest, Handling
<1> QED BY <1>1, <1>2, <1>3 DEF SessionsInv

LEMMA SessionsInvStep == SessionsInv /\ [Next]_vars => SessionsInv'
<1> SUFFICES ASSUME SessionsInv, [Next]_vars PROVE SessionsInv'
  OBVIOUS
<1>1. SessionsTypeOK'
  BY TypeStep
<1>2. CASE Stop
  BY <1>1, <1>2, StopStep DEF SessionsInv
<1>3. CASE ~Stop
  <2>1. Onward /\ RowsOK'
    BY <1>1, <1>3, OnwardStep, RowsStep
  <2>2. SessionsTypeOK /\ \A r \in Requests : RequestOK(r)
    BY DEF SessionsInv
  <2>3. ASSUME NEW r \in Requests, NEW s \in Requests, Handle(s), s # r
        PROVE  request'[r] = request[r]
    <3>1. CASE CreateFails(s) \/ FindUser(s) \/ FindSession(s) \/ LoadUser(s) \/ Serve(s)
               \/ (\E email \in Accounts : BeginLogin(s, email))
               \/ (\E op \in {"me", "admin", "logout"}, t \in held \cup {None} :
                      BeginGuarded(s, op, t))
      BY <2>2, <2>3, <3>1, HandoverSteps DEF Handover, SessionsTypeOK
    <3>2. CASE \/ \E t \in Sessions : CreateSession(s, t)
               \/ TouchUser(s) \/ LoginProfile(s) \/ ReapSession(s)
               \/ FindForLogout(s) \/ DeleteForLogout(s)
      BY <2>2, <2>3, <3>2
         DEF CreateSession, TouchUser, LoginProfile, ReapSession, FindForLogout,
             DeleteForLogout, GoTo, Answer, AnswerFailed, SessionsTypeOK
    <3> QED BY <2>3, <3>1, <3>2 DEF Handle
  <2>4. ASSUME NEW r \in Requests PROVE RequestOK(r)'
    <3>1. CASE request'[r] = request[r]
      BY <1>1, <2>1, <2>2, <3>1, RequestUntouched
    <3>2. CASE Handle(r)
      BY <1>1, <2>1, <3>2, LoginSteps, GuardedSteps DEF Handle
    <3>3. CASE \E s \in Requests : s # r /\ Handle(s)
      BY <2>3, <3>1, <3>3
    <3>4. CASE \/ \E email \in Accounts \cup {None} : Start(email)
               \/ \E email \in Accounts, role \in Roles : Provision(email, role)
               \/ Tick \/ UNCHANGED vars
      BY <3>1, <3>4 DEF Start, Provision, Tick, vars
    <3> QED BY <1>3, <3>2, <3>3, <3>4 DEF Next
  <2> QED BY <1>1, <2>1, <2>4 DEF SessionsInv
<1> QED BY <1>2, <1>3

\* The store's rows, the requests being handled and the tokens in browsers
\* fit together at every moment.
THEOREM SessionsInvariant == Spec => []SessionsInv
BY SessionsInvInitially, SessionsInvStep, PTL DEF Spec

\* Every row, request and token is of the kind the code declares.
THEOREM SessionsTypeCorrect == Spec => []SessionsTypeOK
<1>1. SessionsInv => SessionsTypeOK
  BY DEF SessionsInv
<1> QED BY <1>1, SessionsInvariant, PTL

\* A token that had ended when its request came never gets that request past
\* withSessionAuth, however the clean-up, the logout and a restart interleave.
THEOREM EndedTokensStayOut == Spec => []EndedStaysOut
<1>1. SessionsInv => EndedStaysOut
  BY DEF SessionsInv, RequestOK, EndedStaysOut
<1> QED BY <1>1, SessionsInvariant, PTL

\* A token in a browser has its session row and its account's row until it is
\* logged out, expires or goes with a memory store.
THEOREM HeldTokensWork == Spec => []HeldWorks
<1>1. SessionsInv => HeldWorks
  <2> SUFFICES ASSUME SessionsInv, NEW t \in held, ~Ended(t)
      PROVE  t \in live /\ users[grant[t].account] # "none"
    BY DEF HeldWorks
  <2>1. Granted(t)
    BY DEF SessionsInv, SessionsTypeOK, Granted
  <2> QED BY <2>1 DEF SessionsInv, RowsOK, Granted
<1> QED BY <1>1, SessionsInvariant, PTL

\* The handlers behind requireAdmin run for administrators only, and the
\* account is still an administrator's while they run.
THEOREM AdministratorsOnly == Spec => []AdminOnly
<1>1. SessionsInv => AdminOnly
  BY DEF SessionsInv, RequestOK, AdminOnly
<1> QED BY <1>1, SessionsInvariant, PTL

\* An account's row changes only when it is made, by a start into an empty
\* table or by the operator, or when a memory store goes.
THEOREM AccountsAreKept == Spec => AccountsKept
<1> DEFINE Kept == \A a \in Accounts :
                      users[a] # users'[a] =>
                          \/ ~persistent /\ ~serving'
                          \/ users[a] = "none" /\ (NoUsers \/ serving' = serving)
<1>1. ASSUME SessionsInv, Next PROVE Kept
  <2>1. SessionsTypeOK /\ \A r \in Requests : RequestOK(r)
    BY <1>1 DEF SessionsInv
  <2>2. ASSUME NEW r \in Requests, Handle(r) PROVE users' = users
    <3>1. CASE TouchUser(r)
      BY <2>1, <3>1 DEF TouchUser, At, RequestOK, SessionsTypeOK
    <3>2. CASE \/ \E t \in Sessions : CreateSession(r, t)
               \/ LoginProfile(r) \/ ReapSession(r) \/ FindForLogout(r) \/ DeleteForLogout(r)
      BY <3>2 DEF CreateSession, LoginProfile, ReapSession, FindForLogout, DeleteForLogout, stores
    <3>3. CASE CreateFails(r) \/ FindUser(r) \/ FindSession(r) \/ LoadUser(r) \/ Serve(r)
               \/ (\E email \in Accounts : BeginLogin(r, email))
               \/ (\E op \in {"me", "admin", "logout"}, t \in held \cup {None} :
                      BeginGuarded(r, op, t))
      BY <2>1, <3>3, HandoverSteps DEF Handover, stores
    <3> QED BY <2>2, <3>1, <3>2, <3>3 DEF Handle
  <2>3. ASSUME NEW email \in Accounts \cup {None}, Start(email) PROVE Kept
    BY <2>1, <2>3 DEF Start, BootstrapAdmin, NoUsers, SessionsTypeOK
  <2>4. CASE Stop
    BY <2>4 DEF Stop
  <2>5. ASSUME NEW email \in Accounts, NEW role \in Roles, Provision(email, role) PROVE Kept
    BY <2>1, <2>5 DEF Provision, SessionsTypeOK
  <2>6. CASE Tick
    BY <2>6 DEF Tick, stores
  <2> QED BY <1>1, <2>2, <2>3, <2>4, <2>5, <2>6 DEF Next
<1>2. SessionsInv /\ [Next]_vars => [Kept]_vars
  BY <1>1
<1> QED BY <1>2, SessionsInvariant, PTL DEF Spec, AccountsKept
=============================================================================
