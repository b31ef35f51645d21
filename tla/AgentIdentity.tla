--------------------------- MODULE AgentIdentity ----------------------------
(***************************************************************************)
(* How the control plane keeps its root of trust and an agent its          *)
(* identity: loadOrGenerateCA of cmd/controlplane, the CA of pki/ca.go,    *)
(* the start of cmd/agent, Enroll, NewClient and Heartbeat of the agent's  *)
(* transport, and what the agent listener checks.                          *)
(*                                                                         *)
(* os.WriteFile empties the file and then writes it: two actions, and a    *)
(* crash in between leaves a torn file, which can be read but not parsed.  *)
(* A write that fails and a later step of a start that fails end the       *)
(* process as a crash does.  An enrollment is one action of the control    *)
(* plane here; how it interleaves with other requests on the same host is  *)
(* module HostRecords.  One host, one agent, one operator.                 *)
(***************************************************************************)
EXTENDS Integers, FiniteSets

CONSTANTS
    Roots,        \* the root key pairs GenerateCA may draw
    Keys,         \* the key pairs an agent may draw, one for each enrollment
    Hosts,        \* the host IDs the registration of the host may draw
    None, Torn,   \* no file, or an emptied one
    MaxTokens,    \* bound on the enrollment tokens issued
    MaxCrashes    \* bound on the crashes and the failed reads

ASSUME AgentIdentityAssumption ==
    /\ None \notin Roots \cup Keys \cup Hosts
    /\ Torn \notin Roots \cup Keys \cup {None}
    /\ MaxTokens \in Nat /\ MaxCrashes \in Nat

VARIABLES
    \* The control plane.
    persistent,   \* an SQL store, or the memory store
    caFiles,      \* ca-cert.pem and ca-key.pem in DM_CA_DIR
    plane,        \* where main of the control plane is
    ca,           \* its CA in memory: certificate and key
    row,          \* the host's row: ID, live token (0: none), AgentEnrolled
    \* The agent.
    files,        \* agent-cert.pem, agent-key.pem and the pinned ca.pem
    env,          \* DM_AGENT_HOST_ID and DM_AGENT_ENROLLMENT_TOKEN
    agent,        \* where main of the agent is
    run,          \* what this run holds: pinned root, key pair
    beat,         \* how this run's last heartbeat was answered
    \* The world.
    issued,       \* key -> the certificate issued for it: host and signer
    expired,      \* keys whose certificate is over agentCertValidFor
    tokens,       \* tokens issued so far
    crashes,
    served,       \* observer: roots the control plane has served under
    mishaps       \* observer: what went wrong so far

vars == <<persistent, caFiles, plane, ca, row, files, env, agent, run, beat,
          issued, expired, tokens, crashes, served, mishaps>>

planeVars == <<persistent, caFiles, plane, ca, row, served>>
agentVars == <<files, env, agent, run, beat>>
worldVars == <<issued, expired, tokens, crashes, mishaps>>

PlaneSteps == {"down", "generated", "keyOpen", "keyWritten", "certOpen", "serving"}
AgentSteps == {"down", "badPair", "asked", "answered", "certOpen", "certWritten",
               "keyOpen", "running"}

NoCA == [cert |-> None, key |-> None]
NoRun == [pin |-> None, key |-> None]
NoCert == [host |-> None, signer |-> None]

Rows == [host : Hosts \cup {None}, token : 0..MaxTokens, enrolled : BOOLEAN]
NoRow == [host |-> None, token |-> 0, enrolled |-> FALSE]

\* caLost: a CA file was removed, or could not be read by a start.  hostLost:
\* the host's row went with a memory store, or was deleted.  removed: a file
\* of the agent was removed.  unread: the agent's start could not read a file
\* that was there.  torn: the agent died in a write.  broken: it died, or its
\* answer was lost, after its token was burned and before its files were
\* complete.
Mishaps == {"caLost", "hostLost", "removed", "unread", "torn", "broken"}

IdentityTypeOK ==
    /\ persistent \in BOOLEAN
    /\ caFiles \in [cert : Roots \cup {None, Torn}, key : Roots \cup {None, Torn}]
    /\ plane \in PlaneSteps
    /\ ca \in [cert : Roots \cup {None}, key : Roots \cup {None}]
    /\ row \in Rows
    /\ files \in [cert : Keys \cup {None, Torn}, key : Keys \cup {None, Torn},
                  pin : Roots \cup {None}]
    /\ env \in [host : Hosts \cup {None}, token : 0..MaxTokens]
    /\ agent \in AgentSteps
    /\ run \in [pin : Roots \cup {None}, key : Keys \cup {None}]
    /\ beat \in {"none", "accepted", "refused"}
    /\ issued \in [Keys -> [host : Hosts \cup {None}, signer : Roots \cup {None}]]
    /\ expired \subseteq Keys
    /\ tokens \in 0..MaxTokens /\ crashes \in 0..MaxCrashes
    /\ served \subseteq Roots /\ mishaps \subseteq Mishaps
    /\ (plane = "down") <=> (ca = NoCA)
    /\ (agent \in {"down", "badPair"}) <=> (run = NoRun)

-----------------------------------------------------------------------------
(* The start of the control plane.                                         *)

\* LoadCA: both parse, and the key is the certificate's.
LoadCA == caFiles.cert \in Roots /\ caFiles.key = caFiles.cert

\* Mutant: one of the two is enough.
CAFileReadable == caFiles.cert # None \/ caFiles.key # None

\* Both files are there.  If they can be read, no new CA is made, whatever is
\* in them; GenerateUnread is the start that finds them and cannot.
CAFilesReadable == caFiles.cert # None /\ caFiles.key # None

StartFromFiles ==
    /\ plane = "down"
    /\ CAFilesReadable
    /\ LoadCA                   \* otherwise main exits
    /\ ca' = [cert |-> caFiles.cert, key |-> caFiles.key]
    /\ plane' = "serving"
    /\ served' = served \cup {caFiles.cert}
    /\ UNCHANGED <<persistent, caFiles, row, agentVars, worldVars>>

Draw(root) ==
    /\ plane = "down"
    /\ root \notin served /\ root \notin {caFiles.cert, caFiles.key}
    /\ ca' = [cert |-> root, key |-> root]
    /\ plane' = "generated"
    /\ UNCHANGED <<persistent, caFiles, row, served, agentVars>>

GenerateCA(root) == ~CAFilesReadable /\ Draw(root) /\ UNCHANGED worldVars

\* Any error of a read counts as an absent file (permissions, a disk that
\* fails): a new CA is drawn, and written over the one that is there.
GenerateUnread(root) ==
    /\ CAFilesReadable
    /\ crashes < MaxCrashes
    /\ Draw(root)
    /\ crashes' = crashes + 1
    /\ mishaps' = mishaps \cup {"caLost"}
    /\ UNCHANGED <<issued, expired, tokens>>

OpenCAKey ==
    /\ plane = "generated"
    /\ plane' = "keyOpen"
    /\ caFiles' = [caFiles EXCEPT !.key = Torn]
    /\ UNCHANGED <<persistent, ca, row, served, agentVars, worldVars>>

WriteCAKey ==
    /\ plane = "keyOpen"
    /\ plane' = "keyWritten"
    /\ caFiles' = [caFiles EXCEPT !.key = ca.key]
    /\ UNCHANGED <<persistent, ca, row, served, agentVars, worldVars>>

OpenCACert ==
    /\ plane = "keyWritten"
    /\ plane' = "certOpen"
    /\ caFiles' = [caFiles EXCEPT !.cert = Torn]
    /\ UNCHANGED <<persistent, ca, row, served, agentVars, worldVars>>

\* Mutant: the certificate is kept in memory only.
WriteCACertNowhere ==
    /\ plane = "certOpen"
    /\ plane' = "serving"
    /\ caFiles' = [caFiles EXCEPT !.cert = None]
    /\ served' = served \cup {ca.cert}
    /\ UNCHANGED <<persistent, ca, row, agentVars, worldVars>>

\* The last file; the listeners follow.
WriteCACert ==
    /\ plane = "certOpen"
    /\ plane' = "serving"
    /\ caFiles' = [caFiles EXCEPT !.cert = ca.cert]
    /\ served' = served \cup {ca.cert}
    /\ UNCHANGED <<persistent, ca, row, agentVars, worldVars>>

\* A crash or a stop.  The memory store goes with the process.
StopPlane ==
    /\ plane # "down" /\ crashes < MaxCrashes
    /\ crashes' = crashes + 1
    /\ plane' = "down" /\ ca' = NoCA
    /\ row' = IF persistent THEN row ELSE NoRow
    /\ mishaps' = IF persistent \/ row = NoRow THEN mishaps ELSE mishaps \cup {"hostLost"}
    /\ UNCHANGED <<persistent, caFiles, served, agentVars, issued, expired, tokens>>

-----------------------------------------------------------------------------
(* The start of the agent.                                                 *)

\* Mutant: only the certificate is looked for.
CachedCert == files.cert # None

\* Mutant: a token in the environment is used whenever there is one.
CachedUnlessToken == files.cert # None /\ files.key # None /\ env.token = 0

\* Both files are there.
Cached == files.cert # None /\ files.key # None

\* tls.X509KeyPair.
ValidPair == files.cert \in Keys /\ files.key = files.cert

AtRest == agent \in {"down", "badPair"}

\* The cached pair is used as it is, even if it has expired or was issued
\* for another host or by another root; one that does not fit ends the run.
StartCached ==
    /\ AtRest
    /\ files.pin # None
    /\ Cached
    /\ agent' = IF ValidPair THEN "running" ELSE "badPair"
    /\ run' = IF ValidPair THEN [pin |-> files.pin, key |-> files.key] ELSE NoRun
    /\ beat' = "none"
    /\ UNCHANGED <<planeVars, files, env, worldVars>>

\* A fresh key pair, a request with the token, trust in the pinned root only.
Ask(k) ==
    /\ AtRest
    /\ files.pin # None
    /\ env.token # 0
    /\ issued[k] = NoCert
    /\ agent' = "asked"
    /\ run' = [pin |-> files.pin, key |-> k]
    /\ beat' = "none"
    /\ UNCHANGED <<planeVars, files, env>>

AskToEnroll(k) == ~Cached /\ Ask(k) /\ UNCHANGED worldVars

\* Here too any error of a read counts as an absent file: the agent asks for
\* a second identity, and writes it over the one that is there.
AskUnread(k) ==
    /\ Cached
    /\ crashes < MaxCrashes
    /\ Ask(k)
    /\ crashes' = crashes + 1
    /\ mishaps' = mishaps \cup {"unread"}
    /\ UNCHANGED <<issued, expired, tokens>>

-----------------------------------------------------------------------------
(* Enrollment, from the agent's request to its two files.                  *)

\* The TLS handshake: the listener's certificate is signed by the CA.
TrustsServer == plane = "serving" /\ run.pin = ca.key

\* Registry.Enroll: the token is burned with the certificate issued.
Enroll ==
    /\ agent = "asked"
    /\ TrustsServer
    /\ row.host = env.host /\ ~row.enrolled
    /\ row.token = env.token
    /\ row' = [row EXCEPT !.token = 0, !.enrolled = TRUE]
    /\ issued' = [issued EXCEPT ![run.key] = [host |-> row.host, signer |-> ca.key]]
    /\ agent' = "answered"
    /\ UNCHANGED <<persistent, caFiles, plane, ca, served, files, env, run, beat,
                   expired, tokens, crashes, mishaps>>

\* Mutant: the key of the failed attempt is kept.
EnrollRefusedKeepingRun ==
    /\ agent = "asked"
    /\ agent' = "down" /\ run' = run
    /\ UNCHANGED <<planeVars, files, env, beat, worldVars>>

\* No connection, no trust, the wrong or a stale token, a failing store,
\* thirty seconds: the agent exits, and nothing has changed.  (A request that
\* the control plane takes after the agent has given up is Enroll, AnswerLost.)
EnrollRefused ==
    /\ agent = "asked"
    /\ agent' = "down" /\ run' = NoRun
    /\ UNCHANGED <<planeVars, files, env, beat, worldVars>>

\* The answer does not come, or in pieces: the agent exits.
AnswerLost ==
    /\ agent = "answered"
    /\ agent' = "down" /\ run' = NoRun
    /\ mishaps' = mishaps \cup {"broken"}
    /\ UNCHANGED <<planeVars, files, env, beat, issued, expired, tokens, crashes>>

AgentStep(from, to) ==
    /\ agent = from
    /\ agent' = to
    /\ UNCHANGED <<planeVars, env, run, beat, worldVars>>

OpenCert == AgentStep("answered", "certOpen") /\ files' = [files EXCEPT !.cert = Torn]

WriteCert == AgentStep("certOpen", "certWritten") /\ files' = [files EXCEPT !.cert = run.key]

OpenKey == AgentStep("certWritten", "keyOpen") /\ files' = [files EXCEPT !.key = Torn]

\* Mutant: the key is kept in memory only.
WriteKeyNowhere == AgentStep("keyOpen", "running") /\ files' = [files EXCEPT !.key = None]

\* This run goes on with the pair it has in memory.
WriteKey == AgentStep("keyOpen", "running") /\ files' = [files EXCEPT !.key = run.key]

StopAgent ==
    /\ ~AtRest /\ crashes < MaxCrashes
    /\ crashes' = crashes + 1
    /\ agent' = "down" /\ run' = NoRun /\ beat' = "none"
    /\ mishaps' = mishaps
           \cup (IF agent \in {"certOpen", "keyOpen"} THEN {"torn"} ELSE {})
           \cup (IF agent \in {"asked", "running"} THEN {} ELSE {"broken"})
    /\ UNCHANGED <<planeVars, files, env, issued, expired, tokens>>

\* VerifyClientCertIfGiven, requireClientCert and Heartbeat's GetHost: a
\* certificate of this root names a host that is in the store.
Accepted(cert) == cert.signer = ca.cert /\ cert.host = row.host

\* Every thirty seconds, and telemetry likewise.  A failure is only logged; a
\* 500 from a store that fails says nothing of the identity and is left out.
Heartbeat ==
    /\ agent = "running"
    /\ plane = "serving"
    /\ beat' = IF TrustsServer /\ run.key \notin expired /\ Accepted(issued[run.key])
               THEN "accepted" ELSE "refused"
    /\ UNCHANGED <<planeVars, files, env, agent, run, worldVars>>

-----------------------------------------------------------------------------
(* The operator, and time.                                                 *)

\* POST /hosts draws a fresh ID.
RegisterHost(h) ==
    /\ plane = "serving"
    /\ row = NoRow
    /\ h # env.host /\ \A k \in Keys : issued[k].host # h
    /\ row' = [NoRow EXCEPT !.host = h]
    /\ UNCHANGED <<persistent, caFiles, plane, ca, served, agentVars, worldVars>>

RemoveHost ==
    /\ plane = "serving"
    /\ row # NoRow
    /\ row' = NoRow
    /\ mishaps' = mishaps \cup {"hostLost"}
    /\ UNCHANGED <<persistent, caFiles, plane, ca, served, agentVars,
                   issued, expired, tokens, crashes>>

\* IssueEnrollmentToken; the operator copies it to the agent's environment.
IssueToken ==
    /\ plane = "serving"
    /\ row # NoRow
    /\ AtRest
    /\ tokens < MaxTokens
    /\ tokens' = tokens + 1
    /\ row' = [row EXCEPT !.token = tokens + 1, !.enrolled = FALSE]
    /\ env' = [host |-> row.host, token |-> tokens + 1]
    /\ UNCHANGED <<persistent, caFiles, plane, ca, served, files, agent, run, beat,
                   issued, expired, crashes, mishaps>>

\* GET /system/ca-certificate, saved as ca.pem.
PinRoot ==
    /\ plane = "serving"
    /\ AtRest
    /\ files' = [files EXCEPT !.pin = ca.cert]
    /\ UNCHANGED <<planeVars, env, agent, run, beat, worldVars>>

RemoveAgentFile(f) ==
    /\ AtRest
    /\ files[f] # None
    /\ files' = [files EXCEPT ![f] = None]
    /\ mishaps' = mishaps \cup {"removed"}
    /\ UNCHANGED <<planeVars, env, agent, run, beat, issued, expired, tokens, crashes>>

RemoveCAFile(f) ==
    /\ plane = "down"
    /\ caFiles[f] # None
    /\ caFiles' = [caFiles EXCEPT ![f] = None]
    /\ mishaps' = mishaps \cup {"caLost"}
    /\ UNCHANGED <<persistent, plane, ca, row, served, agentVars,
                   issued, expired, tokens, crashes>>

ExpireCertificate(k) ==
    /\ issued[k] # NoCert
    /\ expired' = expired \cup {k}
    /\ UNCHANGED <<planeVars, agentVars, issued, tokens, crashes, mishaps>>

Init ==
    /\ persistent \in BOOLEAN
    /\ caFiles = [cert |-> None, key |-> None]
    /\ plane = "down" /\ ca = NoCA /\ row = NoRow
    /\ files = [cert |-> None, key |-> None, pin |-> None]
    /\ env = [host |-> None, token |-> 0]
    /\ agent = "down" /\ run = NoRun /\ beat = "none"
    /\ issued = [k \in Keys |-> NoCert] /\ expired = {}
    /\ tokens = 0 /\ crashes = 0
    /\ served = {} /\ mishaps = {}

Plane ==
    \/ StartFromFiles
    \/ \E root \in Roots : GenerateCA(root)
    \/ OpenCAKey
    \/ WriteCAKey
    \/ OpenCACert
    \/ WriteCACert

Agent ==
    \/ StartCached
    \/ \E k \in Keys : AskToEnroll(k)
    \/ Enroll
    \/ EnrollRefused
    \/ AnswerLost
    \/ OpenCert
    \/ WriteCert
    \/ OpenKey
    \/ WriteKey
    \/ Heartbeat

World ==
    \/ StopPlane
    \/ StopAgent
    \/ \E h \in Hosts : RegisterHost(h)
    \/ RemoveHost
    \/ IssueToken
    \/ PinRoot
    \/ \E f \in {"cert", "key"} : RemoveAgentFile(f) \/ RemoveCAFile(f)
    \/ \E root \in Roots : GenerateUnread(root)
    \/ \E k \in Keys : AskUnread(k) \/ ExpireCertificate(k)

Next == Plane \/ Agent \/ World

\* A process that is down is started again by its supervisor, and one that
\* runs goes on.
Fairness ==
    /\ WF_vars(Plane)
    /\ WF_vars(StartCached)
    /\ WF_vars(Enroll \/ EnrollRefused) /\ WF_vars(OpenCert \/ AnswerLost)
    /\ WF_vars(WriteCert)
    /\ WF_vars(OpenKey) /\ WF_vars(WriteKey)
    /\ WF_vars(Heartbeat)

Spec == Init /\ [][Next]_vars /\ Fairness

-----------------------------------------------------------------------------
(* Properties.                                                             *)

\* A restart keeps the root (loadOrGenerateCA): unless a CA file is removed
\* or cannot be read, the control plane only ever serves under one, wherever
\* its first starts were cut off.
OneRoot == "caLost" \notin mishaps => Cardinality(served) <= 1

\* Whatever files are found, a CA that serves can sign: LoadCA keeps a key
\* and a certificate of two different roots from being used together.
ServingCAMatches == plane = "serving" => ca.cert = ca.key

\* A heartbeat of an enrolled agent is refused only if its certificate has
\* expired, its host's row is gone or a CA file was lost.  No number of
\* restarts of either side comes into it.
RefusedForCause ==
    beat = "refused" =>
        run.key \in expired \/ mishaps \cap {"hostLost", "caLost"} # {}

\* An agent finds a pair of files it can neither use nor replace only if it
\* died inside one of the two writes, somebody removed one of the files, or
\* it once took a pair it could not read for absent and enrolled over it;
\* otherwise a crash between the writes is survived.
BadPairNeedsTear ==
    agent = "badPair" => mishaps \cap {"torn", "removed", "unread"} # {}

\* A burned token left the agent its identity, on disk or on the way there,
\* unless the agent died or lost the answer on that way, or files were
\* removed.  Asking again because a file could not be read does not take it.
BurnedTokenHeld ==
    row.enrolled /\ mishaps \cap {"broken", "removed"} = {} =>
        \E k \in Keys : /\ issued[k].host = row.host
                        /\ \/ files.cert = k /\ files.key = k
                           \/ run.key = k /\ ~AtRest

\* No root is left to draw: a bound of the model.
RootsDrawn == Roots \subseteq served \cup {caFiles.cert, caFiles.key}

\* The control plane comes to serve whenever it has been stopped, unless it
\* was stopped inside the write of its certificate, which it then finds torn
\* and refuses, or a CA file was removed or not read.  A crash anywhere else in the
\* first start is survived.
PlaneComesBack ==
    <>[](\/ plane = "serving"
         \/ caFiles.cert = Torn
         \/ "caLost" \in mishaps
         \/ RootsDrawn)

\* An agent whose two files are one pair, and which has a root, is heard
\* again after any restart, of either side, for better or worse.
Identified == ValidPair /\ files.pin # None

AgentHeard ==
    Identified ~> \/ beat # "none"
                  \/ ~Identified
                  \/ "caLost" \in mishaps

=============================================================================
