------------------------- MODULE AgentIdentityProofs -------------------------
(***************************************************************************)
(* Proofs about AgentIdentity: one root for good, and an identity that     *)
(* only named mishaps can take from an agent, for any number of roots,     *)
(* keys, hosts, tokens and crashes; and what the starts of both sides rest *)
(* on when they are made again.                                            *)
(***************************************************************************)
EXTENDS AgentIdentity, FiniteSetTheorems, TLAPS

\* The root, in memory and on disk.  Once a root has been served under, both
\* its files are complete, so that no later start draws another.
RootOK ==
    /\ plane # "down" => ca.cert \in Roots /\ ca.key = ca.cert
    /\ plane = "serving" => ca.cert \in served
    /\ plane \in {"keyWritten", "certOpen"} => caFiles.key = ca.key
    /\ "caLost" \notin mishaps =>
          \/ served = {}
          \/ /\ plane \in {"down", "serving"}
             /\ caFiles.key = caFiles.cert /\ caFiles.cert \in Roots
             /\ served = {caFiles.cert}
             /\ plane = "serving" => ca.cert = caFiles.cert

\* Who signed what for whom, and what the agent pinned.
CertificatesOK ==
    /\ files.pin # None => files.pin \in served
    /\ agent \notin {"down", "badPair"} => run.pin \in served /\ run.key \in Keys
    /\ \A k \in Keys : issued[k] # NoCert =>
          /\ issued[k].signer \in served
          /\ issued[k].host \in Hosts
          /\ "hostLost" \notin mishaps => issued[k].host = row.host
    /\ row.host = None => row = NoRow
    /\ agent = "asked" => env.token # 0 /\ issued[run.key] = NoCert
    /\ agent \in {"answered", "certOpen", "certWritten", "keyOpen", "running"}
          => issued[run.key] # NoCert
    /\ agent \in {"answered", "certOpen", "certWritten", "keyOpen"} /\ row.enrolled
          => issued[run.key].host = row.host
    /\ files.cert \in Keys => issued[files.cert] # NoCert

\* What the agent's two files hold, by where its start stands.
FilesOK ==
    /\ agent \in {"asked", "answered"} => ~Cached \/ "unread" \in mishaps
    /\ agent = "certOpen" => files.cert = Torn
    /\ agent \in {"certWritten", "keyOpen", "running"} => files.cert = run.key
    /\ agent = "keyOpen" => files.key = Torn
    /\ agent = "running" => files.key = run.key
    /\ mishaps \cap {"torn", "removed", "unread"} = {} =>
          /\ files.key = Torn => agent = "keyOpen"
          /\ files.cert = Torn => agent = "certOpen"
          /\ files.key \in Keys => /\ files.cert = files.key
                                   /\ agent \in {"down", "badPair", "running"}
    /\ beat # "none" => agent = "running"

IdentityInv ==
    /\ IdentityTypeOK /\ RootOK /\ CertificatesOK /\ FilesOK
    /\ RefusedForCause /\ BadPairNeedsTear /\ BurnedTokenHeld

-----------------------------------------------------------------------------
(* Types, and the initial states.                                          *)

LEMMA InvInitially == Init => IdentityInv
<1> SUFFICES ASSUME Init PROVE IdentityInv
  OBVIOUS
<1> USE AgentIdentityAssumption DEF Init, NoCA, NoRun, NoRow, NoCert
<1>1. IdentityTypeOK
  BY DEF IdentityTypeOK, PlaneSteps, AgentSteps, Rows, Mishaps
<1>2. RootOK /\ CertificatesOK /\ FilesOK
  BY DEF RootOK, CertificatesOK, FilesOK, Cached
<1>3. RefusedForCause /\ BadPairNeedsTear /\ BurnedTokenHeld
  BY DEF RefusedForCause, BadPairNeedsTear, BurnedTokenHeld
<1> QED BY <1>1, <1>2, <1>3 DEF IdentityInv

\* The rows that the steps on a host's row leave.
LEMMA NoRowTyped == NoRow \in Rows
BY AgentIdentityAssumption DEF NoRow, Rows

LEMMA HostSet ==
    ASSUME NEW r \in Rows, NEW h \in Hosts
    PROVE  [r EXCEPT !.host = h] \in Rows
BY DEF Rows

LEMMA TokenSet ==
    ASSUME NEW r \in Rows, NEW t \in 0..MaxTokens, NEW e \in BOOLEAN
    PROVE  [r EXCEPT !.token = t, !.enrolled = e] \in Rows
BY DEF Rows

LEMMA PlaneTypeStep ==
    ASSUME IdentityTypeOK, RootOK, Plane
    PROVE  IdentityTypeOK'
<1> USE AgentIdentityAssumption
    DEF agentVars, worldVars, IdentityTypeOK, PlaneSteps, NoCA
<1>1. CASE StartFromFiles
  BY <1>1 DEF StartFromFiles, LoadCA
<1>2. ASSUME NEW root \in Roots, GenerateCA(root) PROVE IdentityTypeOK'
  BY <1>2 DEF GenerateCA, Draw
<1>3. CASE OpenCAKey
  BY <1>3 DEF OpenCAKey
<1>4. CASE WriteCAKey
  BY <1>4 DEF WriteCAKey
<1>5. CASE OpenCACert
  BY <1>5 DEF OpenCACert
<1>6. CASE WriteCACert
  BY <1>6 DEF WriteCACert, RootOK
<1> QED BY <1>1, <1>2, <1>3, <1>4, <1>5, <1>6 DEF Plane

LEMMA AgentTypeStep ==
    ASSUME IdentityTypeOK, RootOK, CertificatesOK, Agent
    PROVE  IdentityTypeOK'
<1> USE AgentIdentityAssumption
    DEF planeVars, worldVars, IdentityTypeOK, AgentSteps, NoRun
<1>1. CASE StartCached
  BY <1>1 DEF StartCached, ValidPair, AtRest
<1>2. ASSUME NEW k \in Keys, AskToEnroll(k) PROVE IdentityTypeOK'
  BY <1>2 DEF AskToEnroll, Ask
<1>3. CASE Enroll
  <2>1. 0 \in 0..MaxTokens
    OBVIOUS
  <2>2. row' \in Rows
    BY <1>3, <2>1, TokenSet DEF Enroll
  <2>3. issued' \in [Keys -> [host : Hosts \cup {None}, signer : Roots \cup {None}]]
    BY <1>3 DEF Enroll, Rows
  <2> QED BY <1>3, <2>2, <2>3 DEF Enroll
<1>4. CASE EnrollRefused
  BY <1>4 DEF EnrollRefused
<1>5. CASE AnswerLost
  BY <1>5 DEF AnswerLost, Mishaps
<1>6. CASE OpenCert
  BY <1>6 DEF OpenCert, AgentStep
<1>7. CASE WriteCert
  BY <1>7 DEF WriteCert, AgentStep, CertificatesOK
<1>8. CASE OpenKey
  BY <1>8 DEF OpenKey, AgentStep
<1>9. CASE WriteKey
  BY <1>9 DEF WriteKey, AgentStep, CertificatesOK
<1>10. CASE Heartbeat
  BY <1>10 DEF Heartbeat
<1> QED BY <1>1, <1>2, <1>3, <1>4, <1>5, <1>6, <1>7, <1>8, <1>9, <1>10
       DEF Agent

LEMMA WorldTypeStep ==
    ASSUME IdentityTypeOK, RootOK, World
    PROVE  IdentityTypeOK'
<1> USE AgentIdentityAssumption
    DEF planeVars, agentVars, IdentityTypeOK, PlaneSteps, AgentSteps, Mishaps, NoCA, NoRun
<1>1. CASE StopPlane
  BY <1>1, NoRowTyped DEF StopPlane
<1>2. CASE StopAgent
  BY <1>2 DEF StopAgent, AtRest
<1>3. ASSUME NEW h \in Hosts, RegisterHost(h) PROVE IdentityTypeOK'
  <2>1. row' \in Rows
    BY <1>3, NoRowTyped, HostSet DEF RegisterHost
  <2> QED BY <1>3, <2>1 DEF RegisterHost, worldVars
<1>4. CASE RemoveHost
  BY <1>4, NoRowTyped DEF RemoveHost
<1>5. CASE IssueToken
  <2>1. tokens' \in 0..MaxTokens
    BY <1>5 DEF IssueToken
  <2>2. row' \in Rows
    BY <1>5, <2>1, TokenSet DEF IssueToken
  <2>3. env' \in [host : Hosts \cup {None}, token : 0..MaxTokens]
    BY <1>5, <2>1 DEF IssueToken, Rows
  <2> QED BY <1>5, <2>1, <2>2, <2>3 DEF IssueToken
<1>6. CASE PinRoot
  BY <1>6 DEF PinRoot, worldVars
<1>7. ASSUME NEW f \in {"cert", "key"}, RemoveAgentFile(f) PROVE IdentityTypeOK'
  BY <1>7 DEF RemoveAgentFile
<1>8. ASSUME NEW f \in {"cert", "key"}, RemoveCAFile(f) PROVE IdentityTypeOK'
  BY <1>8 DEF RemoveCAFile
<1>9. ASSUME NEW k \in Keys, ExpireCertificate(k) PROVE IdentityTypeOK'
  BY <1>9 DEF ExpireCertificate
<1>10. ASSUME NEW root \in Roots, GenerateUnread(root) PROVE IdentityTypeOK'
  BY <1>10 DEF GenerateUnread, Draw
<1>11. ASSUME NEW k \in Keys, AskUnread(k) PROVE IdentityTypeOK'
  BY <1>11 DEF AskUnread, Ask
<1> QED BY <1>1, <1>2, <1>3, <1>4, <1>5, <1>6, <1>7, <1>8, <1>9, <1>10, <1>11 DEF World

LEMMA TypeStep ==
    ASSUME IdentityInv, [Next]_vars
    PROVE  IdentityTypeOK'
<1>1. CASE UNCHANGED vars
  BY <1>1 DEF vars, IdentityInv, IdentityTypeOK
<1> QED BY <1>1, PlaneTypeStep, AgentTypeStep, WorldTypeStep DEF Next, IdentityInv

-----------------------------------------------------------------------------
(* What each step does to the invariant.                                   *)

\* The root: the plane's own steps, and whoever removes one of its files.
LEMMA RootStep ==
    ASSUME IdentityInv, IdentityTypeOK', [Next]_vars
    PROVE  RootOK'
<1> USE AgentIdentityAssumption DEF planeVars, agentVars, worldVars, NoCA,
      NoRun, NoRow, NoCert, IdentityTypeOK, PlaneSteps, AgentSteps, RootOK
<1>1. IdentityTypeOK /\ RootOK
  BY DEF IdentityInv
<1>2. CASE StartFromFiles
  BY <1>1, <1>2 DEF StartFromFiles, LoadCA
<1>3. ASSUME NEW root \in Roots, GenerateCA(root) PROVE RootOK'
  BY <1>1, <1>3 DEF GenerateCA, Draw, CAFilesReadable
<1>4. CASE OpenCAKey
  BY <1>1, <1>4 DEF OpenCAKey
<1>5. CASE WriteCAKey
  BY <1>1, <1>5 DEF WriteCAKey
<1>6. CASE OpenCACert
  BY <1>1, <1>6 DEF OpenCACert
<1>7. CASE WriteCACert
  BY <1>1, <1>7 DEF WriteCACert
<1>8. CASE StopPlane
  BY <1>1, <1>8 DEF StopPlane
<1>9. ASSUME NEW f \in {"cert", "key"}, RemoveCAFile(f) PROVE RootOK'
  BY <1>1, <1>9 DEF RemoveCAFile
<1>10. ASSUME UNCHANGED <<plane, ca, caFiles, served>>,
             mishaps \subseteq mishaps'
      PROVE  RootOK'
  BY <1>1, <1>10
<1>11. ASSUME NEW root \in Roots, GenerateUnread(root) PROVE RootOK'
  BY <1>1, <1>11 DEF GenerateUnread, Draw
<1> QED BY <1>2, <1>3, <1>4, <1>5, <1>6, <1>7, <1>8, <1>9, <1>10, <1>11 DEF vars,
       Next, Plane, Agent, World, StartCached, AskToEnroll, AskUnread, Ask, Enroll,
       EnrollRefused, AnswerLost, OpenCert, WriteCert, OpenKey, WriteKey,
       Heartbeat, StopAgent, RegisterHost, RemoveHost, IssueToken, PinRoot,
       RemoveAgentFile, ExpireCertificate, AgentStep

\* The certificates: whatever draws a key, signs, pins or writes one, and
\* what moves the host's row.
LEMMA CertificatesStep ==
    ASSUME IdentityInv, IdentityTypeOK', [Next]_vars
    PROVE  CertificatesOK'
<1> USE AgentIdentityAssumption DEF planeVars, agentVars, worldVars, NoCA,
      NoRun, NoRow, NoCert, IdentityTypeOK, PlaneSteps, AgentSteps, Rows,
      CertificatesOK
<1>1. IdentityTypeOK /\ RootOK /\ CertificatesOK /\ FilesOK
  BY DEF IdentityInv
<1>2. CASE StartCached
  BY <1>1, <1>2 DEF StartCached, AtRest, Cached, ValidPair
<1>3. ASSUME NEW k \in Keys, AskToEnroll(k) PROVE CertificatesOK'
  BY <1>1, <1>3 DEF AskToEnroll, Ask
<1>4. CASE Enroll
  BY <1>1, <1>4 DEF Enroll, TrustsServer, RootOK
<1>5. CASE EnrollRefused
  BY <1>1, <1>5 DEF EnrollRefused
<1>6. CASE AnswerLost
  BY <1>1, <1>6 DEF AnswerLost
<1>7. CASE OpenCert
  BY <1>1, <1>7 DEF OpenCert, AgentStep
<1>8. CASE WriteCert
  BY <1>1, <1>8 DEF WriteCert, AgentStep
<1>9. CASE OpenKey
  BY <1>1, <1>9 DEF OpenKey, AgentStep
<1>10. CASE WriteKey
  BY <1>1, <1>10 DEF WriteKey, AgentStep
<1>11. CASE StopPlane
  BY <1>1, <1>11 DEF StopPlane
<1>12. CASE StopAgent
  BY <1>1, <1>12 DEF StopAgent
<1>13. ASSUME NEW h \in Hosts, RegisterHost(h) PROVE CertificatesOK'
  BY <1>1, <1>13 DEF RegisterHost
<1>14. CASE RemoveHost
  BY <1>1, <1>14 DEF RemoveHost
<1>15. CASE IssueToken
  BY <1>1, <1>15 DEF IssueToken
<1>16. CASE PinRoot
  BY <1>1, <1>16 DEF PinRoot, RootOK, AtRest
<1>17. ASSUME NEW f \in {"cert", "key"}, RemoveAgentFile(f) PROVE CertificatesOK'
  BY <1>1, <1>17 DEF RemoveAgentFile
<1>18. ASSUME UNCHANGED <<files, agent, run, issued, row, env>>,
             served \subseteq served',
             mishaps \subseteq mishaps'
      PROVE  CertificatesOK'
  BY <1>1, <1>18
<1>19. ASSUME NEW k \in Keys, AskUnread(k) PROVE CertificatesOK'
  BY <1>1, <1>19 DEF AskUnread, Ask
<1> QED BY <1>2, <1>3, <1>4, <1>5, <1>6, <1>7, <1>8, <1>9, <1>10, <1>11,
       <1>12, <1>13, <1>14, <1>15, <1>16, <1>17, <1>18, <1>19 DEF vars, Next, Plane,
       Agent, World, StartFromFiles, GenerateCA, GenerateUnread, Draw, OpenCAKey, WriteCAKey,
       OpenCACert, WriteCACert, Heartbeat, RemoveCAFile, ExpireCertificate

\* The agent's files: its own start, and whoever removes one.
LEMMA FilesStep ==
    ASSUME IdentityInv, IdentityTypeOK', [Next]_vars
    PROVE  FilesOK'
<1> USE AgentIdentityAssumption DEF planeVars, agentVars, worldVars, NoCA,
      NoRun, NoRow, NoCert, IdentityTypeOK, PlaneSteps, AgentSteps, FilesOK,
      Cached
<1>1. IdentityTypeOK /\ CertificatesOK /\ FilesOK
  BY DEF IdentityInv
<1>2. CASE StartCached
  BY <1>1, <1>2 DEF StartCached, AtRest, ValidPair
<1>3. ASSUME NEW k \in Keys, AskToEnroll(k) PROVE FilesOK'
  BY <1>1, <1>3 DEF AskToEnroll, Ask, AtRest
<1>4. CASE Enroll
  BY <1>1, <1>4 DEF Enroll
<1>5. CASE EnrollRefused
  BY <1>1, <1>5 DEF EnrollRefused
<1>6. CASE AnswerLost
  BY <1>1, <1>6 DEF AnswerLost
<1>7. CASE OpenCert
  BY <1>1, <1>7 DEF OpenCert, AgentStep
<1>8. CASE WriteCert
  BY <1>1, <1>8 DEF WriteCert, AgentStep
<1>9. CASE OpenKey
  BY <1>1, <1>9 DEF OpenKey, AgentStep
<1>10. CASE WriteKey
  BY <1>1, <1>10 DEF WriteKey, AgentStep, CertificatesOK
<1>11. CASE StopAgent
  BY <1>1, <1>11 DEF StopAgent
<1>12. CASE Heartbeat
  BY <1>1, <1>12 DEF Heartbeat
<1>13. CASE PinRoot
  BY <1>1, <1>13 DEF PinRoot, AtRest
<1>14. ASSUME NEW f \in {"cert", "key"}, RemoveAgentFile(f) PROVE FilesOK'
  BY <1>1, <1>14 DEF RemoveAgentFile, AtRest
<1>15. ASSUME UNCHANGED <<files, agent, run, beat>>,
             mishaps \subseteq mishaps'
      PROVE  FilesOK'
  BY <1>1, <1>15
<1>16. ASSUME NEW k \in Keys, AskUnread(k) PROVE FilesOK'
  BY <1>1, <1>16 DEF AskUnread, Ask, AtRest
<1> QED BY <1>2, <1>3, <1>4, <1>5, <1>6, <1>7, <1>8, <1>9, <1>10, <1>11,
       <1>12, <1>13, <1>14, <1>15, <1>16 DEF vars, Next, Plane, Agent, World,
       StartFromFiles, GenerateCA, GenerateUnread, Draw, OpenCAKey, WriteCAKey, OpenCACert,
       WriteCACert, StopPlane, RegisterHost, RemoveHost, IssueToken,
       RemoveCAFile, ExpireCertificate

\* A refusal: the heartbeat itself, which finds one root and the host the
\* certificate names.
LEMMA RefusedStep ==
    ASSUME IdentityInv, IdentityTypeOK', [Next]_vars
    PROVE  RefusedForCause'
<1> USE AgentIdentityAssumption DEF planeVars, agentVars, worldVars, NoCA,
      NoRun, NoRow, NoCert, IdentityTypeOK, PlaneSteps, AgentSteps,
      RefusedForCause
<1>1. IdentityTypeOK /\ RootOK /\ CertificatesOK /\ FilesOK /\ RefusedForCause
  BY DEF IdentityInv
<1>2. CASE StartCached
  BY <1>1, <1>2 DEF StartCached
<1>3. ASSUME NEW k \in Keys, AskToEnroll(k) PROVE RefusedForCause'
  BY <1>1, <1>3 DEF AskToEnroll, Ask
<1>4. CASE Enroll
  BY <1>1, <1>4 DEF Enroll
<1>5. CASE EnrollRefused
  BY <1>1, <1>5 DEF EnrollRefused, FilesOK
<1>6. CASE AnswerLost
  BY <1>1, <1>6 DEF AnswerLost, FilesOK
<1>7. CASE StopAgent
  BY <1>1, <1>7 DEF StopAgent
<1>8. CASE Heartbeat
  BY <1>1, <1>8 DEF Heartbeat, TrustsServer, Accepted, RootOK, CertificatesOK
<1>9. ASSUME UNCHANGED <<beat, run>>,
             expired \subseteq expired',
             mishaps \subseteq mishaps'
      PROVE  RefusedForCause'
  BY <1>1, <1>9
<1>10. ASSUME NEW k \in Keys, AskUnread(k) PROVE RefusedForCause'
  BY <1>1, <1>10 DEF AskUnread, Ask
<1> QED BY <1>2, <1>3, <1>4, <1>5, <1>6, <1>7, <1>8, <1>9, <1>10 DEF vars, Next,
       Plane, Agent, World, StartFromFiles, GenerateCA, GenerateUnread, Draw, OpenCAKey, WriteCAKey,
       OpenCACert, WriteCACert, OpenCert, WriteCert, OpenKey, WriteKey,
       StopPlane, RegisterHost, RemoveHost, IssueToken, PinRoot,
       RemoveAgentFile, RemoveCAFile, ExpireCertificate, AgentStep

\* A bad pair: only a start that finds both files sees one.
LEMMA BadPairStep ==
    ASSUME IdentityInv, IdentityTypeOK', [Next]_vars
    PROVE  BadPairNeedsTear'
<1> USE AgentIdentityAssumption DEF planeVars, agentVars, worldVars, NoCA,
      NoRun, NoRow, NoCert, IdentityTypeOK, PlaneSteps, AgentSteps,
      BadPairNeedsTear
<1>1. IdentityTypeOK /\ FilesOK /\ BadPairNeedsTear
  BY DEF IdentityInv
<1>2. CASE StartCached
  BY <1>1, <1>2 DEF StartCached, AtRest, Cached, ValidPair, FilesOK
<1>3. ASSUME NEW k \in Keys, AskToEnroll(k) PROVE BadPairNeedsTear'
  BY <1>1, <1>3 DEF AskToEnroll, Ask
<1>4. CASE Enroll
  BY <1>1, <1>4 DEF Enroll
<1>5. CASE EnrollRefused
  BY <1>1, <1>5 DEF EnrollRefused
<1>6. CASE AnswerLost
  BY <1>1, <1>6 DEF AnswerLost
<1>7. CASE OpenCert
  BY <1>1, <1>7 DEF OpenCert, AgentStep
<1>8. CASE WriteCert
  BY <1>1, <1>8 DEF WriteCert, AgentStep
<1>9. CASE OpenKey
  BY <1>1, <1>9 DEF OpenKey, AgentStep
<1>10. CASE WriteKey
  BY <1>1, <1>10 DEF WriteKey, AgentStep
<1>11. CASE StopAgent
  BY <1>1, <1>11 DEF StopAgent
<1>12. ASSUME agent' = agent,
             mishaps \subseteq mishaps'
      PROVE  BadPairNeedsTear'
  BY <1>1, <1>12
<1>13. ASSUME NEW k \in Keys, AskUnread(k) PROVE BadPairNeedsTear'
  BY <1>1, <1>13 DEF AskUnread, Ask
<1> QED BY <1>2, <1>3, <1>4, <1>5, <1>6, <1>7, <1>8, <1>9, <1>10, <1>11, <1>12, <1>13
       DEF vars, Next, Plane, Agent, World, StartFromFiles, GenerateCA, GenerateUnread, Draw,
       OpenCAKey, WriteCAKey, OpenCACert, WriteCACert, Heartbeat, StopPlane,
       RegisterHost, RemoveHost, IssueToken, PinRoot, RemoveAgentFile,
       RemoveCAFile, ExpireCertificate

\* A burned token: the agent's run and files, and the host's row.
LEMMA BurnedStep ==
    ASSUME IdentityInv, IdentityTypeOK', [Next]_vars
    PROVE  BurnedTokenHeld'
<1> USE AgentIdentityAssumption DEF planeVars, agentVars, worldVars, NoCA,
      NoRun, NoRow, NoCert, IdentityTypeOK, PlaneSteps, AgentSteps, Rows,
      BurnedTokenHeld, AtRest
<1>1. IdentityTypeOK /\ CertificatesOK /\ FilesOK /\ BurnedTokenHeld
  BY DEF IdentityInv
<1>2. CASE StartCached
  BY <1>1, <1>2 DEF StartCached, Cached, ValidPair, FilesOK
<1>3. ASSUME NEW k \in Keys, AskToEnroll(k) PROVE BurnedTokenHeld'
  BY <1>1, <1>3 DEF AskToEnroll, Ask, Cached
<1>4. CASE Enroll
  BY <1>1, <1>4 DEF Enroll, CertificatesOK
<1>5. CASE EnrollRefused
  BY <1>1, <1>5 DEF EnrollRefused, FilesOK, CertificatesOK
<1>6. CASE AnswerLost
  BY <1>1, <1>6 DEF AnswerLost
<1>7. CASE OpenCert
  BY <1>1, <1>7 DEF OpenCert, AgentStep, FilesOK, Cached, CertificatesOK
<1>8. CASE WriteCert
  BY <1>1, <1>8 DEF WriteCert, AgentStep, FilesOK
<1>9. CASE OpenKey
  BY <1>1, <1>9 DEF OpenKey, AgentStep, FilesOK
<1>10. CASE WriteKey
  BY <1>1, <1>10 DEF WriteKey, AgentStep, FilesOK
<1>11. CASE StopPlane
  BY <1>1, <1>11 DEF StopPlane
<1>12. CASE StopAgent
  <2>1. CASE agent = "running" \/ AtRest
    BY <1>1, <1>12, <2>1 DEF StopAgent, FilesOK, CertificatesOK
  <2>2. CASE agent = "asked"
    BY <1>1, <1>12, <2>2 DEF StopAgent, CertificatesOK
  <2>3. CASE agent \notin {"running", "asked"}
    BY <1>12, <2>3 DEF StopAgent
  <2> QED BY <2>1, <2>2, <2>3
<1>13. ASSUME NEW h \in Hosts, RegisterHost(h) PROVE BurnedTokenHeld'
  BY <1>1, <1>13 DEF RegisterHost
<1>14. CASE RemoveHost
  BY <1>1, <1>14 DEF RemoveHost
<1>15. CASE IssueToken
  BY <1>1, <1>15 DEF IssueToken
<1>16. CASE PinRoot
  BY <1>1, <1>16 DEF PinRoot
<1>17. ASSUME NEW f \in {"cert", "key"}, RemoveAgentFile(f) PROVE BurnedTokenHeld'
  BY <1>1, <1>17 DEF RemoveAgentFile
<1>18. ASSUME UNCHANGED <<row, files, run, agent, issued>>,
             mishaps \subseteq mishaps'
      PROVE  BurnedTokenHeld'
  BY <1>1, <1>18
<1>19. ASSUME NEW k \in Keys, AskUnread(k) PROVE BurnedTokenHeld'
  BY <1>1, <1>19 DEF AskUnread, Ask
<1> QED BY <1>2, <1>3, <1>4, <1>5, <1>6, <1>7, <1>8, <1>9, <1>10, <1>11,
       <1>12, <1>13, <1>14, <1>15, <1>16, <1>17, <1>18, <1>19 DEF vars, Next, Plane,
       Agent, World, StartFromFiles, GenerateCA, GenerateUnread, Draw, OpenCAKey, WriteCAKey,
       OpenCACert, WriteCACert, Heartbeat, RemoveCAFile, ExpireCertificate

LEMMA InvPreserved == IdentityInv /\ [Next]_vars => IdentityInv'
<1> SUFFICES ASSUME IdentityInv, [Next]_vars PROVE IdentityInv'
  OBVIOUS
<1>1. IdentityTypeOK'
  BY TypeStep
<1> QED BY <1>1, RootStep, CertificatesStep, FilesStep, RefusedStep, BadPairStep,
       BurnedStep DEF IdentityInv

-----------------------------------------------------------------------------
(* What PlaneComesBack and AgentHeard rest on: a start finds files it can  *)
(* go on with, and an identity once held is not given up for another.      *)

\* Before a root has been served under, no whole certificate is on disk; and
\* the key an agent enrolls with is not the one its old file holds.
NothingHalfDone ==
    /\ served = {} /\ "caLost" \notin mishaps => caFiles.cert \in {None, Torn}
    /\ files.key \in Keys => issued[files.key] # NoCert
    /\ agent \in {"asked", "answered", "certOpen", "certWritten"} => files.key # run.key

\* Two CA files that can be read can be loaded, or the certificate is torn,
\* or a file was removed.
StartsFromWhatItFinds ==
    plane = "down" /\ CAFilesReadable =>
        LoadCA \/ caFiles.cert = Torn \/ "caLost" \in mishaps

\* An agent that holds an identity uses it or is about to: it does not ask
\* for another unless it could not read the one it has.
IdentityInUse ==
    Identified => \/ AtRest
                  \/ agent = "running" /\ run.key = files.key
                  \/ "unread" \in mishaps

\* Only whoever removes a file of the agent takes its identity, or the agent
\* itself with the next certificate, after a start that could not read it.
IdentityKept ==
    Identified => \/ Identified'
                  \/ \E f \in {"cert", "key"} : RemoveAgentFile(f)
                  \/ OpenCert /\ "unread" \in mishaps

LEMMA HalfDoneStep ==
    ASSUME IdentityInv, NothingHalfDone, [Next]_vars
    PROVE  NothingHalfDone'
<1> USE AgentIdentityAssumption DEF planeVars, agentVars, worldVars, NoRun, NoCert,
      IdentityTypeOK, NothingHalfDone
<1>1. IdentityTypeOK /\ CertificatesOK /\ FilesOK
  BY DEF IdentityInv
<1>2. CASE WriteCACert
  BY <1>1, <1>2 DEF WriteCACert, IdentityInv, RootOK
<1>3. CASE OpenCACert
  BY <1>1, <1>3 DEF OpenCACert
<1>4. ASSUME NEW f \in {"cert", "key"}, RemoveCAFile(f) PROVE NothingHalfDone'
  BY <1>1, <1>4 DEF RemoveCAFile
<1>5. ASSUME UNCHANGED <<files, agent, run, issued>>, served \subseteq served',
             mishaps \subseteq mishaps', caFiles'.cert = caFiles.cert
      PROVE  NothingHalfDone'
  BY <1>1, <1>5
<1>6. CASE StartCached
  BY <1>1, <1>6 DEF StartCached
<1>7. ASSUME NEW k \in Keys, AskToEnroll(k) PROVE NothingHalfDone'
  BY <1>1, <1>7 DEF AskToEnroll, Ask
<1>8. CASE Enroll
  <2>1. issued'[run.key] # NoCert
    BY <1>1, <1>8, InvPreserved DEF Enroll, IdentityInv, CertificatesOK
  <2>2. \A k \in Keys : k # run.key => issued'[k] = issued[k]
    BY <1>1, <1>8 DEF Enroll
  <2>3. UNCHANGED <<files, run, served, mishaps, caFiles>> /\ agent = "asked"
    BY <1>8 DEF Enroll
  <2> QED BY <2>1, <2>2, <2>3
<1>9. CASE EnrollRefused
  BY <1>1, <1>9 DEF EnrollRefused
<1>10. CASE AnswerLost
  BY <1>1, <1>10 DEF AnswerLost
<1>11. CASE OpenCert \/ WriteCert
  BY <1>1, <1>11 DEF OpenCert, WriteCert, AgentStep
<1>12. CASE OpenKey \/ WriteKey
  BY <1>1, <1>12 DEF OpenKey, WriteKey, AgentStep, CertificatesOK
<1>13. CASE StopAgent
  BY <1>1, <1>13 DEF StopAgent
<1>14. CASE PinRoot
  BY <1>1, <1>14 DEF PinRoot
<1>15. ASSUME NEW f \in {"cert", "key"}, RemoveAgentFile(f) PROVE NothingHalfDone'
  BY <1>1, <1>15 DEF RemoveAgentFile, AtRest
<1>16. CASE StartFromFiles
  BY <1>5, <1>16 DEF StartFromFiles
<1>17. CASE OpenCAKey \/ WriteCAKey
  <2>1. caFiles'.cert = caFiles.cert
    BY <1>1, <1>17 DEF OpenCAKey, WriteCAKey
  <2> QED BY <1>5, <1>17, <2>1 DEF OpenCAKey, WriteCAKey
<1>18. CASE StopPlane
  BY <1>5, <1>18 DEF StopPlane
<1>19. ASSUME NEW k \in Keys, AskUnread(k) PROVE NothingHalfDone'
  BY <1>1, <1>19 DEF AskUnread, Ask
<1> QED BY <1>2, <1>3, <1>4, <1>5, <1>6, <1>7, <1>8, <1>9, <1>10, <1>11, <1>12, <1>13,
       <1>14, <1>15, <1>16, <1>17, <1>18, <1>19 DEF vars, Next, Plane, Agent, World, GenerateCA, GenerateUnread, Draw,
       Heartbeat, RegisterHost, RemoveHost, IssueToken, ExpireCertificate

LEMMA HeldIsUsed == IdentityInv /\ NothingHalfDone => IdentityInUse
<1> SUFFICES ASSUME IdentityInv, NothingHalfDone, Identified, ~AtRest,
                    "unread" \notin mishaps
             PROVE  agent = "running" /\ run.key = files.key
  BY DEF IdentityInUse
<1>1. /\ agent \in AgentSteps /\ FilesOK
      /\ files.cert \in Keys /\ files.key = files.cert /\ Torn \notin Keys /\ None \notin Keys
  BY AgentIdentityAssumption DEF IdentityInv, IdentityTypeOK, Identified, ValidPair
<1>2. agent \notin {"asked", "answered"}
  BY <1>1 DEF FilesOK, Cached
<1>3. agent \notin {"certOpen", "certWritten", "keyOpen"}
  BY <1>1 DEF FilesOK, NothingHalfDone
<1> QED BY <1>1, <1>2, <1>3 DEF AgentSteps, AtRest, FilesOK

LEMMA KeptStep ==
    ASSUME IdentityInv, NothingHalfDone, [Next]_vars
    PROVE  IdentityKept
<1> SUFFICES ASSUME Identified, ~(\E f \in {"cert", "key"} : RemoveAgentFile(f)),
                    ~(OpenCert /\ "unread" \in mishaps)
             PROVE  Identified'
  BY DEF IdentityKept
<1>1. ~OpenCert
  BY HeldIsUsed DEF IdentityInUse, OpenCert, AgentStep, AtRest
<1>2. CASE UNCHANGED files
  BY <1>2 DEF Identified, ValidPair
<1>3. CASE PinRoot
  <2>1. ca.cert \in Roots
    BY <1>3 DEF PinRoot, IdentityInv, RootOK
  <2>2. files' = [files EXCEPT !.pin = ca.cert] /\ ca.cert # None
    BY <1>3, <2>1, AgentIdentityAssumption DEF PinRoot
  <2>3. files'.cert = files.cert /\ files'.key = files.key /\ files'.pin = ca.cert
    BY <2>2 DEF IdentityInv, IdentityTypeOK
  <2> QED BY <2>2, <2>3 DEF Identified, ValidPair
<1>4. ~(WriteCert \/ OpenKey \/ WriteKey)
  BY AgentIdentityAssumption DEF WriteCert, OpenKey, WriteKey, AgentStep, Identified,
     ValidPair, IdentityInv, FilesOK, NothingHalfDone
<1> QED BY <1>1, <1>2, <1>3, <1>4 DEF vars, agentVars, Next, Plane, Agent, World,
       StartFromFiles, GenerateCA, GenerateUnread, Draw, OpenCAKey, WriteCAKey,
       OpenCACert, WriteCACert, StartCached, AskToEnroll, AskUnread, Ask, Enroll,
       EnrollRefused, AnswerLost, Heartbeat, StopPlane, StopAgent, RegisterHost, RemoveHost, IssueToken, RemoveCAFile, ExpireCertificate

-----------------------------------------------------------------------------
(* Theorems.                                                               *)

\* The inductive invariant holds in every reachable state.
THEOREM IdentityInvariant == Spec => []IdentityInv
BY InvInitially, InvPreserved, PTL DEF Spec

\* The type invariant of the control plane's and the agent's identity.
THEOREM IdentityTypeCorrect == Spec => []IdentityTypeOK
<1>1. IdentityInv => IdentityTypeOK
  BY DEF IdentityInv
<1> QED BY <1>1, IdentityInvariant, PTL

\* Unless a CA file is removed or not read, the control plane serves under one root for
\* good, however often and wherever its starts are cut off.
THEOREM TheRootIsKept == Spec => []OneRoot
<1>1. IdentityInv => OneRoot
  <2> SUFFICES ASSUME IdentityInv, "caLost" \notin mishaps PROVE Cardinality(served) <= 1
    BY DEF OneRoot
  <2>1. served = {} \/ \E root : served = {root}
    BY DEF IdentityInv, RootOK
  <2>2. CASE served = {}
    BY <2>2, FS_EmptySet
  <2>3. ASSUME NEW root, served = {root} PROVE Cardinality(served) <= 1
    <3>1. Cardinality({root}) = 1
      BY FS_Singleton
    <3> QED BY <3>1, <2>3
  <2> QED BY <2>1, <2>2, <2>3
<1> QED BY <1>1, IdentityInvariant, PTL

\* A CA that serves can sign: certificate and key are of one root.
THEOREM TheCACanSign == Spec => []ServingCAMatches
<1>1. IdentityInv => ServingCAMatches
  BY DEF IdentityInv, RootOK, ServingCAMatches
<1> QED BY <1>1, IdentityInvariant, PTL

\* A heartbeat is refused only for an expired certificate, a host that is
\* gone or a lost CA file.
THEOREM RefusalsHaveACause == Spec => []RefusedForCause
<1>1. IdentityInv => RefusedForCause
  BY DEF IdentityInv
<1> QED BY <1>1, IdentityInvariant, PTL

\* An agent is stopped by its own files only if a write was torn, or one of
\* them was removed or not read.
THEOREM BadPairsAreTorn == Spec => []BadPairNeedsTear
<1>1. IdentityInv => BadPairNeedsTear
  BY DEF IdentityInv
<1> QED BY <1>1, IdentityInvariant, PTL

\* A burned token has left the agent its identity unless the agent died or
\* lost the answer in the middle, or files were removed.
THEOREM BurnedTokensAreHeld == Spec => []BurnedTokenHeld
<1>1. IdentityInv => BurnedTokenHeld
  BY DEF IdentityInv
<1> QED BY <1>1, IdentityInvariant, PTL

LEMMA HalfDoneNever == Spec => [](IdentityInv /\ NothingHalfDone)
<1>1. Init => NothingHalfDone
  BY AgentIdentityAssumption DEF Init, NothingHalfDone
<1>2. IdentityInv /\ NothingHalfDone /\ [Next]_vars => NothingHalfDone'
  BY HalfDoneStep
<1> QED BY <1>1, <1>2, IdentityInvariant, PTL DEF Spec

\* The control plane starts from whatever two files it finds, unless it was
\* stopped inside the write of the certificate or one of them was removed
\* or not read (loadOrGenerateCA): no crash elsewhere in its first start locks it out.
THEOREM RestartsAreNotRefused == Spec => []StartsFromWhatItFinds
<1>1. IdentityInv /\ NothingHalfDone => StartsFromWhatItFinds
  BY DEF IdentityInv, RootOK, NothingHalfDone, StartsFromWhatItFinds, LoadCA, CAFilesReadable
<1> QED BY <1>1, HalfDoneNever, PTL

\* An agent that could read its files never asks for a second identity while
\* it holds one: it runs on the pair in its files, or starts from it next
\* (cmd/agent, NewClient).
THEOREM IdentitiesAreUsed == Spec => []IdentityInUse
<1>1. IdentityInv /\ NothingHalfDone => IdentityInUse
  BY HeldIsUsed
<1> QED BY <1>1, HalfDoneNever, PTL

\* An identity once complete on disk outlives every crash, restart, refusal
\* and token: only removing one of its files ends it, or a start that could
\* not read them and enrolled again.
THEOREM IdentitiesAreKept == Spec => [][IdentityKept]_vars
<1>1. IdentityInv /\ NothingHalfDone /\ [Next]_vars => [IdentityKept]_vars
  BY KeptStep
<1> QED BY <1>1, HalfDoneNever, PTL DEF Spec

=============================================================================
