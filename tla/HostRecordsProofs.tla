------------------------- MODULE HostRecordsProofs --------------------------
(***************************************************************************)
(* Proofs about the host record, for any number of hosts, tokens and       *)
(* requests that overlap: on a host no write has clobbered, a token is     *)
(* good for one certificate and the record agrees with what was issued.    *)
(*                                                                         *)
(* Neither property is inductive.  A stale copy of one host's record can   *)
(* carry a token long after it left the record, so the invariant also says *)
(* where a token may be found: only in the record, the copies and the      *)
(* certificates of one host, and nowhere before it is drawn.               *)
(***************************************************************************)
EXTENDS HostRecords, TLAPS

Working(p) == handler[p].op # "idle"

\* Token t is in the record, in a copy of the record or in a certificate of h.
InRecord(t, h) == rec[h].token = t
InCopy(t, h) ==
    \E p \in Handlers : Working(p) /\ handler[p].host = h /\ handler[p].copy.token = t
InCert(t, h) == \E i \in 1..Len(certs) : certs[i].host = h /\ certs[i].token = t

Holds(t, h) == InRecord(t, h) \/ InCopy(t, h) \/ InCert(t, h)

OneOwner == \A t \in Tokens : \A h, g \in Hosts : Holds(t, h) /\ Holds(t, g) => h = g

HeldIsDrawn == \A t \in Tokens : \A h \in Hosts : Holds(t, h) => t \in drawn

KnownIsDrawn ==
    /\ registered \subseteq drawn
    /\ \A i \in 1..Len(certs) : certs[i].host \in drawn
    /\ \A p \in Handlers : Working(p) => handler[p].host \in drawn

EnrollsHaveToken ==
    \A p \in Handlers :
        handler[p].op = "enroll" => handler[p].copy.token # NoToken

\* RecordAgrees on one host, registered or not.
Agrees(h) ==
    /\ rec[h].enrolled => /\ rec[h].token = NoToken
                          /\ rec[h].cert > 0
    /\ rec[h].cert <= Len(certs)
    /\ rec[h].cert > 0 => certs[rec[h].cert].host = h
    /\ \A i \in 1..Len(certs) : certs[i].host = h => i <= rec[h].cert
    /\ \A i \in 1..Len(certs) : certs[i].token # rec[h].token

Agreement == \A h \in Hosts \ clobbered : Agrees(h)

RecordInv ==
    /\ TypeOK
    /\ OneOwner
    /\ HeldIsDrawn
    /\ KnownIsDrawn
    /\ EnrollsHaveToken
    /\ Agreement
    /\ SingleUseUnlessClobbered

-----------------------------------------------------------------------------
(* Types.                                                                  *)

\* A handler between its two steps holds a host and a copy of a record.
LEMMA WorkingIsBusy ==
    ASSUME TypeOK, NEW p \in Handlers, Working(p)
    PROVE  handler[p] \in Busy
BY DEF TypeOK, Working, Idle

\* A certificate is for a host, and was paid for with a token.
LEMMA CertTypes ==
    ASSUME TypeOK, NEW i \in 1..Len(certs)
    PROVE  certs[i].host \in Hosts /\ certs[i].token \in Tokens
<1> DEFINE Cert == [host : Hosts, token : Tokens]
<1>1. certs \in Seq(Cert)
  BY DEF TypeOK
<1> HIDE DEF Cert
<1>2. certs[i] \in Cert
  BY <1>1
<1> QED BY <1>2 DEF Cert

\* Writing a record of the right type keeps the types right.
LEMMA WriteType ==
    ASSUME TypeOK, NEW p \in Handlers, NEW r \in HostRecord,
           NEW h \in Hosts, NEW c \in HostRecord,
           UpdateHost(h, c, r), Release(p)
    PROVE  /\ registered' \subseteq Hosts
           /\ rec' \in [Hosts -> HostRecord]
           /\ handler' \in [Handlers -> Busy \cup {Idle}]
           /\ clobbered' \subseteq Hosts
BY DEF TypeOK, UpdateHost, Release

\* Reading a record keeps the types right.
LEMMA ReadType ==
    ASSUME TypeOK, NEW p \in Handlers, NEW h \in Hosts, NEW op \in Ops,
           GetHost(p, op, h)
    PROVE  handler' \in [Handlers -> Busy \cup {Idle}]
<1>1. [op |-> op, host |-> h, copy |-> rec[h]] \in Busy
  BY DEF TypeOK, Busy
<1> QED BY <1>1 DEF TypeOK, GetHost

\* The records the four operations write have the right type.
LEMMA WrittenType ==
    ASSUME NEW c \in HostRecord
    PROVE  /\ \A t \in Tokens : [c EXCEPT !.token = t, !.enrolled = FALSE] \in HostRecord
           /\ [c EXCEPT !.status = "online"] \in HostRecord
           /\ \A mode \in Modes : [c EXCEPT !.mode = mode] \in HostRecord
           /\ \A k \in 0..MaxCerts :
                 [c EXCEPT !.enrolled = TRUE, !.token = NoToken,
                           !.cert = k, !.status = "unknown"] \in HostRecord
BY DEF HostRecord

\* The parts of a step that every operation shares.
Reads(p, h, op) ==
    /\ GetHost(p, op, h)
    /\ UNCHANGED <<registered, rec, drawn, expired, certs, clobbered>>

\* Every Begin action is a read, and a read for Enroll finds a token.
LEMMA BeginReads ==
    ASSUME NEW p \in Handlers, NEW h \in Hosts,
           BeginIssue(p, h) \/ BeginEnroll(p, h) \/ BeginHeartbeat(p, h) \/ BeginIngest(p, h)
    PROVE  \E op \in Ops : Reads(p, h, op) /\ (op = "enroll" => rec[h].token # NoToken)
BY DEF BeginIssue, BeginEnroll, BeginHeartbeat, BeginIngest, Reads, Ops

\* Every step leaves the types right, and lets only pending tokens be presented.
LEMMA TypeStep ==
    ASSUME TypeOK, EnrollsHaveToken, [Next]_vars
    PROVE  TypeOK' /\ EnrollsHaveToken'
<1> USE HostRecordsAssumption DEF EnrollsHaveToken
<1>1. ASSUME NEW h \in Hosts, CreateHost(h) PROVE TypeOK' /\ EnrollsHaveToken'
  BY <1>1 DEF CreateHost, TypeOK, NewHost, HostRecord, Modes
<1>2. ASSUME NEW h \in Hosts, DeleteHost(h) PROVE TypeOK' /\ EnrollsHaveToken'
  BY <1>2 DEF DeleteHost, TypeOK
<1>3. ASSUME NEW t \in Tokens, Expire(t) PROVE TypeOK' /\ EnrollsHaveToken'
  BY <1>3 DEF Expire, TypeOK
<1>4. ASSUME NEW p \in Handlers, NEW h \in Hosts,
             BeginIssue(p, h) \/ BeginEnroll(p, h) \/ BeginHeartbeat(p, h) \/ BeginIngest(p, h)
      PROVE  TypeOK' /\ EnrollsHaveToken'
  <2>1. PICK op \in Ops : Reads(p, h, op) /\ (op = "enroll" => rec[h].token # NoToken)
    BY <1>4, BeginReads
  <2>2. TypeOK'
    BY <2>1, ReadType DEF Reads, TypeOK
  <2>3. EnrollsHaveToken'
    BY <2>1 DEF Reads, GetHost, TypeOK
  <2> QED BY <2>2, <2>3
<1>5. ASSUME NEW p \in Handlers, Release(p) PROVE EnrollsHaveToken'
  BY <1>5 DEF Release, TypeOK, Idle
<1>6. ASSUME NEW p \in Handlers, FinishIssue(p) PROVE TypeOK'
  <2>1. handler[p].host \in Hosts /\ handler[p].copy \in HostRecord
    BY <1>6, WorkingIsBusy DEF FinishIssue, Working, Busy
  <2>2. PICK t \in Tokens \ drawn :
            /\ drawn' = drawn \cup {t}
            /\ UpdateHost(handler[p].host, handler[p].copy,
                          [handler[p].copy EXCEPT !.token = t, !.enrolled = FALSE])
    BY <1>6 DEF FinishIssue
  <2>3. [handler[p].copy EXCEPT !.token = t, !.enrolled = FALSE] \in HostRecord
    BY <2>1, WrittenType
  <2>4. /\ registered' \subseteq Hosts
        /\ rec' \in [Hosts -> HostRecord]
        /\ handler' \in [Handlers -> Busy \cup {Idle}]
        /\ clobbered' \subseteq Hosts
    BY <1>6, <2>1, <2>2, <2>3, WriteType DEF FinishIssue
  <2> QED BY <1>6, <2>2, <2>4 DEF FinishIssue, TypeOK
<1>7. ASSUME NEW p \in Handlers, FinishEnroll(p) PROVE TypeOK'
  <2>1. handler[p].host \in Hosts /\ handler[p].copy \in HostRecord
    BY <1>7, WorkingIsBusy DEF FinishEnroll, Working, Busy
  <2>2. [handler[p].copy EXCEPT !.enrolled = TRUE, !.token = NoToken,
                                !.cert = Len(certs) + 1, !.status = "unknown"] \in HostRecord
    <3>1. Len(certs) + 1 \in 0..MaxCerts
      BY <1>7 DEF FinishEnroll, TypeOK
    <3> QED BY <2>1, <3>1, WrittenType
  <2>3. [host |-> handler[p].host, token |-> handler[p].copy.token]
            \in [host : Hosts, token : Tokens]
    BY <1>7, <2>1 DEF FinishEnroll, HostRecord
  <2>4. certs' \in Seq([host : Hosts, token : Tokens]) /\ Len(certs') <= MaxCerts
    BY <1>7, <2>3 DEF FinishEnroll, TypeOK
  <2>5. /\ registered' \subseteq Hosts
        /\ rec' \in [Hosts -> HostRecord]
        /\ handler' \in [Handlers -> Busy \cup {Idle}]
        /\ clobbered' \subseteq Hosts
    BY <1>7, <2>1, <2>2, WriteType DEF FinishEnroll
  <2> QED BY <1>7, <2>4, <2>5 DEF FinishEnroll, TypeOK
<1>8. ASSUME NEW p \in Handlers, FinishHeartbeat(p) PROVE TypeOK'
  <2>1. handler[p].host \in Hosts /\ handler[p].copy \in HostRecord
    BY <1>8, WorkingIsBusy DEF FinishHeartbeat, Working, Busy
  <2>2. [handler[p].copy EXCEPT !.status = "online"] \in HostRecord
    BY <2>1, WrittenType
  <2>3. /\ registered' \subseteq Hosts
        /\ rec' \in [Hosts -> HostRecord]
        /\ handler' \in [Handlers -> Busy \cup {Idle}]
        /\ clobbered' \subseteq Hosts
    BY <1>8, <2>1, <2>2, WriteType DEF FinishHeartbeat
  <2> QED BY <1>8, <2>3 DEF FinishHeartbeat, TypeOK
<1>9. ASSUME NEW p \in Handlers, NEW mode \in Modes, FinishIngest(p, mode) PROVE TypeOK'
  <2>1. handler[p].host \in Hosts /\ handler[p].copy \in HostRecord
    BY <1>9, WorkingIsBusy DEF FinishIngest, Working, Busy
  <2>2. [handler[p].copy EXCEPT !.mode = mode] \in HostRecord
    BY <2>1, WrittenType
  <2>3. CASE UpdateHost(handler[p].host, handler[p].copy,
                        [handler[p].copy EXCEPT !.mode = mode])
    <3>1. /\ registered' \subseteq Hosts
          /\ rec' \in [Hosts -> HostRecord]
          /\ handler' \in [Handlers -> Busy \cup {Idle}]
          /\ clobbered' \subseteq Hosts
      BY <1>9, <2>1, <2>2, <2>3, WriteType DEF FinishIngest
    <3> QED BY <1>9, <3>1 DEF FinishIngest, TypeOK
  <2>4. CASE UNCHANGED <<registered, rec, clobbered>>
    BY <1>9, <2>4 DEF FinishIngest, TypeOK, Release
  <2> QED BY <1>9, <2>3, <2>4 DEF FinishIngest
<1>10. ASSUME NEW p \in Handlers, Fail(p) PROVE TypeOK'
  BY <1>10 DEF Fail, TypeOK, Release
<1>11. CASE UNCHANGED vars
  BY <1>11 DEF vars, TypeOK
<1>12. ASSUME NEW p \in Handlers,
              \/ FinishIssue(p) \/ FinishEnroll(p) \/ FinishHeartbeat(p) \/ Fail(p)
              \/ \E mode \in Modes : FinishIngest(p, mode)
       PROVE  TypeOK' /\ EnrollsHaveToken'
  <2>1. Release(p)
    BY <1>12 DEF FinishIssue, FinishEnroll, FinishHeartbeat, Fail, FinishIngest
  <2> QED BY <1>5, <1>6, <1>7, <1>8, <1>9, <1>10, <1>12, <2>1
<1> QED BY <1>1, <1>2, <1>3, <1>4, <1>11, <1>12 DEF Next

-----------------------------------------------------------------------------
(* Ownership of tokens.                                                    *)

\* What a Finish action that writes leaves behind: the copy's token, or none,
\* or the new one, goes into the record of the handler's own host.
Writes(p, r) ==
    /\ Working(p)
    /\ UpdateHost(handler[p].host, handler[p].copy, r)
    /\ Release(p)

\* A write moves a token only within the host it belongs to.
LEMMA WriteHolds ==
    ASSUME TypeOK, NEW p \in Handlers, NEW r \in HostRecord, Writes(p, r),
           NEW t \in Tokens, NEW h \in Hosts,
           InRecord(t, h)' \/ InCopy(t, h)'
    PROVE  \/ Holds(t, h)
           \/ h = handler[p].host /\ r.token = t
<1>1. /\ rec' = [rec EXCEPT ![handler[p].host] = r]
      /\ handler' = [handler EXCEPT ![p] = Idle]
  BY DEF Writes, UpdateHost, Release
<1>2. CASE InRecord(t, h)'
  BY <1>1, <1>2 DEF InRecord, Holds, TypeOK
<1>3. CASE InCopy(t, h)'
  BY <1>1, <1>3 DEF InCopy, Working, Idle, Holds, TypeOK
<1> QED BY <1>2, <1>3

\* Every step but the issue of a token leaves tokens where they belong.
LEMMA StepHolds ==
    ASSUME TypeOK, EnrollsHaveToken, [Next]_vars,
           NEW t \in Tokens, NEW h \in Hosts, Holds(t, h)'
    PROVE  \/ Holds(t, h)
           \/ \E p \in Handlers : /\ FinishIssue(p)
                                  /\ h = handler[p].host
                                  /\ t \notin drawn
                                  /\ rec'[h].token = t
<1> USE HostRecordsAssumption
<1> DEFINE Goal == \/ Holds(t, h)
                   \/ \E p \in Handlers : /\ FinishIssue(p)
                                          /\ h = handler[p].host
                                          /\ t \notin drawn
                                          /\ rec'[h].token = t
<1>0. certs' = certs => (InCert(t, h)' => InCert(t, h))
  BY DEF InCert
<1>1. ASSUME NEW g \in Hosts, CreateHost(g) PROVE Goal
  BY <1>0, <1>1 DEF CreateHost, TypeOK, NewHost, Holds, InRecord, InCopy, Working
<1>2. ASSUME NEW g \in Hosts, DeleteHost(g) PROVE Goal
  BY <1>0, <1>2 DEF DeleteHost, Holds, InRecord, InCopy, Working
<1>3. ASSUME NEW u \in Tokens, Expire(u) PROVE Goal
  BY <1>0, <1>3 DEF Expire, Holds, InRecord, InCopy, Working
<1>4. ASSUME NEW p \in Handlers, NEW g \in Hosts,
             BeginIssue(p, g) \/ BeginEnroll(p, g) \/ BeginHeartbeat(p, g) \/ BeginIngest(p, g)
      PROVE  Goal
  <2>1. PICK op \in Ops : Reads(p, g, op)
    BY <1>4, BeginReads
  <2>2. handler' = [handler EXCEPT ![p] = [op |-> op, host |-> g, copy |-> rec[g]]]
        /\ rec' = rec /\ certs' = certs
    BY <2>1 DEF Reads, GetHost
  <2>3. InCopy(t, h)' => InCopy(t, h) \/ InRecord(t, h)
    BY <2>2 DEF InCopy, InRecord, Working, TypeOK
  <2> QED BY <1>0, <2>2, <2>3 DEF Holds, InRecord
<1>5. ASSUME NEW p \in Handlers, FinishIssue(p) PROVE Goal
  <2>1. /\ Working(p)
        /\ handler[p].copy \in HostRecord
        /\ certs' = certs
    BY <1>5, WorkingIsBusy DEF FinishIssue, Working, Busy
  <2>2. PICK u \in Tokens \ drawn :
            UpdateHost(handler[p].host, handler[p].copy,
                       [handler[p].copy EXCEPT !.token = u, !.enrolled = FALSE])
    BY <1>5 DEF FinishIssue
  <2> DEFINE r == [handler[p].copy EXCEPT !.token = u, !.enrolled = FALSE]
  <2>3. r \in HostRecord /\ r.token = u
    BY <2>1, WrittenType DEF HostRecord
  <2>4. Writes(p, r)
    BY <1>5, <2>1, <2>2 DEF Writes, FinishIssue
  <2>5. handler[p].host = h /\ u = t => rec'[h].token = t
    BY <2>2, <2>3 DEF UpdateHost, TypeOK
  <2> HIDE DEF r
  <2>6. CASE InCert(t, h)'
    BY <1>0, <2>1, <2>6 DEF Holds
  <2>7. CASE InRecord(t, h)' \/ InCopy(t, h)'
    <3>1. Holds(t, h) \/ (h = handler[p].host /\ u = t)
      BY <2>3, <2>4, <2>7, WriteHolds
    <3> QED BY <1>5, <2>5, <3>1
  <2> QED BY <2>6, <2>7 DEF Holds
<1>6. ASSUME NEW p \in Handlers, FinishEnroll(p) PROVE Goal
  <2>1. /\ Working(p)
        /\ handler[p].host \in Hosts
        /\ handler[p].copy \in HostRecord
    BY <1>6, WorkingIsBusy DEF FinishEnroll, Working, Busy
  <2> DEFINE r == [handler[p].copy EXCEPT !.enrolled = TRUE, !.token = NoToken,
                                          !.cert = Len(certs) + 1, !.status = "unknown"]
             c == [host |-> handler[p].host, token |-> handler[p].copy.token]
  <2>2. r \in HostRecord /\ r.token = NoToken
    <3>1. Len(certs) + 1 \in 0..MaxCerts
      BY <1>6 DEF FinishEnroll, TypeOK
    <3> QED BY <2>1, <3>1, WrittenType DEF HostRecord
  <2>3. Writes(p, r)
    BY <1>6, <2>1 DEF Writes, FinishEnroll
  <2>4. certs' = Append(certs, c)
    BY <1>6 DEF FinishEnroll
  <2> HIDE DEF r
  <2>5. CASE InRecord(t, h)' \/ InCopy(t, h)'
    BY <2>2, <2>3, <2>5, WriteHolds
  <2>6. CASE InCert(t, h)'
    <3>1. PICK i \in 1..Len(certs') : certs'[i].host = h /\ certs'[i].token = t
      BY <2>6 DEF InCert
    <3>2. CASE i \in 1..Len(certs)
      BY <2>4, <3>1, <3>2 DEF InCert, Holds, TypeOK
    <3>3. CASE i = Len(certs) + 1
      <4>1. handler[p].host = h /\ handler[p].copy.token = t
        BY <2>4, <3>1, <3>3 DEF TypeOK
      <4> QED BY <2>1, <4>1 DEF InCopy, Holds
    <3> QED BY <2>4, <3>1, <3>2, <3>3 DEF TypeOK
  <2> QED BY <2>5, <2>6 DEF Holds
<1>7. ASSUME NEW p \in Handlers, FinishHeartbeat(p) PROVE Goal
  <2>1. /\ Working(p)
        /\ handler[p].host \in Hosts
        /\ handler[p].copy \in HostRecord
        /\ certs' = certs
    BY <1>7, WorkingIsBusy DEF FinishHeartbeat, Working, Busy
  <2> DEFINE r == [handler[p].copy EXCEPT !.status = "online"]
  <2>2. r \in HostRecord /\ r.token = handler[p].copy.token
    BY <2>1, WrittenType DEF HostRecord
  <2>3. Writes(p, r)
    BY <1>7, <2>1 DEF Writes, FinishHeartbeat
  <2> HIDE DEF r
  <2> QED BY <1>0, <2>1, <2>2, <2>3, WriteHolds DEF Holds, InCopy
<1>8. ASSUME NEW p \in Handlers, NEW mode \in Modes, FinishIngest(p, mode) PROVE Goal
  <2>1. /\ Working(p)
        /\ handler[p].host \in Hosts
        /\ handler[p].copy \in HostRecord
        /\ certs' = certs
    BY <1>8, WorkingIsBusy DEF FinishIngest, Working, Busy
  <2> DEFINE r == [handler[p].copy EXCEPT !.mode = mode]
  <2>2. r \in HostRecord /\ r.token = handler[p].copy.token
    BY <2>1, WrittenType DEF HostRecord
  <2>3. CASE UpdateHost(handler[p].host, handler[p].copy, r)
    <3>1. Writes(p, r)
      BY <1>8, <2>1, <2>3 DEF Writes, FinishIngest
    <3> HIDE DEF r
    <3> QED BY <1>0, <2>1, <2>2, <3>1, WriteHolds DEF Holds, InCopy
  <2>4. CASE UNCHANGED <<registered, rec, clobbered>>
    BY <1>0, <1>8, <2>1, <2>4
       DEF FinishIngest, Release, Holds, InRecord, InCopy, Working, Idle, TypeOK
  <2> QED BY <1>8, <2>3, <2>4 DEF FinishIngest
<1>9. ASSUME NEW p \in Handlers, Fail(p) PROVE Goal
  BY <1>0, <1>9 DEF Fail, Release, Holds, InRecord, InCopy, Working, Idle, TypeOK
<1>10. CASE UNCHANGED vars
  BY <1>0, <1>10 DEF vars, Holds, InRecord, InCopy, Working
<1> QED BY <1>1, <1>2, <1>3, <1>4, <1>5, <1>6, <1>7, <1>8, <1>9, <1>10 DEF Next

\* Every host and every token in the system was drawn, and a token that is
\* drawn goes to one host.
LEMMA OwnershipStep ==
    ASSUME TypeOK, EnrollsHaveToken, OneOwner, HeldIsDrawn, [Next]_vars
    PROVE  OneOwner' /\ HeldIsDrawn'
<1>1. drawn \subseteq drawn'
  BY DEF Next, vars, CreateHost, DeleteHost, Expire, BeginIssue, BeginEnroll, BeginHeartbeat,
         BeginIngest, FinishIssue, FinishEnroll, FinishHeartbeat, FinishIngest, Fail
<1>2. ASSUME NEW p \in Handlers, FinishIssue(p), NEW t \in Tokens, t \notin drawn,
             NEW h \in Hosts, h = handler[p].host, rec'[h].token = t
      PROVE  t \in drawn' /\ \A g \in Hosts : Holds(t, g)' => g = h
  <2>1. /\ Working(p)
        /\ handler[p].copy \in HostRecord
        /\ handler[p].host \in Hosts
    BY <1>2, WorkingIsBusy DEF FinishIssue, Working, Busy
  <2>2. PICK u \in Tokens \ drawn :
            /\ drawn' = drawn \cup {u}
            /\ UpdateHost(handler[p].host, handler[p].copy,
                          [handler[p].copy EXCEPT !.token = u, !.enrolled = FALSE])
    BY <1>2 DEF FinishIssue
  <2>3. [handler[p].copy EXCEPT !.token = u, !.enrolled = FALSE].token = u
    BY <2>1 DEF HostRecord
  <2>4. u = t
    BY <1>2, <2>1, <2>2, <2>3 DEF UpdateHost, TypeOK
  <2> DEFINE r == [handler[p].copy EXCEPT !.token = u, !.enrolled = FALSE]
  <2>5. r \in HostRecord
    BY <2>1, WrittenType
  <2>6. Writes(p, r) /\ certs' = certs
    BY <1>2, <2>1, <2>2 DEF Writes, FinishIssue
  <2> HIDE DEF r
  <2>7. ASSUME NEW g \in Hosts, Holds(t, g)' PROVE g = h
    <3>1. ~Holds(t, g)
      BY <1>2 DEF HeldIsDrawn
    <3>2. ~InCert(t, g)'
      BY <2>6, <3>1 DEF InCert, Holds
    <3> QED BY <1>2, <2>5, <2>6, <2>7, <3>1, <3>2, WriteHolds DEF Holds
  <2> QED BY <2>2, <2>4, <2>7
<1>3. ASSUME NEW t \in Tokens, NEW h \in Hosts, Holds(t, h)'
      PROVE  t \in drawn' /\ \A g \in Hosts : Holds(t, g)' => g = h
  <2>1. CASE \E p \in Handlers : /\ FinishIssue(p) /\ h = handler[p].host
                                 /\ t \notin drawn /\ rec'[h].token = t
    BY <1>2, <2>1
  <2>2. CASE Holds(t, h)
    <3>1. t \in drawn
      BY <2>2 DEF HeldIsDrawn
    <3>2. ASSUME NEW g \in Hosts, Holds(t, g)' PROVE g = h
      <4>1. Holds(t, g)
        BY <3>1, <3>2, StepHolds
      <4> QED BY <2>2, <4>1 DEF OneOwner
    <3> QED BY <1>1, <3>1, <3>2
  <2> QED BY <1>3, <2>1, <2>2, StepHolds
<1> QED BY <1>3 DEF OneOwner, HeldIsDrawn

\* Hosts that appear anywhere have been drawn.
LEMMA KnownStep ==
    ASSUME TypeOK, EnrollsHaveToken, KnownIsDrawn, [Next]_vars
    PROVE  KnownIsDrawn'
<1> USE DEF KnownIsDrawn, Working
<1>1. ASSUME NEW h \in Hosts, CreateHost(h) PROVE KnownIsDrawn'
  BY <1>1 DEF CreateHost
<1>2. ASSUME NEW h \in Hosts, DeleteHost(h) PROVE KnownIsDrawn'
  BY <1>2 DEF DeleteHost
<1>3. ASSUME NEW t \in Tokens, Expire(t) PROVE KnownIsDrawn'
  BY <1>3 DEF Expire
<1>4. ASSUME NEW p \in Handlers, NEW h \in Hosts,
             BeginIssue(p, h) \/ BeginEnroll(p, h) \/ BeginHeartbeat(p, h) \/ BeginIngest(p, h)
      PROVE  KnownIsDrawn'
  <2>1. PICK op \in Ops : Reads(p, h, op)
    BY <1>4, BeginReads
  <2> QED BY <2>1 DEF Reads, GetHost, TypeOK
<1>5. ASSUME NEW p \in Handlers, Release(p), drawn \subseteq drawn',
             registered' = registered, certs' = certs
      PROVE  KnownIsDrawn'
  BY <1>5 DEF Release, Idle, TypeOK
<1>6. ASSUME NEW p \in Handlers,
             FinishIssue(p) \/ FinishHeartbeat(p) \/ Fail(p)
                 \/ \E mode \in Modes : FinishIngest(p, mode)
      PROVE  KnownIsDrawn'
  <2>1. Release(p) /\ drawn \subseteq drawn' /\ registered' = registered /\ certs' = certs
    BY <1>6 DEF FinishIssue, FinishHeartbeat, Fail, FinishIngest, UpdateHost
  <2> QED BY <1>5, <2>1
<1>7. ASSUME NEW p \in Handlers, FinishEnroll(p) PROVE KnownIsDrawn'
  <2> DEFINE c == [host |-> handler[p].host, token |-> handler[p].copy.token]
  <2>1. /\ Release(p) /\ drawn' = drawn /\ registered' = registered
        /\ certs' = Append(certs, c) /\ c.host \in drawn
    BY <1>7 DEF FinishEnroll, UpdateHost
  <2>2. \A i \in 1..Len(certs') : certs'[i].host \in drawn
    BY <2>1 DEF TypeOK
  <2> QED BY <2>1, <2>2 DEF Release, Idle, TypeOK
<1>8. CASE UNCHANGED vars
  BY <1>8 DEF vars
<1> QED BY <1>1, <1>2, <1>3, <1>4, <1>6, <1>7, <1>8 DEF Next

-----------------------------------------------------------------------------
(* Agreement of the record with what was handed out.                       *)

\* A write that is not a lost update, from a copy that equals the record.
LEMMA WriteClobbers ==
    ASSUME TypeOK, NEW p \in Handlers, NEW r \in HostRecord, Writes(p, r)
    PROVE  /\ clobbered \subseteq clobbered'
           /\ handler[p].host \notin clobbered' => rec[handler[p].host] = handler[p].copy
           /\ handler[p].host \in Hosts
           /\ rec' = [rec EXCEPT ![handler[p].host] = r]
BY WorkingIsBusy DEF Writes, UpdateHost, Busy

\* A write that leaves the enrollment fields alone, or asks for a new
\* enrollment with a token that nobody has seen, keeps the agreement.
LEMMA WriteAgrees ==
    ASSUME TypeOK, Agreement, NEW p \in Handlers, NEW r \in HostRecord, Writes(p, r),
           certs' = certs,
           r.cert = handler[p].copy.cert,
           \/ /\ r.token = handler[p].copy.token
              /\ r.enrolled = handler[p].copy.enrolled
           \/ ~r.enrolled /\ \A i \in 1..Len(certs) : certs[i].token # r.token
    PROVE  Agreement'
<1> SUFFICES ASSUME NEW h \in Hosts, h \notin clobbered'
             PROVE  Agrees(h)'
  BY DEF Agreement
<1>1. h \notin clobbered /\ Agrees(h)
  BY WriteClobbers DEF Agreement
<1>2. CASE h = handler[p].host
  <2>1. rec[h] = handler[p].copy /\ rec'[h] = r
    BY <1>2, WriteClobbers DEF TypeOK
  <2> QED BY <1>1, <2>1 DEF Agrees
<1>3. CASE h # handler[p].host
  <2>1. rec'[h] = rec[h]
    BY <1>3, WriteClobbers DEF TypeOK
  <2> QED BY <1>1, <2>1 DEF Agrees
<1> QED BY <1>2, <1>3

\* Every step keeps the record of an unclobbered host in agreement.
LEMMA AgreementStep ==
    ASSUME TypeOK, EnrollsHaveToken, OneOwner, HeldIsDrawn, KnownIsDrawn, Agreement,
           [Next]_vars
    PROVE  Agreement'
<1> USE HostRecordsAssumption
<1>1. ASSUME NEW h \in Hosts, CreateHost(h) PROVE Agreement'
  <2> SUFFICES ASSUME NEW g \in Hosts, g \notin clobbered
               PROVE  Agrees(g)'
    BY <1>1 DEF Agreement, CreateHost
  <2>1. CASE g = h
    <3>1. rec'[g] = NewHost /\ certs' = certs
      BY <1>1, <2>1 DEF CreateHost, TypeOK
    <3>2. \A i \in 1..Len(certs) : certs[i].host # h
      BY <1>1 DEF CreateHost, KnownIsDrawn
    <3>3. \A i \in 1..Len(certs) : certs[i].token \in Tokens
      BY CertTypes
    <3> QED BY <2>1, <3>1, <3>2, <3>3 DEF Agrees, NewHost, TypeOK
  <2>2. CASE g # h
    BY <1>1, <2>2 DEF CreateHost, TypeOK, Agrees, Agreement
  <2> QED BY <2>1, <2>2
<1>2. ASSUME rec' = rec, certs' = certs, clobbered' = clobbered PROVE Agreement'
  BY <1>2 DEF Agreement, Agrees
<1>3. ASSUME NEW p \in Handlers, FinishIssue(p) PROVE Agreement'
  <2>1. Working(p) /\ handler[p].copy \in HostRecord
    BY <1>3, WorkingIsBusy DEF FinishIssue, Working, Busy
  <2>2. PICK t \in Tokens \ drawn :
            UpdateHost(handler[p].host, handler[p].copy,
                       [handler[p].copy EXCEPT !.token = t, !.enrolled = FALSE])
    BY <1>3 DEF FinishIssue
  <2> DEFINE r == [handler[p].copy EXCEPT !.token = t, !.enrolled = FALSE]
  <2>3. /\ r \in HostRecord /\ r.token = t /\ ~r.enrolled
        /\ r.cert = handler[p].copy.cert
    BY <2>1, WrittenType DEF HostRecord
  <2>4. Writes(p, r) /\ certs' = certs
    BY <1>3, <2>1, <2>2 DEF Writes, FinishIssue
  <2>5. \A i \in 1..Len(certs) : certs[i].token # t
    <3>1. \A h \in Hosts : ~InCert(t, h)
      BY DEF HeldIsDrawn, Holds
    <3>2. \A i \in 1..Len(certs) : certs[i].host \in Hosts
      BY CertTypes
    <3> QED BY <3>1, <3>2 DEF InCert
  <2> HIDE DEF r
  <2> QED BY <2>3, <2>4, <2>5, WriteAgrees
<1>4. ASSUME NEW p \in Handlers, FinishEnroll(p) PROVE Agreement'
  <2>1. /\ Working(p)
        /\ handler[p].host \in Hosts
        /\ handler[p].copy \in HostRecord
        /\ handler[p].copy.token \in Tokens
    BY <1>4, WorkingIsBusy DEF FinishEnroll, Working, Busy, EnrollsHaveToken, HostRecord
  <2> DEFINE r == [handler[p].copy EXCEPT !.enrolled = TRUE, !.token = NoToken,
                                          !.cert = Len(certs) + 1, !.status = "unknown"]
             c == [host |-> handler[p].host, token |-> handler[p].copy.token]
  <2>2. /\ r \in HostRecord /\ r.token = NoToken /\ r.enrolled
        /\ r.cert = Len(certs) + 1
    <3>1. Len(certs) + 1 \in 0..MaxCerts
      BY <1>4 DEF FinishEnroll, TypeOK
    <3> QED BY <2>1, <3>1, WrittenType DEF HostRecord
  <2>3. Writes(p, r) /\ certs' = Append(certs, c)
    BY <1>4, <2>1 DEF Writes, FinishEnroll
  <2>4. /\ Len(certs') = Len(certs) + 1
        /\ certs'[Len(certs) + 1] = c
        /\ \A i \in 1..Len(certs) : certs'[i] = certs[i]
        /\ Len(certs) \in Nat
    BY <2>3 DEF TypeOK
  <2>7. \A i \in 1..Len(certs) : certs[i].token \in Tokens
    BY CertTypes
  <2> HIDE DEF r
  <2> SUFFICES ASSUME NEW h \in Hosts, h \notin clobbered'
               PROVE  Agrees(h)'
    BY DEF Agreement
  <2>5. CASE h = handler[p].host
    <3>1. rec'[h] = r
      BY <2>2, <2>3, <2>5, WriteClobbers DEF TypeOK
    <3> QED BY <2>1, <2>2, <2>4, <2>7, <2>5, <3>1 DEF Agrees
  <2>6. CASE h # handler[p].host
    <3>1. rec'[h] = rec[h] /\ Agrees(h)
      BY <2>2, <2>3, <2>6, WriteClobbers DEF TypeOK, Agreement
    <3>2. rec[h].token # c.token
      <4>1. Holds(handler[p].copy.token, handler[p].host)
        BY <2>1 DEF Holds, InCopy
      <4>2. ~Holds(handler[p].copy.token, h)
        BY <2>1, <2>6, <4>1 DEF OneOwner
      <4> QED BY <4>2 DEF Holds, InRecord
    <3>3. rec[h].cert \in Nat
      BY DEF TypeOK, HostRecord
    <3> QED BY <2>4, <2>6, <3>1, <3>2, <3>3 DEF Agrees
  <2> QED BY <2>5, <2>6
<1>5. ASSUME NEW p \in Handlers, FinishHeartbeat(p) PROVE Agreement'
  <2>1. Working(p) /\ handler[p].copy \in HostRecord /\ certs' = certs
    BY <1>5, WorkingIsBusy DEF FinishHeartbeat, Working, Busy
  <2> DEFINE r == [handler[p].copy EXCEPT !.status = "online"]
  <2>2. /\ r \in HostRecord /\ r.token = handler[p].copy.token
        /\ r.enrolled = handler[p].copy.enrolled /\ r.cert = handler[p].copy.cert
    BY <2>1, WrittenType DEF HostRecord
  <2>3. Writes(p, r)
    BY <1>5, <2>1 DEF Writes, FinishHeartbeat
  <2> HIDE DEF r
  <2> QED BY <2>1, <2>2, <2>3, WriteAgrees
<1>6. ASSUME NEW p \in Handlers, NEW mode \in Modes, FinishIngest(p, mode) PROVE Agreement'
  <2>1. Working(p) /\ handler[p].copy \in HostRecord /\ certs' = certs
    BY <1>6, WorkingIsBusy DEF FinishIngest, Working, Busy
  <2> DEFINE r == [handler[p].copy EXCEPT !.mode = mode]
  <2>2. /\ r \in HostRecord /\ r.token = handler[p].copy.token
        /\ r.enrolled = handler[p].copy.enrolled /\ r.cert = handler[p].copy.cert
    BY <2>1, WrittenType DEF HostRecord
  <2>3. CASE UpdateHost(handler[p].host, handler[p].copy, r)
    <3>1. Writes(p, r)
      BY <1>6, <2>1, <2>3 DEF Writes, FinishIngest
    <3> HIDE DEF r
    <3> QED BY <2>1, <2>2, <3>1, WriteAgrees
  <2>4. CASE UNCHANGED <<registered, rec, clobbered>>
    BY <1>2, <2>1, <2>4
  <2> QED BY <1>6, <2>3, <2>4 DEF FinishIngest
<1> QED BY <1>1, <1>2, <1>3, <1>4, <1>5, <1>6
        DEF Next, vars, DeleteHost, Expire, BeginIssue, BeginEnroll, BeginHeartbeat,
            BeginIngest, Fail

-----------------------------------------------------------------------------
(* A token is good for one certificate.                                    *)

\* Every step keeps a token of an unclobbered host single-use.
LEMMA SingleUseStep ==
    ASSUME TypeOK, EnrollsHaveToken, OneOwner, HeldIsDrawn, KnownIsDrawn, Agreement,
           SingleUseUnlessClobbered, [Next]_vars
    PROVE  SingleUseUnlessClobbered'
<1>1. ASSUME certs' = certs, clobbered \subseteq clobbered'
      PROVE  SingleUseUnlessClobbered'
  BY <1>1 DEF SingleUseUnlessClobbered
<1>2. ASSUME NEW p \in Handlers, FinishEnroll(p) PROVE SingleUseUnlessClobbered'
  <2>1. /\ Working(p)
        /\ handler[p].host \in Hosts
        /\ handler[p].copy \in HostRecord
        /\ handler[p].copy.token \in Tokens
    BY <1>2, WorkingIsBusy DEF FinishEnroll, Working, Busy, EnrollsHaveToken, HostRecord
  <2> DEFINE c == [host |-> handler[p].host, token |-> handler[p].copy.token]
  <2>2. /\ Len(certs') = Len(certs) + 1
        /\ certs'[Len(certs) + 1] = c
        /\ \A i \in 1..Len(certs) : certs'[i] = certs[i]
        /\ Len(certs) \in Nat
    BY <1>2 DEF FinishEnroll, TypeOK
  <2>3. clobbered \subseteq clobbered'
    BY <1>2 DEF FinishEnroll, UpdateHost
  <2>4. ASSUME NEW i \in 1..Len(certs), certs[i].token = c.token
        PROVE  certs[i].host = c.host /\ c.host \in clobbered'
    <3>1. certs[i].host \in Hosts
      BY CertTypes
    <3>2. Holds(c.token, certs[i].host)
      BY <2>4 DEF Holds, InCert
    <3>3. Holds(c.token, c.host)
      BY <2>1 DEF Holds, InCopy
    <3>4. certs[i].host = c.host
      BY <2>1, <3>1, <3>2, <3>3 DEF OneOwner
    <3>5. ASSUME c.host \notin clobbered' PROVE FALSE
      <4>1. rec[c.host] = handler[p].copy /\ c.host \notin clobbered
        BY <1>2, <2>3, <3>5 DEF FinishEnroll, UpdateHost
      <4>2. Agrees(c.host)
        BY <2>1, <4>1 DEF Agreement
      <4> QED BY <2>4, <4>1, <4>2 DEF Agrees
    <3> QED BY <3>4, <3>5
  <2> HIDE DEF c
  <2>5. ASSUME NEW i \in 1..Len(certs'), NEW j \in 1..Len(certs'),
               certs'[i].token = certs'[j].token
        PROVE  i = j \/ certs'[i].host \in clobbered'
    <3>1. CASE i \in 1..Len(certs) /\ j \in 1..Len(certs)
      BY <2>2, <2>3, <2>5, <3>1 DEF SingleUseUnlessClobbered
    <3>2. CASE i \in 1..Len(certs) /\ j = Len(certs) + 1
      BY <2>2, <2>4, <2>5, <3>2
    <3>3. CASE i = Len(certs) + 1 /\ j \in 1..Len(certs)
      BY <2>2, <2>4, <2>5, <3>3
    <3> QED BY <2>2, <3>1, <3>2, <3>3
  <2> QED BY <2>5 DEF SingleUseUnlessClobbered
<1>3. ASSUME NEW p \in Handlers,
             FinishIssue(p) \/ FinishHeartbeat(p) \/ \E mode \in Modes : FinishIngest(p, mode)
      PROVE  certs' = certs /\ clobbered \subseteq clobbered'
  BY <1>3 DEF FinishIssue, FinishHeartbeat, FinishIngest, UpdateHost
<1> QED BY <1>1, <1>2, <1>3
        DEF Next, vars, CreateHost, DeleteHost, Expire, BeginIssue, BeginEnroll,
            BeginHeartbeat, BeginIngest, Fail

\* The empty store satisfies the invariant.
LEMMA RecordInitially == Init => RecordInv
<1> SUFFICES ASSUME Init PROVE RecordInv
  OBVIOUS
<1> USE HostRecordsAssumption DEF Init
<1>1. TypeOK
  BY DEF TypeOK, NewHost, HostRecord, Modes
<1>0. Len(certs) = 0
  OBVIOUS
<1>2. ASSUME NEW t \in Tokens, NEW h \in Hosts PROVE ~Holds(t, h)
  <2>1. ~InRecord(t, h)
    BY DEF InRecord, NewHost
  <2>2. ~InCopy(t, h)
    BY DEF InCopy, Working, Idle
  <2>3. ~InCert(t, h)
    BY <1>0 DEF InCert
  <2> QED BY <2>1, <2>2, <2>3 DEF Holds
<1>3. KnownIsDrawn /\ EnrollsHaveToken
  BY DEF KnownIsDrawn, EnrollsHaveToken, Working, Idle
<1>4. ASSUME NEW h \in Hosts PROVE Agrees(h)
  BY <1>0 DEF Agrees, NewHost
<1>5. SingleUseUnlessClobbered
  BY DEF SingleUseUnlessClobbered
<1> QED BY <1>1, <1>2, <1>3, <1>4, <1>5 DEF RecordInv, OneOwner, HeldIsDrawn, Agreement

\* The inductive invariant: types, ownership of tokens, agreement, single use.
THEOREM RecordInvariant == Spec => []RecordInv
<1>1. RecordInv /\ [Next]_vars => RecordInv'
  BY TypeStep, OwnershipStep, KnownStep, AgreementStep, SingleUseStep DEF RecordInv
<1> QED BY <1>1, RecordInitially, PTL DEF Spec

\* The host records have their declared types whatever requests overlap.
THEOREM RecordTypeCorrect == Spec => []TypeOK
<1>1. RecordInv => TypeOK
  BY DEF RecordInv
<1> QED BY <1>1, RecordInvariant, PTL

\* On a host that lost no update, one token yields at most one certificate,
\* for any number of overlapping requests.
THEOREM TokensAreSingleUse == Spec => []SingleUseUnlessClobbered
<1>1. RecordInv => SingleUseUnlessClobbered
  BY DEF RecordInv
<1> QED BY <1>1, RecordInvariant, PTL

\* On such a host the record agrees with the certificates handed out.
THEOREM RecordsAgree == Spec => []RecordAgrees
<1>1. RecordInv => RecordAgrees
  BY DEF RecordInv, Agreement, Agrees, RecordAgrees, TypeOK
<1> QED BY <1>1, RecordInvariant, PTL

-----------------------------------------------------------------------------
(* Deletion.                                                               *)

\* Only CreateHost makes a host registered, and only with a new identity.
LEMMA RegisteredGrows ==
    ASSUME [Next]_vars, NEW h \in registered' \ registered
    PROVE  h \notin drawn
<1>1. CASE \E g \in Hosts : CreateHost(g)
  BY <1>1 DEF CreateHost
<1>2. CASE \E g \in Hosts : DeleteHost(g)
  BY <1>2 DEF DeleteHost
<1>3. CASE \E t \in Tokens : Expire(t)
  BY <1>3 DEF Expire
<1>4. CASE \E p \in Handlers, g \in Hosts :
             BeginIssue(p, g) \/ BeginEnroll(p, g) \/ BeginHeartbeat(p, g) \/ BeginIngest(p, g)
  BY <1>4 DEF BeginIssue, BeginEnroll, BeginHeartbeat, BeginIngest
<1>5. CASE \E p \in Handlers :
             \/ FinishIssue(p) \/ FinishEnroll(p) \/ FinishHeartbeat(p) \/ Fail(p)
             \/ \E mode \in Modes : FinishIngest(p, mode)
  BY <1>5 DEF FinishIssue, FinishEnroll, FinishHeartbeat, FinishIngest, Fail, UpdateHost
<1>6. CASE UNCHANGED vars
  BY <1>6 DEF vars
<1> QED BY <1>1, <1>2, <1>3, <1>4, <1>5, <1>6 DEF Next

\* No write of a request that read a host before its deletion brings the host
\* back, however late it comes.
THEOREM DeletedHostsStayDeleted == Spec => NoResurrection
<1>1. [Next]_vars => [\A h \in Hosts \ registered : h \in registered' => h \notin drawn]_vars
  BY RegisteredGrows
<1> QED BY <1>1, PTL DEF Spec, NoResurrection

-----------------------------------------------------------------------------
(* Requests handled one at a time.                                         *)

OneHandler == \A p, q \in Handlers : p = q

\* The only request under way reads the record nobody else can change.
CopyIsCurrent ==
    /\ clobbered = {}
    /\ \A p \in Handlers : Working(p) => handler[p].copy = rec[handler[p].host]

\* With one handler no write is ever a lost update.
LEMMA CurrentStep ==
    ASSUME OneHandler, TypeOK, KnownIsDrawn, CopyIsCurrent, [Next]_vars
    PROVE  CopyIsCurrent'
<1> USE DEF CopyIsCurrent, Working
<1>1. ASSUME NEW h \in Hosts, CreateHost(h) PROVE CopyIsCurrent'
  BY <1>1 DEF CreateHost, KnownIsDrawn, TypeOK
<1>2. ASSUME NEW h \in Hosts, DeleteHost(h) PROVE CopyIsCurrent'
  BY <1>2 DEF DeleteHost
<1>3. ASSUME NEW t \in Tokens, Expire(t) PROVE CopyIsCurrent'
  BY <1>3 DEF Expire
<1>4. ASSUME NEW p \in Handlers, NEW h \in Hosts,
             BeginIssue(p, h) \/ BeginEnroll(p, h) \/ BeginHeartbeat(p, h) \/ BeginIngest(p, h)
      PROVE  CopyIsCurrent'
  <2>1. PICK op \in Ops : Reads(p, h, op)
    BY <1>4, BeginReads
  <2> QED BY <2>1 DEF Reads, GetHost, TypeOK
<1>5. ASSUME NEW p \in Handlers, Release(p), clobbered' = clobbered
      PROVE  CopyIsCurrent'
  BY <1>5 DEF Release, OneHandler, Idle, TypeOK
<1>6. ASSUME NEW p \in Handlers, Working(p), NEW r,
             UpdateHost(handler[p].host, handler[p].copy, r)
      PROVE  clobbered' = clobbered
  BY <1>6 DEF UpdateHost
<1>7. ASSUME NEW p \in Handlers,
              \/ FinishIssue(p) \/ FinishEnroll(p) \/ FinishHeartbeat(p) \/ Fail(p)
              \/ \E mode \in Modes : FinishIngest(p, mode)
       PROVE  CopyIsCurrent'
  <2>1. Release(p) /\ clobbered' = clobbered
    BY <1>6, <1>7 DEF FinishIssue, FinishEnroll, FinishHeartbeat, Fail, FinishIngest
  <2> QED BY <1>5, <2>1
<1>8. CASE UNCHANGED vars
  BY <1>8 DEF vars
<1> QED BY <1>1, <1>2, <1>3, <1>4, <1>7, <1>8 DEF Next

\* Requests that never overlap use every token once: what goes wrong with
\* several handlers is the unlocked read and write, and nothing else.
THEOREM SequentialSingleUse == OneHandler => (Spec => []SingleUse)
<1> SUFFICES ASSUME OneHandler PROVE Spec => []SingleUse
  OBVIOUS
<1>1. Init => CopyIsCurrent
  BY DEF Init, CopyIsCurrent, Working, Idle
<1>2. RecordInv /\ CopyIsCurrent /\ [Next]_vars => CopyIsCurrent'
  BY CurrentStep DEF RecordInv
<1>3. RecordInv /\ CopyIsCurrent => SingleUse
  BY DEF RecordInv, CopyIsCurrent, SingleUseUnlessClobbered, SingleUse
<1> QED BY <1>1, <1>2, <1>3, RecordInvariant, PTL DEF Spec
=============================================================================
