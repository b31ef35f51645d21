---------------------------- MODULE HostRecords -----------------------------
(***************************************************************************)
(* The host record and everything that writes it: the browser API creates  *)
(* and deletes hosts and issues enrollment tokens, an agent enrolls,       *)
(* heartbeats and reports telemetry (agentregistry/registry.go).           *)
(*                                                                         *)
(* Each request runs in a goroutine of its own.  A registry method reads   *)
(* the whole record with GetHost, changes its copy, and writes the whole   *)
(* record back with UpdateHost; the store locks each call, nothing locks   *)
(* the pair.  So a method is two actions here, Begin.. and Finish.., with  *)
(* the copy in between held in the handler.                                *)
(*                                                                         *)
(* Left out: times of heartbeats, versions and names (data), the events    *)
(* recorded after a write (module TelemetryIngest), and Docker telemetry   *)
(* other than its write of the host's monitoring mode.                     *)
(***************************************************************************)
EXTENDS Naturals, Sequences

CONSTANTS
    Hosts,          \* the host IDs CreateHost may draw; an ID is never drawn twice
    Tokens,         \* the enrollment tokens crypto/rand may draw, likewise
    Handlers,       \* request goroutines that may run at once
    NoToken,
    MaxCerts        \* bound on the certificates issued

ASSUME HostRecordsAssumption ==
    /\ NoToken \notin Tokens
    /\ MaxCerts \in Nat

VARIABLES
    registered,     \* the hosts in the store
    rec,            \* host -> its record
    handler,        \* handler -> what it is doing
    drawn,          \* host IDs and tokens drawn so far
    expired,        \* tokens older than enrollmentTokenTTL
    certs,          \* the certificates handed out, in order
    clobbered       \* observer: hosts where a write undid another

vars == <<registered, rec, handler, drawn, expired, certs, clobbered>>

Modes == {"normal", "critical", "manual_realtime"}

\* models.Host: EnrollmentTokenHash, AgentEnrolled, CertFingerprint (as a
\* position in certs), ConnectionStatus and MonitoringMode.
HostRecord == [token    : Tokens \cup {NoToken},
               enrolled : BOOLEAN,
               cert     : 0..MaxCerts,
               status   : {"unknown", "online"},
               mode     : Modes]

NewHost == [token |-> NoToken, enrolled |-> FALSE, cert |-> 0,
            status |-> "unknown", mode |-> "normal"]

Ops == {"issue", "enroll", "heartbeat", "ingest"}

Idle == [op |-> "idle"]

\* A handler between its GetHost and its UpdateHost, with its copy.
Busy == [op : Ops, host : Hosts, copy : HostRecord]

TypeOK ==
    /\ registered \subseteq Hosts
    /\ rec \in [Hosts -> HostRecord]
    /\ handler \in [Handlers -> Busy \cup {Idle}]
    /\ drawn \subseteq Hosts \cup Tokens
    /\ expired \subseteq Tokens
    /\ certs \in Seq([host : Hosts, token : Tokens])
    /\ Len(certs) <= MaxCerts
    /\ clobbered \subseteq Hosts

-----------------------------------------------------------------------------
(* The store.                                                              *)

\* GetHost: the handler keeps a copy.  An absent host ends the request.
GetHost(p, op, h) ==
    /\ handler[p] = Idle
    /\ h \in registered
    /\ handler' = [handler EXCEPT ![p] = [op |-> op, host |-> h, copy |-> rec[h]]]

\* Mutant: the write inserts a missing row, as UpsertContainer does.
UpsertHost(h, copy, r) ==
    /\ rec' = [rec EXCEPT ![h] = r]
    /\ clobbered' = IF rec[h] = copy THEN clobbered ELSE clobbered \cup {h}
    /\ registered' = registered \cup {h}

\* UpdateHost: replaces the record, whatever happened to it since GetHost.
UpdateHost(h, copy, r) ==
    /\ h \in registered
    /\ rec' = [rec EXCEPT ![h] = r]
    /\ clobbered' = IF rec[h] = copy THEN clobbered ELSE clobbered \cup {h}
    /\ UNCHANGED registered

\* Mutant: the copy outlives the request.
ReleaseKeepingCopy(p) == handler' = [handler EXCEPT ![p].op = "idle"]

Release(p) == handler' = [handler EXCEPT ![p] = Idle]

\* The request ends in an error before it writes: the host is gone
\* (storage.ErrNotFound), the CA refuses the CSR, or the store fails.
Fail(p) ==
    /\ handler[p] # Idle
    /\ Release(p)
    /\ UNCHANGED <<registered, rec, drawn, expired, certs, clobbered>>

CreateHost(h) ==
    /\ h \notin drawn
    /\ drawn' = drawn \cup {h}
    /\ registered' = registered \cup {h}
    /\ rec' = [rec EXCEPT ![h] = NewHost]
    /\ UNCHANGED <<handler, expired, certs, clobbered>>

DeleteHost(h) ==
    /\ h \in registered
    /\ registered' = registered \ {h}
    /\ UNCHANGED <<rec, handler, drawn, expired, certs, clobbered>>

-----------------------------------------------------------------------------
(* IssueEnrollmentToken.                                                   *)

BeginIssue(p, h) ==
    /\ GetHost(p, "issue", h)
    /\ UNCHANGED <<registered, rec, drawn, expired, certs, clobbered>>

\* Mutant: a new token leaves AgentEnrolled set.
FinishIssueKeepingEnrolled(p) ==
    /\ handler[p].op = "issue"
    /\ \E t \in Tokens \ drawn :
          /\ drawn' = drawn \cup {t}
          /\ UpdateHost(handler[p].host, handler[p].copy,
                        [handler[p].copy EXCEPT !.token = t])
    /\ Release(p)
    /\ UNCHANGED <<expired, certs>>

FinishIssue(p) ==
    /\ handler[p].op = "issue"
    /\ \E t \in Tokens \ drawn :
          /\ drawn' = drawn \cup {t}
          /\ UpdateHost(handler[p].host, handler[p].copy,
                        [handler[p].copy EXCEPT !.token = t, !.enrolled = FALSE])
    /\ Release(p)
    /\ UNCHANGED <<expired, certs>>

\* enrollmentTokenTTL passes.
Expire(t) ==
    /\ t \in drawn \ expired
    /\ expired' = expired \cup {t}
    /\ UNCHANGED <<registered, rec, handler, drawn, certs, clobbered>>

-----------------------------------------------------------------------------
(* Enroll.  The presented token is compared with the copy, the certificate *)
(* is signed, and the token is burned by the write.  A request with any    *)
(* other token ends at the comparison and changes nothing.                 *)

BeginEnroll(p, h) ==
    /\ rec[h].token # NoToken
    /\ ~rec[h].enrolled
    /\ rec[h].token \notin expired
    /\ Len(certs) < MaxCerts
    /\ GetHost(p, "enroll", h)
    /\ UNCHANGED <<registered, rec, drawn, expired, certs, clobbered>>

\* Mutant: the certificate is recorded and the token is not consumed.
FinishEnrollKeepingToken(p) ==
    /\ handler[p].op = "enroll"
    /\ Len(certs) < MaxCerts
    /\ UpdateHost(handler[p].host, handler[p].copy,
                  [handler[p].copy EXCEPT !.cert = Len(certs) + 1])
    /\ certs' = Append(certs, [host  |-> handler[p].host,
                               token |-> handler[p].copy.token])
    /\ Release(p)
    /\ UNCHANGED <<drawn, expired>>

FinishEnroll(p) ==
    /\ handler[p].op = "enroll"
    /\ Len(certs) < MaxCerts
    /\ UpdateHost(handler[p].host, handler[p].copy,
                  [handler[p].copy EXCEPT !.enrolled = TRUE,
                                          !.token = NoToken,
                                          !.cert = Len(certs) + 1,
                                          !.status = "unknown"])
    /\ certs' = Append(certs, [host  |-> handler[p].host,
                               token |-> handler[p].copy.token])
    /\ Release(p)
    /\ UNCHANGED <<drawn, expired>>

-----------------------------------------------------------------------------
(* Heartbeat and telemetry, from an agent that holds a certificate whose   *)
(* CommonName is h.  No certificate is ever revoked.                       *)

HasCert(h) == \E i \in 1..Len(certs) : certs[i].host = h

BeginHeartbeat(p, h) ==
    /\ HasCert(h)
    /\ GetHost(p, "heartbeat", h)
    /\ UNCHANGED <<registered, rec, drawn, expired, certs, clobbered>>

FinishHeartbeat(p) ==
    /\ handler[p].op = "heartbeat"
    /\ UpdateHost(handler[p].host, handler[p].copy,
                  [handler[p].copy EXCEPT !.status = "online"])
    /\ Release(p)
    /\ UNCHANGED <<drawn, expired, certs>>

BeginIngest(p, h) ==
    /\ HasCert(h)
    /\ GetHost(p, "ingest", h)
    /\ UNCHANGED <<registered, rec, drawn, expired, certs, clobbered>>

\* The host's mode as the engine sees it now; the record is written only if
\* the copy says otherwise.
FinishIngest(p, mode) ==
    /\ handler[p].op = "ingest"
    /\ \/ /\ handler[p].copy.mode # mode
          /\ UpdateHost(handler[p].host, handler[p].copy,
                        [handler[p].copy EXCEPT !.mode = mode])
       \/ /\ handler[p].copy.mode = mode
          /\ UNCHANGED <<registered, rec, clobbered>>
    /\ Release(p)
    /\ UNCHANGED <<drawn, expired, certs>>

-----------------------------------------------------------------------------
Init ==
    /\ registered = {}
    /\ rec = [h \in Hosts |-> NewHost]
    /\ handler = [p \in Handlers |-> Idle]
    /\ drawn = {}
    /\ expired = {}
    /\ certs = <<>>
    /\ clobbered = {}

Next ==
    \/ \E h \in Hosts : CreateHost(h) \/ DeleteHost(h)
    \/ \E t \in Tokens : Expire(t)
    \/ \E p \in Handlers, h \in Hosts :
          BeginIssue(p, h) \/ BeginEnroll(p, h) \/ BeginHeartbeat(p, h) \/ BeginIngest(p, h)
    \/ \E p \in Handlers :
          FinishIssue(p) \/ FinishEnroll(p) \/ FinishHeartbeat(p) \/ Fail(p)
    \/ \E p \in Handlers, mode \in Modes : FinishIngest(p, mode)

Spec == Init /\ [][Next]_vars

-----------------------------------------------------------------------------
(* Properties.                                                             *)

\* One enrollment token yields at most one certificate (the comment on
\* Enroll, registry.go:131-135).
SingleUse ==
    \A i, j \in 1..Len(certs) : certs[i].token = certs[j].token => i = j

\* It holds on every host whose record no write has clobbered: a lost update
\* is the only way to use a token twice.
SingleUseUnlessClobbered ==
    \A i, j \in 1..Len(certs) :
        certs[i].token = certs[j].token => i = j \/ certs[i].host \in clobbered

\* On such a host the record agrees with what was handed out: it is enrolled
\* exactly when its newest certificate is on record and no token is pending,
\* and a pending token has not been used (registry.go:122-124, 156-159).
RecordAgrees ==
    \A h \in registered \ clobbered :
        /\ rec[h].enrolled => /\ rec[h].token = NoToken
                              /\ rec[h].cert > 0
        /\ rec[h].cert > 0 => certs[rec[h].cert].host = h
        /\ \A i \in 1..Len(certs) : certs[i].host = h => i <= rec[h].cert
        /\ \A i \in 1..Len(certs) : certs[i].token # rec[h].token

\* A deleted host stays deleted, though requests that read it before the
\* deletion finish after it (UpdateHost on a missing row is ErrNotFound,
\* memory.go:77-86).
NoResurrection == [][\A h \in Hosts \ registered : h \in registered' => h \notin drawn]_vars
=============================================================================
