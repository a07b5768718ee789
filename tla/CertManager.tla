---------------------------- MODULE CertManager ----------------------------
(***************************************************************************)
(* The manager of the self-signed TLS identity (internal/cert/manager.go): *)
(* key.pem and cert.pem on disk, the certificate that is served, and the   *)
(* steps in which UpdateEndpointIPs and NewManager replace it.             *)
(*                                                                         *)
(* mu serialises updates.  A file is replaced by a rename; the chmod after *)
(* it can still fail, and the process can die between any two steps.  A    *)
(* certificate is its key, its names and its serial, which stands for the  *)
(* sha256 that is published as the node's CertName.  Time only tells apart *)
(* whether it is within renewBefore of its end.                            *)
(***************************************************************************)
EXTENDS Naturals

CONSTANTS Names,     \* addresses the endpoint may have
          BaseNames, \* the names of the configuration
          Keys, Serials, Nil

ASSUME CertAssumption == Keys # {} /\ Nil \notin Keys

Certificate == [key : Keys, names : SUBSET (Names \cup BaseNames), serial : Serials]
ASSUME CertNilAssumption == Nil \notin Certificate

VARIABLES
  keyFile, certFile,   \* key.pem, cert.pem
  served, endpoints,   \* Manager.current, Manager.endpoints
  due,                 \* serials within renewBefore of their end
  update               \* updateLocked: its step and the endpoints it is for

certVars == <<keyFile, certFile, served, endpoints, due, update>>
fileVars == <<keyFile, certFile>>

Idle == [step |-> "idle", ips |-> {}]
At(step) == update.step = step
Goto(step) == update' = [update EXCEPT !.step = step]

InDate(c) == c # Nil /\ c.serial \notin due

\* setCurrent, which ends an update well.
setCurrent(c) ==
  /\ served' = c /\ endpoints' = update.ips
  /\ Goto("ok")

\* An error leaves the certificate that is served in place.
Fails == Goto("failed") /\ UNCHANGED <<served, endpoints>>
-----------------------------------------------------------------------------
\* Faulty: every start makes a new certificate.
NeverReusable == FALSE
\* NewManager keeps a pair that loads, is in date and has the base names,
\* whatever addresses it names too.
Reusable == InDate(certFile) /\ BaseNames \subseteq certFile.names

NewManager(readable) ==
  /\ At("idle")
  /\ IF readable /\ Reusable
     THEN served' = certFile /\ endpoints' = {} /\ update' = [step |-> "ok", ips |-> {}]
     ELSE update' = [step |-> "load", ips |-> {}] /\ UNCHANGED <<served, endpoints>>
  /\ UNCHANGED <<fileVars, due>>

UpdateEndpointIPs(ips) ==
  /\ At("idle")
  /\ update' = [step |-> IF ips = endpoints /\ InDate(served) THEN "ok" ELSE "load",
                ips |-> ips]
  /\ UNCHANGED <<fileVars, served, endpoints, due>>

Wanted == BaseNames \cup update.ips

\* Faulty: a key that cannot be read is replaced.
LostKey(readable) == keyFile = Nil \/ readable = "nothing"
\* generate makes a key only if the file is not there.
MissingKey(readable) == keyFile = Nil

\* What can be read of the pair that is on disk.
Readable == {"both", "key", "nothing"}

\* updateLocked: what is on disk will do, or a certificate is generated.
loadExisting(readable) ==
  /\ At("load")
  /\ IF readable = "both" /\ InDate(certFile) /\ certFile.names = Wanted
     THEN setCurrent(certFile)
     ELSE /\ Goto(CASE MissingKey(readable) -> "key"
                    [] ~MissingKey(readable) /\ readable # "nothing" -> "cert"
                    [] OTHER -> "failed")
          /\ UNCHANGED <<served, endpoints>>
  /\ UNCHANGED <<fileVars, due>>

\* How atomicWrite ends: the file is replaced and has its mode, is replaced and
\* an error is returned, or is left alone.
Writes == {"done", "replaced", "fails"}

writePrivateKey(out) ==
  /\ At("key")
  /\ keyFile' = IF out = "fails" THEN keyFile ELSE CHOOSE k \in Keys : k # keyFile
  /\ Goto(IF out = "done" THEN "cert" ELSE "failed")
  /\ UNCHANGED <<certFile, served, endpoints, due>>

SerialsInUse == {c.serial : c \in {served, certFile} \ {Nil}}

\* generate and persist; other is a serial that is remembered elsewhere.
persist(s, out, other) ==
  LET c == [key |-> keyFile, names |-> Wanted, serial |-> s] IN
  /\ At("cert")
  /\ s \notin SerialsInUse \cup {other}
  /\ certFile' = IF out = "fails" THEN certFile ELSE c
  /\ IF out = "done" THEN setCurrent(c) ELSE Fails
  /\ due' = due \cap (SerialsInUse' \cup {other})
  /\ UNCHANGED keyFile

\* A certificate comes within renewBefore of its end.
Age(s) ==
  /\ s \in SerialsInUse \ due
  /\ due' = due \cup {s}
  /\ UNCHANGED <<fileVars, served, endpoints, update>>

CertStep(other) ==
  \/ \E readable \in Readable : loadExisting(readable)
  \/ \E out \in Writes : writePrivateKey(out) \/ \E s \in Serials : persist(s, out, other)

CertInit ==
  /\ keyFile = Nil /\ certFile = Nil
  /\ served = Nil /\ endpoints = {} /\ due = {}
  /\ update = Idle
-----------------------------------------------------------------------------
\* "The private key is stable": once key.pem is there it stays, and cert.pem
\* always belongs to it, whichever step fails or is the last before a crash; so
\* a restart finds a pair that loads.
KeyStable ==
  [][/\ keyFile # Nil => keyFile' = keyFile
     /\ certFile' # Nil => certFile'.key = keyFile']_certVars
=============================================================================
