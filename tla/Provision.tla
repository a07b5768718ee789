----------------------------- MODULE Provision -----------------------------
(***************************************************************************)
(* What a reconcile of the endpoint manager makes of the gateway and of    *)
(* the TLS identity: PortMap and CertManager under the order of reconcile  *)
(* (internal/endpoint/manager.go), in NAT mode with IPv4, STUN and an      *)
(* automatic certificate, with the process dying and starting again at any *)
(* point.                                                                  *)
(* EndpointManager has the goroutines, the status and the failure count;   *)
(* here a failed reconcile keeps the old endpoint or gives it up.          *)
(***************************************************************************)
EXTENDS PortMap, CertManager

VARIABLES
  stage,      \* where main and reconcile are
  active,     \* Manager.active
  candidate,  \* reconcile's mapping
  releasing,  \* leases that are being released
  published,  \* address and CertName that the last reconcile put in the DERP
              \* map, if it succeeded, none has begun since, and a start since
              \* then found its certificate
  crossed     \* the last reconcile released a mapping and may have hit the new one

ownVars == <<stage, active, candidate, releasing, published, crossed>>
vars == <<mapVars, certVars, ownVars>>

Mapping == [derp : Lease, stun : Lease]
ASSUME ProvisionAssumption == None \notin Mapping /\ Names = Addrs

Leases(m) == IF m = None THEN {} ELSE {m.derp, m.stun}
Known == Leases(active) \cup Leases(candidate) \cup releasing \cup InCall

Enter(s) == stage' = s
-----------------------------------------------------------------------------
(* Start-up. *)

Start(readable) ==
  /\ stage = "down"
  /\ NewManager(readable)
  /\ Enter("boot")
  /\ published' = IF readable THEN published ELSE None
  /\ UNCHANGED <<mapVars, active, candidate, releasing, crossed>>

\* Without a certificate main gives up.
Booted ==
  /\ stage = "boot" /\ update.step \in {"ok", "failed"}
  /\ Enter(IF update.step = "ok" THEN "idle" ELSE "down")
  /\ update' = Idle
  /\ UNCHANGED <<mapVars, fileVars, served, endpoints, due, active, candidate,
                 releasing, published, crossed>>

\* The process dies: the gateway, the files and the DERP map stay.  cert.pem is
\* not what was served if an update failed after it had replaced the file.
Crash ==
  /\ stage # "down"
  /\ Cardinality(entries) <= MaxStray
  /\ Enter("down")
  /\ call' = NoCall /\ nonces' = [k \in Kinds |-> None] /\ stray' = entries
  /\ served' = Nil /\ endpoints' = {} /\ update' = Idle
  /\ active' = None /\ candidate' = None /\ releasing' = {} /\ crossed' = FALSE
  /\ published' = IF served = certFile \/ stage = "boot" THEN published ELSE None
  /\ UNCHANGED <<entries, fileVars, due>>
-----------------------------------------------------------------------------
(* reconcile. *)

Reconcile ==
  /\ stage = "idle"
  /\ Map
  /\ published' = None /\ crossed' = FALSE
  /\ Enter("map")
  /\ UNCHANGED <<certVars, active, candidate, releasing>>

\* The certificate is refreshed for the candidate before it is validated.
Mapped ==
  /\ stage = "map" /\ call.step = "ok"
  /\ candidate' = [derp |-> call.derp, stun |-> call.stun]
  /\ call' = NoCall
  /\ UpdateEndpointIPs({call.derp.ip})
  /\ Enter("cert")
  /\ UNCHANGED <<entries, nonces, stray, active, releasing, published,
                 crossed>>

NotMapped ==
  /\ stage = "map" /\ call.step = "failed"
  /\ call' = NoCall
  /\ Enter("fail")
  /\ UNCHANGED <<certVars, entries, nonces, stray, active, candidate, releasing,
                 published, crossed>>

\* The candidate's mapping goes back on every error after it.
DropCandidate ==
  /\ releasing' = Leases(candidate) /\ candidate' = None
  /\ Enter("undo")
  /\ UNCHANGED <<mapVars, active, published, crossed>>

Certified ==
  /\ stage = "cert" /\ update.step \in {"ok", "failed"}
  /\ update' = Idle
  /\ IF update.step = "ok"
     THEN /\ Enter("check")
          /\ UNCHANGED <<mapVars, active, candidate, releasing, published, crossed>>
     ELSE DropCandidate
  /\ UNCHANGED <<fileVars, served, endpoints, due>>

\* The route cannot be inspected, or no address passes validation.
Invalid ==
  /\ stage = "check"
  /\ DropCandidate
  /\ UNCHANGED certVars

\* Faulty: every renewal counts as a change.
AlwaysChanged(a, b) == FALSE
\* sameLease leaves out the nonce and the expiry.
sameLease(a, b) == a.port = b.port /\ a.ip = b.ip
sameMapping(a, b) ==
  a.derp.by = b.derp.by /\ sameLease(a.derp, b.derp) /\ sameLease(a.stun, b.stun)

Commit ==
  /\ stage = "check"
  /\ active' = candidate /\ candidate' = None
  /\ releasing' = IF active # None /\ ~sameMapping(active, candidate)
                  THEN Leases(active) ELSE {}
  /\ crossed' = /\ Leases(active) # Leases(candidate)
                /\ \E l \in Leases(active), m \in Leases(candidate) : Deletes(l, EntryOf(m))
  /\ Enter("old")
  /\ UNCHANGED <<mapVars, certVars, published>>

\* Mapping.Release, the DERP lease first; its errors are ignored.
ReleaseOne(l, out) ==
  /\ l \in releasing /\ \A m \in releasing : m.kind = "derp" => l = m
  /\ Release(l, out)
  /\ releasing' = releasing \ {l}
  /\ UNCHANGED <<call, certVars, stage, active, candidate, published, crossed>>

Publish(ok) ==
  /\ stage = "old" /\ releasing = {}
  /\ published' = IF ok THEN [ip |-> active.derp.ip, pin |-> served.serial] ELSE None
  /\ Enter("idle")
  /\ UNCHANGED <<mapVars, certVars, active, candidate, releasing, crossed>>

\* fail: below failureThreshold the endpoint stays, at it it is given up.
Fail(giveUp) ==
  /\ stage \in {"undo", "fail"} /\ releasing = {}
  /\ IF giveUp THEN active' = None /\ releasing' = Leases(active)
               ELSE UNCHANGED <<active, releasing>>
  /\ Enter("rest")
  /\ UNCHANGED <<mapVars, certVars, candidate, published, crossed>>

Rest ==
  /\ stage = "rest" /\ releasing = {}
  /\ Enter("idle")
  /\ UNCHANGED <<mapVars, certVars, active, candidate, releasing, published,
                 crossed>>
-----------------------------------------------------------------------------
Pin == IF published = None THEN Nil ELSE published.pin

Init ==
  /\ MapInit /\ CertInit
  /\ stage = "down"
  /\ active = None /\ candidate = None /\ releasing = {}
  /\ published = None /\ crossed = FALSE

\* Leases last for minutes and certificates for months: they run out between
\* reconciles.
Ages ==
  /\ stage \in {"idle", "down"}
  /\ \/ (\E e \in entries : RunOut(e)) /\ UNCHANGED <<certVars, ownVars>>
     \/ (\E s \in Serials : Age(s)) /\ UNCHANGED <<mapVars, ownVars>>

Next ==
  \/ Booted \/ Crash
  \/ Reconcile \/ Mapped \/ NotMapped \/ Certified \/ Invalid \/ Commit \/ Rest
  \/ \E ok \in BOOLEAN : Start(ok) \/ Publish(ok) \/ Fail(ok)
  \/ \E l \in releasing, out \in Outcomes : ReleaseOne(l, out)
  \/ MapStep(Known) /\ UNCHANGED <<certVars, ownVars>>
  \/ CertStep(Pin) /\ UNCHANGED <<mapVars, ownVars>>
  \/ Ages

Spec == Init /\ [][Next]_vars
-----------------------------------------------------------------------------
(* Properties. *)

\* Every entry at the gateway is known: it belongs to the active mapping, to the
\* candidate, or to a lease about to be released, but for those whose answer was
\* lost, whose release failed, or whose process died.  No method that Map gives
\* up on, at whatever point, and no error of reconcile leaves one behind.
EntriesAccounted == entries \subseteq {EntryOf(l) : l \in Known} \cup stray

\* After a reconcile that succeeded the gateway has both mappings of the active
\* one.  A renewal must not release what it renewed; when the mapping changed,
\* this holds only if the old one was not the same entry of the gateway.
ActiveBacked ==
  published # None /\ stage = "idle" /\ ~crossed => {EntryOf(l) : l \in Leases(active)} \subseteq entries

\* After a reconcile that succeeded, clients that pin the published CertName
\* find the certificate with that hash and with the published address, also
\* when the process has been restarted since, until the certificate is due.
PinServed ==
  published # None /\ published.pin \notin due =>
    LET c == IF stage = "idle" THEN served ELSE certFile IN
    c.serial = published.pin /\ published.ip \in c.names
=============================================================================
