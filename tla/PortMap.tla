------------------------------ MODULE PortMap ------------------------------
(***************************************************************************)
(* The port mapping client (internal/portmap): Map asks the gateway for a  *)
(* DERP (TCP) and a STUN (UDP) mapping by one method after the other, PCP, *)
(* NAT-PMP or UPnP, and hands both leases to its caller, who releases them *)
(* later.                                                                  *)
(*                                                                         *)
(* The gateway is external.  It may refuse, grant another port, or do what *)
(* it is asked and have its answer lost (a request's retries, which repeat *)
(* it with the same nonce, are one request).  Under PCP and NAT-PMP it has *)
(* one entry for each internal port, under UPnP one for each external one. *)
(* There is one gateway and one source address; that the WAN moves to      *)
(* another network is modelled by EndpointManager.  A second UPnP service  *)
(* is one more method.  A lease is renewed at half its lifetime, so only   *)
(* entries that nobody renews run out.                                     *)
(***************************************************************************)
EXTENDS Naturals, Sequences, FiniteSets

CONSTANTS Methods,    \* in the order of the configuration
          Ports,      \* external ports
          Requested,  \* the one that is asked for
          Strict,     \* no other will do
          Addrs,      \* addresses the gateway may have, another one at any time
          Public,     \* those for which IsPublicIPv4 is true
          Nonces,
          MaxStray,   \* bound: entries lost track of at the same time
          None

Protocols == {"pcp", "natpmp", "upnp"}
Kinds == {"derp", "stun"}
Lease == [by : Protocols, kind : Kinds, port : Ports, ip : Addrs,
          nonce : Nonces \cup {None}]
Entry == [by : Protocols, kind : Kinds, port : Ports, nonce : Nonces \cup {None}]

ASSUME MapAssumption ==
  /\ Methods \in Seq(Protocols)
  /\ Requested \in Ports
  /\ Strict \in BOOLEAN
  /\ Public \subseteq Addrs
  /\ MaxStray \in Nat
  /\ None \notin Nonces /\ None \notin Lease

VARIABLES
  entries,  \* what the gateway forwards
  nonces,   \* pcpBackend.nonces
  call,     \* Map: its step, position in Methods, and the leases it has
  stray     \* entries that the client knows nothing of any more: an answer was
            \* lost, or a release failed

mapVars == <<entries, nonces, call, stray>>

NoCall == [step |-> "idle", n |-> 1, derp |-> None, stun |-> None]
InCall == {call.derp, call.stun} \ {None}

EntryOf(l) == [by |-> l.by, kind |-> l.kind, port |-> l.port, nonce |-> l.nonce]
-----------------------------------------------------------------------------
(* The gateway. *)

Replaces(e, f) == e.by = f.by /\ e.kind = f.kind /\ (e.by = "upnp" => e.port = f.port)
Adds(e) == {f \in entries : ~Replaces(e, f)} \cup {e}

\* A PCP mapping belongs to its nonce.
Denied(e) == \E f \in entries : e.by = "pcp" /\ Replaces(e, f) /\ f.nonce # e.nonce

\* The entry that a request to delete the lease is about.
Deletes(l, f) ==
  /\ f.by = l.by /\ f.kind = l.kind
  /\ l.by = "pcp" => f.nonce = l.nonce
  /\ l.by = "upnp" => f.port = l.port

\* Nobody renews an entry, and it runs out.
RunOut(e) ==
  /\ e \in entries \cap stray
  /\ entries' = entries \ {e} /\ stray' = stray \ {e}
  /\ UNCHANGED <<nonces, call>>
-----------------------------------------------------------------------------
(* Releases. *)

\* A lease is released: "done", or the answer is "lost" after the entry was
\* deleted, or the request "fails".  A PCP nonce goes with its mapping.
Release(l, out) ==
  LET after == IF out = "fails" THEN entries ELSE {f \in entries : ~Deletes(l, f)} IN
  /\ out # "fails" => ~Denied(EntryOf(l))
  /\ entries' = after
  /\ stray' = (stray \cup {EntryOf(l)}) \cap after
  /\ Cardinality(stray') <= MaxStray
  /\ nonces' = IF out = "done" /\ l.by = "pcp" /\ nonces[l.kind] = l.nonce
               THEN [nonces EXCEPT ![l.kind] = None] ELSE nonces

Outcomes == {"done", "lost", "fails"}
-----------------------------------------------------------------------------
(* Client.Map. *)

\* The next method, once the leases of this one are gone; errs is not empty.
NextMethod ==
  IF call.n < Len(Methods)
  THEN [step |-> "derp", n |-> call.n + 1, derp |-> None, stun |-> None]
  ELSE [NoCall EXCEPT !.step = "failed"]

\* Faulty: a method that failed halfway is left as it is.
Abandon(c) == NextMethod
\* mapping.Release, or lease.Release: what was obtained goes back first.
Undo(c) == IF c.derp = None /\ c.stun = None THEN NextMethod
           ELSE [c EXCEPT !.step = "undo"]

Map ==
  /\ call.step = "idle"
  /\ call' = [NoCall EXCEPT !.step = IF Methods = <<>> THEN "failed" ELSE "derp"]
  /\ UNCHANGED <<entries, nonces, stray>>

By == Methods[call.n]

\* pcpBackend.nonce: the one of an earlier mapping of the port, or a new one,
\* different from those at the gateway and of the leases that the caller has.
\* Nonces of different kinds never meet.
NewNonce(k, leases) ==
  CHOOSE n \in Nonces : \A e \in entries \cup leases : e.kind = k => n # e.nonce
nonce(k, leases) ==
  CASE By # "pcp" -> None
    [] By = "pcp" /\ nonces[k] # None -> nonces[k]
    [] By = "pcp" /\ nonces[k] = None -> NewNonce(k, leases)

validateMapping(derp, stun) ==
  /\ derp.ip \in Public
  /\ stun.ip = derp.ip
  /\ Strict => derp.port = Requested /\ stun.port = Requested

Holding(c, k, l) ==
  IF k = "derp" THEN [c EXCEPT !.derp = l] ELSE [c EXCEPT !.stun = l]

\* The call with l; both leases of a valid mapping go to the caller.
Obtained(l) ==
  LET c == Holding(call, l.kind, l) IN
  IF Strict /\ l.port # Requested THEN Undo(c)
  ELSE IF l.kind = "derp" THEN [c EXCEPT !.step = "stun"]
  ELSE IF validateMapping(c.derp, l) THEN [c EXCEPT !.step = "ok"]
  ELSE Undo(c)

\* acquire, acquireNATPMP, acquireUPnP: the gateway, whose address is a, grants a
\* port.  UPnP grants another one only if AddAnyPortMapping may ask for it.
\* NAT-PMP and UPnP read the address once, PCP has it in each answer.
Acquire(k, p, a, leases) ==
  LET l == [by |-> By, kind |-> k, port |-> p, nonce |-> nonce(k, leases), ip |-> a]
  IN
  /\ call.step = k
  /\ k = "stun" /\ By # "pcp" => a = call.derp.ip
  /\ By = "upnp" /\ Strict => p = Requested
  /\ l.nonce \in Nonces \cup {None}
  /\ ~Denied(EntryOf(l))
  /\ entries' = Adds(EntryOf(l))
  /\ stray' = (stray \ {EntryOf(l)}) \cap entries'
  /\ nonces' = IF By = "pcp" THEN [nonces EXCEPT ![k] = l.nonce] ELSE nonces
  /\ call' = Obtained(l)

\* The gateway has the mapping and its answer is lost; a new nonce is forgotten.
\* UPnP may then ask for any port.
AnswerLost(k, p, leases, again) ==
  LET e == [by |-> By, kind |-> k, port |-> p, nonce |-> nonce(k, leases)] IN
  /\ call.step = k
  /\ By = "upnp" /\ Strict => p = Requested
  /\ ~Denied(e)
  /\ entries' = Adds(e)
  /\ stray' = (stray \cup {e}) \cap entries'
  /\ Cardinality(stray') <= MaxStray
  /\ again => By = "upnp" /\ ~Strict
  /\ call' = IF again THEN call ELSE Undo(call)
  /\ UNCHANGED nonces

\* No route, no gateway, or it refuses.
Refused(k) ==
  /\ call.step = k
  /\ call' = Undo(call)
  /\ UNCHANGED <<entries, nonces, stray>>

\* acquire itself releases a STUN port it did not ask for; Mapping.Release has
\* DERP first.
Undone == IF \/ call.derp = None
             \/ call.stun # None /\ Strict /\ call.stun.port # Requested
          THEN "stun" ELSE "derp"

\* What the method obtained is released; errors are ignored.
UndoLease(out) ==
  /\ call.step = "undo"
  /\ Release(IF Undone = "derp" THEN call.derp ELSE call.stun, out)
  /\ call' = LET c == Holding(call, Undone, None) IN
             IF c.derp = None /\ c.stun = None THEN NextMethod ELSE c

MapStep(leases) ==
  \/ \E k \in Kinds : Refused(k)
  \/ \E k \in Kinds, p \in Ports, a \in Addrs : Acquire(k, p, a, leases)
  \/ \E k \in Kinds, p \in Ports, again \in BOOLEAN : AnswerLost(k, p, leases, again)
  \/ \E out \in Outcomes : UndoLease(out)

MapInit ==
  /\ entries = {} /\ stray = {}
  /\ nonces = [k \in Kinds |-> None]
  /\ call = NoCall
=============================================================================
