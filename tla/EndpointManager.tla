-------------------------- MODULE EndpointManager --------------------------
(***************************************************************************)
(* The external-endpoint manager (internal/endpoint/manager.go): one loop  *)
(* goroutine (maintain) and any number of ops request goroutines that call *)
(* Check, Sync and Reconcile.  The three operations are serialised by      *)
(* opMu; every access to the manager's fields is a critical section of mu. *)
(* A step of this model is one critical section of mu or one call to the   *)
(* gateway, the validator, the certificate manager or the tailnet policy.  *)
(* maintain's call of fail and the loop's deferred releaseActive run       *)
(* WITHOUT opMu, so they interleave with an operation's steps.             *)
(*                                                                         *)
(* A public IPv4 address is named by the WAN network it belongs to, IPv6   *)
(* is present or not (it does not move with the WAN here), and the DERP    *)
(* and STUN ports are one port: LocalPort is the one the listeners use.    *)
(***************************************************************************)
EXTENDS Naturals

CONSTANTS Callers,          \* ops request goroutines
          Loop,             \* the goroutine of Manager.loop
          Networks,         \* WAN networks: route fingerprint and public IPv4
          Ports, LocalPort, \* external ports, and the one the listeners use
          NatMode,          \* Mode = "nat" (FALSE: "direct")
          WantsV4, WantsV6, \* AddressFamily
          ValidateEndpoint, \* the config option of that name
          None              \* nil

ASSUME ConfigAssumption ==
  /\ Loop \notin Callers
  /\ None \notin Callers \cup {Loop}
  /\ None \notin Networks
  /\ LocalPort \in Ports
  /\ NatMode \in BOOLEAN /\ ValidateEndpoint \in BOOLEAN
  /\ WantsV4 \in BOOLEAN /\ WantsV6 \in BOOLEAN
  /\ WantsV4 \/ WantsV6

failureThreshold == 3
\* FailureCount is only compared with failureThreshold and 0: counts above
\* failureThreshold are not told apart, so the model counts to FailureCap.
FailureCap == failureThreshold + 1

Procs == Callers \cup {Loop}
Endpoint == [v4 : Networks \cup {None}, v6 : BOOLEAN, port : Ports]
Mapping == [net : Networks, port : Ports]
ASSUME NilAssumption == None \notin Endpoint \cup Mapping

VARIABLES
  pc, op,        \* per goroutine: next step, and the method it runs
  loc,           \* per goroutine: the method's local variables
  snap,          \* maintain's snapshot of the fields, read before its probe
  opMu,          \* holder of Manager.opMu, or None
  bindings,      \* localDERPPort # 0, supportsIPv4, supportsIPv6
  active, endpoint, network, withdrawRetry, failureCount, state,
  renewDue, syncDue,  \* nextRenew / nextSync are not after now
  held,          \* mappings obtained at a gateway and not released since
  wan,           \* the network the WAN interface is on now
  sans,          \* addresses in the served certificate
  pub,           \* the node's entry in the tailnet policy's DERP map
  calm           \* the environment has stopped failing (for liveness only)

fieldVars == <<active, endpoint, network, withdrawRetry, failureCount, state,
               renewDue, syncDue>>
envVars   == <<bindings, wan, calm>>
vars == <<pc, op, loc, snap, opMu, fieldVars, held, sans, pub, envVars>>

\* A method's local variables: the endpoint and the mapping it works on, the
\* families its validation passed, the fingerprint, and whether it met problems.
Local(ep, map, passed, net, problems) ==
  [ep |-> ep, map |-> map, passed |-> passed, net |-> net,
   problems |-> problems]
NoLocals == Local(None, None, {}, None, FALSE)
NoSnap   == [ep |-> FALSE, renew |-> FALSE, sync |-> FALSE, net |-> None]

Init ==
  /\ pc = [p \in Procs |-> "idle"]
  /\ op = [p \in Procs |-> "none"]
  /\ loc = [p \in Procs |-> NoLocals]
  /\ snap = NoSnap
  /\ opMu = None
  /\ bindings = [ready |-> FALSE, v4 |-> TRUE, v6 |-> TRUE]
  /\ active = None /\ endpoint = None /\ network = None
  /\ withdrawRetry = FALSE /\ failureCount = 0 /\ state = "discovering"
  /\ renewDue = TRUE /\ syncDue = TRUE
  /\ held = {} /\ sans = {} /\ pub = None
  /\ wan \in Networks
  /\ calm = FALSE
-----------------------------------------------------------------------------
(* Helpers on endpoints. *)

Families(e) == {f \in {"v4", "v6"} : IF f = "v4" THEN e.v4 # None ELSE e.v6}

\* Endpoint.addresses: what the certificate must name.
addresses(e) == {n \in Networks : e.v4 = n} \cup {a \in {"v6"} : e.v6}

\* Endpoint.validated: drop every family the validator did not pass.
Unpruned(e, passed) == e                            \* faulty: result ignored
validated(e, passed) ==
  [v4   |-> IF "v4" \in passed THEN e.v4 ELSE None,
   v6   |-> e.v6 /\ "v6" \in passed,
   port |-> e.port]

\* Losing IPv4 also loses the NAT mapping: the node is back on its own ports.
ZeroPort(e) ==                                      \* faulty: port left unset
  [v4 |-> e.v4, v6 |-> e.v6, port |-> None]
OnLocalPort(e) == [v4 |-> e.v4, v6 |-> e.v6, port |-> LocalPort]

\* wantsIPv4 and wantsIPv6, and whether the listeners are bound for the family.
Wanted(f) == IF f = "v4" THEN WantsV4 ELSE WantsV6
Supported(f) == Wanted(f) /\ (IF f = "v4" THEN bindings.v4 ELSE bindings.v6)

\* A DERP map node has one port set: a mapping cannot accompany IPv6 on another.
NeverClash(m, v6) == FALSE                          \* faulty: check dropped
PortClash(m, v6) == m # None /\ v6 /\ m.port # LocalPort

\* The new mapping takes the place of another one (sameMapping, and the route).
OnRouteChange(old, oldNet, new, net) ==             \* faulty: route only
  old # None /\ oldNet # net
Always(old, oldNet, new, net) == old # None         \* faulty: even a renewal
Replaced(old, oldNet, new, net) == old # None /\ (oldNet # net \/ old # new)

\* withdrawRetry after a call to Withdraw.
Forgotten(ok) == FALSE                              \* faulty: error ignored
StillPending(ok) == ~ok

(* The environment: an outcome of a call that may fail. *)
Outcome == IF calm THEN {TRUE} ELSE BOOLEAN

\* External: IPv4 answers only on the current WAN and through a live mapping.
Reachable(e) ==
  {f \in Families(e) :
     f = "v4" => /\ e.v4 = wan
                 /\ NatMode => [net |-> e.v4, port |-> e.port] \in held}

\* LocalValidator.Validate: the families of e that pass.
Validate(e) == IF calm THEN {Reachable(e)} ELSE SUBSET Reachable(e)

Released(m) == held \ {m}
-----------------------------------------------------------------------------
(* Control: where a goroutine goes next. *)

Goto(p, label) == pc' = [pc EXCEPT ![p] = label] /\ UNCHANGED <<op, opMu>>
Set(p, l) == loc' = [loc EXCEPT ![p] = l]

\* Local variables that change alone.
SetMap(p, m) == Set(p, Local(loc[p].ep, m, loc[p].passed, loc[p].net,
                             loc[p].problems))
SetNet(p, n) == Set(p, Local(loc[p].ep, loc[p].map, loc[p].passed, n,
                             loc[p].problems))

\* Return from the method, dropping opMu if it was taken (deferred Unlock).
Return(p) ==
  /\ pc' = [pc EXCEPT ![p] = "idle"]
  /\ op' = [op EXCEPT ![p] = "none"]
  /\ loc' = [loc EXCEPT ![p] = NoLocals]
  /\ opMu' = IF opMu = p THEN None ELSE opMu

\* The method gives up: the mapping it made is released, then fail(ctx, err).
LeakAndFail(p) ==                                   \* faulty: not released
  /\ UNCHANGED held
  /\ Set(p, NoLocals)
  /\ Goto(p, "fail")
ReleaseAndFail(p) ==
  /\ held' = Released(loc[p].map)
  /\ Set(p, NoLocals)
  /\ Goto(p, "fail")

At(p, label) == pc[p] = label

Unlocked(p, label) ==                               \* faulty: no opMu
  /\ At(p, "lock")
  /\ pc' = [pc EXCEPT ![p] = label]
  /\ UNCHANGED <<op, opMu>>
Lock(p, label) ==
  /\ At(p, "lock") /\ opMu = None
  /\ opMu' = p
  /\ pc' = [pc EXCEPT ![p] = label]
  /\ UNCHANGED op
-----------------------------------------------------------------------------
(* Entry points. *)

\* An ops handler (handleExternalAction) calls one of the three operations.
Request(p) ==
  /\ At(p, "idle")
  /\ \E k \in {"check", "sync", "reconcile"} : op' = [op EXCEPT ![p] = k]
  /\ pc' = [pc EXCEPT ![p] = "lock"]
  /\ UNCHANGED <<loc, snap, opMu, fieldVars, held, sans, pub, envVars>>

\* faulty: the switch reconciles only an endpoint that is there
DispatchActive(s) ==
  LET k == IF s.ep /\ s.renew THEN "reconcile"
           ELSE IF s.sync THEN "sync" ELSE "none"
  IN /\ op' = [op EXCEPT ![Loop] = k]
     /\ pc' = [pc EXCEPT ![Loop] = IF k = "none" THEN "idle" ELSE "lock"]

\* The switch that ends maintain, on the snapshot s.
Dispatch(s) ==
  LET k == IF ~s.ep \/ s.renew THEN "reconcile"
           ELSE IF s.sync THEN "sync" ELSE "none"
  IN /\ op' = [op EXCEPT ![Loop] = k]
     /\ pc' = [pc EXCEPT ![Loop] = IF k = "none" THEN "idle" ELSE "lock"]

\* loop wakes up (timer or wake channel) and maintain reads the fields.
Maintain ==
  LET s == [ep |-> endpoint # None, renew |-> renewDue, sync |-> syncDue,
            net |-> network]
  IN /\ At(Loop, "idle")
     /\ bindings.ready
     /\ IF s.ep /\ NatMode /\ WantsV4
        THEN /\ pc' = [pc EXCEPT ![Loop] = "probe"]
             /\ snap' = s
             /\ UNCHANGED op
        ELSE Dispatch(s) /\ UNCHANGED snap
     /\ UNCHANGED <<loc, opMu, fieldVars, held, sans, pub, envVars>>

\* maintain compares the route's fingerprint with the snapshot's.
Probe ==
  /\ At(Loop, "probe")
  /\ \/ /\ FALSE \in Outcome   \* fail, without opMu
        /\ Goto(Loop, "fail")
     \/ /\ snap.net # None /\ wan # snap.net
        /\ op' = [op EXCEPT ![Loop] = "reconcile"]
        /\ pc' = [pc EXCEPT ![Loop] = "lock"]
        /\ UNCHANGED opMu
     \/ /\ snap.net = None \/ wan = snap.net
        /\ Dispatch(snap)
        /\ UNCHANGED opMu
  /\ snap' = NoSnap
  /\ UNCHANGED <<loc, fieldVars, held, sans, pub, envVars>>
-----------------------------------------------------------------------------
(* Check and Sync work on the current endpoint. *)

\* Both read m.endpoint under opMu and give up when there is none.  A caller
\* that finds none returns at once, so its Lock and Unlock are one step.
StartOnCurrent(p, next) ==
  /\ \/ /\ endpoint = None
        /\ At(p, "lock") /\ opMu = None
        /\ Return(p)
     \/ /\ endpoint # None
        /\ Lock(p, next)
        /\ Set(p, Local(endpoint, None, {}, None, FALSE))
  /\ UNCHANGED <<snap, fieldVars, held, sans, pub, envVars>>

Check(p) == op[p] = "check" /\ StartOnCurrent(p, "validate")

Sync(p) ==
  op[p] = "sync" /\ StartOnCurrent(p, IF ValidateEndpoint THEN "validate"
                                      ELSE "publish")

\* Validate the current endpoint: failed, degraded or passed.
ValidateCurrent(p) ==
  /\ At(p, "validate")
  /\ \E passed \in Validate(loc[p].ep) :
       LET all == passed = Families(loc[p].ep)
       IN \/ /\ passed = {}
             /\ IF ValidateEndpoint THEN Goto(p, "fail") /\ Set(p, NoLocals)
                ELSE Return(p)
          \/ /\ passed # {}
             /\ Goto(p, IF all THEN "reset" ELSE "partialCert")
             /\ Set(p, Local(validated(loc[p].ep, passed), None, passed, None,
                             ~all))
  /\ UNCHANGED <<snap, fieldVars, held, sans, pub, envVars>>

\* applyPartialValidation, first half: the certificate for what is left.
PartialCert(p) ==
  /\ At(p, "partialCert")
  /\ \E ok \in Outcome :
       \/ /\ ok
          /\ sans' = addresses(loc[p].ep)
          /\ Goto(p, "partialCommit")
          /\ UNCHANGED loc
       \/ /\ ~ok
          /\ Goto(p, "fail")
          /\ Set(p, NoLocals)
          /\ UNCHANGED sans
  /\ UNCHANGED <<snap, fieldVars, held, pub, envVars>>

\* applyPartialValidation, second half: m.endpoint becomes the pruned one; if
\* IPv4 was pruned the mapping goes too.  A degraded endpoint had both families,
\* so IPv4 was pruned exactly when it is not among those that passed.
PartialCommit(p) ==
  LET lost4  == loc[p].ep.v4 = None
      pruned == IF lost4 THEN OnLocalPort(loc[p].ep) ELSE loc[p].ep
  IN /\ At(p, "partialCommit")
     /\ endpoint' = pruned
     /\ active' = IF lost4 THEN None ELSE active
     /\ network' = IF lost4 THEN None ELSE network
     /\ renewDue' = IF lost4 THEN FALSE ELSE renewDue
     /\ state' = "degraded"
     /\ Set(p, Local(pruned, IF lost4 THEN active ELSE None, loc[p].passed,
                     None, TRUE))
     /\ Goto(p, IF lost4 /\ active # None THEN "unmapPartial" ELSE "reset")
     /\ UNCHANGED <<snap, withdrawRetry, failureCount, syncDue, held, sans, pub,
                    envVars>>

UnmapPartial(p) ==
  /\ At(p, "unmapPartial")
  /\ held' = Released(loc[p].map)
  /\ SetMap(p, None)
  /\ Goto(p, "reset")
  /\ UNCHANGED <<snap, fieldVars, sans, pub, envVars>>

\* resetValidationFailures: markReady unless the validation was partial.
resetValidationFailures(p) ==
  /\ At(p, "reset")
  /\ failureCount' = 0
  /\ withdrawRetry' = FALSE
  /\ state' = IF failureCount > 0 /\ ~loc[p].problems /\ endpoint # None
              THEN "ready" ELSE state
  /\ IF op[p] = "check" /\ ~loc[p].problems
     THEN Return(p)
     ELSE Goto(p, "publish") /\ UNCHANGED loc
  /\ UNCHANGED <<snap, active, endpoint, network, renewDue, syncDue, held, sans,
                 pub, envVars>>
-----------------------------------------------------------------------------
(* Reconcile: a new candidate from scratch. *)

Reconcile(p) ==
  /\ op[p] = "reconcile"
  /\ Lock(p, IF bindings.ready THEN "map" ELSE "fail")
  /\ state' = IF bindings.ready THEN "mapping" ELSE state
  /\ UNCHANGED <<loc, snap, active, endpoint, network, withdrawRetry,
                 failureCount, renewDue, syncDue, held, sans, pub, envVars>>

\* External: a mapping from the current gateway, or None.
MapResults ==
  IF Supported("v4") /\ NatMode
  THEN [net : {wan}, port : Ports] \cup {n \in {None} : ~calm} ELSE {None}

\* With IPv6, a mapping on another port than the local one is given back.
Kept(m, v6) == IF PortClash(m, v6) THEN None ELSE m

\* The candidate: IPv4 from the mapping or the interface, and IPv6.
Candidate(m, ok4, v6) ==
  [v4   |-> IF NatMode THEN (IF m = None THEN None ELSE m.net)
            ELSE IF Supported("v4") /\ ok4 THEN wan ELSE None,
   v6   |-> v6,
   port |-> IF m = None THEN LocalPort ELSE m.port]

\* Map (or PublicIPv4) and PublicIPv6, up to the candidate.
Discover(p) ==
  /\ At(p, "map")
  /\ \E m \in MapResults, ok4 \in Outcome, ok6 \in Outcome :
       LET v6   == Supported("v6") /\ ok6
           kept == Kept(m, v6)
           cand == Candidate(kept, ok4, v6)
           lost == \E f \in {"v4", "v6"} \ Families(cand) : Wanted(f)
       IN /\ held' = (held \ {m}) \cup ({kept} \ {None})
          /\ IF Families(cand) = {}
             THEN Goto(p, "fail") /\ UNCHANGED loc
             ELSE Goto(p, "cert") /\ Set(p, Local(cand, kept, {}, None, lost))
  /\ UNCHANGED <<snap, fieldVars, sans, pub, envVars>>

\* UpdateEndpointIPs for the candidate, before it is validated ("cert") and
\* again for what validation left of it ("cert2").
UpdateEndpointIPs(p) ==
  /\ \E label \in {"cert", "cert2"} : At(p, label)
  /\ \E ok \in Outcome :
       \/ /\ ok
          /\ sans' = addresses(loc[p].ep)
          /\ Goto(p, IF At(p, "cert") THEN "fingerprint" ELSE "commit")
          /\ UNCHANGED <<loc, held>>
       \/ /\ ~ok
          /\ ReleaseAndFail(p)
          /\ UNCHANGED sans
  /\ UNCHANGED <<snap, fieldVars, pub, envVars>>

\* NetworkFingerprint: read after the mapping was made.
Fingerprint(p) ==
  LET next == IF ValidateEndpoint THEN "verify" ELSE "commit"
  IN /\ At(p, "fingerprint")
     /\ IF NatMode /\ loc[p].ep.v4 # None
        THEN \E ok \in Outcome :
               \/ /\ ok
                  /\ SetNet(p, wan)
                  /\ Goto(p, next)
                  /\ UNCHANGED held
               \/ ~ok /\ ReleaseAndFail(p)
        ELSE Goto(p, next) /\ UNCHANGED <<loc, held>>
     /\ UNCHANGED <<snap, fieldVars, sans, pub, envVars>>

\* Validate the candidate and keep the families that pass.
ValidateCandidate(p) ==
  /\ At(p, "verify")
  /\ state' = "validating"
  /\ \E passed \in Validate(loc[p].ep) :
       LET left  == validated(loc[p].ep, passed)
           unmap == left.v4 = None /\ loc[p].map # None
       IN \/ passed = {} /\ ReleaseAndFail(p)
          \/ /\ passed # {}
             /\ held' = IF unmap THEN Released(loc[p].map) ELSE held
             /\ Set(p, Local(IF unmap THEN OnLocalPort(left) ELSE left,
                             IF unmap THEN None ELSE loc[p].map,
                             passed,
                             IF unmap THEN None ELSE loc[p].net,
                             loc[p].problems \/ passed # Families(loc[p].ep)))
             /\ Goto(p, "cert2")
  /\ UNCHANGED <<snap, active, endpoint, network, withdrawRetry, failureCount,
                 renewDue, syncDue, sans, pub, envVars>>

\* The candidate becomes m.endpoint.  withdrawRetry is left as it was.
Commit(p) ==
  LET replaced == Replaced(active, network, loc[p].map, loc[p].net)
  IN /\ At(p, "commit")
     /\ active' = loc[p].map
     /\ endpoint' = loc[p].ep
     /\ network' = loc[p].net
     /\ renewDue' = FALSE
     /\ failureCount' = 0
     /\ state' = IF loc[p].problems THEN "degraded" ELSE "ready"
     /\ SetMap(p, IF replaced THEN active ELSE None)
     /\ Goto(p, IF replaced THEN "unmapOld" ELSE "publish")
     /\ UNCHANGED <<snap, withdrawRetry, syncDue, held, sans, pub, envVars>>

\* The replaced mapping is released.
UnmapOld(p) ==
  /\ At(p, "unmapOld")
  /\ held' = Released(loc[p].map)
  /\ SetMap(p, None)
  /\ Goto(p, "publish")
  /\ UNCHANGED <<snap, fieldVars, sans, pub, envVars>>

\* publish: a call that fails may still have changed the policy.
Publish(p) ==
  /\ At(p, "publish")
  /\ \E ok \in Outcome :
       /\ pub' \in IF ok THEN {loc[p].ep} ELSE {loc[p].ep, pub}
       /\ state' = IF ~ok /\ op[p] = "reconcile" THEN "degraded" ELSE state
  /\ syncDue' = FALSE
  /\ Return(p)
  /\ UNCHANGED <<snap, active, endpoint, network, withdrawRetry, failureCount,
                 renewDue, held, sans, envVars>>
-----------------------------------------------------------------------------
(* fail, called with opMu by an operation and without it by maintain. *)

Fail(p) ==
  LET wasWithdrawn == state = "withdrawn"
      count == IF failureCount < FailureCap THEN failureCount + 1
               ELSE FailureCap
      retry == withdrawRetry \/ (~wasWithdrawn /\ count = failureThreshold)
  IN /\ At(p, "fail")
     /\ \/ /\ ValidateEndpoint
           /\ failureCount' = count
           /\ state' = IF wasWithdrawn \/ count >= failureThreshold
                       THEN "withdrawn" ELSE "degraded"
           /\ withdrawRetry' = retry
           /\ IF retry THEN Goto(p, "withdraw") /\ UNCHANGED loc ELSE Return(p)
        \/ /\ ~ValidateEndpoint
           /\ state' = IF active # None THEN "stale" ELSE "error"
           /\ Return(p)
           /\ UNCHANGED <<failureCount, withdrawRetry>>
     /\ UNCHANGED <<snap, active, endpoint, network, renewDue, syncDue, held,
                    sans, pub, envVars>>

\* syncer.Withdraw: a call that fails may still have removed the node.
Withdraw(p) ==
  /\ At(p, "withdraw")
  /\ \E ok \in Outcome :
       /\ pub' \in IF ok THEN {None} ELSE {None, pub}
       /\ withdrawRetry' = StillPending(ok)
  /\ state' = "withdrawn"
  /\ Goto(p, "release")
  /\ UNCHANGED <<loc, snap, active, endpoint, network, failureCount, renewDue,
                 syncDue, held, sans, envVars>>

\* releaseActive: forget endpoint and mapping, then release the mapping.
ForgetActive(p) ==
  /\ active' = None /\ endpoint' = None /\ network' = None
  /\ Set(p, Local(None, active, {}, None, FALSE))
  /\ UNCHANGED <<withdrawRetry, failureCount, state, renewDue, syncDue>>

ReleaseActive(p) ==
  /\ At(p, "release")
  /\ ForgetActive(p)
  /\ Goto(p, "unmapActive")
  /\ UNCHANGED <<snap, held, sans, pub, envVars>>

UnmapActive(p) ==
  /\ At(p, "unmapActive")
  /\ held' = Released(loc[p].map)
  /\ Return(p)
  /\ UNCHANGED <<snap, fieldVars, sans, pub, envVars>>

\* loop returns (ctx done) and its deferred releaseActive runs.
LoopStop ==
  /\ At(Loop, "idle")
  /\ ForgetActive(Loop)
  /\ Goto(Loop, "unmapStop")
  /\ UNCHANGED <<snap, held, sans, pub, envVars>>

LoopStopped ==
  /\ At(Loop, "unmapStop")
  /\ held' = Released(loc[Loop].map)
  /\ Set(Loop, NoLocals)
  /\ Goto(Loop, "stopped")
  /\ UNCHANGED <<snap, fieldVars, sans, pub, envVars>>
-----------------------------------------------------------------------------
(* The rest of the program and the world. *)

\* startDERP reports the listeners it bound, once.
SetLocalBindings ==
  /\ ~bindings.ready
  /\ \E v4, v6 \in BOOLEAN :
       /\ v4 \/ v6
       /\ bindings' = [ready |-> TRUE, v4 |-> v4, v6 |-> v6]
  /\ UNCHANGED <<pc, op, loc, snap, opMu, fieldVars, held, sans, pub, wan, calm>>

\* Time passes nextRenew or nextSync.
RenewElapses ==
  /\ ~renewDue /\ renewDue' = TRUE
  /\ UNCHANGED <<pc, op, loc, snap, opMu, active, endpoint, network,
                 withdrawRetry, failureCount, state, syncDue, held, sans, pub,
                 envVars>>

SyncElapses ==
  /\ ~syncDue /\ syncDue' = TRUE
  /\ UNCHANGED <<pc, op, loc, snap, opMu, active, endpoint, network,
                 withdrawRetry, failureCount, state, renewDue, held, sans, pub,
                 envVars>>

\* The default route moves to another network.
RouteChange ==
  /\ ~calm
  /\ wan' \in Networks \ {wan}
  /\ UNCHANGED <<pc, op, loc, snap, opMu, fieldVars, held, sans, pub, bindings,
                 calm>>

\* From here on calls succeed and the route stays.
Settle ==
  /\ ~calm /\ calm' = TRUE
  /\ UNCHANGED <<pc, op, loc, snap, opMu, fieldVars, held, sans, pub, bindings,
                 wan>>

Acquire(p) == Check(p) \/ Sync(p) \/ Reconcile(p)

Step(p) ==
  \/ ValidateCurrent(p) \/ PartialCert(p) \/ PartialCommit(p) \/ UnmapPartial(p)
  \/ resetValidationFailures(p) \/ Discover(p) \/ UpdateEndpointIPs(p)
  \/ Fingerprint(p) \/ ValidateCandidate(p) \/ Commit(p) \/ UnmapOld(p)
  \/ Publish(p) \/ Fail(p) \/ Withdraw(p) \/ ReleaseActive(p) \/ UnmapActive(p)

World == SetLocalBindings \/ RenewElapses \/ SyncElapses \/ RouteChange

Next ==
  \/ \E p \in Callers : Request(p)
  \/ Maintain \/ Probe \/ LoopStop \/ LoopStopped
  \/ \E p \in Procs : Acquire(p) \/ Step(p)
  \/ World

Spec == Init /\ [][Next]_vars

\* The loop's timer is reset after every maintain, so it never stops ticking;
\* a goroutine that is not blocked runs on; sync.Mutex hands itself to a waiter
\* that has starved; the clock reaches every deadline.
FairSpec ==
  /\ Init /\ [][Next \/ Settle]_vars
  /\ WF_vars(Maintain) /\ WF_vars(Probe) /\ WF_vars(SetLocalBindings)
  /\ \A p \in Procs : WF_vars(Step(p)) /\ SF_vars(Acquire(p))
  /\ WF_vars(RenewElapses) /\ WF_vars(SyncElapses)
-----------------------------------------------------------------------------
(* Properties. *)

Labels == {"idle", "lock", "probe", "validate", "reset", "partialCert",
           "partialCommit", "unmapPartial", "map", "cert", "fingerprint",
           "verify", "cert2", "commit", "unmapOld", "publish", "fail",
           "withdraw", "release", "unmapActive", "unmapStop", "stopped"}
States == {"discovering", "mapping", "validating", "ready", "degraded",
           "withdrawn", "stale", "error"}
Locals == [ep : Endpoint \cup {None}, map : Mapping \cup {None},
           passed : SUBSET {"v4", "v6"}, net : Networks \cup {None},
           problems : BOOLEAN]

ThreadsOK ==
  /\ pc \in [Procs -> Labels]
  /\ op \in [Procs -> {"none", "check", "sync", "reconcile"}]
  /\ loc \in [Procs -> Locals]
  /\ snap \in [ep : BOOLEAN, renew : BOOLEAN, sync : BOOLEAN,
               net : Networks \cup {None}]
  /\ opMu \in Procs \cup {None}

FieldsOK ==
  /\ active \in Mapping \cup {None}
  /\ endpoint \in Endpoint \cup {None}
  /\ network \in Networks \cup {None}
  /\ state \in States

FlagsOK == /\ withdrawRetry \in BOOLEAN
           /\ renewDue \in BOOLEAN
           /\ syncDue \in BOOLEAN

WorldOK ==
  /\ bindings \in [ready : BOOLEAN, v4 : BOOLEAN, v6 : BOOLEAN]
  /\ pub \in Endpoint \cup {None}
  /\ wan \in Networks
  /\ calm \in BOOLEAN
  /\ held \subseteq Mapping
  /\ sans \subseteq Networks \cup {"v6"}

\* Every field of the manager and every local variable holds a value of its Go
\* type, and FailureCount stays within the counts the code tells apart.
TypeOK == /\ ThreadsOK /\ FieldsOK /\ FlagsOK /\ WorldOK
          /\ failureCount \in 0 .. FailureCap

\* "A DERP map node has one port set. Do not advertise Direct IPv6 through a
\* different IPv4 NAT-assigned port" (reconcile): neither the current endpoint
\* nor the published one pairs IPv6 with a port that is not the local one,
\* whatever partial validations, port changes and releases led there.
OnePortSet ==
  \A e \in {endpoint, pub} \ {None} : e.v6 => e.port = LocalPort

\* "An IPv4-only wildcard can never publish an IPv6 endpoint"
\* (SetLocalBindings), and the same for IPv4, although the manager starts with
\* both families marked supported and its loop runs before the listeners.
OnlyBoundFamilies ==
  \A e \in {endpoint, pub} \ {None} :
    /\ bindings.ready
    /\ e.v4 # None => bindings.v4
    /\ e.v6 => bindings.v6

\* No mapping leaks at a gateway: each one obtained and not yet released is the
\* active mapping or in the hands of a goroutine that is still at work on it,
\* on every error path of reconcile, applyPartialValidation and fail.
LeasesAccounted ==
  held \subseteq {active} \cup {loc[p].map : p \in Procs}

PublishesValidated ==
  ValidateEndpoint /\ pub' \notin {pub, None} =>
    \E p \in Procs : /\ At(p, "publish")
                     /\ pub' = loc[p].ep
                     /\ Families(pub') \subseteq loc[p].passed

\* With validation on, an address reaches the DERP map only if the operation
\* that publishes it saw the validator pass that family.
PublishesOnlyValidated == [][PublishesValidated]_vars

\* No operation is under way and the loop is alive.
Quiescent == \A p \in Procs : pc[p] \in {"idle", "lock", "probe"}

\* Between operations, a "ready" status means there is an endpoint and its NAT
\* mapping, if it has one, was not released behind its back.
ReadyIsBacked ==
  Quiescent /\ state = "ready" =>
    /\ endpoint # None
    /\ NatMode /\ endpoint.v4 # None =>
         [net |-> endpoint.v4, port |-> endpoint.port] \in held

\* Between operations, a "withdrawn" status without a pending retry means that
\* the DERP map does not list the node.
WithdrawnIsUnpublished ==
  Quiescent /\ state = "withdrawn" /\ ~withdrawRetry => pub = None

Stopped == pc[Loop] \in {"unmapStop", "stopped"}
Serving == endpoint # None /\ pub = endpoint
SomeFamily == Supported("v4") \/ Supported("v6")

\* Once the network, the gateway and the policy API have settled, a loop that
\* was not stopped keeps coming back to a published current endpoint (maintain
\* reconciles whenever there is no endpoint).
Recovers ==
  <>[](calm /\ bindings.ready /\ SomeFamily) => []<>(Serving \/ Stopped)

\* The node is withdrawn only at the failureThreshold'th consecutive failure or
\* later (status.FailureThreshold; TestValidationWithdrawsAfterThreeFailures-
\* AndRecovers).
WithdrawsOnlyAtThreshold ==
  \A p \in Procs : At(p, "withdraw") => failureCount >= failureThreshold

\* "CertificateUpdater refreshes automatic certificate SANs before an endpoint
\* is checked or published": what a reconcile publishes is named by the served
\* certificate, whatever other operations did to it since the reconcile's own
\* refresh.  (Check and Sync refresh nothing; see the README.)
ReconcileCertified ==
  \A p \in Procs : At(p, "publish") /\ op[p] = "reconcile" =>
                     addresses(loc[p].ep) \subseteq sans
=============================================================================
