----------------------- MODULE EndpointManagerProofs -----------------------
(***************************************************************************)
(* Proofs for EndpointManager, for every number of request goroutines,     *)
(* networks and ports and every configuration.  IInv strengthens the       *)
(* properties to what every step preserves: a goroutine past discovery     *)
(* holds an endpoint, every endpoint in the program (local variables       *)
(* included) is Sound for the listeners' bindings, and a mapping is in a   *)
(* local variable only at the steps that will commit or release it.        *)
(*                                                                         *)
(* What the status says (ready, withdrawn) holds under conditions on the   *)
(* configuration, which are the hypotheses of the last two theorems:       *)
(* Serial, where no fail runs beside another operation, and OneWan.        *)
(***************************************************************************)
EXTENDS EndpointManager, TLAPS

\* The steps at which the local endpoint is set.
HasEp ==
  {"validate", "reset", "partialCert", "partialCommit", "unmapPartial",
   "cert", "fingerprint", "verify", "cert2", "commit", "unmapOld", "publish"}

\* The steps at which a local variable may hold a mapping.
Carrying ==
  {"cert", "fingerprint", "verify", "cert2", "commit", "unmapOld",
   "unmapPartial", "unmapActive", "unmapStop"}

\* The endpoint has only families the listeners are bound for, and IPv6 only
\* on the local port.  bindings never change once they are ready.
Sound(e) ==
  /\ bindings.ready
  /\ e.v4 # None => bindings.v4
  /\ e.v6 => bindings.v6 /\ e.port = LocalPort

LocalsInv ==
  /\ \A p \in Procs : pc[p] \in HasEp => loc[p].ep # None
  /\ \A p \in Procs : pc[p] = "map" => bindings.ready

CandInv ==
  /\ \A p \in Procs : loc[p].ep # None => Sound(loc[p].ep)
  /\ endpoint # None => Sound(endpoint)
  /\ pub # None => Sound(pub)

LeaseInv ==
  /\ LeasesAccounted
  /\ \A p \in Procs : loc[p].map # None => pc[p] \in Carrying

IInv == TypeOK /\ LocalsInv /\ CandInv /\ LeaseInv

SnapType ==
  [ep : BOOLEAN, renew : BOOLEAN, sync : BOOLEAN, net : Networks \cup {None}]
-----------------------------------------------------------------------------
\* The validator reports families (LocalValidator.Validate).
LEMMA ValidateType ==
  ASSUME NEW e \in Endpoint, NEW passed \in Validate(e)
  PROVE  passed \in SUBSET {"v4", "v6"}
BY DEF Validate, Reachable, Families

\* Pruning an endpoint yields an endpoint (Endpoint.validated).
LEMMA ValidatedType ==
  ASSUME NEW e \in Endpoint, NEW passed
  PROVE  validated(e, passed) \in Endpoint
BY DEF validated, Endpoint

\* So does moving it back to the local port.
LEMMA OnLocalPortType ==
  ASSUME NEW e \in Endpoint
  PROVE  OnLocalPort(e) \in Endpoint
BY ConfigAssumption DEF OnLocalPort, Endpoint

\* Neither adds a family or pairs IPv6 with a foreign port.
LEMMA ValidatedSound ==
  ASSUME NEW e \in Endpoint, NEW passed, Sound(e)
  PROVE  Sound(validated(e, passed)) /\ Sound(OnLocalPort(e))
BY DEF validated, OnLocalPort, Sound, Endpoint

\* What a jump of one goroutine does to the control state.
LEMMA GotoType ==
  ASSUME NEW p \in Procs, NEW label \in Labels, ThreadsOK, Goto(p, label)
  PROVE  /\ pc' \in [Procs -> Labels]
         /\ pc' = [pc EXCEPT ![p] = label]
         /\ op' = op /\ opMu' = opMu
BY DEF Goto, ThreadsOK

\* What an assignment of one goroutine's locals does.
LEMMA SetType ==
  ASSUME NEW p \in Procs, NEW l \in Locals, ThreadsOK, Set(p, l)
  PROVE  /\ loc' \in [Procs -> Locals]
         /\ loc' = [loc EXCEPT ![p] = l]
BY DEF Set, ThreadsOK

\* The zero value of the local variables.
LEMMA NoLocalsType == NoLocals \in Locals
BY DEF NoLocals, Local, Locals

\* A return keeps the control state well typed.
LEMMA ReturnType ==
  ASSUME NEW p \in Procs, ThreadsOK, Return(p)
  PROVE  /\ pc' \in [Procs -> Labels]
         /\ op' \in [Procs -> {"none", "check", "sync", "reconcile"}]
         /\ loc' \in [Procs -> Locals]
         /\ opMu' \in Procs \cup {None}
<1>1. pc' \in [Procs -> Labels]
  BY DEF Return, ThreadsOK, Labels
<1>2. op' \in [Procs -> {"none", "check", "sync", "reconcile"}]
  BY DEF Return, ThreadsOK
<1>3. loc' \in [Procs -> Locals]
  BY NoLocalsType DEF Return, ThreadsOK
<1>4. opMu' \in Procs \cup {None}
  BY DEF Return, ThreadsOK
<1> QED BY <1>1, <1>2, <1>3, <1>4

\* Typed components make typed local variables.
LEMMA LocalType ==
  ASSUME NEW ep \in Endpoint \cup {None}, NEW map \in Mapping \cup {None},
         NEW passed \in SUBSET {"v4", "v6"}, NEW net \in Networks \cup {None},
         NEW problems \in BOOLEAN
  PROVE  /\ Local(ep, map, passed, net, problems) \in Locals
         /\ Local(ep, map, passed, net, problems).ep = ep
         /\ Local(ep, map, passed, net, problems).map = map
BY DEF Local, Locals

\* A goroutine that moves with a sound local endpoint, and leaves the
\* shared endpoint and the published one alone, keeps all endpoints sound.
LEMMA MoveInv ==
  ASSUME NEW p \in Procs, IInv, NEW label \in Labels, NEW l \in Locals,
         Goto(p, label), Set(p, l),
         label # "map",
         label \in HasEp => l.ep # None,
         l.ep # None => Sound(l.ep),
         UNCHANGED <<snap, bindings, endpoint, pub>>
  PROVE  ThreadsOK' /\ LocalsInv' /\ CandInv'
<1> USE DEF IInv, TypeOK
<1>1. /\ pc' \in [Procs -> Labels] /\ pc' = [pc EXCEPT ![p] = label]
      /\ op' = op /\ opMu' = opMu
  BY GotoType
<1>2. loc' \in [Procs -> Locals] /\ loc' = [loc EXCEPT ![p] = l]
  BY SetType
<1>3. ThreadsOK'
  BY <1>1, <1>2 DEF ThreadsOK
<1>4. LocalsInv'
  BY <1>1, <1>2 DEF ThreadsOK, LocalsInv
<1>5. CandInv'
  BY <1>2 DEF ThreadsOK, CandInv, Sound
<1> QED BY <1>3, <1>4, <1>5

\* A goroutine that releases the mapping it carried, and carries on with the
\* one it added, keeps every mapping accounted for.
LEMMA CarryInv ==
  ASSUME NEW p \in Procs, IInv, NEW label \in Labels, NEW l \in Locals,
         Goto(p, label), Set(p, l),
         label \notin Carrying => l.map = None,
         active' = active,
         held' \subseteq (held \ {loc[p].map}) \cup {l.map}
  PROVE  LeaseInv'
<1> USE DEF IInv, TypeOK
<1>1. /\ pc' \in [Procs -> Labels] /\ pc' = [pc EXCEPT ![p] = label]
  BY GotoType
<1>2. loc' \in [Procs -> Locals] /\ loc' = [loc EXCEPT ![p] = l]
  BY SetType
<1>3. LeasesAccounted'
  <2> SUFFICES ASSUME NEW m \in held', m # active'
               PROVE  \E q \in Procs : m = loc'[q].map
    BY DEF LeasesAccounted
  <2>1. CASE m = l.map
    BY <2>1, <1>2 DEF ThreadsOK
  <2>2. CASE m # l.map
    <3>1. m \in held /\ m # loc[p].map
      BY <2>2
    <3>2. PICK q \in Procs : m = loc[q].map
      BY <3>1 DEF LeaseInv, LeasesAccounted
    <3> QED BY <3>1, <3>2, <1>2 DEF ThreadsOK
  <2> QED BY <2>1, <2>2
<1>4. \A q \in Procs : loc'[q].map # None => pc'[q] \in Carrying
  BY <1>1, <1>2 DEF ThreadsOK, LeaseInv
<1> QED BY <1>3, <1>4 DEF LeaseInv

\* reconcile's error paths release what they mapped (mapping.Release).
LEMMA ReleaseAndFailInv ==
  ASSUME NEW p \in Procs, IInv, ReleaseAndFail(p), active' = active,
         UNCHANGED <<snap, bindings, endpoint, pub>>
  PROVE  ThreadsOK' /\ LocalsInv' /\ CandInv' /\ LeaseInv'
<1>1. Goto(p, "fail") /\ Set(p, NoLocals) /\ held' = held \ {loc[p].map}
  BY DEF ReleaseAndFail, Released
<1>2. NoLocals.ep = None /\ NoLocals.map = None
  BY DEF NoLocals, Local
<1>3. ThreadsOK' /\ LocalsInv' /\ CandInv'
  BY <1>1, <1>2, NoLocalsType, MoveInv DEF Labels, HasEp
<1>4. LeaseInv'
  BY <1>1, <1>2, NoLocalsType, CarryInv DEF Labels
<1> QED BY <1>3, <1>4

\* The same error paths keep the control state well typed.
LEMMA ReleaseAndFailType ==
  ASSUME NEW p \in Procs, ThreadsOK, UNCHANGED snap, ReleaseAndFail(p)
  PROVE  ThreadsOK'
BY GotoType, SetType, NoLocalsType DEF ReleaseAndFail, ThreadsOK, Labels

\* Check and Sync validate the current endpoint.
LEMMA ValidateCurrentInv ==
  ASSUME NEW p \in Procs, IInv, ValidateCurrent(p)
  PROVE  IInv'
<1> USE DEF IInv, TypeOK
<1>1. loc[p].ep \in Endpoint
  BY DEF ValidateCurrent, At, LocalsInv, HasEp, ThreadsOK, Locals
<1>2. UNCHANGED <<snap, bindings, endpoint, pub>>
  BY DEF ValidateCurrent, fieldVars, envVars
<1>3. ASSUME Return(p)
      PROVE  ThreadsOK' /\ LocalsInv' /\ CandInv'
  <2>1. ThreadsOK'
    BY <1>3, <1>2, ReturnType DEF ThreadsOK
  <2>2. LocalsInv' /\ CandInv'
    BY <1>3, <1>2
       DEF Return, ThreadsOK, LocalsInv, HasEp, CandInv, Sound, NoLocals,
           Local
  <2> QED BY <2>1, <2>2
<1>4. ASSUME Goto(p, "fail") /\ Set(p, NoLocals)
      PROVE  ThreadsOK' /\ LocalsInv' /\ CandInv'
  <2>1. ThreadsOK'
    BY <1>4, <1>2, GotoType, SetType, NoLocalsType DEF ThreadsOK, Labels
  <2>2. LocalsInv' /\ CandInv'
    BY <1>4, <1>2
       DEF Goto, Set, ThreadsOK, LocalsInv, HasEp, CandInv, Sound, NoLocals,
           Local
  <2> QED BY <2>1, <2>2
<1>5. ASSUME NEW passed \in Validate(loc[p].ep), NEW label \in {"reset", "partialCert"},
             NEW part \in BOOLEAN,
             Goto(p, label),
             Set(p, Local(validated(loc[p].ep, passed), None, passed, None, part))
      PROVE  ThreadsOK' /\ LocalsInv' /\ CandInv'
  <2> DEFINE e == validated(loc[p].ep, passed)
             l == Local(e, None, passed, None, part)
  <2>1. /\ e \in Endpoint /\ l \in Locals /\ l.ep = e
    BY <1>1, ValidateType, ValidatedType, LocalType
  <2> HIDE DEF l, e
  <2>2. loc' \in [Procs -> Locals] /\ loc' = [loc EXCEPT ![p] = l]
    BY <1>5, <2>1, SetType DEF l, e
  <2>3. pc' \in [Procs -> Labels] /\ pc' = [pc EXCEPT ![p] = label] /\ op' = op /\ opMu' = opMu
    BY <1>5, GotoType DEF Labels
  <2>4. ThreadsOK'
    BY <1>2, <2>2, <2>3 DEF ThreadsOK
  <2>5. LocalsInv'
    BY <1>2, <2>1, <2>2, <2>3, NilAssumption DEF LocalsInv
  <2>6. Sound(loc[p].ep)
    BY <1>1, NilAssumption DEF CandInv
  <2>7. Sound(e)
    BY <1>1, <2>6, ValidatedSound DEF e
  <2>8. CandInv'
    BY <1>2, <2>1, <2>2, <2>7 DEF CandInv, Sound
  <2> QED BY <2>4, <2>5, <2>8
<1>6. ThreadsOK' /\ LocalsInv' /\ CandInv'
  BY <1>3, <1>4, <1>5 DEF ValidateCurrent
<1>7. FieldsOK'
  BY ConfigAssumption, NilAssumption DEF FieldsOK, ValidateCurrent, fieldVars
<1>8. FlagsOK'
  BY ConfigAssumption, NilAssumption DEF FlagsOK, ValidateCurrent, fieldVars
<1>9. WorldOK'
  BY ConfigAssumption, NilAssumption DEF WorldOK, ValidateCurrent, envVars
<1>10. (failureCount \in 0 .. FailureCap)'
  BY ConfigAssumption, NilAssumption DEF ValidateCurrent, fieldVars
<1>11. LeaseInv'
  BY DEF ThreadsOK, FieldsOK, LeaseInv, LeasesAccounted, Carrying,
         ValidateCurrent, At, Goto, Set, Local, NoLocals, Return, fieldVars
<1> QED BY <1>6, <1>7, <1>8, <1>9, <1>10, <1>11

\* applyPartialValidation updates the certificate.
LEMMA PartialCertInv ==
  ASSUME NEW p \in Procs, IInv, PartialCert(p)
  PROVE  IInv'
<1> USE DEF IInv, TypeOK
<1>1. UNCHANGED <<snap, active, held>>
  BY DEF PartialCert, fieldVars
<1>2. ASSUME Goto(p, "partialCommit") /\ UNCHANGED loc
      PROVE  ThreadsOK' /\ LeaseInv'
  BY <1>2, <1>1, GotoType
     DEF ThreadsOK, Labels, LeaseInv, LeasesAccounted, Carrying, PartialCert,
         At
<1>3. ASSUME Goto(p, "fail") /\ Set(p, NoLocals)
      PROVE  ThreadsOK' /\ LeaseInv'
  <2>1. ThreadsOK'
    BY <1>3, <1>1, GotoType, SetType, NoLocalsType DEF ThreadsOK, Labels
  <2>2. loc[p].map = None
    BY DEF PartialCert, At, LeaseInv, Carrying
  <2>3. LeaseInv'
    BY <1>3, <1>1, <2>2
       DEF Goto, Set, LeaseInv, LeasesAccounted, NoLocals, Local
  <2> QED BY <2>1, <2>3
<1>4. ThreadsOK' /\ LeaseInv'
  BY <1>2, <1>3 DEF PartialCert
<1>5. FieldsOK'
  BY ConfigAssumption, NilAssumption DEF FieldsOK, PartialCert, fieldVars
<1>6. FlagsOK'
  BY ConfigAssumption, NilAssumption DEF FlagsOK, PartialCert, fieldVars
<1>7. WorldOK'
  BY NilAssumption DEF WorldOK, PartialCert, addresses, envVars
<1>8. (failureCount \in 0 .. FailureCap)'
  BY ConfigAssumption, NilAssumption DEF PartialCert, fieldVars
<1>9. LocalsInv'
  BY DEF ThreadsOK, LocalsInv, HasEp, PartialCert, At, Goto, Set, envVars
<1>10. CandInv'
  BY DEF ThreadsOK, CandInv, Sound, PartialCert, Set, Local, NoLocals,
         fieldVars, envVars
<1> QED BY <1>4, <1>5, <1>6, <1>7, <1>8, <1>9, <1>10

\* applyPartialValidation commits the pruned endpoint.
LEMMA PartialCommitInv ==
  ASSUME NEW p \in Procs, IInv, PartialCommit(p)
  PROVE  IInv'
<1> USE DEF IInv, TypeOK
<1>1. loc[p].ep \in Endpoint
  BY DEF PartialCommit, At, LocalsInv, HasEp, ThreadsOK, Locals
<1>2. OnLocalPort(loc[p].ep) \in Endpoint
  BY <1>1, OnLocalPortType
<1>3. FieldsOK'
  BY <1>1, <1>2 DEF PartialCommit, FieldsOK, States
<1>4. bindings' = bindings
  BY DEF PartialCommit, envVars
<1>5. LocalsInv'
  BY <1>1, <1>2, <1>4, NilAssumption
     DEF PartialCommit, Goto, Set, Local, LocalsInv
<1>6. FieldsOK' /\ LocalsInv'
  BY <1>3, <1>5
<1>7. ThreadsOK'
  BY ConfigAssumption
     DEF ThreadsOK, FieldsOK, Labels, Locals, Endpoint, HasEp, LocalsInv,
         PartialCommit, At, Goto, Set, Local, OnLocalPort
<1>8. FlagsOK'
  BY ConfigAssumption, NilAssumption DEF FlagsOK, PartialCommit, OnLocalPort
<1>9. WorldOK'
  BY ConfigAssumption, NilAssumption DEF WorldOK, PartialCommit, envVars
<1>10. (failureCount \in 0 .. FailureCap)'
  BY NilAssumption
     DEF FailureCap, failureThreshold, PartialCommit, OnLocalPort
<1>11. CandInv'
  BY DEF LocalsInv, CandInv, Sound, HasEp, PartialCommit, At, Set, Local,
         OnLocalPort, envVars
<1>12. LeaseInv'
  BY DEF ThreadsOK, LeaseInv, LeasesAccounted, Carrying, PartialCommit, At,
         Goto, Set, Local
<1> QED BY <1>6, <1>7, <1>8, <1>9, <1>10, <1>11, <1>12

\* applyPartialValidation releases the mapping IPv4 had.
LEMMA UnmapPartialInv ==
  ASSUME NEW p \in Procs, IInv, UnmapPartial(p)
  PROVE  IInv'
<1> USE DEF IInv, TypeOK
<1>1. ThreadsOK'
  BY DEF ThreadsOK, Labels, Locals, UnmapPartial, Goto, Set, Local, SetMap
<1>2. FieldsOK'
  BY ConfigAssumption, NilAssumption DEF FieldsOK, UnmapPartial, fieldVars
<1>3. FlagsOK'
  BY ConfigAssumption, NilAssumption DEF FlagsOK, UnmapPartial, fieldVars
<1>4. WorldOK'
  BY NilAssumption DEF WorldOK, UnmapPartial, Released, envVars
<1>5. (failureCount \in 0 .. FailureCap)'
  BY ConfigAssumption, NilAssumption DEF UnmapPartial, fieldVars
<1>6. LocalsInv'
  BY DEF LocalsInv, HasEp, UnmapPartial, At, Goto, Set, Local, SetMap, envVars
<1>7. CandInv'
  BY DEF CandInv, Sound, UnmapPartial, Set, Local, SetMap, fieldVars, envVars
<1>8. LeaseInv'
  BY DEF ThreadsOK, LeaseInv, LeasesAccounted, UnmapPartial, Goto, Set, Local,
         SetMap, Released, fieldVars
<1> QED BY <1>1, <1>2, <1>3, <1>4, <1>5, <1>6, <1>7, <1>8

\* resetValidationFailures.
LEMMA resetValidationFailuresInv ==
  ASSUME NEW p \in Procs, IInv, resetValidationFailures(p)
  PROVE  IInv'
<1> USE DEF IInv, TypeOK
<1>1. UNCHANGED snap
  BY DEF resetValidationFailures
<1>2. ASSUME Return(p)
      PROVE  ThreadsOK'
  BY <1>1, <1>2, ReturnType DEF ThreadsOK, TypeOK
<1>3. ASSUME Goto(p, "publish") /\ UNCHANGED loc
      PROVE  ThreadsOK'
  BY <1>1, <1>3, GotoType DEF ThreadsOK, Labels
<1>4. ThreadsOK'
  BY <1>2, <1>3 DEF resetValidationFailures
<1>5. FieldsOK'
  BY DEF FieldsOK, States, Endpoint, Mapping, resetValidationFailures
<1>6. FlagsOK'
  BY ConfigAssumption, NilAssumption DEF FlagsOK, resetValidationFailures
<1>7. WorldOK'
  BY ConfigAssumption, NilAssumption
     DEF WorldOK, resetValidationFailures, envVars
<1>8. (failureCount \in 0 .. FailureCap)'
  BY ConfigAssumption, NilAssumption
     DEF FailureCap, failureThreshold, resetValidationFailures
<1>9. LocalsInv'
  BY NilAssumption
     DEF ThreadsOK, LocalsInv, HasEp, resetValidationFailures, At, Goto,
         Return, envVars
<1>10. CandInv'
  BY DEF ThreadsOK, CandInv, Sound, resetValidationFailures, Return, NoLocals,
         Local, envVars
<1>11. LeaseInv'
  BY ConfigAssumption
     DEF ThreadsOK, FieldsOK, LeaseInv, LeasesAccounted, Carrying,
         resetValidationFailures, At, Goto, Return, NoLocals, Local
<1> QED BY <1>4, <1>5, <1>6, <1>7, <1>8, <1>9, <1>10, <1>11

\* reconcile builds a candidate; a mapping whose port clashes with IPv6 is
\* released at once.
LEMMA DiscoverInv ==
  ASSUME NEW p \in Procs, IInv, Discover(p)
  PROVE  IInv'
<1> USE DEF IInv, TypeOK
<1>1. UNCHANGED <<snap, bindings, endpoint, pub, active>> /\ loc[p].map = None /\ loc[p].ep \in Endpoint \cup {None}
  BY DEF Discover, At, fieldVars, envVars, LeaseInv, Carrying, ThreadsOK,
         Locals
<1>2. bindings.ready
  BY DEF Discover, At, LocalsInv
<1>3. ASSUME NEW m \in MapResults, NEW ok4 \in Outcome, NEW v6 \in BOOLEAN, NEW lost \in BOOLEAN,
             v6 => Supported("v6"),
             held' = (held \ {m}) \cup ({Kept(m, v6)} \ {None}),
             \/ Goto(p, "fail") /\ UNCHANGED loc /\ Families(Candidate(Kept(m, v6), ok4, v6)) = {}
             \/ Goto(p, "cert") /\ Set(p, Local(Candidate(Kept(m, v6), ok4, v6), Kept(m, v6), {}, None, lost))
      PROVE  ThreadsOK' /\ LocalsInv' /\ CandInv' /\ LeaseInv'
  <2> DEFINE kept == Kept(m, v6)
             cand == Candidate(kept, ok4, v6)
             l == Local(cand, kept, {}, None, lost)
  <2>1. kept \in Mapping \cup {None}
    BY DEF Kept, MapResults, Mapping, WorldOK
  <2>2. kept # None => bindings.v4 /\ Supported("v4") /\ NatMode
    BY DEF Kept, MapResults, Supported
  <2>3. kept # None /\ v6 => kept.port = LocalPort
    BY DEF Kept, PortClash
  <2> HIDE DEF kept
  <2>4. cand \in Endpoint
    BY <2>1, ConfigAssumption DEF Candidate, Endpoint, Mapping, WorldOK
  <2>5. Sound(cand)
    BY <1>3, <1>2, <2>2, <2>3 DEF Sound, Candidate, Supported
  <2> HIDE DEF cand
  <2>6. l \in Locals /\ l.ep = cand /\ l.map = kept
    BY <2>1, <2>4, LocalType
  <2>7. CASE Goto(p, "cert") /\ Set(p, l)
    <3> HIDE DEF l
    <3>1. ThreadsOK' /\ LocalsInv' /\ CandInv'
      BY <1>1, <2>5, <2>6, <2>7, <2>4, NilAssumption, MoveInv DEF Labels
    <3>2. held' \subseteq (held \ {loc[p].map}) \cup {l.map}
      BY <1>1, <1>3, <2>6, NilAssumption DEF kept, WorldOK
    <3>3. LeaseInv'
      BY <1>1, <2>6, <2>7, <3>2, CarryInv DEF Labels, Carrying
    <3> QED BY <3>1, <3>3
  <2>8. CASE Goto(p, "fail") /\ UNCHANGED loc /\ Families(cand) = {}
    <3>0. kept = None
      BY <2>8, <2>1, <2>2, ConfigAssumption
         DEF cand, Families, Candidate, Mapping
    <3>1. ThreadsOK'
      BY <2>8, <1>1, GotoType DEF ThreadsOK, Labels
    <3>2. LocalsInv' /\ CandInv'
      BY <2>8, <1>1 DEF LocalsInv, CandInv, Sound, Goto, HasEp
    <3>3. held' \subseteq held
      BY <1>3, <3>0 DEF kept
    <3>4. LeaseInv'
      BY <2>8, <1>1, <3>3 DEF LeaseInv, LeasesAccounted, Goto
    <3> QED BY <3>1, <3>2, <3>4
  <2> QED BY <1>3, <2>7, <2>8 DEF cand, kept
<1>4. \A ok6 \in Outcome : (Supported("v6") /\ ok6) \in BOOLEAN
  OBVIOUS
<1>5. ThreadsOK' /\ LocalsInv' /\ CandInv' /\ LeaseInv'
  BY <1>3, <1>4 DEF Discover
<1>6. FieldsOK'
  BY ConfigAssumption, NilAssumption DEF FieldsOK, Discover, fieldVars
<1>7. FlagsOK'
  BY ConfigAssumption, NilAssumption DEF FlagsOK, Discover, fieldVars
<1>8. WorldOK'
  BY DEF WorldOK, Mapping, Discover, Kept, MapResults, envVars
<1>9. (failureCount \in 0 .. FailureCap)'
  BY ConfigAssumption, NilAssumption DEF Discover, fieldVars
<1> QED BY <1>5, <1>6, <1>7, <1>8, <1>9

\* reconcile refreshes the certificate, or releases and fails.
LEMMA UpdateEndpointIPsInv ==
  ASSUME NEW p \in Procs, IInv, UpdateEndpointIPs(p)
  PROVE  IInv'
<1> USE DEF IInv, TypeOK
<1>1. UNCHANGED snap
  BY DEF UpdateEndpointIPs
<1>2. ASSUME ReleaseAndFail(p)
      PROVE  ThreadsOK'
  BY <1>1, <1>2, ReleaseAndFailType
<1>3. ASSUME NEW label \in {"fingerprint", "commit"}, Goto(p, label), UNCHANGED loc
      PROVE  ThreadsOK'
  BY <1>1, <1>3, GotoType DEF ThreadsOK, Labels
<1>4. ThreadsOK'
  BY <1>2, <1>3 DEF UpdateEndpointIPs
<1>5. FieldsOK'
  BY ConfigAssumption, NilAssumption
     DEF FieldsOK, UpdateEndpointIPs, fieldVars
<1>6. FlagsOK'
  BY ConfigAssumption, NilAssumption DEF FlagsOK, UpdateEndpointIPs, fieldVars
<1>7. WorldOK'
  BY DEF WorldOK, UpdateEndpointIPs, ReleaseAndFail, Released, addresses,
         envVars
<1>8. (failureCount \in 0 .. FailureCap)'
  BY ConfigAssumption, NilAssumption DEF UpdateEndpointIPs, fieldVars
<1>9. LocalsInv'
  BY DEF ThreadsOK, LocalsInv, HasEp, UpdateEndpointIPs, At, Goto, Set,
         ReleaseAndFail, envVars
<1>10. CandInv'
  BY DEF ThreadsOK, CandInv, Sound, UpdateEndpointIPs, Set, Local, NoLocals,
         ReleaseAndFail, fieldVars, envVars
<1>11. LeaseInv'
  BY NilAssumption
     DEF ThreadsOK, LeaseInv, LeasesAccounted, Carrying, UpdateEndpointIPs,
         Goto, Set, Local, NoLocals, ReleaseAndFail, Released, fieldVars
<1> QED BY <1>4, <1>5, <1>6, <1>7, <1>8, <1>9, <1>10, <1>11

\* reconcile reads the route's fingerprint, or releases and fails.
LEMMA FingerprintInv ==
  ASSUME NEW p \in Procs, IInv, Fingerprint(p)
  PROVE  IInv'
<1> USE DEF IInv, TypeOK
<1>1. UNCHANGED snap
  BY DEF Fingerprint
<1>2. ASSUME ReleaseAndFail(p)
      PROVE  ThreadsOK'
  BY <1>1, <1>2, ReleaseAndFailType
<1>3. ASSUME NEW label \in {"verify", "commit"}, Goto(p, label),
             UNCHANGED loc \/ SetNet(p, wan)
      PROVE  ThreadsOK'
  <2>1. Local(loc[p].ep, loc[p].map, loc[p].passed, wan, loc[p].problems) \in Locals
    <3>1. loc[p] \in Locals /\ wan \in Networks
      BY DEF ThreadsOK, WorldOK
    <3> QED BY <3>1 DEF Local, Locals
  <2> QED BY <1>1, <1>3, <2>1, GotoType, SetType DEF ThreadsOK, Labels, SetNet
<1>4. ThreadsOK'
  BY <1>2, <1>3 DEF Fingerprint
<1>5. FieldsOK'
  BY ConfigAssumption, NilAssumption DEF FieldsOK, Fingerprint, fieldVars
<1>6. FlagsOK'
  BY ConfigAssumption, NilAssumption DEF FlagsOK, Fingerprint, fieldVars
<1>7. WorldOK'
  BY DEF WorldOK, Fingerprint, ReleaseAndFail, Released, envVars
<1>8. (failureCount \in 0 .. FailureCap)'
  BY ConfigAssumption, NilAssumption DEF Fingerprint, fieldVars
<1>9. LocalsInv'
  BY DEF ThreadsOK, LocalsInv, HasEp, Fingerprint, At, Goto, Set, Local,
         SetNet, ReleaseAndFail, envVars
<1>10. CandInv'
  BY DEF ThreadsOK, WorldOK, CandInv, Sound, Fingerprint, Set, Local,
         NoLocals, SetNet, ReleaseAndFail, fieldVars, envVars
<1>11. LeaseInv'
  BY NilAssumption
     DEF ThreadsOK, LeaseInv, LeasesAccounted, Carrying, Fingerprint, Goto,
         Set, Local, NoLocals, SetNet, ReleaseAndFail, Released, fieldVars
<1> QED BY <1>4, <1>5, <1>6, <1>7, <1>8, <1>9, <1>10, <1>11

\* reconcile validates the candidate and drops what did not pass.
LEMMA ValidateCandidateInv ==
  ASSUME NEW p \in Procs, IInv, ValidateCandidate(p)
  PROVE  IInv'
<1> USE DEF IInv, TypeOK
<1>1. loc[p].ep \in Endpoint /\ loc[p] \in Locals
  BY DEF ValidateCandidate, At, LocalsInv, HasEp, ThreadsOK, Locals
<1>2. UNCHANGED <<snap, bindings, endpoint, pub, active>>
  BY DEF ValidateCandidate, envVars
<1>3. ASSUME ReleaseAndFail(p)
      PROVE  ThreadsOK' /\ LocalsInv' /\ CandInv' /\ LeaseInv'
  BY <1>2, <1>3, ReleaseAndFailInv
<1>4. ASSUME NEW passed \in Validate(loc[p].ep), NEW unmap \in BOOLEAN, NEW probs \in BOOLEAN,
             held' = IF unmap THEN Released(loc[p].map) ELSE held,
             Set(p, Local(IF unmap THEN OnLocalPort(validated(loc[p].ep, passed)) ELSE validated(loc[p].ep, passed),
                             IF unmap THEN None ELSE loc[p].map,
                             passed,
                             IF unmap THEN None ELSE loc[p].net,
                             probs)),
             Goto(p, "cert2")
      PROVE  ThreadsOK' /\ LocalsInv' /\ CandInv' /\ LeaseInv'
  <2> DEFINE left == validated(loc[p].ep, passed)
             e == IF unmap THEN OnLocalPort(left) ELSE left
             m == IF unmap THEN None ELSE loc[p].map
             n == IF unmap THEN None ELSE loc[p].net
             l == Local(e, m, passed, n, probs)
  <2>1. e \in Endpoint
    BY <1>1, ValidatedType, OnLocalPortType
  <2>2. m \in Mapping \cup {None} /\ n \in Networks \cup {None}
    BY <1>1 DEF Locals
  <2>3. Sound(e)
    BY <1>1, NilAssumption, ValidatedSound, ValidatedType DEF CandInv
  <2>4. l \in Locals /\ l.ep = e /\ l.map = m
    <3> HIDE DEF e, m, n
    <3> QED BY <1>1, <2>1, <2>2, LocalType, ValidateType
  <2>5. Set(p, l)
    BY <1>4
  <2>6. held' \subseteq (held \ {loc[p].map}) \cup {m}
    BY <1>4 DEF Released
  <2> HIDE DEF l, m, n, e
  <2>7. ThreadsOK' /\ LocalsInv' /\ CandInv'
    BY <1>4, <1>2, <2>1, <2>3, <2>4, <2>5, NilAssumption, MoveInv DEF Labels
  <2>8. LeaseInv'
    BY <1>4, <1>2, <2>4, <2>5, <2>6, CarryInv DEF Labels, Carrying
  <2> QED BY <2>7, <2>8
<1>5. ThreadsOK' /\ LocalsInv' /\ CandInv' /\ LeaseInv'
  BY <1>3, <1>4 DEF ValidateCandidate
<1>6. FieldsOK'
  BY DEF FieldsOK, States, Mapping, ValidateCandidate, OnLocalPort
<1>7. FlagsOK'
  BY ConfigAssumption, NilAssumption
     DEF FlagsOK, ValidateCandidate, OnLocalPort
<1>8. WorldOK'
  BY DEF WorldOK, ValidateCandidate, ReleaseAndFail, Released, envVars
<1>9. (failureCount \in 0 .. FailureCap)'
  BY NilAssumption
     DEF FailureCap, failureThreshold, ValidateCandidate, OnLocalPort
<1> QED BY <1>5, <1>6, <1>7, <1>8, <1>9

\* reconcile commits the candidate; the replaced mapping stays in hand.
LEMMA CommitInv ==
  ASSUME NEW p \in Procs, IInv, Commit(p)
  PROVE  IInv'
<1> USE DEF IInv, TypeOK
<1>1. ThreadsOK'
  BY DEF ThreadsOK, FieldsOK, Labels, Locals, Commit, Goto, Set, SetMap, Local
<1>2. FieldsOK'
  BY DEF ThreadsOK, FieldsOK, Locals, States, Commit
<1>3. FlagsOK'
  BY ConfigAssumption, NilAssumption DEF FlagsOK, Commit
<1>4. WorldOK'
  BY ConfigAssumption, NilAssumption DEF WorldOK, Commit, envVars
<1>5. (failureCount \in 0 .. FailureCap)'
  BY ConfigAssumption, NilAssumption DEF FailureCap, failureThreshold, Commit
<1>6. LocalsInv'
  BY DEF LocalsInv, HasEp, Commit, At, Goto, Set, SetMap, Local, envVars
<1>7. CandInv'
  BY DEF CandInv, Sound, Commit, Set, SetMap, Local, envVars
<1>8. LeaseInv'
  BY DEF ThreadsOK, LeaseInv, LeasesAccounted, Carrying, Commit, Goto, Set,
         SetMap, Local, Replaced
<1> QED BY <1>1, <1>2, <1>3, <1>4, <1>5, <1>6, <1>7, <1>8

\* reconcile releases the replaced mapping.
LEMMA UnmapOldInv ==
  ASSUME NEW p \in Procs, IInv, UnmapOld(p)
  PROVE  IInv'
<1> USE DEF IInv, TypeOK
<1>1. ThreadsOK'
  BY DEF ThreadsOK, Labels, Locals, UnmapOld, Goto, Set, Local, SetMap
<1>2. FieldsOK'
  BY ConfigAssumption, NilAssumption DEF FieldsOK, UnmapOld, fieldVars
<1>3. FlagsOK'
  BY ConfigAssumption, NilAssumption DEF FlagsOK, UnmapOld, fieldVars
<1>4. WorldOK'
  BY NilAssumption DEF WorldOK, UnmapOld, Released, envVars
<1>5. (failureCount \in 0 .. FailureCap)'
  BY ConfigAssumption, NilAssumption DEF UnmapOld, fieldVars
<1>6. LocalsInv'
  BY DEF LocalsInv, HasEp, UnmapOld, At, Goto, Set, Local, SetMap, envVars
<1>7. CandInv'
  BY DEF CandInv, Sound, UnmapOld, Set, Local, SetMap, fieldVars, envVars
<1>8. LeaseInv'
  BY DEF ThreadsOK, LeaseInv, LeasesAccounted, UnmapOld, Goto, Set, Local,
         SetMap, Released, fieldVars
<1> QED BY <1>1, <1>2, <1>3, <1>4, <1>5, <1>6, <1>7, <1>8

\* publish.
LEMMA PublishInv ==
  ASSUME NEW p \in Procs, IInv, Publish(p)
  PROVE  IInv'
<1> USE DEF IInv, TypeOK
<1>1. ThreadsOK'
  BY DEF ThreadsOK, Labels, Locals, Publish, Return, NoLocals, Local
<1>2. FieldsOK'
  BY DEF FieldsOK, States, Endpoint, Mapping, Publish
<1>3. FlagsOK'
  BY ConfigAssumption, NilAssumption DEF FlagsOK, Publish
<1>4. WorldOK'
  BY DEF ThreadsOK, WorldOK, Locals, Publish, envVars
<1>5. (failureCount \in 0 .. FailureCap)'
  BY ConfigAssumption, NilAssumption DEF FailureCap, failureThreshold, Publish
<1>6. LocalsInv'
  BY DEF ThreadsOK, LocalsInv, HasEp, Publish, Return, envVars
<1>7. CandInv'
  BY DEF CandInv, Sound, Publish, Return, NoLocals, Local, envVars
<1>8. LeaseInv'
  BY DEF LeaseInv, LeasesAccounted, Carrying, Publish, At, Return, NoLocals,
         Local
<1> QED BY <1>1, <1>2, <1>3, <1>4, <1>5, <1>6, <1>7, <1>8

\* fail counts the failure, with or without opMu.
LEMMA FailInv ==
  ASSUME NEW p \in Procs, IInv, Fail(p)
  PROVE  IInv'
<1> USE DEF IInv, TypeOK
<1>1. UNCHANGED <<snap, active, held>> /\ loc[p].map = None
  BY DEF Fail, At, LeaseInv, Carrying
<1>2. ASSUME Return(p)
      PROVE  ThreadsOK' /\ LeaseInv'
  <2>1. ThreadsOK'
    BY <1>2, <1>1, ReturnType DEF ThreadsOK
  <2>2. LeaseInv'
    BY <1>2, <1>1 DEF Return, LeaseInv, LeasesAccounted, NoLocals, Local
  <2> QED BY <2>1, <2>2
<1>3. ASSUME Goto(p, "withdraw") /\ UNCHANGED loc
      PROVE  ThreadsOK' /\ LeaseInv'
  BY <1>3, <1>1, GotoType DEF ThreadsOK, Labels, LeaseInv, LeasesAccounted
<1>4. ThreadsOK' /\ LeaseInv'
  BY <1>2, <1>3 DEF Fail
<1>5. FieldsOK'
  BY DEF FieldsOK, States, Endpoint, Mapping, Fail
<1>6. FlagsOK'
  BY ConfigAssumption, NilAssumption DEF FlagsOK, Fail
<1>7. WorldOK'
  BY ConfigAssumption, NilAssumption DEF WorldOK, Fail, envVars
<1>8. (failureCount \in 0 .. FailureCap)'
  BY ConfigAssumption, NilAssumption DEF FailureCap, failureThreshold, Fail
<1>9. LocalsInv'
  BY DEF ThreadsOK, LocalsInv, HasEp, Fail, Goto, Return, envVars
<1>10. CandInv'
  BY DEF ThreadsOK, CandInv, Sound, Fail, Return, NoLocals, Local, envVars
<1> QED BY <1>4, <1>5, <1>6, <1>7, <1>8, <1>9, <1>10

\* fail withdraws the node.
LEMMA WithdrawInv ==
  ASSUME NEW p \in Procs, IInv, Withdraw(p)
  PROVE  IInv'
<1> USE DEF IInv, TypeOK
<1>1. ThreadsOK'
  BY DEF ThreadsOK, Labels, Withdraw, Goto, envVars
<1>2. FieldsOK'
  BY DEF FieldsOK, States, Mapping, Withdraw, StillPending
<1>3. FlagsOK'
  BY ConfigAssumption, NilAssumption DEF FlagsOK, Withdraw, StillPending
<1>4. WorldOK'
  BY ConfigAssumption, NilAssumption DEF WorldOK, Withdraw, envVars
<1>5. (failureCount \in 0 .. FailureCap)'
  BY NilAssumption DEF FailureCap, failureThreshold, Withdraw, StillPending
<1>6. LocalsInv'
  BY DEF LocalsInv, HasEp, Withdraw, Goto, envVars
<1>7. CandInv'
  BY DEF CandInv, Sound, Withdraw, Goto, envVars
<1>8. LeaseInv'
  BY DEF LeaseInv, LeasesAccounted, Carrying, Withdraw, At, Goto
<1> QED BY <1>1, <1>2, <1>3, <1>4, <1>5, <1>6, <1>7, <1>8

\* releaseActive forgets endpoint and mapping, keeping the mapping in hand.
LEMMA ReleaseActiveInv ==
  ASSUME NEW p \in Procs, IInv, ReleaseActive(p)
  PROVE  IInv'
<1> USE DEF IInv, TypeOK
<1>1. ThreadsOK'
  BY DEF ThreadsOK, FieldsOK, Labels, Locals, ReleaseActive, Goto,
         ForgetActive, Set, Local
<1>2. FieldsOK'
  BY DEF FieldsOK, Endpoint, Mapping, ReleaseActive, ForgetActive
<1>3. FlagsOK'
  BY ConfigAssumption, NilAssumption DEF FlagsOK, ReleaseActive, ForgetActive
<1>4. WorldOK'
  BY ConfigAssumption, NilAssumption DEF WorldOK, ReleaseActive, envVars
<1>5. (failureCount \in 0 .. FailureCap)'
  BY NilAssumption
     DEF FailureCap, failureThreshold, ReleaseActive, ForgetActive
<1>6. LocalsInv'
  BY DEF LocalsInv, HasEp, ReleaseActive, At, Goto, ForgetActive, Set, Local,
         envVars
<1>7. CandInv'
  BY DEF CandInv, Sound, ReleaseActive, ForgetActive, Set, Local, envVars
<1>8. LeaseInv'
  BY DEF ThreadsOK, LeaseInv, LeasesAccounted, Carrying, ReleaseActive, At,
         Goto, ForgetActive, Set, Local
<1> QED BY <1>1, <1>2, <1>3, <1>4, <1>5, <1>6, <1>7, <1>8

\* releaseActive releases the mapping.
LEMMA UnmapActiveInv ==
  ASSUME NEW p \in Procs, IInv, UnmapActive(p)
  PROVE  IInv'
<1> USE DEF IInv, TypeOK
<1>1. ThreadsOK'
  BY DEF ThreadsOK, Labels, Locals, UnmapActive, Return, NoLocals, Local
<1>2. FieldsOK'
  BY ConfigAssumption, NilAssumption DEF FieldsOK, UnmapActive, fieldVars
<1>3. FlagsOK'
  BY ConfigAssumption, NilAssumption DEF FlagsOK, UnmapActive, fieldVars
<1>4. WorldOK'
  BY NilAssumption DEF WorldOK, UnmapActive, Released, envVars
<1>5. (failureCount \in 0 .. FailureCap)'
  BY ConfigAssumption, NilAssumption DEF UnmapActive, fieldVars
<1>6. LocalsInv'
  BY DEF LocalsInv, HasEp, UnmapActive, At, Return, envVars
<1>7. CandInv'
  BY DEF CandInv, Sound, UnmapActive, Return, NoLocals, Local, fieldVars,
         envVars
<1>8. LeaseInv'
  BY DEF ThreadsOK, LeaseInv, LeasesAccounted, UnmapActive, Return, NoLocals,
         Local, Released, fieldVars
<1> QED BY <1>1, <1>2, <1>3, <1>4, <1>5, <1>6, <1>7, <1>8

\* A step that only moves a goroutine between the entry points.
LEMMA StillInv ==
  ASSUME NEW p \in Procs, IInv, NEW label \in Labels \ (HasEp \cup {"map"}),
         NEW k \in {"none", "check", "sync", "reconcile"},
         pc[p] \in {"idle", "lock", "probe"},
         pc' = [pc EXCEPT ![p] = label], op' = [op EXCEPT ![p] = k],
         opMu' \in Procs \cup {None},
         snap' \in [ep : BOOLEAN, renew : BOOLEAN, sync : BOOLEAN,
                    net : Networks \cup {None}],
         UNCHANGED <<loc, fieldVars, held, sans, pub, envVars>>
  PROVE  IInv'
<1> USE DEF IInv, TypeOK, fieldVars, envVars
<1>1. ThreadsOK'
  BY DEF ThreadsOK
<1>2. FieldsOK' /\ FlagsOK'
  BY DEF FieldsOK, FlagsOK
<1>3. WorldOK'
  BY DEF WorldOK
<1>4. (failureCount \in 0 .. FailureCap)'
  OBVIOUS
<1>5. LocalsInv'
  BY DEF ThreadsOK, LocalsInv
<1>6. CandInv'
  BY DEF CandInv, Sound
<1>7. LeaseInv'
  BY DEF ThreadsOK, LeaseInv, LeasesAccounted, Carrying
<1> QED BY <1>1, <1>2, <1>3, <1>5, <1>6, <1>7

\* handleExternalAction starts an operation.
LEMMA RequestInv ==
  ASSUME NEW p \in Callers, IInv, Request(p)
  PROVE  IInv'
<1>1. p \in Procs /\ "lock" \in Labels \ (HasEp \cup {"map"})
  BY DEF Procs, Labels, HasEp
<1>2. PICK k \in {"check", "sync", "reconcile"} : op' = [op EXCEPT ![p] = k]
  BY DEF Request
<1>3. opMu' \in Procs \cup {None} /\ snap' = snap /\ pc[p] = "idle"
  BY DEF Request, At, IInv, TypeOK, ThreadsOK
<1>4. snap' \in [ep : BOOLEAN, renew : BOOLEAN, sync : BOOLEAN,
                 net : Networks \cup {None}]
  BY <1>3 DEF IInv, TypeOK, ThreadsOK
<1> QED BY <1>1, <1>3, <1>4, StillInv DEF Request

\* The switch that ends maintain only picks an operation.
LEMMA DispatchEffect ==
  ASSUME NEW s, Dispatch(s)
  PROVE  \E k \in {"none", "check", "sync", "reconcile"}, label \in {"idle", "lock"} :
           pc' = [pc EXCEPT ![Loop] = label] /\ op' = [op EXCEPT ![Loop] = k]
BY DEF Dispatch

\* maintain reads its snapshot.
LEMMA MaintainInv ==
  ASSUME IInv, Maintain
  PROVE  IInv'
<1> USE DEF IInv, TypeOK
<1>1. Loop \in Procs
  BY DEF Procs
<1>2. /\ UNCHANGED <<loc, opMu, fieldVars, held, sans, pub, envVars>>
      /\ pc[Loop] = "idle" /\ opMu' \in Procs \cup {None}
  BY DEF Maintain, At, ThreadsOK
<1>3. snap' \in SnapType
  <2>1. (endpoint # None) \in BOOLEAN /\ renewDue \in BOOLEAN /\ syncDue \in BOOLEAN
        /\ network \in Networks \cup {None}
    BY DEF FlagsOK, FieldsOK
  <2>2. [ep |-> endpoint # None, renew |-> renewDue, sync |-> syncDue, net |-> network] \in SnapType
    BY <2>1 DEF SnapType
  <2>3. snap \in SnapType
    BY DEF ThreadsOK, SnapType
  <2> QED BY <2>2, <2>3 DEF Maintain
<1>4. CASE pc' = [pc EXCEPT ![Loop] = "probe"] /\ UNCHANGED op
  <2>1. op' = [op EXCEPT ![Loop] = op[Loop]]
        /\ op[Loop] \in {"none", "check", "sync", "reconcile"}
    BY <1>1, <1>4 DEF ThreadsOK
  <2> QED BY <1>1, <1>2, <1>3, <1>4, <2>1, StillInv
             DEF SnapType, Labels, HasEp
<1>5. ASSUME NEW s, Dispatch(s)
      PROVE  IInv'
  BY <1>1, <1>2, <1>3, <1>5, DispatchEffect, StillInv
     DEF SnapType, Labels, HasEp
<1> QED BY <1>4, <1>5 DEF Maintain

\* maintain probes the route and dispatches on its snapshot.
LEMMA ProbeInv ==
  ASSUME IInv, Probe
  PROVE  IInv'
<1> USE DEF IInv, TypeOK
<1>1. Loop \in Procs
  BY DEF Procs
<1>2. /\ UNCHANGED <<loc, opMu, fieldVars, held, sans, pub, envVars>>
      /\ pc[Loop] = "probe" /\ opMu' \in Procs \cup {None}
  BY DEF Probe, At, ThreadsOK, Goto
<1>3. snap' \in SnapType
  BY DEF Probe, NoSnap, SnapType
<1>4. CASE Goto(Loop, "fail")
  <2>1. op' = [op EXCEPT ![Loop] = op[Loop]]
        /\ op[Loop] \in {"none", "check", "sync", "reconcile"}
        /\ pc' = [pc EXCEPT ![Loop] = "fail"]
    BY <1>1, <1>4 DEF ThreadsOK, Goto
  <2> QED BY <1>1, <1>2, <1>3, <2>1, StillInv DEF SnapType, Labels, HasEp
<1>5. CASE /\ op' = [op EXCEPT ![Loop] = "reconcile"]
           /\ pc' = [pc EXCEPT ![Loop] = "lock"]
  BY <1>1, <1>2, <1>3, <1>5, StillInv DEF SnapType, Labels, HasEp
<1>6. ASSUME NEW s, Dispatch(s)
      PROVE  IInv'
  BY <1>1, <1>2, <1>3, <1>6, DispatchEffect, StillInv
     DEF SnapType, Labels, HasEp
<1> QED BY <1>4, <1>5, <1>6 DEF Probe

\* Check and Sync start on the current endpoint, or return.
LEMMA StartOnCurrentInv ==
  ASSUME NEW p \in Procs, IInv, NEW next \in {"validate", "publish"}, StartOnCurrent(p, next)
  PROVE  IInv'
<1> USE DEF IInv, TypeOK
<1>1. /\ UNCHANGED <<snap, fieldVars, held, sans, pub, envVars>>
      /\ pc[p] = "lock" /\ loc[p].map = None
  BY DEF StartOnCurrent, Lock, At, LeaseInv, Carrying
<1>2. FieldsOK' /\ FlagsOK'
  BY <1>1 DEF FieldsOK, FlagsOK, fieldVars
<1>3. WorldOK'
  BY <1>1 DEF WorldOK, envVars
<1>4. (failureCount \in 0 .. FailureCap)'
  BY <1>1 DEF fieldVars
<1>5. CASE Return(p)
  <2>1. ThreadsOK'
    BY <1>5, <1>1, ReturnType DEF ThreadsOK
  <2>2. LocalsInv' /\ CandInv'
    BY <1>5, <1>1
       DEF Return, LocalsInv, HasEp, CandInv, Sound, NoLocals, Local,
           fieldVars, envVars
  <2>3. LeaseInv'
    BY <1>5, <1>1
       DEF Return, LeaseInv, LeasesAccounted, NoLocals, Local, fieldVars
  <2> QED BY <1>2, <1>3, <1>4, <2>1, <2>2, <2>3
<1>6. CASE endpoint # None /\ Lock(p, next) /\ Set(p, Local(endpoint, None, {}, None, FALSE))
  <2> DEFINE l == Local(endpoint, None, {}, None, FALSE)
  <2>0. endpoint \in Endpoint \cup {None}
    BY DEF FieldsOK
  <2>1. l \in Locals /\ l.ep = endpoint /\ l.map = None
    BY <2>0 DEF Local, Locals
  <2> HIDE DEF l
  <2>2. loc' \in [Procs -> Locals] /\ loc' = [loc EXCEPT ![p] = l]
    BY <1>6, <2>1, SetType DEF l
  <2>3. ThreadsOK'
    BY <1>6, <1>1, <2>2 DEF Lock, ThreadsOK, Labels
  <2>4. LocalsInv' /\ CandInv'
    BY <1>6, <1>1, <2>1, <2>2
       DEF Lock, LocalsInv, CandInv, Sound, fieldVars, envVars
  <2>5. LeaseInv'
    BY <1>6, <1>1, <2>1, <2>2 DEF Lock, LeaseInv, LeasesAccounted, fieldVars
  <2> QED BY <1>2, <1>3, <1>4, <2>3, <2>4, <2>5
<1> QED BY <1>5, <1>6 DEF StartOnCurrent

\* Reconcile takes opMu.
LEMMA ReconcileInv ==
  ASSUME NEW p \in Procs, IInv, Reconcile(p)
  PROVE  IInv'
<1> USE DEF IInv, TypeOK
<1>1. ThreadsOK'
  BY DEF Reconcile, Lock, ThreadsOK, Labels
<1>2. FieldsOK'
  BY DEF Reconcile, FieldsOK, States
<1>3. FlagsOK'
  BY DEF Reconcile, FlagsOK
<1>4. WorldOK'
  BY DEF Reconcile, WorldOK, envVars
<1>5. (failureCount \in 0 .. FailureCap)'
  BY DEF Reconcile
<1>6. LocalsInv'
  BY DEF Reconcile, Lock, LocalsInv, HasEp, envVars
<1>7. CandInv'
  BY DEF Reconcile, CandInv, Sound, envVars
<1>8. LeaseInv'
  BY DEF Reconcile, Lock, At, LeaseInv, LeasesAccounted, Carrying
<1> QED BY <1>1, <1>2, <1>3, <1>4, <1>5, <1>6, <1>7, <1>8

\* The loop's deferred releaseActive, first half.
LEMMA LoopStopInv ==
  ASSUME IInv, LoopStop
  PROVE  IInv'
<1> USE DEF IInv, TypeOK
<1>1. Loop \in Procs
  BY DEF Procs
<1> DEFINE l == Local(None, active, {}, None, FALSE)
<1>2. active \in Mapping \cup {None}
  BY DEF FieldsOK
<1>3. l \in Locals /\ l.ep = None /\ l.map = active
  BY <1>2 DEF Local, Locals
<1>4. Goto(Loop, "unmapStop") /\ Set(Loop, l)
  BY DEF LoopStop, ForgetActive
<1>5. loc[Loop].map = None
  BY <1>1 DEF LoopStop, At, LeaseInv, Carrying
<1> HIDE DEF l
<1>6. loc' \in [Procs -> Locals] /\ loc' = [loc EXCEPT ![Loop] = l]
  BY <1>1, <1>3, <1>4, SetType
<1>7. ThreadsOK'
  BY <1>6, GotoType DEF LoopStop, ThreadsOK, Labels
<1>8. FieldsOK' /\ FlagsOK'
  BY DEF LoopStop, ForgetActive, FieldsOK, FlagsOK
<1>9. WorldOK'
  BY DEF LoopStop, WorldOK, envVars
<1>10. (failureCount \in 0 .. FailureCap)'
  BY DEF LoopStop, ForgetActive
<1>11. LocalsInv' /\ CandInv'
  BY <1>3, <1>6
     DEF LoopStop, ForgetActive, Goto, ThreadsOK, LocalsInv, HasEp, CandInv,
         Sound, envVars
<1>12. LeaseInv'
  BY <1>3, <1>6, <1>5
     DEF LoopStop, ForgetActive, Goto, ThreadsOK, LeaseInv, LeasesAccounted,
         Carrying
<1> QED BY <1>7, <1>8, <1>9, <1>10, <1>11, <1>12

\* The loop's deferred releaseActive, second half.
LEMMA LoopStoppedInv ==
  ASSUME IInv, LoopStopped
  PROVE  IInv'
<1> USE DEF IInv, TypeOK
<1>1. Loop \in Procs
  BY DEF Procs
<1>2. /\ Goto(Loop, "stopped") /\ Set(Loop, NoLocals) /\ held' = held \ {loc[Loop].map}
      /\ UNCHANGED <<snap, fieldVars, sans, pub, envVars>>
  BY DEF LoopStopped, Released
<1>3. NoLocals.ep = None /\ NoLocals.map = None
  BY DEF NoLocals, Local
<1>4. ThreadsOK' /\ LocalsInv' /\ CandInv'
  BY <1>1, <1>2, <1>3, NoLocalsType, MoveInv
     DEF Labels, HasEp, fieldVars, envVars
<1>5. LeaseInv'
  BY <1>1, <1>2, <1>3, NoLocalsType, CarryInv DEF Labels, fieldVars
<1>6. FieldsOK' /\ FlagsOK'
  BY <1>2 DEF FieldsOK, FlagsOK, fieldVars
<1>7. WorldOK'
  BY <1>2 DEF WorldOK, envVars
<1>8. (failureCount \in 0 .. FailureCap)'
  BY <1>2 DEF fieldVars
<1> QED BY <1>4, <1>5, <1>6, <1>7, <1>8

\* The listeners' bindings, the clock and the route preserve it.
LEMMA WorldInv ==
  ASSUME IInv, World
  PROVE  IInv'
<1> USE DEF IInv, TypeOK
<1>1. /\ UNCHANGED <<pc, op, loc, snap, opMu, active, endpoint, network, withdrawRetry, failureCount,
                     state, held, sans, pub, calm>>
      /\ bindings.ready => UNCHANGED bindings
  BY DEF World, SetLocalBindings, RenewElapses, SyncElapses, RouteChange,
         fieldVars, envVars
<1>2. ThreadsOK' /\ FieldsOK' /\ LeaseInv'
  BY <1>1 DEF ThreadsOK, FieldsOK, LeaseInv, LeasesAccounted
<1>3. FlagsOK'
  BY DEF World, SetLocalBindings, RenewElapses, SyncElapses, RouteChange,
         fieldVars, FlagsOK
<1>4. WorldOK'
  <2>1. bindings' \in [ready : BOOLEAN, v4 : BOOLEAN, v6 : BOOLEAN]
    <3>1. CASE SetLocalBindings
      BY <3>1 DEF SetLocalBindings
    <3>2. CASE UNCHANGED bindings
      BY <3>2 DEF WorldOK
    <3> QED BY <3>1, <3>2
               DEF World, RenewElapses, SyncElapses, RouteChange, envVars
  <2>2. wan' \in Networks
    BY DEF World, SetLocalBindings, RenewElapses, SyncElapses, RouteChange,
           envVars, WorldOK
  <2> QED BY <1>1, <2>1, <2>2 DEF WorldOK
<1>5. (failureCount \in 0 .. FailureCap)'
  BY <1>1
<1>6. LocalsInv'
  BY DEF LocalsInv, World, SetLocalBindings, RenewElapses, SyncElapses,
         RouteChange, envVars
<1>7. CandInv'
  BY <1>1 DEF CandInv, Sound
<1> QED BY <1>2, <1>3, <1>4, <1>5, <1>6, <1>7

\* NewManager establishes the invariant.
LEMMA InitInv == Init => IInv
<1> SUFFICES ASSUME Init PROVE IInv
  OBVIOUS
<1> USE DEF Init, IInv, TypeOK
<1>1. ThreadsOK
  BY NoLocalsType DEF ThreadsOK, Labels, NoSnap
<1>2. FieldsOK /\ FlagsOK
  BY DEF FieldsOK, FlagsOK, States
<1>3. WorldOK
  BY DEF WorldOK
<1>4. failureCount \in 0 .. FailureCap
  BY DEF FailureCap, failureThreshold
<1>5. LocalsInv /\ CandInv
  BY DEF LocalsInv, CandInv, HasEp, NoLocals, Local
<1>6. LeaseInv
  BY DEF LeaseInv, LeasesAccounted, NoLocals, Local
<1> QED BY <1>1, <1>2, <1>3, <1>4, <1>5, <1>6

\* Every step of an operation preserves the invariant.
LEMMA StepInv ==
  ASSUME NEW p \in Procs, IInv, Step(p)
  PROVE  IInv'
BY ValidateCurrentInv, PartialCertInv, PartialCommitInv, UnmapPartialInv,
   resetValidationFailuresInv, DiscoverInv, UpdateEndpointIPsInv,
   FingerprintInv, ValidateCandidateInv, CommitInv, UnmapOldInv, PublishInv,
   FailInv, WithdrawInv, ReleaseActiveInv, UnmapActiveInv
   DEF Step

\* Every start of an operation under opMu preserves it.
LEMMA AcquireInv ==
  ASSUME NEW p \in Procs, IInv, Acquire(p)
  PROVE  IInv'
BY StartOnCurrentInv, ReconcileInv DEF Acquire, Check, Sync

\* A stuttering step preserves it.
LEMMA StutterInv ==
  ASSUME IInv, UNCHANGED vars
  PROVE  IInv'
BY DEF vars, fieldVars, envVars, IInv, TypeOK, ThreadsOK, FieldsOK, FlagsOK,
       WorldOK, LocalsInv, CandInv, Sound, LeaseInv, LeasesAccounted

\* IInv is an inductive invariant of the manager: all its operations, the
\* loop and the unlocked calls of fail included.
THEOREM Inductive == Spec => []IInv
<1>1. IInv /\ [Next]_vars => IInv'
  BY RequestInv, MaintainInv, ProbeInv, LoopStopInv, LoopStoppedInv,
     AcquireInv, StepInv, WorldInv, StutterInv
     DEF Next
<1> QED BY InitInv, <1>1, PTL DEF Spec

\* The manager's fields and local variables keep their types.
THEOREM TypeCorrect == Spec => []TypeOK
BY Inductive, PTL DEF IInv

\* No interleaving of operations makes the manager hold or publish IPv6 on
\* a NAT-assigned port (reconcile's dual-port check).
THEOREM NeverPairsPorts == Spec => []OnePortSet
<1>1. IInv => OnePortSet
  BY DEF IInv, CandInv, Sound, OnePortSet
<1> QED BY Inductive, <1>1, PTL

\* No interleaving makes it hold or publish a family the listeners are not
\* bound for (SetLocalBindings).
THEOREM NeverUnbound == Spec => []OnlyBoundFamilies
<1>1. IInv => OnlyBoundFamilies
  BY DEF IInv, CandInv, Sound, OnlyBoundFamilies
<1> QED BY Inductive, <1>1, PTL

\* No error path of reconcile, applyPartialValidation, fail or the loop's
\* shutdown leaks a mapping at a gateway.
THEOREM NeverLeaks == Spec => []LeasesAccounted
BY Inductive, PTL DEF IInv, LeaseInv
-----------------------------------------------------------------------------
(* What is published has been validated and certified.  Vouched goes beyond *)
(* IInv: who works on an endpoint under opMu has the certificate to itself. *)

\* The steps of the operations proper; all of them run under opMu.
Working == HasEp \cup {"map"}

\* The steps after a validation, and those after a certificate update.
Vetted == {"reset", "partialCert", "partialCommit", "unmapPartial", "cert2",
           "commit", "unmapOld", "publish"}
Covered == {"fingerprint", "verify", "cert2", "commit", "unmapOld", "publish"}

\* The steps only a check or a sync takes.
Checking == {"validate", "reset", "partialCert", "partialCommit", "unmapPartial"}

Guarded == \A p \in Procs : pc[p] \in Working => opMu = p

Vouched ==
  /\ Guarded
  /\ \A p \in Procs : ValidateEndpoint /\ pc[p] \in Vetted =>
                        Families(loc[p].ep) \subseteq loc[p].passed
  /\ \A p \in Procs : op[p] = "reconcile" /\ pc[p] \in Covered =>
                        addresses(loc[p].ep) \subseteq sans
  /\ \A p \in Procs : pc[p] \in Checking => op[p] # "reconcile"

\* What validation leaves passed it, and needs no more of the certificate.
LEMMA Narrowed ==
  ASSUME NEW e \in Endpoint, NEW passed
  PROVE  /\ Families(validated(e, passed)) \subseteq passed
         /\ Families(OnLocalPort(e)) = Families(e)
         /\ addresses(validated(e, passed)) \subseteq addresses(e)
         /\ addresses(OnLocalPort(e)) = addresses(e)
BY ConfigAssumption DEF Families, validated, OnLocalPort, addresses, Endpoint

\* One goroutine moves; only a step under opMu touches the certificate.
LEMMA VouchedMove ==
  ASSUME NEW p \in Procs, IInv, Vouched, NEW label, NEW l,
         pc' = [pc EXCEPT ![p] = label], loc' = [loc EXCEPT ![p] = l],
         UNCHANGED <<op, opMu>>,
         sans' = sans \/ pc[p] \in Working,
         label \in Working => pc[p] \in Working,
         label \in Vetted /\ ValidateEndpoint => Families(l.ep) \subseteq l.passed,
         label \in Covered /\ op[p] = "reconcile" =>
           addresses(l.ep) \subseteq sans',
         label \in Checking => pc[p] \in Checking
  PROVE  Vouched'
<1> USE DEF IInv, TypeOK, ThreadsOK, Vouched, Guarded
<1>1. Guarded'
  OBVIOUS
<1>2. ASSUME NEW q \in Procs, ValidateEndpoint, pc'[q] \in Vetted
      PROVE  Families(loc'[q].ep) \subseteq loc'[q].passed
  BY <1>2
<1>3. ASSUME NEW q \in Procs, op'[q] = "reconcile", pc'[q] \in Covered
      PROVE  addresses(loc'[q].ep) \subseteq sans'
  <2>1. CASE q = p
    BY <1>3, <2>1
  <2>2. CASE q # p
    <3>1. pc[q] \in Working
      BY <1>3, <2>2 DEF Covered, Working, HasEp
    <3>2. sans' = sans
      BY <2>2, <3>1
    <3> QED BY <1>3, <2>2, <3>2
  <2> QED BY <2>1, <2>2
<1>4. \A q \in Procs : ValidateEndpoint /\ pc'[q] \in Vetted =>
                         Families(loc[q].ep)' \subseteq loc'[q].passed
  BY <1>2 DEF Families
<1>5. \A q \in Procs : op'[q] = "reconcile" /\ pc'[q] \in Covered =>
                         addresses(loc[q].ep)' \subseteq sans'
  BY <1>3 DEF addresses
<1>6. \A q \in Procs : pc'[q] \in Checking => op'[q] # "reconcile"
  OBVIOUS
<1> QED BY <1>1, <1>4, <1>5, <1>6

\* One goroutine leaves for a step outside the operations, or returns.
LEMMA VouchedLeave ==
  ASSUME NEW p \in Procs, IInv, Vouched, NEW label,
         label \notin Working,
         pc' = [pc EXCEPT ![p] = label],
         \A q \in Procs \ {p} : loc'[q] = loc[q] /\ op'[q] = op[q],
         opMu' = opMu \/ opMu = p \/ opMu = None,
         UNCHANGED sans
  PROVE  Vouched'
<1> USE DEF IInv, TypeOK, ThreadsOK, Vouched, Guarded
<1>1. \A q \in Procs : pc'[q] \in Working => q # p /\ pc'[q] = pc[q]
  OBVIOUS
<1>2. None \notin Procs
  BY ConfigAssumption DEF Procs
<1>3. Guarded'
  BY <1>1, <1>2
<1>4. Vetted \cup Covered \cup Checking \subseteq Working
  BY DEF Vetted, Covered, Checking, Working, HasEp
<1>5. \A q \in Procs : ValidateEndpoint /\ pc'[q] \in Vetted =>
                         Families(loc[q].ep)' \subseteq loc'[q].passed
  BY <1>1, <1>4 DEF Families
<1>6. \A q \in Procs : op'[q] = "reconcile" /\ pc'[q] \in Covered =>
                         addresses(loc[q].ep)' \subseteq sans'
  BY <1>1, <1>4 DEF addresses
<1>7. \A q \in Procs : pc'[q] \in Checking => op'[q] # "reconcile"
  BY <1>1, <1>4
<1> QED BY <1>3, <1>5, <1>6, <1>7

\* A goroutine that moves without a change of its locals keeps what was seen.
LEMMA VouchedGoto ==
  ASSUME NEW p \in Procs, IInv, Vouched, NEW label,
         pc' = [pc EXCEPT ![p] = label], UNCHANGED <<op, opMu, loc, sans>>,
         label \in Working => pc[p] \in Working,
         label \in Vetted /\ ValidateEndpoint => pc[p] \in Vetted,
         label \in Covered => pc[p] \in Covered,
         label \in Checking => pc[p] \in Checking
  PROVE  Vouched'
<1>1. loc' = [loc EXCEPT ![p] = loc[p]]
  BY DEF IInv, TypeOK, ThreadsOK
<1>2. label \in Vetted /\ ValidateEndpoint => Families(loc[p].ep) \subseteq loc[p].passed
  BY DEF Vouched
<1>3. label \in Covered /\ op[p] = "reconcile" => addresses(loc[p].ep) \subseteq sans'
  BY DEF Vouched
<1> QED BY <1>1, <1>2, <1>3, VouchedMove

\* Nobody moves.
LEMMA VouchedStill ==
  ASSUME Vouched, UNCHANGED <<pc, op, loc, opMu, sans>>
  PROVE  Vouched'
BY DEF Vouched, Guarded, Families, addresses

LEMMA VouchedReturn ==
  ASSUME NEW p \in Procs, IInv, Vouched, Return(p), UNCHANGED sans
  PROVE  Vouched'
<1>1. "idle" \notin Working
  BY DEF Working, HasEp
<1>2. /\ pc' = [pc EXCEPT ![p] = "idle"]
      /\ opMu' = opMu \/ opMu = p \/ opMu = None
      /\ \A q \in Procs \ {p} : loc'[q] = loc[q] /\ op'[q] = op[q]
  BY DEF Return, IInv, TypeOK, ThreadsOK
<1> QED BY <1>1, <1>2, VouchedLeave

LEMMA VouchedFail ==
  ASSUME NEW p \in Procs, IInv, Vouched, Goto(p, "fail"),
         loc' = loc \/ loc' = [loc EXCEPT ![p] = NoLocals], UNCHANGED sans
  PROVE  Vouched'
<1>1. "fail" \notin Working
  BY DEF Working, HasEp
<1>2. /\ pc' = [pc EXCEPT ![p] = "fail"] /\ op' = op /\ opMu' = opMu
      /\ \A q \in Procs \ {p} : loc'[q] = loc[q] /\ op'[q] = op[q]
  BY DEF Goto, IInv, TypeOK, ThreadsOK
<1> QED BY <1>1, <1>2, VouchedLeave

LEMMA VouchedOnCurrent ==
  ASSUME NEW p \in Procs, IInv, Vouched, Check(p) \/ Sync(p)
  PROVE  Vouched'
<1>1. PICK next \in {"validate", "publish"} :
        /\ StartOnCurrent(p, next)
        /\ next = "publish" => ~ValidateEndpoint
        /\ op[p] # "reconcile"
  BY DEF Check, Sync
<1>2. CASE endpoint = None
  BY <1>1, <1>2, VouchedReturn DEF StartOnCurrent
<1>3. CASE endpoint # None
  <2> DEFINE l == Local(endpoint, None, {}, None, FALSE)
  <2>1. /\ opMu = None /\ opMu' = p /\ op' = op /\ sans' = sans
        /\ pc' = [pc EXCEPT ![p] = next] /\ loc' = [loc EXCEPT ![p] = l]
    BY <1>1, <1>3 DEF StartOnCurrent, Lock, Set
  <2> HIDE DEF l
  <2>2. None \notin Procs
    BY ConfigAssumption DEF Procs
  <2>3. \A q \in Procs : pc[q] \notin Working
    BY <2>1, <2>2 DEF Vouched, Guarded
  <2>4. Vetted \cup Covered \cup Checking \subseteq Working
    BY DEF Vetted, Covered, Checking, Working, HasEp
  <2>5. \A q \in Procs : pc'[q] \in Working => q = p /\ pc'[q] = next
    BY <2>1, <2>3 DEF IInv, TypeOK, ThreadsOK
  <2>6. next \notin Vetted \/ ~ValidateEndpoint
    BY <1>1 DEF Vetted
  <2> QED BY <1>1, <2>1, <2>4, <2>5, <2>6 DEF Vouched, Guarded
<1> QED BY <1>2, <1>3

LEMMA VouchedReconcile ==
  ASSUME NEW p \in Procs, IInv, Vouched, Reconcile(p)
  PROVE  Vouched'
<1>1. PICK next \in {"map", "fail"} :
        /\ opMu = None /\ opMu' = p /\ op' = op /\ sans' = sans /\ loc' = loc
        /\ pc' = [pc EXCEPT ![p] = next]
  BY DEF Reconcile, Lock
<1>2. None \notin Procs
  BY ConfigAssumption DEF Procs
<1>3. \A q \in Procs : pc[q] \notin Working
  BY <1>1, <1>2 DEF Vouched, Guarded
<1>4. /\ Vetted \cup Covered \cup Checking \subseteq Working
      /\ {"map", "fail"} \cap (Vetted \cup Covered \cup Checking) = {}
  BY DEF Vetted, Covered, Checking, Working, HasEp
<1>5. \A q \in Procs : pc'[q] \in Working => q = p /\ pc'[q] = next
  BY <1>1, <1>3 DEF IInv, TypeOK, ThreadsOK
<1> QED BY <1>1, <1>4, <1>5 DEF Vouched, Guarded

LEMMA VouchedValidateCurrent ==
  ASSUME NEW p \in Procs, IInv, Vouched, ValidateCurrent(p)
  PROVE  Vouched'
<1>1. PICK passed \in Validate(loc[p].ep) : ValidateCurrent(p)!2!(passed)
  BY DEF ValidateCurrent
<1>2. UNCHANGED sans /\ pc[p] = "validate"
  BY DEF ValidateCurrent, At
<1>3. CASE passed = {}
  BY <1>1, <1>2, <1>3, VouchedFail, VouchedReturn DEF Set
<1>4. CASE passed # {}
  <2> DEFINE l == Local(validated(loc[p].ep, passed), None, passed, None,
                        passed # Families(loc[p].ep))
  <2>1. PICK label \in {"reset", "partialCert"} :
          /\ pc' = [pc EXCEPT ![p] = label] /\ op' = op /\ opMu' = opMu
          /\ loc' = [loc EXCEPT ![p] = l]
    BY <1>1, <1>4 DEF Goto, Set
  <2>2. loc[p].ep \in Endpoint
    BY <1>2 DEF IInv, TypeOK, ThreadsOK, Locals, LocalsInv, HasEp
  <2>3. Families(l.ep) \subseteq l.passed
    BY <2>2, Narrowed DEF Local
  <2>4. label \notin Covered /\ pc[p] \in Working /\ pc[p] \in Checking
    BY <1>2 DEF Covered, Working, HasEp, Checking
  <2> HIDE DEF l
  <2> QED BY <1>2, <2>1, <2>3, <2>4, VouchedMove
<1> QED BY <1>3, <1>4

LEMMA VouchedPartialCert ==
  ASSUME NEW p \in Procs, IInv, Vouched, PartialCert(p)
  PROVE  Vouched'
<1>1. CASE /\ sans' = addresses(loc[p].ep)
           /\ Goto(p, "partialCommit") /\ UNCHANGED loc
  <2>1. /\ pc' = [pc EXCEPT ![p] = "partialCommit"] /\ op' = op /\ opMu' = opMu
        /\ loc' = [loc EXCEPT ![p] = loc[p]]
    BY <1>1 DEF Goto, IInv, TypeOK, ThreadsOK
  <2>2. /\ pc[p] \in Working /\ pc[p] \in Vetted
        /\ "partialCommit" \notin Covered /\ pc[p] \in Checking
    BY DEF PartialCert, At, Working, HasEp, Vetted, Covered, Checking
  <2>3. ValidateEndpoint => Families(loc[p].ep) \subseteq loc[p].passed
    BY <2>2 DEF Vouched
  <2> QED BY <1>1, <2>1, <2>2, <2>3, VouchedMove
<1>2. CASE Goto(p, "fail") /\ Set(p, NoLocals) /\ UNCHANGED sans
  BY <1>2, VouchedFail DEF Set
<1> QED BY <1>1, <1>2 DEF PartialCert

LEMMA VouchedPartialCommit ==
  ASSUME NEW p \in Procs, IInv, Vouched, PartialCommit(p)
  PROVE  Vouched'
<1> DEFINE lost4 == loc[p].ep.v4 = None
           e     == IF lost4 THEN OnLocalPort(loc[p].ep) ELSE loc[p].ep
           m     == IF lost4 THEN active ELSE None
           l     == Local(e, m, loc[p].passed, None, TRUE)
           label == IF lost4 /\ active # None THEN "unmapPartial" ELSE "reset"
<1>1. /\ loc' = [loc EXCEPT ![p] = l]
      /\ pc' = [pc EXCEPT ![p] = label] /\ op' = op /\ opMu' = opMu
      /\ sans' = sans
  BY DEF PartialCommit, Set, Goto
<1>2. pc[p] \in Working /\ pc[p] \in Vetted /\ label \notin Covered
      /\ pc[p] \in HasEp /\ pc[p] \in Checking
  BY DEF PartialCommit, At, Working, HasEp, Vetted, Covered, Checking
<1>3. loc[p].ep \in Endpoint
  BY <1>2 DEF IInv, TypeOK, ThreadsOK, Locals, LocalsInv
<1>4. ValidateEndpoint => Families(loc[p].ep) \subseteq loc[p].passed
  BY <1>2 DEF Vouched
<1>5. ValidateEndpoint => Families(l.ep) \subseteq l.passed
  BY <1>3, <1>4, Narrowed DEF Local
<1> HIDE DEF l, label
<1> QED BY <1>1, <1>2, <1>5, VouchedMove

\* A step that changes only the local mapping or fingerprint.
LEMMA VouchedCarry ==
  ASSUME NEW p \in Procs, IInv, Vouched, NEW label, NEW m, NEW n,
         loc' = [loc EXCEPT ![p] = Local(loc[p].ep, m, loc[p].passed, n,
                                         loc[p].problems)],
         pc' = [pc EXCEPT ![p] = label], UNCHANGED <<op, opMu, sans>>,
         label \in Working => pc[p] \in Working,
         label \in Vetted /\ ValidateEndpoint => pc[p] \in Vetted,
         label \in Covered => pc[p] \in Covered,
         label \in Checking => pc[p] \in Checking
  PROVE  Vouched'
<1> DEFINE l == Local(loc[p].ep, m, loc[p].passed, n, loc[p].problems)
<1>1. l.ep = loc[p].ep /\ l.passed = loc[p].passed
  BY DEF Local
<1>2. label \in Vetted /\ ValidateEndpoint => Families(l.ep) \subseteq l.passed
  BY <1>1 DEF Vouched
<1>3. label \in Covered /\ op[p] = "reconcile" => addresses(l.ep) \subseteq sans'
  BY <1>1 DEF Vouched
<1> HIDE DEF l
<1> QED BY <1>2, <1>3, VouchedMove DEF l

LEMMA VouchedUnmap ==
  ASSUME NEW p \in Procs, IInv, Vouched, UnmapPartial(p) \/ UnmapOld(p)
  PROVE  Vouched'
<1>1. CASE UnmapPartial(p)
  BY <1>1, VouchedCarry
     DEF UnmapPartial, SetMap, Set, Goto, At, Working, HasEp, Vetted, Covered,
         Checking
<1>2. CASE UnmapOld(p)
  BY <1>2, VouchedCarry
     DEF UnmapOld, SetMap, Set, Goto, At, Working, HasEp, Vetted, Covered,
         Checking
<1> QED BY <1>1, <1>2

LEMMA VouchedReset ==
  ASSUME NEW p \in Procs, IInv, Vouched, resetValidationFailures(p)
  PROVE  Vouched'
<1>1. CASE Return(p)
  BY <1>1, VouchedReturn DEF resetValidationFailures
<1>2. CASE Goto(p, "publish") /\ UNCHANGED loc
  <2>1. /\ pc' = [pc EXCEPT ![p] = "publish"] /\ op' = op /\ opMu' = opMu
        /\ loc' = [loc EXCEPT ![p] = loc[p]] /\ sans' = sans
    BY <1>2 DEF Goto, IInv, TypeOK, ThreadsOK, resetValidationFailures
  <2>2. /\ pc[p] \in Working /\ pc[p] \in Vetted /\ op[p] # "reconcile"
        /\ "publish" \notin Checking
    BY DEF resetValidationFailures, At, Working, HasEp, Vetted, Checking, Vouched
  <2>3. ValidateEndpoint => Families(loc[p].ep) \subseteq loc[p].passed
    BY <2>2 DEF Vouched
  <2> QED BY <2>1, <2>2, <2>3, VouchedMove
<1> QED BY <1>1, <1>2 DEF resetValidationFailures

LEMMA VouchedDiscover ==
  ASSUME NEW p \in Procs, IInv, Vouched, Discover(p)
  PROVE  Vouched'
<1>1. pc[p] \in Working /\ sans' = sans
  BY DEF Discover, At, Working
<1>2. CASE Goto(p, "fail") /\ UNCHANGED loc
  BY <1>1, <1>2, VouchedFail
<1>3. CASE Goto(p, "cert") /\ \E l : Set(p, l)
  <2>1. PICK l : Set(p, l)
    BY <1>3
  <2>2. "cert" \notin Vetted \cup Covered \cup Checking
    BY DEF Vetted, Covered, Checking
  <2> QED BY <1>1, <1>3, <2>1, <2>2, VouchedMove DEF Goto, Set
<1> QED BY <1>2, <1>3 DEF Discover

LEMMA VouchedUpdateEndpointIPs ==
  ASSUME NEW p \in Procs, IInv, Vouched, UpdateEndpointIPs(p)
  PROVE  Vouched'
<1>1. pc[p] \in {"cert", "cert2"}
  BY DEF UpdateEndpointIPs, At
<1>2. CASE ReleaseAndFail(p) /\ UNCHANGED sans
  BY <1>2, VouchedFail DEF ReleaseAndFail, Set
<1> DEFINE label == IF At(p, "cert") THEN "fingerprint" ELSE "commit"
<1>3. CASE sans' = addresses(loc[p].ep) /\ Goto(p, label) /\ UNCHANGED loc
  <2>1. /\ pc' = [pc EXCEPT ![p] = label] /\ op' = op /\ opMu' = opMu
        /\ loc' = [loc EXCEPT ![p] = loc[p]]
    BY <1>3 DEF Goto, IInv, TypeOK, ThreadsOK
  <2>2. /\ pc[p] \in Working /\ label \notin Checking
        /\ label \in Vetted => pc[p] \in Vetted
    BY <1>1 DEF Working, HasEp, Vetted, Checking, At
  <2>3. label \in Vetted /\ ValidateEndpoint =>
          Families(loc[p].ep) \subseteq loc[p].passed
    BY <2>2 DEF Vouched
  <2> HIDE DEF label
  <2> QED BY <1>3, <2>1, <2>2, <2>3, VouchedMove
<1> QED BY <1>2, <1>3 DEF UpdateEndpointIPs

LEMMA VouchedFingerprint ==
  ASSUME NEW p \in Procs, IInv, Vouched, Fingerprint(p)
  PROVE  Vouched'
<1> DEFINE next == IF ValidateEndpoint THEN "verify" ELSE "commit"
<1>1. pc[p] = "fingerprint" /\ sans' = sans
  BY DEF Fingerprint, At
<1>2. /\ pc[p] \in Working /\ pc[p] \in Covered /\ next \notin Checking
      /\ next \notin Vetted \/ ~ValidateEndpoint
  BY <1>1 DEF Working, HasEp, Covered, Checking, Vetted
<1>3. CASE ReleaseAndFail(p)
  BY <1>1, <1>3, VouchedFail DEF ReleaseAndFail, Set
<1>4. CASE SetNet(p, wan) /\ Goto(p, next)
  <2> HIDE DEF next
  <2> QED BY <1>1, <1>2, <1>4, VouchedCarry DEF SetNet, Set, Goto
<1>5. CASE Goto(p, next) /\ UNCHANGED loc
  <2> HIDE DEF next
  <2> QED BY <1>1, <1>2, <1>5, VouchedGoto DEF Goto
<1> QED BY <1>3, <1>4, <1>5 DEF Fingerprint

LEMMA VouchedValidateCandidate ==
  ASSUME NEW p \in Procs, IInv, Vouched, ValidateCandidate(p)
  PROVE  Vouched'
<1>1. pc[p] = "verify" /\ sans' = sans
  BY DEF ValidateCandidate, At
<1>2. PICK passed \in Validate(loc[p].ep) :
        \/ ReleaseAndFail(p)
        \/ \E m, n, b : \E e \in {validated(loc[p].ep, passed),
                                  OnLocalPort(validated(loc[p].ep, passed))} :
             Set(p, Local(e, m, passed, n, b)) /\ Goto(p, "cert2")
  BY DEF ValidateCandidate
<1>3. CASE ReleaseAndFail(p)
  BY <1>1, <1>3, VouchedFail DEF ReleaseAndFail, Set
<1>4. CASE ~ReleaseAndFail(p)
  <2>1. PICK m, n, b :
          \E e \in {validated(loc[p].ep, passed),
                    OnLocalPort(validated(loc[p].ep, passed))} :
            Set(p, Local(e, m, passed, n, b)) /\ Goto(p, "cert2")
    BY <1>2, <1>4
  <2>2. PICK e \in {validated(loc[p].ep, passed),
                    OnLocalPort(validated(loc[p].ep, passed))} :
          Set(p, Local(e, m, passed, n, b)) /\ Goto(p, "cert2")
    BY <2>1
  <2> DEFINE l == Local(e, m, passed, n, b)
  <2>3. /\ pc[p] \in Working /\ pc[p] \in Covered /\ pc[p] \in HasEp
        /\ "cert2" \notin Checking
    BY <1>1 DEF Working, HasEp, Covered, Checking
  <2>4. loc[p].ep \in Endpoint
    BY <2>3 DEF IInv, TypeOK, ThreadsOK, Locals, LocalsInv
  <2>5. validated(loc[p].ep, passed) \in Endpoint
    BY <2>4, ValidatedType
  <2>6. /\ Families(l.ep) \subseteq l.passed
        /\ addresses(l.ep) \subseteq addresses(loc[p].ep)
    BY <2>4, <2>5, Narrowed DEF Local
  <2>7. op[p] = "reconcile" => addresses(l.ep) \subseteq sans'
    BY <1>1, <2>3, <2>6 DEF Vouched
  <2> HIDE DEF l
  <2> QED BY <1>1, <2>2, <2>3, <2>6, <2>7, VouchedMove DEF Set, Goto, l
<1> QED BY <1>3, <1>4

LEMMA VouchedCommit ==
  ASSUME NEW p \in Procs, IInv, Vouched, Commit(p)
  PROVE  Vouched'
<1> DEFINE replaced == Replaced(active, network, loc[p].map, loc[p].net)
           m        == IF replaced THEN active ELSE None
           label    == IF replaced THEN "unmapOld" ELSE "publish"
<1>1. SetMap(p, m) /\ Goto(p, label) /\ sans' = sans /\ pc[p] = "commit"
  BY DEF Commit, At
<1>2. /\ pc[p] \in Working /\ pc[p] \in Covered /\ pc[p] \in Vetted
      /\ label \notin Checking
  BY <1>1 DEF Working, HasEp, Covered, Vetted, Checking
<1> HIDE DEF m, label
<1> QED BY <1>1, <1>2, VouchedCarry DEF SetMap, Set, Goto

\* fail leaves the operations for good.
LEMMA VouchedFailing ==
  ASSUME NEW p \in Procs, IInv, Vouched,
         Fail(p) \/ Withdraw(p) \/ ReleaseActive(p) \/ UnmapActive(p)
  PROVE  Vouched'
<1>1. sans' = sans
  BY DEF Fail, Withdraw, ReleaseActive, UnmapActive, ForgetActive
<1>2. CASE Return(p)
  BY <1>1, <1>2, VouchedReturn
<1>3. CASE \E label \in {"withdraw", "release", "unmapActive"} :
             Goto(p, label) /\ (UNCHANGED loc \/ \E l : Set(p, l))
  <2>1. PICK label \in {"withdraw", "release", "unmapActive"} :
          Goto(p, label) /\ (UNCHANGED loc \/ \E l : Set(p, l))
    BY <1>3
  <2>2. label \notin Working
    BY DEF Working, HasEp
  <2>3. \A q \in Procs \ {p} : loc'[q] = loc[q] /\ op'[q] = op[q]
    BY <2>1 DEF Goto, Set, IInv, TypeOK, ThreadsOK
  <2> QED BY <1>1, <2>1, <2>2, <2>3, VouchedLeave DEF Goto
<1> QED BY <1>2, <1>3 DEF Fail, Withdraw, ReleaseActive, UnmapActive, ForgetActive

LEMMA VouchedPublish ==
  ASSUME NEW p \in Procs, IInv, Vouched, Publish(p)
  PROVE  Vouched'
BY VouchedReturn DEF Publish

\* The loop, the start of a request and the rest of the world.
LEMMA VouchedLoop ==
  ASSUME IInv, Vouched, Maintain \/ Probe \/ LoopStop \/ LoopStopped
  PROVE  Vouched'
<1>1. PICK label \in {"probe", "idle", "lock", "fail", "unmapStop", "stopped"} :
        pc' = [pc EXCEPT ![Loop] = label]
  BY DEF Maintain, Probe, Dispatch, LoopStop, LoopStopped, Goto
<1>2. label \notin Working
  BY DEF Working, HasEp
<1>3. /\ \A q \in Procs \ {Loop} : loc'[q] = loc[q] /\ op'[q] = op[q]
      /\ opMu' = opMu /\ sans' = sans
  BY DEF Maintain, Probe, Dispatch, LoopStop, LoopStopped, Goto, ForgetActive,
         Set, IInv, TypeOK, ThreadsOK
<1>4. Loop \in Procs
  BY DEF Procs
<1> QED BY <1>1, <1>2, <1>3, <1>4, VouchedLeave

LEMMA VouchedRequest ==
  ASSUME NEW p \in Callers, IInv, Vouched, Request(p)
  PROVE  Vouched'
<1>1. /\ pc' = [pc EXCEPT ![p] = "lock"] /\ p \in Procs
      /\ \A q \in Procs \ {p} : loc'[q] = loc[q] /\ op'[q] = op[q]
      /\ opMu' = opMu /\ sans' = sans
  BY DEF Request, Procs, IInv, TypeOK, ThreadsOK
<1>2. "lock" \notin Working
  BY DEF Working, HasEp
<1> QED BY <1>1, <1>2, VouchedLeave

LEMMA VouchedWorld ==
  ASSUME Vouched, World \/ UNCHANGED vars
  PROVE  Vouched'
BY VouchedStill
   DEF World, SetLocalBindings, RenewElapses, SyncElapses, RouteChange, vars

LEMMA VouchedInit == Init => Vouched
BY DEF Init, Vouched, Guarded, Working, Vetted, Covered, Checking, HasEp

LEMMA VouchedAlways == Spec => []Vouched
<1>1. IInv /\ Vouched /\ [Next]_vars => Vouched'
  <2> SUFFICES ASSUME IInv, Vouched, [Next]_vars PROVE Vouched'
    OBVIOUS
  <2>1. ASSUME NEW p \in Procs, Acquire(p)
        PROVE  Vouched'
    BY <2>1, VouchedOnCurrent, VouchedReconcile DEF Acquire
  <2>2. ASSUME NEW p \in Procs, Step(p)
        PROVE  Vouched'
    BY <2>2, VouchedValidateCurrent, VouchedPartialCert, VouchedPartialCommit,
       VouchedUnmap, VouchedReset, VouchedDiscover, VouchedUpdateEndpointIPs,
       VouchedFingerprint, VouchedValidateCandidate, VouchedCommit,
       VouchedPublish, VouchedFailing
       DEF Step
  <2> QED BY <2>1, <2>2, VouchedRequest, VouchedLoop, VouchedWorld DEF Next
<1> QED BY Inductive, VouchedInit, <1>1, PTL DEF Spec

\* Nothing but publish lists an endpoint; Withdraw lists none.
LEMMA OnlyPublish ==
  ASSUME Next, pub' \notin {pub, None}
  PROVE  \E p \in Procs : Publish(p)
<1>1. ASSUME NEW p \in Procs, Acquire(p)
      PROVE  pub' = pub
  BY <1>1 DEF Acquire, Check, Sync, StartOnCurrent, Reconcile
<1>2. ASSUME NEW p \in Procs, Withdraw(p)
      PROVE  pub' \in {pub, None}
  BY <1>2 DEF Withdraw
<1>3. ASSUME NEW p \in Procs,
             \/ ValidateCurrent(p) \/ PartialCert(p) \/ PartialCommit(p)
             \/ UnmapPartial(p) \/ resetValidationFailures(p) \/ Discover(p)
             \/ UpdateEndpointIPs(p) \/ Fingerprint(p)
      PROVE  pub' = pub
  BY <1>3 DEF ValidateCurrent, PartialCert, PartialCommit, UnmapPartial,
              resetValidationFailures, Discover, UpdateEndpointIPs, Fingerprint
<1>4. ASSUME NEW p \in Procs,
             \/ ValidateCandidate(p) \/ Commit(p) \/ UnmapOld(p) \/ Fail(p)
             \/ ReleaseActive(p) \/ UnmapActive(p)
      PROVE  pub' = pub
  BY <1>4 DEF ValidateCandidate, Commit, UnmapOld, Fail, ReleaseActive,
              UnmapActive
<1>5. (Maintain \/ Probe \/ LoopStop \/ LoopStopped \/ World) => pub' = pub
  BY DEF Maintain, Probe, LoopStop, LoopStopped, World, SetLocalBindings,
         RenewElapses, SyncElapses, RouteChange
<1>6. ASSUME NEW p \in Callers, Request(p)
      PROVE  pub' = pub
  BY <1>6 DEF Request
<1> QED BY <1>1, <1>2, <1>3, <1>4, <1>5, <1>6 DEF Next, Step

\* With validation on, whatever operations run side by side, an address is
\* published only by one that saw it pass (publish after Validate).
THEOREM ValidatedCorrect == Spec => PublishesOnlyValidated
<1>1. IInv /\ Vouched /\ [Next]_vars => [PublishesValidated]_vars
  <2> SUFFICES ASSUME IInv, Vouched, Next, ValidateEndpoint,
                      pub' \notin {pub, None}
               PROVE  \E p \in Procs : /\ At(p, "publish")
                                       /\ pub' = loc[p].ep
                                       /\ Families(pub') \subseteq loc[p].passed
    BY DEF PublishesValidated
  <2>1. PICK p \in Procs : Publish(p)
    BY OnlyPublish
  <2>2. At(p, "publish") /\ pub' = loc[p].ep
    BY <2>1 DEF Publish
  <2>3. Families(loc[p].ep) \subseteq loc[p].passed
    BY <2>2 DEF Vouched, Vetted, At
  <2> QED BY <2>2, <2>3 DEF Families
<1> QED BY Inductive, VouchedAlways, <1>1, PTL DEF Spec, PublishesOnlyValidated

\* What a reconcile publishes is named by the served certificate: nobody else
\* can have changed it since the reconcile's own update, which opMu covers.
THEOREM CertifiedCorrect == Spec => []ReconcileCertified
<1>1. Vouched => ReconcileCertified
  BY DEF Vouched, ReconcileCertified, Covered, At
<1> QED BY VouchedAlways, <1>1, PTL
-----------------------------------------------------------------------------
(* The status, where nothing interferes with an operation.  maintain calls  *)
(* fail without opMu only after a probe of the route, so the operations     *)
(* exclude each other where there is no probe or nobody but the loop.       *)

\* The configurations without that interference.
Serial == Callers = {} \/ ~NatMode \/ ~WantsV4

\* The steps between operations, and those of a loop that stops.
Resting == {"idle", "lock", "probe", "unmapStop", "stopped"}

Serialised ==
  \/ NatMode /\ WantsV4
  \/ /\ pc[Loop] # "probe"
     /\ \A p \in Procs : pc[p] \notin Resting => opMu = p

\* Nobody but p is in the middle of an operation.
Solo(p) == \A q \in Procs \ {p} : pc[q] \in Resting

\* The failure count or the status says that the node is withdrawn.
Down == failureCount >= failureThreshold \/ state = "withdrawn"

\* The steps that work with an endpoint, which a withdrawn node has not.
Upright == {"validate", "reset", "partialCert", "partialCommit",
            "unmapPartial", "unmapOld", "publish"}
Withdrawing == {"withdraw", "release", "unmapActive"}

DownInv ==
  /\ ~ValidateEndpoint => failureCount = 0 /\ state # "withdrawn"
  /\ Down /\ ~withdrawRetry => pub = None
  /\ Down => \/ endpoint = None
             \/ \E p \in Procs : pc[p] \in {"withdraw", "release"}
  /\ \A p \in Procs : pc[p] \in Upright => ~Down
  /\ \A p \in Procs : pc[p] \in Withdrawing => ValidateEndpoint

\* An operation under way, or one that gets opMu, is alone.
LEMMA Alone ==
  ASSUME Serial, IInv, Serialised, NEW p \in Procs,
         pc[p] \notin Resting \/ opMu = None
  PROVE  Solo(p)
<1>1. CASE Callers = {}
  BY <1>1 DEF Solo, Procs
<1>2. CASE ~(NatMode /\ WantsV4)
  <2>1. None \notin Procs
    BY ConfigAssumption DEF Procs
  <2> QED BY <1>2, <2>1 DEF Serialised, Solo
<1> QED BY <1>1, <1>2 DEF Serial

\* Where a step of an operation leads.
LEMMA StepMoves ==
  ASSUME NEW p \in Procs, Step(p)
  PROVE  /\ pc[p] \notin Resting
         /\ \E label \in Labels \ {"probe"} :
              /\ pc' = [pc EXCEPT ![p] = label]
              /\ label \in Resting \/ opMu' = opMu
<1> USE DEF At, Labels, Resting
<1>1. CASE ValidateCurrent(p) \/ PartialCert(p)
  BY <1>1 DEF ValidateCurrent, PartialCert, Goto, Return
<1>2. CASE PartialCommit(p) \/ UnmapPartial(p)
  BY <1>2 DEF PartialCommit, UnmapPartial, Goto
<1>3. CASE resetValidationFailures(p) \/ Discover(p)
  BY <1>3 DEF resetValidationFailures, Discover, Goto, Return
<1>4. CASE UpdateEndpointIPs(p) \/ Fingerprint(p)
  BY <1>4 DEF UpdateEndpointIPs, Fingerprint, ReleaseAndFail, Goto
<1>5. CASE ValidateCandidate(p) \/ Commit(p) \/ UnmapOld(p)
  BY <1>5 DEF ValidateCandidate, Commit, UnmapOld, ReleaseAndFail, Goto
<1>6. CASE Publish(p) \/ Fail(p) \/ Withdraw(p)
  BY <1>6 DEF Publish, Fail, Withdraw, Goto, Return
<1>7. CASE ReleaseActive(p) \/ UnmapActive(p)
  BY <1>7 DEF ReleaseActive, UnmapActive, Goto, Return
<1> QED BY <1>1, <1>2, <1>3, <1>4, <1>5, <1>6, <1>7 DEF Step

\* Where the start of an operation leads.
LEMMA AcquireMoves ==
  ASSUME NEW p \in Procs, Acquire(p)
  PROVE  /\ pc[p] = "lock" /\ opMu = None
         /\ \/ pc' = [pc EXCEPT ![p] = "idle"]
            \/ /\ opMu' = p
               /\ \E label \in Labels \ Resting : pc' = [pc EXCEPT ![p] = label]
BY DEF Acquire, Check, Sync, Reconcile, StartOnCurrent, Lock, Return, At,
       Labels, Resting

\* Where a step outside the operations leads.
LEMMA RestMoves ==
  ASSUME IInv,
         (\E p \in Callers : Request(p)) \/ LoopStop \/ LoopStopped \/ Maintain
  PROVE  \E p \in Procs : \E label \in Resting :
           /\ pc[p] \in Resting
           /\ pc' = [pc EXCEPT ![p] = label]
           /\ label = "probe" => NatMode /\ WantsV4
           /\ UNCHANGED opMu
<1> USE DEF Resting, At
<1>1. Loop \in Procs /\ Callers \subseteq Procs
  BY DEF Procs
<1>2. ASSUME NEW p \in Callers, Request(p)
      PROVE  pc[p] \in Resting /\ pc' = [pc EXCEPT ![p] = "lock"] /\ UNCHANGED opMu
  BY <1>2 DEF Request
<1>3. CASE LoopStop \/ LoopStopped
  BY <1>1, <1>3 DEF LoopStop, LoopStopped, Goto
<1>4. CASE Maintain
  BY <1>1, <1>4 DEF Maintain, Dispatch
<1> QED BY <1>1, <1>2, <1>3, <1>4

\* Operations stay serialised.
LEMMA SerialStep ==
  ASSUME Serial, IInv, Serialised, [Next \/ Settle]_vars
  PROVE  Serialised'
<1> SUFFICES ASSUME ~(NatMode /\ WantsV4) PROVE Serialised'
  BY DEF Serialised
<1>1. /\ pc[Loop] # "probe" /\ pc \in [Procs -> Labels]
      /\ \A p \in Procs : pc[p] \notin Resting => opMu = p
      /\ Loop \in Procs
  BY DEF Serialised, IInv, TypeOK, ThreadsOK, Procs
<1>2. ASSUME NEW p \in Procs, Step(p)
      PROVE  Serialised'
  <2>1. pc[p] \notin Resting /\ Solo(p)
    BY <1>2, StepMoves, Alone
  <2> QED BY <1>1, <1>2, <2>1, StepMoves DEF Serialised, Solo, Resting
<1>3. ASSUME NEW p \in Procs, Acquire(p)
      PROVE  Serialised'
  <2>1. Solo(p)
    BY <1>3, AcquireMoves, Alone
  <2> QED BY <1>1, <1>3, <2>1, AcquireMoves DEF Serialised, Solo, Resting
<1>4. CASE (\E p \in Callers : Request(p)) \/ LoopStop \/ LoopStopped \/ Maintain
  <2>1. PICK p \in Procs, label \in Resting :
           /\ pc[p] \in Resting
           /\ pc' = [pc EXCEPT ![p] = label]
           /\ label # "probe"
           /\ UNCHANGED opMu
    BY <1>4, RestMoves
  <2> QED BY <1>1, <2>1 DEF Serialised
<1>5. ~Probe
  BY <1>1 DEF Probe, At
<1>6. CASE World \/ Settle \/ UNCHANGED vars
  <2>1. UNCHANGED <<pc, opMu>>
    BY <1>6 DEF World, SetLocalBindings, RenewElapses, SyncElapses, RouteChange,
                Settle, vars
  <2> QED BY <1>1, <2>1 DEF Serialised
<1> QED BY <1>2, <1>3, <1>4, <1>5, <1>6 DEF Next

\* The end of the environment's failures preserves the invariant, too.
LEMMA SettleInv ==
  ASSUME IInv, Settle
  PROVE  IInv'
BY DEF Settle, fieldVars, IInv, TypeOK, ThreadsOK, FieldsOK, FlagsOK,
       WorldOK, LocalsInv, CandInv, Sound, LeaseInv, LeasesAccounted
-----------------------------------------------------------------------------
\* One goroutine moves while the others rest.
LEMMA WithdrawMove ==
  ASSUME IInv, NEW p \in Procs, Solo(p), NEW label,
         pc' = [pc EXCEPT ![p] = label],
         ~ValidateEndpoint => failureCount' = 0 /\ state' # "withdrawn",
         Down' /\ ~withdrawRetry' => pub' = None,
         Down' => endpoint' = None \/ label \in {"withdraw", "release"},
         label \in Upright => ~Down',
         label \in Withdrawing => ValidateEndpoint
  PROVE  DownInv'
<1>1. \A q \in Procs : pc'[q] = IF q = p THEN label ELSE pc[q]
  BY DEF IInv, TypeOK, ThreadsOK
<1>2. Resting \cap (Upright \cup Withdrawing) = {}
  BY DEF Resting, Upright, Withdrawing
<1> QED BY <1>1, <1>2 DEF DownInv, Solo

\* It moves and leaves status, count and endpoint alone.
LEMMA WithdrawGoto ==
  ASSUME IInv, DownInv, NEW p \in Procs, Solo(p), NEW label,
         pc' = [pc EXCEPT ![p] = label], pc[p] \notin {"withdraw", "release"},
         UNCHANGED <<failureCount, state, withdrawRetry, pub, endpoint>>,
         label \in Upright => pc[p] \in Upright \/ ~Down,
         label \notin Withdrawing
  PROVE  DownInv'
<1>1. Down' = Down
  BY DEF Down
<1>2. Down => endpoint = None
  BY DEF DownInv, Solo, Resting
<1> QED BY <1>1, <1>2, WithdrawMove DEF DownInv

\* Nobody in an operation moves.
LEMMA WithdrawStill ==
  ASSUME IInv, DownInv, NEW p \in Procs, NEW label \in Resting,
         pc[p] \in Resting, pc' = [pc EXCEPT ![p] = label],
         UNCHANGED <<failureCount, state, withdrawRetry, pub>>,
         endpoint' \in {endpoint, None}
  PROVE  DownInv'
<1>1. \A q \in Procs : pc'[q] = IF q = p THEN label ELSE pc[q]
  BY DEF IInv, TypeOK, ThreadsOK
<1>2. Resting \cap (Upright \cup Withdrawing) = {}
      /\ {"withdraw", "release"} \subseteq Withdrawing
  BY DEF Resting, Upright, Withdrawing
<1>3. Down' = Down
  BY DEF Down
<1> QED BY <1>1, <1>2, <1>3 DEF DownInv

LEMMA WithdrawStep ==
  ASSUME IInv, DownInv, NEW p \in Procs, Solo(p), Step(p)
  PROVE  DownInv'
<1> USE DEF At, Goto, Return, fieldVars
<1>1. CASE ValidateCurrent(p) \/ PartialCert(p) \/ UnmapPartial(p)
  BY <1>1, WithdrawGoto
     DEF ValidateCurrent, PartialCert, UnmapPartial, Upright, Withdrawing
<1>2. CASE Discover(p) \/ UpdateEndpointIPs(p) \/ Fingerprint(p)
  <2>1. PICK label : pc' = [pc EXCEPT ![p] = label] /\ label \in {"cert", "fail", "fingerprint", "commit", "verify"}
  BY <1>2 DEF Discover, UpdateEndpointIPs, Fingerprint, ReleaseAndFail
  <2> QED BY <1>2, <2>1, WithdrawGoto
     DEF Discover, UpdateEndpointIPs, Fingerprint, Upright, Withdrawing
<1>3. CASE UnmapOld(p)
  BY <1>3, WithdrawGoto DEF UnmapOld, Upright, Withdrawing
<1>4. CASE UnmapActive(p)
  BY <1>4, WithdrawGoto DEF UnmapActive, Upright, Withdrawing
<1>5. CASE PartialCommit(p)
  <2>1. /\ state' = "degraded" /\ UNCHANGED <<failureCount, withdrawRetry, pub>>
        /\ ~Down
        /\ pc' = [pc EXCEPT ![p] = "unmapPartial"] \/ pc' = [pc EXCEPT ![p] = "reset"]
    BY <1>5 DEF PartialCommit, DownInv, Upright
  <2>2. ~Down'
    BY <2>1 DEF Down
  <2> QED BY <2>1, <2>2, WithdrawMove DEF DownInv, Withdrawing
<1>6. CASE resetValidationFailures(p)
  <2>1. /\ failureCount' = 0 /\ state' \in {"ready", state}
        /\ ~Down
        /\ pc' = [pc EXCEPT ![p] = "idle"] \/ pc' = [pc EXCEPT ![p] = "publish"]
    BY <1>6 DEF resetValidationFailures, DownInv, Upright
  <2>2. ~Down' /\ state' # "withdrawn"
    BY <2>1 DEF Down, failureThreshold
  <2> QED BY <2>1, <2>2, WithdrawMove DEF Withdrawing
<1>7. CASE ValidateCandidate(p)
  <2>1. /\ state' = "validating" 
        /\ UNCHANGED <<failureCount, withdrawRetry, pub, endpoint>>
        /\ pc' = [pc EXCEPT ![p] = "fail"] \/ pc' = [pc EXCEPT ![p] = "cert2"]
        /\ pc[p] = "verify"
    BY <1>7 DEF ValidateCandidate, ReleaseAndFail
  <2>2. Down' => Down
    BY <2>1 DEF Down
  <2>3. Down => endpoint = None
    BY <2>1 DEF DownInv, Solo, Resting
  <2> QED BY <2>1, <2>2, <2>3, WithdrawMove
          DEF DownInv, Upright, Withdrawing
<1>8. CASE Commit(p)
  <2>1. /\ failureCount' = 0 /\ state' \in {"ready", "degraded"}
        /\ pc' = [pc EXCEPT ![p] = "unmapOld"] \/ pc' = [pc EXCEPT ![p] = "publish"]
    BY <1>8 DEF Commit
  <2>2. ~Down' /\ state' # "withdrawn"
    BY <2>1 DEF Down, failureThreshold
  <2> QED BY <2>1, <2>2, WithdrawMove DEF Withdrawing
<1>9. CASE Publish(p)
  <2>1. /\ state' \in {"degraded", state}
        /\ UNCHANGED failureCount
        /\ ~Down
        /\ pc' = [pc EXCEPT ![p] = "idle"]
    BY <1>9 DEF Publish, DownInv, Upright
  <2>2. ~Down' /\ state' # "withdrawn"
    BY <2>1 DEF Down
  <2> QED BY <2>1, <2>2, WithdrawMove DEF DownInv, Upright, Withdrawing
<1>10. CASE Fail(p) /\ ~ValidateEndpoint
  <2>1. /\ state' \in {"stale", "error"}
        /\ failureCount' = failureCount /\ failureCount = 0
        /\ pc' = [pc EXCEPT ![p] = "idle"]
    BY <1>10 DEF Fail, DownInv
  <2>2. ~Down'
    BY <2>1 DEF Down, failureThreshold
  <2> QED BY <2>1, <2>2, WithdrawMove DEF Upright, Withdrawing
<1>11. CASE Fail(p) /\ ValidateEndpoint
  <2> DEFINE was == state = "withdrawn"
             count == IF failureCount < FailureCap THEN failureCount + 1
                      ELSE FailureCap
             retry == withdrawRetry \/ (~was /\ count = failureThreshold)
  <2>1. /\ failureCount' = count /\ withdrawRetry' = retry
        /\ state' = IF was \/ count >= failureThreshold THEN "withdrawn"
                    ELSE "degraded"
        /\ UNCHANGED <<pub, endpoint>> /\ pc[p] = "fail"
        /\ \/ retry /\ pc' = [pc EXCEPT ![p] = "withdraw"]
           \/ ~retry /\ pc' = [pc EXCEPT ![p] = "idle"]
    BY <1>11 DEF Fail
  <2>2. failureCount \in 0 .. 4
    BY DEF IInv, TypeOK, FailureCap, failureThreshold
  <2>3. Down' /\ ~retry => Down
    BY <2>1, <2>2 DEF Down, FailureCap, failureThreshold
  <2>4. ~retry => ~withdrawRetry
    OBVIOUS
  <2>5. Down => endpoint = None
    BY <2>1 DEF DownInv, Solo, Resting
  <2> HIDE DEF retry, count, was
  <2>6. CASE retry
    BY <1>11, <2>1, <2>6, WithdrawMove DEF Upright, Withdrawing
  <2>7. CASE ~retry
    BY <1>11, <2>1, <2>3, <2>4, <2>5, <2>7, WithdrawMove
       DEF DownInv, Upright, Withdrawing
  <2> QED BY <2>6, <2>7
<1>12. CASE Withdraw(p)
  BY <1>12, WithdrawMove
     DEF Withdraw, StillPending, DownInv, Down, Upright, Withdrawing
<1>13. CASE ReleaseActive(p)
  <2>1. /\ UNCHANGED <<failureCount, state, withdrawRetry, pub>>
        /\ endpoint' = None /\ pc[p] = "release"
        /\ pc' = [pc EXCEPT ![p] = "unmapActive"]
    BY <1>13 DEF ReleaseActive, ForgetActive
  <2>2. Down' = Down
    BY <2>1 DEF Down
  <2> QED BY <2>1, <2>2, WithdrawMove DEF DownInv, Upright, Withdrawing
<1> QED BY <1>1, <1>2, <1>3, <1>4, <1>5, <1>6, <1>7, <1>8, <1>9, <1>10, <1>11,
           <1>12, <1>13 DEF Step

LEMMA WithdrawAcquire ==
  ASSUME IInv, DownInv, NEW p \in Procs, Solo(p), Acquire(p)
  PROVE  DownInv'
<1> USE DEF At, Return, Lock, fieldVars
<1>1. pc[p] = "lock"
  BY AcquireMoves
<1>2. Down => endpoint = None
  BY <1>1 DEF DownInv, Solo, Resting
<1>3. CASE Check(p) \/ Sync(p)
  <2>1. PICK next \in {"validate", "publish"} : StartOnCurrent(p, next)
    BY <1>3 DEF Check, Sync
  <2>2. PICK label \in {"idle", next} :
          /\ pc' = [pc EXCEPT ![p] = label]
          /\ label = "idle" \/ ~Down
    BY <1>2, <2>1 DEF StartOnCurrent
  <2> QED BY <1>1, <2>1, <2>2, WithdrawGoto
          DEF StartOnCurrent, Upright, Withdrawing
<1>4. CASE Reconcile(p)
  <2>1. /\ state' \in {"mapping", state}
        /\ UNCHANGED <<failureCount, withdrawRetry, pub, endpoint>>
        /\ pc' = [pc EXCEPT ![p] = "map"] \/ pc' = [pc EXCEPT ![p] = "fail"]
    BY <1>4 DEF Reconcile
  <2>2. Down' => Down
    BY <2>1 DEF Down
  <2> QED BY <1>2, <2>1, <2>2, WithdrawMove
          DEF DownInv, Upright, Withdrawing
<1> QED BY <1>3, <1>4 DEF Acquire

LEMMA WithdrawRest ==
  ASSUME IInv, DownInv, Serial, Serialised,
         \/ \E p \in Callers : Request(p)
         \/ Maintain \/ Probe \/ LoopStop \/ LoopStopped
         \/ World \/ Settle \/ UNCHANGED vars
  PROVE  DownInv'
<1> USE DEF fieldVars
<1>1. CASE (\E p \in Callers : Request(p)) \/ Maintain \/ LoopStop \/ LoopStopped
  <2>1. /\ UNCHANGED <<failureCount, state, withdrawRetry, pub>>
        /\ endpoint' \in {endpoint, None}
    BY <1>1 DEF Request, Maintain, LoopStop, ForgetActive, LoopStopped
  <2> QED BY <1>1, <2>1, RestMoves, WithdrawStill
<1>2. CASE Probe
  <2>1. /\ Loop \in Procs /\ pc[Loop] = "probe" /\ Solo(Loop)
        /\ UNCHANGED <<failureCount, state, withdrawRetry, pub, endpoint>>
    BY <1>2 DEF Probe, At, Serialised, Serial, Solo, Procs
  <2>2. PICK label \in {"fail", "lock", "idle"} :
          pc' = [pc EXCEPT ![Loop] = label]
    BY <1>2 DEF Probe, Goto, Dispatch
  <2> QED BY <2>1, <2>2, WithdrawGoto DEF Upright, Withdrawing
<1>3. CASE World \/ Settle \/ UNCHANGED vars
  <2>1. UNCHANGED <<pc, failureCount, state, withdrawRetry, pub, endpoint>>
    BY <1>3 DEF World, SetLocalBindings, RenewElapses, SyncElapses, RouteChange,
                Settle, vars
  <2> QED BY <2>1 DEF DownInv, Down
<1> QED BY <1>1, <1>2, <1>3

\* IInv, the serialisation and DownInv are kept together, also by a step
\* after which the environment no longer fails (FairSpec).
LEMMA SerialInvariant ==
  ASSUME Serial
  PROVE  Init /\ [][Next \/ Settle]_vars => [](IInv /\ Serialised /\ DownInv)
<1> DEFINE J == IInv /\ Serialised /\ DownInv
<1>1. Init => J
  <2>1. Init => Serialised
    BY DEF Init, Serialised, Resting, Procs
  <2>2. Init => DownInv
    BY DEF Init, DownInv, Down, failureThreshold, Upright, Withdrawing
  <2> QED BY <2>1, <2>2, InitInv
<1>2. J /\ [Next \/ Settle]_vars => J'
  <2> SUFFICES ASSUME J, [Next \/ Settle]_vars PROVE J'
    OBVIOUS
  <2>1. IInv'
    BY RequestInv, MaintainInv, ProbeInv, LoopStopInv, LoopStoppedInv,
       AcquireInv, StepInv, WorldInv, StutterInv, SettleInv
       DEF Next
  <2>2. Serialised'
    BY SerialStep
  <2>3. ASSUME NEW p \in Procs, Step(p)
        PROVE  DownInv'
    BY <2>3, StepMoves, Alone, WithdrawStep
  <2>4. ASSUME NEW p \in Procs, Acquire(p)
        PROVE  DownInv'
    BY <2>4, AcquireMoves, Alone, WithdrawAcquire
  <2>5. DownInv'
    BY <2>3, <2>4, WithdrawRest DEF Next
  <2> QED BY <2>1, <2>2, <2>5
<1> QED BY <1>1, <1>2, PTL

\* Where the operations exclude each other (Check, Sync and Reconcile under
\* opMu, and no fail beside them), a status of "withdrawn" with no retry
\* pending means that the node is out of the DERP map.
THEOREM WithdrawnCorrect ==
  ASSUME Serial
  PROVE  Spec \/ FairSpec => []WithdrawnIsUnpublished
<1>1. DownInv => WithdrawnIsUnpublished
  BY DEF DownInv, Down, WithdrawnIsUnpublished
<1>2. Spec => Init /\ [][Next \/ Settle]_vars
  BY PTL DEF Spec
<1>3. FairSpec => Init /\ [][Next \/ Settle]_vars
  BY PTL DEF FairSpec
<1> QED BY SerialInvariant, <1>1, <1>2, <1>3, PTL
-----------------------------------------------------------------------------
(* A "ready" endpoint keeps its mapping.  A WAN that moves between mapping  *)
(* and fingerprint is left out: the mapping would be recorded under the     *)
(* wrong route and be released as a replaced one when it is renewed.        *)

\* The WAN does not move, or there are no mappings.
OneWan == ~NatMode \/ \E n : Networks = {n}

\* An endpoint whose IPv4 goes through a mapping, which one, and that it lives.
Mapped(e) == NatMode /\ e.v4 # None
MappingOf(e) == [net |-> e.v4, port |-> e.port]
Backed(e) == Mapped(e) => MappingOf(e) \in held

\* The steps of a reconcile up to its commit.
Fresh == {"cert", "fingerprint", "verify", "cert2", "commit"}

\* A candidate, with the mapping that was made for it.
CandidateBacked(label, l) ==
  /\ l.map # None => Mapped(l.ep) /\ l.map \in held
  /\ Mapped(l.ep) => l.map = MappingOf(l.ep)
  /\ label \in {"verify", "cert2", "commit"} /\ l.map # None => l.net = wan

\* What the goroutine in an operation relies on, at its label and with its
\* local variables.
PhaseInv(label, l) ==
  /\ label \in Fresh \cup {"map"} => state \in {"mapping", "validating"}
  /\ label \in {"unmapPartial", "withdraw", "release", "unmapActive"} =>
       state # "ready"
  /\ label \in Fresh => CandidateBacked(label, l)
  /\ label = "validate" => endpoint = l.ep
  /\ label = "unmapPartial" => l.problems
  /\ label = "reset" => (l.problems /\ state # "ready") \/ Backed(endpoint)
  /\ label = "unmapOld" /\ Mapped(endpoint) => l.map # MappingOf(endpoint)

ReadyInv ==
  /\ state = "ready" => endpoint # None /\ Backed(endpoint)
  /\ active # None => NatMode /\ network = wan
  /\ \A p \in Procs : PhaseInv(pc[p], loc[p])

\* Once the loop has stopped it stays so, and nothing is claimed any more.
BackedInv == Stopped \/ ReadyInv

\* The mapping of an endpoint is never nil.
LEMMA MappingExists ==
  ASSUME NEW e \in Endpoint, Mapped(e)
  PROVE  MappingOf(e) # None
BY NilAssumption DEF Mapped, MappingOf, Endpoint, Mapping

\* With one network or none to map on, the route a mapping is on stays.
LEMMA RouteStays ==
  ASSUME OneWan, IInv, IInv', NatMode
  PROVE  wan' = wan
BY DEF OneWan, IInv, TypeOK, WorldOK

\* One goroutine moves while the others rest.
LEMMA ReadyMove ==
  ASSUME IInv, NEW p \in Procs, Solo(p), NEW label, NEW l,
         pc' = [pc EXCEPT ![p] = label],
         loc' = [loc EXCEPT ![p] = l],
         state' = "ready" => endpoint' # None /\ Backed(endpoint)',
         active' # None => NatMode /\ network' = wan',
         PhaseInv(label, l)'
  PROVE  ReadyInv'
<1>1. \A q \in Procs : /\ pc'[q] = IF q = p THEN label ELSE pc[q]
                       /\ loc'[q] = IF q = p THEN l ELSE loc[q]
  BY DEF IInv, TypeOK, ThreadsOK
<1>2. ASSUME NEW q \in Procs
      PROVE  PhaseInv(pc[q], loc[q])'
  <2>1. CASE q = p
    BY <1>1, <2>1 DEF PhaseInv, CandidateBacked, Mapped, MappingOf, Backed
  <2>2. CASE q # p
    BY <1>1, <2>2 DEF Solo, Resting, PhaseInv, Fresh
  <2> QED BY <2>1, <2>2
<1> QED BY <1>2 DEF ReadyInv

\* It moves and leaves the fields alone, and a mapping that lives does so.
LEMMA ReadyGoto ==
  ASSUME IInv, ReadyInv, NEW p \in Procs, Solo(p), NEW label, NEW l,
         pc' = [pc EXCEPT ![p] = label],
         loc' = [loc EXCEPT ![p] = l],
         UNCHANGED <<state, endpoint, active, network, wan>>,
         state = "ready" /\ Mapped(endpoint) => MappingOf(endpoint) \in held',
         PhaseInv(label, l)'
  PROVE  ReadyInv'
<1>1. state' = "ready" => endpoint' # None /\ Backed(endpoint)'
  BY DEF ReadyInv, Backed, Mapped, MappingOf
<1>2. active' # None => NatMode /\ network' = wan'
  BY DEF ReadyInv
<1> QED BY <1>1, <1>2, ReadyMove

\* The error paths: to fail, with nothing in hand.
LEMMA ReadyFail ==
  ASSUME IInv, ReadyInv, NEW p \in Procs, Solo(p), NEW l,
         pc' = [pc EXCEPT ![p] = "fail"], loc' = [loc EXCEPT ![p] = l],
         UNCHANGED <<endpoint, active, network, wan>>,
         state' # "ready" \/ (state' = state /\ held' = held)
  PROVE  ReadyInv'
<1>1. state' = "ready" => endpoint' # None /\ Backed(endpoint)'
  BY DEF ReadyInv, Backed, Mapped, MappingOf
<1>2. active' # None => NatMode /\ network' = wan'
  BY DEF ReadyInv
<1>3. PhaseInv("fail", l)'
  BY DEF PhaseInv, Fresh
<1> QED BY <1>1, <1>2, <1>3, ReadyMove

LEMMA ReadyValidateCurrent ==
  ASSUME IInv, ReadyInv, NEW p \in Procs, Solo(p), ValidateCurrent(p)
  PROVE  ReadyInv'
<1>1. PICK passed \in Validate(loc[p].ep) : ValidateCurrent(p)!2!(passed)
  BY DEF ValidateCurrent
<1>2. /\ pc[p] = "validate"
      /\ UNCHANGED <<state, endpoint, active, network, wan, held>>
  BY DEF ValidateCurrent, At, fieldVars, envVars
<1>3. endpoint = loc[p].ep /\ loc[p].ep \in Endpoint
  BY <1>2 DEF ReadyInv, PhaseInv, IInv, LocalsInv, HasEp, TypeOK, ThreadsOK, Locals
<1>4. state = "ready" /\ Mapped(endpoint) => MappingOf(endpoint) \in held'
  BY <1>2 DEF ReadyInv, Backed
<1>5. CASE passed = {}
  <2>1. PICK label \in {"fail", "idle"} :
          pc' = [pc EXCEPT ![p] = label] /\ loc' = [loc EXCEPT ![p] = NoLocals]
    BY <1>1, <1>5 DEF Goto, Set, Return
  <2>2. PhaseInv(label, NoLocals)'
    BY <2>1 DEF PhaseInv, Fresh
  <2> QED BY <1>2, <1>4, <2>1, <2>2, ReadyGoto
<1>6. CASE passed # {}
  <2> DEFINE all == passed = Families(loc[p].ep)
  <2>1. PICK l, label :
          /\ pc' = [pc EXCEPT ![p] = label] /\ loc' = [loc EXCEPT ![p] = l]
          /\ label = IF all THEN "reset" ELSE "partialCert"
    BY <1>1, <1>6 DEF Goto, Set
  <2>2. all => Backed(endpoint)
    <3> SUFFICES ASSUME all, Mapped(endpoint) PROVE MappingOf(endpoint) \in held
      BY DEF Backed
    <3>1. "v4" \in Families(loc[p].ep)
      BY <1>3 DEF Mapped, Families
    <3>2. "v4" \in Reachable(loc[p].ep)
      BY <3>1 DEF Validate
    <3> QED BY <1>3, <3>2 DEF Reachable, Mapped, MappingOf
  <2>3. all => Backed(endpoint)'
    BY <1>2, <2>2 DEF Backed, Mapped, MappingOf
  <2>4. PhaseInv(label, l)'
    BY <2>1, <2>3 DEF PhaseInv, Fresh
  <2> QED BY <1>2, <1>4, <2>1, <2>4, ReadyGoto
<1> QED BY <1>5, <1>6

LEMMA ReadyPartial ==
  ASSUME IInv, ReadyInv, NEW p \in Procs, Solo(p),
         PartialCert(p) \/ PartialCommit(p) \/ UnmapPartial(p)
  PROVE  ReadyInv'
<1> USE DEF At, Goto, Set
<1>1. loc = [loc EXCEPT ![p] = loc[p]]
  BY DEF IInv, TypeOK, ThreadsOK
<1>2. CASE PartialCert(p)
  <2>1. UNCHANGED <<state, endpoint, active, network, wan, held>>
    BY <1>2 DEF PartialCert, fieldVars, envVars
  <2>2. PICK label \in {"fail", "partialCommit"} : pc' = [pc EXCEPT ![p] = label]
    BY <1>2 DEF PartialCert
  <2>3. PICK l : loc' = [loc EXCEPT ![p] = l]
    BY <1>1, <1>2 DEF PartialCert
  <2>4. PhaseInv(label, l)'
    BY DEF PhaseInv, Fresh
  <2> QED BY <2>1, <2>2, <2>3, <2>4, ReadyGoto DEF ReadyInv, Backed
<1>3. CASE PartialCommit(p)
  <2>1. PICK label \in {"unmapPartial", "reset"} : pc' = [pc EXCEPT ![p] = label]
    BY <1>3 DEF PartialCommit
  <2>2. PICK ep, map, l :
          /\ loc' = [loc EXCEPT ![p] = l]
          /\ l = Local(ep, map, loc[p].passed, None, TRUE)
    BY <1>3 DEF PartialCommit
  <2>3. /\ state' = "degraded" /\ UNCHANGED wan
        /\ active' = None \/ (active' = active /\ network' = network)
    BY <1>3 DEF PartialCommit, envVars
  <2>4. PhaseInv(label, l)'
    BY <2>2, <2>3 DEF PhaseInv, Fresh, Local
  <2> QED BY <2>1, <2>2, <2>3, <2>4, ReadyMove DEF ReadyInv
<1>4. CASE UnmapPartial(p)
  <2>1. PICK l : /\ pc' = [pc EXCEPT ![p] = "reset"]
                 /\ loc' = [loc EXCEPT ![p] = l]
                 /\ l = Local(loc[p].ep, None, loc[p].passed, loc[p].net,
                              loc[p].problems)
    BY <1>4 DEF UnmapPartial, SetMap
  <2>2. UNCHANGED <<state, endpoint, active, network, wan>>
    BY <1>4 DEF UnmapPartial, fieldVars, envVars
  <2>3. state # "ready" /\ loc[p].problems
    BY <1>4 DEF UnmapPartial, ReadyInv, PhaseInv
  <2>4. PhaseInv("reset", l)'
    BY <2>1, <2>2, <2>3 DEF PhaseInv, Fresh, Local
  <2> QED BY <2>1, <2>2, <2>3, <2>4, ReadyGoto
<1> QED BY <1>2, <1>3, <1>4

LEMMA ReadyReset ==
  ASSUME IInv, ReadyInv, NEW p \in Procs, Solo(p), resetValidationFailures(p)
  PROVE  ReadyInv'
<1>1. loc = [loc EXCEPT ![p] = loc[p]]
  BY DEF IInv, TypeOK, ThreadsOK
<1>2. /\ UNCHANGED <<endpoint, active, network, wan, held>> /\ pc[p] = "reset"
      /\ state' = "ready" => state = "ready" \/ (~loc[p].problems /\ endpoint # None)
  BY DEF resetValidationFailures, At, envVars
<1>3. PICK label \in {"idle", "publish"} : pc' = [pc EXCEPT ![p] = label]
  BY DEF resetValidationFailures, Return, Goto
<1>4. PICK l : loc' = [loc EXCEPT ![p] = l]
  BY <1>1 DEF resetValidationFailures, Return
<1>5. state' = "ready" => endpoint # None /\ Backed(endpoint)
  BY <1>2 DEF ReadyInv, PhaseInv
<1>6. state' = "ready" => endpoint' # None /\ Backed(endpoint)'
  BY <1>2, <1>5 DEF Backed, Mapped, MappingOf
<1>7. PhaseInv(label, l)'
  BY DEF PhaseInv, Fresh
<1> QED BY <1>2, <1>3, <1>4, <1>6, <1>7, ReadyMove DEF ReadyInv

\* Discovery maps, and the candidate goes through the mapping it kept.
LEMMA ReadyDiscover ==
  ASSUME IInv, ReadyInv, NEW p \in Procs, Solo(p), Discover(p)
  PROVE  ReadyInv'
<1>1. PICK m \in MapResults, ok4 \in Outcome, ok6 \in Outcome :
        Discover(p)!2!(m, ok4, ok6)
  BY DEF Discover
<1>2. /\ pc[p] = "map" /\ loc = [loc EXCEPT ![p] = loc[p]]
      /\ UNCHANGED <<state, endpoint, active, network, wan>>
  BY DEF Discover, At, fieldVars, envVars, IInv, TypeOK, ThreadsOK
<1>3. state \in {"mapping", "validating"}
  BY <1>2 DEF ReadyInv, PhaseInv
<1> DEFINE v6 == Supported("v6") /\ ok6
           kept == Kept(m, v6)
           cand == Candidate(kept, ok4, v6)
           lost == \E f \in {"v4", "v6"} \ Families(cand) : Wanted(f)
<1>4. held' = (held \ {m}) \cup ({kept} \ {None})
  BY <1>1
<1>5. CASE Families(cand) = {}
  <2>1. PICK l : /\ pc' = [pc EXCEPT ![p] = "fail"]
                 /\ loc' = [loc EXCEPT ![p] = l]
    BY <1>1, <1>2, <1>5 DEF Goto
  <2> QED BY <1>2, <1>3, <2>1, ReadyFail
<1>6. CASE Families(cand) # {}
  <2>1. PICK l : /\ l = Local(cand, kept, {}, None, lost)
                 /\ pc' = [pc EXCEPT ![p] = "cert"] /\ loc' = [loc EXCEPT ![p] = l]
    BY <1>1, <1>6 DEF Goto, Set
  <2>2. l.ep = cand /\ l.map = kept
    BY <2>1 DEF Local
  <2>3. kept # None => NatMode /\ kept \in Mapping
    <3>1. wan \in Networks
      BY DEF IInv, TypeOK, WorldOK
    <3>2. kept \in {m, None}
      BY DEF Kept
    <3>3. m # None => NatMode /\ m \in Mapping
      BY <3>1 DEF MapResults, Mapping
    <3> HIDE DEF kept
    <3> QED BY <3>2, <3>3
  <2>4. kept # None => Mapped(cand) /\ kept = MappingOf(cand) /\ kept \in held'
    <3> HIDE DEF kept
    <3> QED BY <1>4, <2>3, ConfigAssumption
            DEF Candidate, Mapped, MappingOf, Mapping
  <2>5. Mapped(cand) => kept # None
    <3> HIDE DEF kept
    <3> QED BY DEF Candidate, Mapped
  <2> HIDE DEF cand, kept
  <2>6. CandidateBacked("cert", l)'
    BY <2>2, <2>4, <2>5 DEF CandidateBacked, Mapped, MappingOf
  <2>7. PhaseInv("cert", l)'
    BY <1>2, <1>3, <2>6 DEF PhaseInv
  <2> QED BY <1>2, <1>3, <2>1, <2>7, ReadyGoto
<1> QED BY <1>5, <1>6

\* The rest of a reconcile keeps the candidate's mapping, or gives both up.
LEMMA ReadyCandidate ==
  ASSUME IInv, ReadyInv, NEW p \in Procs, Solo(p),
         UpdateEndpointIPs(p) \/ Fingerprint(p)
  PROVE  ReadyInv'
<1> USE DEF At, Goto, Set
<1>1. /\ pc[p] \in {"cert", "cert2", "fingerprint"}
      /\ UNCHANGED <<state, endpoint, active, network, wan>>
      /\ loc = [loc EXCEPT ![p] = loc[p]]
  BY DEF UpdateEndpointIPs, Fingerprint, fieldVars, envVars, IInv, TypeOK,
         ThreadsOK
<1>2. state \in {"mapping", "validating"} /\ CandidateBacked(pc[p], loc[p])
  BY <1>1 DEF ReadyInv, PhaseInv, Fresh
<1>3. CASE ReleaseAndFail(p)
  <2>1. PICK l : /\ pc' = [pc EXCEPT ![p] = "fail"]
                 /\ loc' = [loc EXCEPT ![p] = l]
    BY <1>3 DEF ReleaseAndFail
  <2> QED BY <1>1, <1>2, <2>1, ReadyFail
<1>4. CASE UpdateEndpointIPs(p) /\ ~ReleaseAndFail(p)
  <2>1. PICK l, label :
          /\ label = IF pc[p] = "cert" THEN "fingerprint" ELSE "commit"
          /\ l = loc[p] /\ pc[p] # "fingerprint"
          /\ pc' = [pc EXCEPT ![p] = label] /\ loc' = [loc EXCEPT ![p] = l]
          /\ held' = held
    BY <1>1, <1>4 DEF UpdateEndpointIPs
  <2>2. PhaseInv(label, l)'
    BY <1>1, <1>2, <2>1
       DEF PhaseInv, Fresh, CandidateBacked, Mapped, MappingOf
  <2> QED BY <1>1, <1>2, <2>1, <2>2, ReadyGoto
<1>5. CASE Fingerprint(p) /\ ~ReleaseAndFail(p)
  <2>1. PICK label \in {"verify", "commit"} : pc' = [pc EXCEPT ![p] = label]
    BY <1>5 DEF Fingerprint
  <2>2. held' = held
    BY <1>5 DEF Fingerprint
  <2>3. PICK l :
          /\ loc' = [loc EXCEPT ![p] = l]
          /\ \/ /\ Mapped(loc[p].ep)
                /\ l = Local(loc[p].ep, loc[p].map, loc[p].passed, wan,
                             loc[p].problems)
             \/ ~Mapped(loc[p].ep) /\ l = loc[p]
    BY <1>1, <1>5 DEF Fingerprint, SetNet, Mapped
  <2>4. /\ l.ep = loc[p].ep /\ l.map = loc[p].map
        /\ Mapped(loc[p].ep) => l.net = wan
    BY <2>3 DEF Local
  <2>5. PhaseInv(label, l)'
    BY <1>1, <1>2, <2>2, <2>4
       DEF PhaseInv, Fresh, CandidateBacked, Mapped, MappingOf
  <2> QED BY <1>1, <1>2, <2>1, <2>3, <2>5, ReadyGoto
<1> QED BY <1>3, <1>4, <1>5

LEMMA ReadyVerify ==
  ASSUME IInv, ReadyInv, NEW p \in Procs, Solo(p), ValidateCandidate(p)
  PROVE  ReadyInv'
<1>1. PICK passed \in Validate(loc[p].ep) : ValidateCandidate(p)!3!(passed)
  BY DEF ValidateCandidate
<1>2. /\ pc[p] = "verify" /\ state' = "validating"
      /\ UNCHANGED <<endpoint, active, network, wan>>
  BY DEF ValidateCandidate, At, envVars
<1>3. CandidateBacked("verify", loc[p])
  BY <1>2 DEF ReadyInv, PhaseInv, Fresh
<1>4. CASE ReleaseAndFail(p)
  <2>1. PICK l : /\ pc' = [pc EXCEPT ![p] = "fail"]
                 /\ loc' = [loc EXCEPT ![p] = l]
    BY <1>4 DEF ReleaseAndFail, Goto, Set
  <2> QED BY <1>2, <2>1, ReadyFail
<1>5. CASE ~ReleaseAndFail(p)
  <2> DEFINE left == validated(loc[p].ep, passed)
             unmap == left.v4 = None /\ loc[p].map # None
  <2>1. PICK l : /\ l.ep = (IF unmap THEN OnLocalPort(left) ELSE left)
                 /\ l.map = (IF unmap THEN None ELSE loc[p].map)
                 /\ l.net = (IF unmap THEN None ELSE loc[p].net)
                 /\ pc' = [pc EXCEPT ![p] = "cert2"]
                 /\ loc' = [loc EXCEPT ![p] = l]
    BY <1>1, <1>5 DEF Goto, Set, Local
  <2>2. unmap \/ held' = held
    BY <1>1, <1>5
  <2>3. /\ left.v4 \in {loc[p].ep.v4, None} /\ left.port = loc[p].ep.port
        /\ OnLocalPort(left).v4 = left.v4
    BY DEF validated, OnLocalPort
  <2> HIDE DEF left
  <2>4. CandidateBacked("cert2", l)'
    BY <1>2, <1>3, <2>1, <2>2, <2>3 DEF CandidateBacked, Mapped, MappingOf
  <2>5. PhaseInv("cert2", l)'
    BY <1>2, <2>4 DEF PhaseInv
  <2>6. active' # None => NatMode /\ network' = wan'
    BY <1>2 DEF ReadyInv
  <2> QED BY <1>2, <2>1, <2>5, <2>6, ReadyMove
<1> QED BY <1>4, <1>5

\* A replaced mapping is another one than the new endpoint's.
LEMMA ReadyCommit ==
  ASSUME IInv, ReadyInv, NEW p \in Procs, Solo(p), Commit(p)
  PROVE  ReadyInv'
<1>1. /\ pc[p] = "commit" /\ UNCHANGED <<held, wan>>
      /\ active' = loc[p].map /\ endpoint' = loc[p].ep /\ network' = loc[p].net
  BY DEF Commit, At, envVars
<1>2. CandidateBacked("commit", loc[p]) /\ loc[p].ep # None
  BY <1>1 DEF ReadyInv, PhaseInv, Fresh, IInv, LocalsInv, HasEp
<1>3. loc[p].ep \in Endpoint
  BY <1>2 DEF IInv, TypeOK, ThreadsOK, Locals
<1>4. PICK label \in {"unmapOld", "publish"} :
        /\ pc' = [pc EXCEPT ![p] = label]
        /\ label = "unmapOld" <=> Replaced(active, network, loc[p].map, loc[p].net)
  BY DEF Commit, Goto
<1>5. PICK map, l :
        /\ loc' = [loc EXCEPT ![p] = l]
        /\ l = Local(loc[p].ep, map, loc[p].passed, loc[p].net, loc[p].problems)
        /\ label = "unmapOld" => map = active
  BY <1>4 DEF Commit, SetMap, Set
<1>6. endpoint' # None /\ Backed(endpoint)'
  <2>1. Mapped(loc[p].ep) => MappingOf(loc[p].ep) \in held
    BY <1>2, <1>3, MappingExists DEF CandidateBacked
  <2> QED BY <1>1, <1>2, <2>1 DEF Backed, Mapped, MappingOf
<1>7. active' # None => NatMode /\ network' = wan'
  BY <1>1, <1>2 DEF CandidateBacked, Mapped
<1>8. label = "unmapOld" /\ Mapped(loc[p].ep) => l.map # MappingOf(loc[p].ep)
  <2> SUFFICES ASSUME label = "unmapOld", Mapped(loc[p].ep)
               PROVE  l.map # MappingOf(loc[p].ep)
    OBVIOUS
  <2>1. active # None /\ (network # loc[p].net \/ active # loc[p].map)
    BY <1>4 DEF Replaced
  <2>2. network = wan
    BY <2>1 DEF ReadyInv
  <2>3. loc[p].map = MappingOf(loc[p].ep)
    BY <1>2 DEF CandidateBacked
  <2>4. loc[p].map # None
    BY <2>3, <1>3, MappingExists
  <2>5. l.map = active
    BY <1>5 DEF Local
  <2> QED BY <1>2, <2>1, <2>2, <2>3, <2>4, <2>5 DEF CandidateBacked
<1>9. PhaseInv(label, l)'
  BY <1>1, <1>8 DEF PhaseInv, Fresh, Mapped, MappingOf
<1> QED BY <1>4, <1>5, <1>6, <1>7, <1>9, ReadyMove

LEMMA ReadyEnd ==
  ASSUME IInv, ReadyInv, NEW p \in Procs, Solo(p), UnmapOld(p) \/ Publish(p)
  PROVE  ReadyInv'
<1> USE DEF At, Goto, Set, fieldVars, envVars
<1>1. CASE UnmapOld(p)
  <2>1. /\ pc[p] = "unmapOld" /\ held' = held \ {loc[p].map}
        /\ UNCHANGED <<state, endpoint, active, network, wan>>
    BY <1>1 DEF UnmapOld, Released
  <2>2. PICK l : /\ pc' = [pc EXCEPT ![p] = "publish"]
                 /\ loc' = [loc EXCEPT ![p] = l]
    BY <1>1 DEF UnmapOld, SetMap
  <2>3. PhaseInv("publish", l)'
    BY DEF PhaseInv, Fresh
  <2>4. Mapped(endpoint) => loc[p].map # MappingOf(endpoint)
    BY <2>1 DEF ReadyInv, PhaseInv
  <2> QED BY <2>1, <2>2, <2>3, <2>4, ReadyGoto DEF ReadyInv, Backed
<1>2. CASE Publish(p)
  <2>1. /\ pc' = [pc EXCEPT ![p] = "idle"] /\ loc' = [loc EXCEPT ![p] = NoLocals]
        /\ state' \in {state, "degraded"}
        /\ UNCHANGED <<endpoint, active, network, wan, held>>
    BY <1>2 DEF Publish, Return
  <2>2. state' = "ready" => endpoint' # None /\ Backed(endpoint)'
    BY <2>1 DEF ReadyInv, Backed, Mapped, MappingOf
  <2>3. PhaseInv("idle", NoLocals)'
    BY DEF PhaseInv, Fresh
  <2> QED BY <2>1, <2>2, <2>3, ReadyMove DEF ReadyInv
<1> QED BY <1>1, <1>2

LEMMA ReadyFailing ==
  ASSUME IInv, ReadyInv, NEW p \in Procs, Solo(p),
         Fail(p) \/ Withdraw(p) \/ ReleaseActive(p) \/ UnmapActive(p)
  PROVE  ReadyInv'
<1> USE DEF At, Goto, Set, Return, fieldVars, envVars
<1>1. PICK label \in {"idle", "withdraw", "release", "unmapActive"} :
        pc' = [pc EXCEPT ![p] = label]
  BY DEF Fail, Withdraw, ReleaseActive, UnmapActive
<1>2. PICK l : loc' = [loc EXCEPT ![p] = l]
  <2>1. loc = [loc EXCEPT ![p] = loc[p]]
    BY DEF IInv, TypeOK, ThreadsOK
  <2> QED BY <2>1 DEF Fail, Withdraw, ReleaseActive, ForgetActive, UnmapActive
<1>3. state' # "ready"
  <2>1. CASE Fail(p) \/ Withdraw(p)
    BY <2>1 DEF Fail, Withdraw
  <2>2. CASE ReleaseActive(p) \/ UnmapActive(p)
    BY <2>2 DEF ReleaseActive, ForgetActive, UnmapActive, ReadyInv, PhaseInv
  <2> QED BY <2>1, <2>2
<1>4. /\ active' = None \/ (active' = active /\ network' = network)
      /\ UNCHANGED wan
  BY DEF Fail, Withdraw, ReleaseActive, ForgetActive, UnmapActive
<1>5. PhaseInv(label, l)'
  BY <1>3 DEF PhaseInv, Fresh
<1> QED BY <1>1, <1>2, <1>3, <1>4, <1>5, ReadyMove DEF ReadyInv

\* The start of an operation.
LEMMA ReadyAcquire ==
  ASSUME IInv, ReadyInv, NEW p \in Procs, Solo(p), Acquire(p)
  PROVE  ReadyInv'
<1> USE DEF At, Lock, Set, Return, fieldVars, envVars
<1>1. loc = [loc EXCEPT ![p] = loc[p]]
  BY DEF IInv, TypeOK, ThreadsOK
<1>2. CASE Check(p) \/ Sync(p)
  <2>1. PICK next \in {"validate", "publish"} : StartOnCurrent(p, next)
    BY <1>2 DEF Check, Sync
  <2>2. UNCHANGED <<state, endpoint, active, network, wan, held>>
    BY <2>1 DEF StartOnCurrent
  <2>3. PICK label \in {"idle", next} :
          /\ pc' = [pc EXCEPT ![p] = label]
          /\ label = "idle" <=> endpoint = None
    BY <2>1 DEF StartOnCurrent
  <2>4. PICK l :
          /\ loc' = [loc EXCEPT ![p] = l]
          /\ label = "idle" \/ l = Local(endpoint, None, {}, None, FALSE)
    BY <2>1, <2>3 DEF StartOnCurrent
  <2>5. PhaseInv(label, l)'
    BY <2>2, <2>4 DEF PhaseInv, Fresh, Local
  <2> QED BY <2>2, <2>3, <2>4, <2>5, ReadyGoto DEF ReadyInv, Backed
<1>3. CASE Reconcile(p)
  <2>1. /\ UNCHANGED <<endpoint, active, network, wan, held>>
        /\ \/ state' = "mapping" /\ pc' = [pc EXCEPT ![p] = "map"]
           \/ state' = state /\ pc' = [pc EXCEPT ![p] = "fail"]
        /\ loc' = [loc EXCEPT ![p] = loc[p]]
    BY <1>1, <1>3 DEF Reconcile
  <2>2. PICK l : loc' = [loc EXCEPT ![p] = l]
    BY <2>1
  <2>3. CASE state' = "mapping" /\ pc' = [pc EXCEPT ![p] = "map"]
    <3>1. PhaseInv("map", l)'
      BY <2>3 DEF PhaseInv, Fresh
    <3> QED BY <2>1, <2>2, <2>3, <3>1, ReadyMove DEF ReadyInv
  <2>4. CASE state' = state /\ pc' = [pc EXCEPT ![p] = "fail"]
    BY <2>1, <2>2, <2>4, ReadyFail
  <2> QED BY <2>1, <2>3, <2>4
<1> QED BY <1>2, <1>3 DEF Acquire

LEMMA ReadyStep ==
  ASSUME IInv, ReadyInv, NEW p \in Procs, Solo(p), Step(p)
  PROVE  ReadyInv'
BY ReadyValidateCurrent, ReadyPartial, ReadyReset, ReadyDiscover,
   ReadyCandidate, ReadyVerify, ReadyCommit, ReadyEnd, ReadyFailing DEF Step

\* Between operations, while the loop runs.
LEMMA ReadyRest ==
  ASSUME IInv, IInv', ReadyInv, Serial, OneWan, Serialised,
         \/ \E p \in Callers : Request(p)
         \/ Maintain \/ Probe
         \/ World \/ Settle \/ UNCHANGED vars
  PROVE  ReadyInv'
<1> USE DEF fieldVars, envVars
<1>1. ASSUME UNCHANGED <<state, endpoint, active, network, held, loc>>,
             NatMode => wan' = wan,
             \A q \in Procs : pc'[q] = pc[q] \/ pc'[q] \in Resting \cup {"fail"}
      PROVE  ReadyInv'
  <2>1. state' = "ready" => endpoint' # None /\ Backed(endpoint)'
    BY <1>1 DEF ReadyInv, Backed, Mapped, MappingOf
  <2>2. active' # None => NatMode /\ network' = wan'
    BY <1>1 DEF ReadyInv
  <2>3. ASSUME NEW q \in Procs
        PROVE  PhaseInv(pc[q], loc[q])'
    <3>1. CASE pc'[q] \in Resting \cup {"fail"}
      BY <3>1 DEF PhaseInv, Fresh, Resting
    <3>2. CASE pc'[q] = pc[q]
      <4>1. PhaseInv(pc[q], loc[q])
        BY DEF ReadyInv
      <4> QED BY <1>1, <3>2, <4>1
              DEF PhaseInv, CandidateBacked, Mapped, MappingOf, Backed
    <3> QED BY <1>1, <2>3, <3>1, <3>2
  <2> QED BY <2>1, <2>2, <2>3 DEF ReadyInv
<1>2. CASE (\E p \in Callers : Request(p)) \/ Maintain
  <2>1. /\ UNCHANGED <<state, endpoint, active, network, held, loc, wan>>
    BY <1>2 DEF Request, Maintain
  <2>2. \A q \in Procs : pc'[q] = pc[q] \/ pc'[q] \in Resting
    BY <1>2, RestMoves DEF IInv, TypeOK, ThreadsOK
  <2> QED BY <1>1, <2>1, <2>2
<1>3. CASE Probe
  <2>1. UNCHANGED <<state, endpoint, active, network, held, loc, wan>>
    BY <1>3 DEF Probe
  <2>2. PICK label \in {"fail", "lock", "idle"} :
          pc' = [pc EXCEPT ![Loop] = label]
    BY <1>3 DEF Probe, Goto, Dispatch
  <2>3. \A q \in Procs : pc'[q] = pc[q] \/ pc'[q] \in Resting \cup {"fail"}
    BY <2>2 DEF IInv, TypeOK, ThreadsOK, Resting
  <2> QED BY <1>1, <2>1, <2>3
<1>4. CASE World \/ Settle \/ UNCHANGED vars
  <2>1. UNCHANGED <<pc, state, endpoint, active, network, held, loc>>
    BY <1>4 DEF World, SetLocalBindings, RenewElapses, SyncElapses, RouteChange,
                Settle, vars
  <2>2. NatMode => wan' = wan
    BY RouteStays
  <2> QED BY <1>1, <2>1, <2>2
<1> QED BY <1>2, <1>3, <1>4

\* A stopped loop stays stopped, and only LoopStop stops it.
LEMMA StopsForGood ==
  ASSUME IInv, Stopped, [Next \/ Settle]_vars
  PROVE  Stopped'
<1>1. pc[Loop] \in {"unmapStop", "stopped"} /\ Loop \in Procs
  BY DEF Stopped, Procs
<1>2. ASSUME NEW p \in Procs, Step(p) \/ Acquire(p)
      PROVE  Stopped'
  <2>1. p # Loop
    BY <1>1, <1>2, StepMoves, AcquireMoves DEF Resting
  <2>2. \E label \in Labels : pc' = [pc EXCEPT ![p] = label]
    BY <1>2, StepMoves, AcquireMoves DEF Labels
  <2> QED BY <1>1, <2>1, <2>2 DEF Stopped, IInv, TypeOK, ThreadsOK
<1>3. ASSUME NEW p \in Callers, Request(p)
      PROVE  Stopped'
  BY <1>1, <1>3, ConfigAssumption DEF Request, Stopped, IInv, TypeOK, ThreadsOK
<1>4. CASE LoopStopped
  BY <1>1, <1>4 DEF LoopStopped, Goto, Stopped, IInv, TypeOK, ThreadsOK
<1>5. ~Maintain /\ ~Probe /\ ~LoopStop
  BY <1>1 DEF Maintain, Probe, LoopStop, At
<1>6. CASE World \/ Settle \/ UNCHANGED vars
  BY <1>1, <1>6 DEF World, SetLocalBindings, RenewElapses, SyncElapses,
                    RouteChange, Settle, vars, Stopped
<1> QED BY <1>2, <1>3, <1>4, <1>5, <1>6 DEF Next

LEMMA BackedStep ==
  ASSUME Serial, OneWan, IInv, IInv', Serialised, BackedInv, [Next \/ Settle]_vars
  PROVE  BackedInv'
<1>1. CASE Stopped
  BY <1>1, StopsForGood DEF BackedInv
<1>2. CASE ReadyInv
  <2>1. ASSUME NEW p \in Procs, Step(p)
        PROVE  ReadyInv'
    BY <1>2, <2>1, StepMoves, Alone, ReadyStep
  <2>2. ASSUME NEW p \in Procs, Acquire(p)
        PROVE  ReadyInv'
    BY <1>2, <2>2, AcquireMoves, Alone, ReadyAcquire
  <2>3. CASE LoopStop \/ LoopStopped
    BY <2>3 DEF LoopStop, LoopStopped, Goto, BackedInv, Stopped, Procs, IInv,
                TypeOK, ThreadsOK
  <2> QED BY <1>2, <2>1, <2>2, <2>3, ReadyRest DEF Next, BackedInv
<1> QED BY <1>1, <1>2 DEF BackedInv

\* Where the operations exclude each other and the WAN does not move, a "ready"
\* status has an endpoint behind it whose mapping was not released: neither by
\* an error path, nor as the one a renewal replaced (reconcile, Check, Sync).
THEOREM ReadyCorrect ==
  ASSUME Serial, OneWan
  PROVE  Spec \/ FairSpec => []ReadyIsBacked
<1>1. Init => BackedInv
  <2> SUFFICES ASSUME Init PROVE ReadyInv
    BY DEF BackedInv
  <2>1. \A p \in Procs : pc[p] = "idle"
    BY DEF Init
  <2> QED BY <2>1 DEF Init, ReadyInv, PhaseInv, Fresh
<1>2. IInv /\ IInv' /\ Serialised /\ BackedInv /\ [Next \/ Settle]_vars => BackedInv'
  BY BackedStep
<1>3. BackedInv => ReadyIsBacked
  BY DEF BackedInv, ReadyInv, Backed, Mapped, MappingOf, ReadyIsBacked,
         Quiescent, Stopped, Procs
<1>4. Spec => Init /\ [][Next \/ Settle]_vars
  BY PTL DEF Spec
<1>5. FairSpec => Init /\ [][Next \/ Settle]_vars
  BY PTL DEF FairSpec
<1> QED BY SerialInvariant, <1>1, <1>2, <1>3, <1>4, <1>5, PTL
=============================================================================
