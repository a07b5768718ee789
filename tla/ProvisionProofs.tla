-------------------------- MODULE ProvisionProofs --------------------------
(***************************************************************************)
(* Proofs about Provision, for any methods, ports, addresses and bounds.   *)
(*                                                                         *)
(* The gateway: an entry is unique for its port (Unique), so a renewal is  *)
(* the entry that it renews; what Map has obtained stays at the gateway    *)
(* until it is released (Held), and every lease that the program lets go   *)
(* was released before.  The certificate: key.pem is written only when it  *)
(* is missing, and from the refresh for the candidate to the publication   *)
(* nothing replaces the certificate that is served (CertOK); the published *)
(* hash is that one, and a restart finds it on disk (PinOK).               *)
(***************************************************************************)
EXTENDS Provision, TLAPS

\* The lease's entry is at the gateway, and the client did not lose track of it.
Held(l) == EntryOf(l) \in entries \ stray

\* What Map has in its hands at each of its steps.
CallOK ==
  /\ call \in [step : {"idle", "derp", "stun", "undo", "ok", "failed"},
               n : Nat \ {0}, derp : Lease \cup {None}, stun : Lease \cup {None}]
  /\ call.step \in Kinds => call.n \in 1 .. Len(Methods)
  /\ call.derp # None => call.derp.kind = "derp"
  /\ call.stun # None => call.stun.kind = "stun"
  /\ call.step \in {"idle", "failed", "derp"} => call.derp = None
  /\ call.step \in {"idle", "failed", "derp", "stun"} => call.stun = None
  /\ call.step = "undo" => call.derp # None \/ call.stun # None
  /\ call.step = "stun" => call.derp # None /\ Held(call.derp)
                           /\ call.derp.by = Methods[call.n]
  /\ call.step = "ok" => /\ call.derp # None /\ Held(call.derp)
                         /\ call.stun # None /\ Held(call.stun)
                         /\ call.stun.by = call.derp.by

\* The gateway has one entry for a port.
Unique == \A e, f \in entries : Replaces(e, f) => e = f

\* A lease that Map handed out has both its kinds by one method.
Whole(m) == /\ m \in Mapping
            /\ m.derp.kind = "derp" /\ m.stun.kind = "stun"
            /\ m.stun.by = m.derp.by

\* Which mappings there are at each stage.
StageOK ==
  /\ stage \in {"down", "boot", "idle", "map", "cert", "check", "old", "undo",
                "fail", "rest"}
  /\ stage # "map" => call.step = "idle"
  /\ candidate # None => stage \in {"cert", "check"}
  /\ stage \in {"cert", "check"} => Whole(candidate) /\ \A l \in Leases(candidate) : Held(l)
  /\ active # None => Whole(active)
  /\ stage = "old" => active # None
  /\ stage \in {"down", "boot"} => active = None
  /\ releasing # {} => stage \in {"undo", "old", "rest"}
  /\ published # None => stage \in {"idle", "down", "boot"}

\* EntriesAccounted, entry by entry.
Accounted == \A e \in entries : e \in stray \/ \E l \in Known : e = EntryOf(l)

\* From the commit on, the active mapping is at the gateway.
Backed ==
  ~crossed /\ (stage = "old" \/ (stage = "idle" /\ published # None)) =>
    \A l \in Leases(active) : /\ Held(l)
                              /\ \A r \in releasing : ~Deletes(r, EntryOf(l))

MapInv == CallOK /\ StageOK /\ Unique /\ Accounted /\ Backed
-----------------------------------------------------------------------------
(* The steps of Map and of a release. *)

\* A deletion takes entries away and gives none; what it does not delete stays
\* as it was, and what it should have deleted and did not counts as stray.
LEMMA ReleaseEffect ==
  ASSUME NEW l, NEW out, Release(l, out)
  PROVE  /\ entries' \subseteq entries
         /\ \A e \in entries' : e \in stray => e \in stray'
         /\ EntryOf(l) \in entries' => EntryOf(l) \in stray'
         /\ \A m : Held(m) /\ ~Deletes(l, EntryOf(m)) => EntryOf(m) \in entries' \ stray'
<1>1. PICK after : /\ after = IF out = "fails" THEN entries
                              ELSE {f \in entries : ~Deletes(l, f)}
                   /\ entries' = after
                   /\ stray' = (stray \cup {EntryOf(l)}) \cap after
  BY DEF Release
<1>2. ASSUME NEW m, Held(m), ~Deletes(l, EntryOf(m))
      PROVE  EntryOf(m) \in entries' \ stray'
  <2>1. EntryOf(m) # EntryOf(l)
    BY <1>2 DEF Deletes, EntryOf
  <2> QED BY <1>1, <1>2, <2>1 DEF Held
<1> QED BY <1>1, <1>2

\* Undo keeps the leases, or goes on to the next method without any.
LEMMA UndoOK ==
  ASSUME CallOK,
         NEW c \in [step : {"derp", "stun", "undo"}, n : {call.n},
                    derp : Lease \cup {None}, stun : Lease \cup {None}],
         c.derp # None => c.derp.kind = "derp",
         c.stun # None => c.stun.kind = "stun",
         call' = Undo(c)
  PROVE  /\ CallOK' /\ call'.step # "idle"
         /\ call'.derp = c.derp /\ call'.stun = c.stun
<1>1. CASE c.derp = None /\ c.stun = None
  BY <1>1, MapAssumption DEF Undo, NextMethod, NoCall, CallOK, Kinds
<1>2. CASE ~(c.derp = None /\ c.stun = None)
  <2>1. call' = [c EXCEPT !.step = "undo"]
    BY <1>2 DEF Undo
  <2>2. /\ call' \in [step : {"undo"}, n : {call.n}, derp : Lease \cup {None},
                      stun : Lease \cup {None}]
        /\ call'.derp = c.derp /\ call'.stun = c.stun
    BY <2>1
  <2> QED BY <1>2, <2>2 DEF CallOK, Kinds
<1> QED BY <1>1, <1>2

\* A new entry takes the place of the one it replaces.
LEMMA Adding ==
  ASSUME Unique, NEW e, entries' = Adds(e)
  PROVE  /\ Unique' /\ e \in entries' /\ entries' \subseteq entries \cup {e}
         /\ \A f \in entries : f.kind # e.kind => f \in entries'
BY DEF Unique, Adds, Replaces

\* Map is under way at stage "map" only.
LEMMA InMap ==
  ASSUME MapInv, call.step # "idle"
  PROVE  stage = "map" /\ candidate = None /\ releasing = {}
BY DEF MapInv, StageOK

\* Then only the call matters to what is left of the invariant.
LEMMA DuringMap ==
  ASSUME MapInv, call.step # "idle", UNCHANGED ownVars, CallOK', Unique', Accounted'
  PROVE  MapInv'
<1>1. StageOK'
  BY InMap DEF ownVars, StageOK, MapInv, Whole, Leases
<1>2. Backed'
  BY InMap DEF ownVars, Backed
<1> QED BY <1>1, <1>2 DEF MapInv

\* What a call gains belongs to its caller, who loses nothing.
LEMMA KnownGrows ==
  ASSUME UNCHANGED ownVars, InCall \subseteq InCall'
  PROVE  Known \subseteq Known'
BY DEF Known, ownVars, Leases

\* A lease that Map obtains is at the gateway, and one of its leases.
LEMMA ObtainedOK ==
  ASSUME MapInv, NEW l \in Lease, call.step = l.kind, l.kind \in Kinds, l.by = By,
         entries' = Adds(EntryOf(l)),
         stray' = (stray \ {EntryOf(l)}) \cap entries',
         call' = Obtained(l), UNCHANGED ownVars
  PROVE  MapInv'
<1>1. CallOK /\ Unique /\ Accounted /\ call.step # "idle"
  BY DEF MapInv, Kinds
<1>2. EntryOf(l).kind = l.kind /\ l # None
  BY MapAssumption DEF EntryOf
<1>3. Unique' /\ EntryOf(l) \in entries' \ stray' /\ entries' \subseteq entries \cup {EntryOf(l)}
  BY <1>1, Adding
<1>4. ASSUME l.kind = "stun"
      PROVE  /\ call.derp # None /\ call.derp \in Lease /\ call.derp.kind = "derp" /\ call.derp.by = By
             /\ EntryOf(call.derp) \in entries' \ stray'
  <2>1. /\ call.derp # None /\ Held(call.derp) /\ call.derp.by = By /\ call.derp.kind = "derp"
        /\ call.derp \in Lease
    BY <1>1, <1>4 DEF CallOK, By
  <2>2. EntryOf(call.derp).kind = "derp"
    BY <2>1 DEF EntryOf
  <2> QED BY <1>1, <1>2, <1>4, <2>1, <2>2, Adding DEF Held
<1>5. PICK c : c = Holding(call, l.kind, l)
  OBVIOUS
<1>6. /\ c \in [step : {call.step}, n : {call.n}, derp : Lease \cup {None},
                 stun : Lease \cup {None}]
      /\ l.kind = "derp" => c.derp = l /\ c.stun = None /\ call.derp = None /\ call.stun = None
      /\ l.kind = "stun" => c.stun = l /\ c.derp = call.derp /\ call.stun = None
  BY <1>1, <1>5 DEF Holding, CallOK, Kinds
<1>7. /\ CallOK' /\ call'.step # "idle"
      /\ call'.derp = c.derp /\ call'.stun = c.stun
  <2>1. CASE call' = Undo(c)
    BY <1>1, <1>4, <1>6, <2>1, UndoOK DEF Kinds
  <2>2. CASE l.kind = "derp" /\ call' = [c EXCEPT !.step = "stun"]
    <3>1. /\ call' \in [step : {"stun"}, n : {call.n}, derp : {l}, stun : {None}]
      BY <1>6, <2>2
    <3> QED BY <1>1, <1>2, <1>3, <1>6, <2>2, <3>1 DEF CallOK, Held, Kinds, By
  <2>3. CASE l.kind = "stun" /\ call' = [c EXCEPT !.step = "ok"]
    <3>1. /\ call' \in [step : {"ok"}, n : {call.n}, derp : {call.derp}, stun : {l}]
      BY <1>6, <2>3
    <3> QED BY <1>1, <1>2, <1>3, <1>4, <1>6, <2>3, <3>1 DEF CallOK, Held, Kinds
  <2> QED BY <1>5, <2>1, <2>2, <2>3 DEF Obtained, Kinds
<1>8. l \in Known' /\ Known \subseteq Known'
  <2>1. l \in InCall' /\ InCall \subseteq InCall'
    BY <1>2, <1>6, <1>7 DEF InCall, Kinds
  <2> QED BY <2>1, KnownGrows DEF Known
<1>9. Accounted'
  BY <1>1, <1>3, <1>8 DEF Accounted
<1> QED BY <1>1, <1>3, <1>7, <1>9, DuringMap

LEMMA AcquireOK ==
  ASSUME MapInv, NEW k \in Kinds, NEW p \in Ports, NEW a \in Addrs,
         Acquire(k, p, a, Known), UNCHANGED ownVars
  PROVE  MapInv'
<1>1. PICK l : l = [by |-> By, kind |-> k, port |-> p, nonce |-> nonce(k, Known), ip |-> a]
  OBVIOUS
<1>2. /\ call.step = k /\ l.nonce \in Nonces \cup {None}
      /\ entries' = Adds(EntryOf(l))
      /\ stray' = (stray \ {EntryOf(l)}) \cap entries'
      /\ call' = Obtained(l)
  BY <1>1 DEF Acquire
<1>3. By \in Protocols
  BY <1>2, MapAssumption DEF MapInv, CallOK, By
<1>4. l \in Lease /\ l.kind = k /\ l.by = By
  BY <1>1, <1>2, <1>3 DEF Lease
<1> QED BY <1>2, <1>4, ObtainedOK

\* An entry whose answer was lost counts as stray.
LEMMA AnswerLostOK ==
  ASSUME MapInv, NEW k \in Kinds, NEW p \in Ports, NEW again \in BOOLEAN,
         AnswerLost(k, p, Known, again), UNCHANGED ownVars
  PROVE  MapInv'
<1>1. PICK e : e = [by |-> By, kind |-> k, port |-> p, nonce |-> nonce(k, Known)]
  OBVIOUS
<1>2. /\ call.step = k /\ e.kind = k
      /\ entries' = Adds(e)
      /\ stray' = (stray \cup {e}) \cap entries'
      /\ call' = IF again THEN call ELSE Undo(call)
  BY <1>1 DEF AnswerLost
<1>3. CallOK /\ Unique /\ Accounted /\ call.step # "idle"
  BY <1>2 DEF MapInv, Kinds
<1>4. Unique' /\ e \in stray' /\ entries' \subseteq entries \cup {e}
  BY <1>2, <1>3, Adding
<1>5. CallOK' /\ call'.step # "idle" /\ call'.derp = call.derp /\ call'.stun = call.stun
  <2>1. CASE ~again
    <3>1. call \in [step : {"derp", "stun", "undo"}, n : {call.n},
                    derp : Lease \cup {None}, stun : Lease \cup {None}]
      BY <1>2, <1>3 DEF CallOK, Kinds
    <3> QED BY <1>2, <1>3, <2>1, <3>1, UndoOK DEF CallOK
  <2>2. CASE again
    <3>1. call' = call
      BY <1>2, <2>2
    <3>2. k = "stun" => Held(call.derp)'
      <4> SUFFICES ASSUME k = "stun" PROVE EntryOf(call'.derp) \in entries' \ stray'
        BY DEF Held
      <4>1. Held(call.derp) /\ EntryOf(call.derp).kind = "derp"
        BY <1>2, <1>3, <3>1 DEF CallOK, EntryOf
      <4> QED BY <1>2, <1>3, <3>1, <4>1, Adding DEF Held
    <3> QED BY <1>2, <1>3, <3>1, <3>2 DEF CallOK, Kinds
  <2> QED BY <2>1, <2>2
<1>6. Known \subseteq Known'
  BY <1>5, KnownGrows DEF InCall
<1>7. Accounted'
  BY <1>3, <1>2, <1>4, <1>6 DEF Accounted
<1> QED BY <1>3, <1>4, <1>5, <1>7, DuringMap

LEMMA RefusedOK ==
  ASSUME MapInv, NEW k \in Kinds, Refused(k), UNCHANGED ownVars
  PROVE  MapInv'
<1>1. CallOK /\ call.step = k /\ call.step # "idle" /\ call' = Undo(call)
  BY DEF MapInv, Refused, Kinds
<1>2. call \in [step : {"derp", "stun", "undo"}, n : {call.n},
                derp : Lease \cup {None}, stun : Lease \cup {None}]
  BY <1>1 DEF CallOK, Kinds
<1>3. CallOK' /\ call'.derp = call.derp /\ call'.stun = call.stun
  BY <1>1, <1>2, UndoOK DEF CallOK
<1>4. Unique' /\ Accounted'
  <2>1. Known \subseteq Known'
    BY <1>3, KnownGrows DEF InCall
  <2> QED BY <2>1 DEF MapInv, Unique, Accounted, Refused
<1> QED BY <1>1, <1>3, <1>4, DuringMap

\* A lease that is given back, or whose release fails, need not be known.
LEMMA ReleasedAccounted ==
  ASSUME MapInv, NEW l, NEW out, Release(l, out), Known \subseteq Known' \cup {l}
  PROVE  Unique' /\ Accounted'
<1>1. entries' \subseteq entries /\ \A e \in entries' : e \in stray => e \in stray'
  BY ReleaseEffect
<1>2. EntryOf(l) \in entries' => EntryOf(l) \in stray'
  BY ReleaseEffect
<1>3. Unique'
  BY <1>1 DEF MapInv, Unique
<1>4. Accounted'
  BY <1>1, <1>2 DEF MapInv, Accounted
<1> QED BY <1>3, <1>4

LEMMA UndoLeaseOK ==
  ASSUME MapInv, NEW out \in Outcomes, UndoLease(out), UNCHANGED ownVars
  PROVE  MapInv'
<1>1. PICK l : l = IF Undone = "derp" THEN call.derp ELSE call.stun
  OBVIOUS
<1>2. PICK c : c = Holding(call, Undone, None)
  OBVIOUS
<1>3. /\ CallOK /\ call.step = "undo" /\ Release(l, out)
      /\ call' = IF c.derp = None /\ c.stun = None THEN NextMethod ELSE c
  BY <1>1, <1>2 DEF MapInv, UndoLease
<1>4. /\ c \in [step : {"undo"}, n : {call.n}, derp : Lease \cup {None},
                 stun : Lease \cup {None}]
      /\ InCall \subseteq {c.derp, c.stun, l}
      /\ c.derp \in {call.derp, None} /\ c.stun \in {call.stun, None}
  BY <1>1, <1>2, <1>3 DEF CallOK, Holding, Undone, InCall
<1>5. CallOK' /\ call'.derp = c.derp /\ call'.stun = c.stun
  BY <1>3, <1>4, MapAssumption DEF CallOK, NextMethod, NoCall, Kinds
<1>6. Known \subseteq Known' \cup {l}
  BY <1>4, <1>5 DEF Known, InCall, ownVars, Leases
<1>7. Unique' /\ Accounted'
  BY <1>3, <1>6, ReleasedAccounted
<1> QED BY <1>3, <1>5, <1>7, DuringMap

LEMMA MapStepOK ==
  ASSUME MapInv, MapStep(Known), UNCHANGED ownVars
  PROVE  MapInv'
BY RefusedOK, AcquireOK, AnswerLostOK, UndoLeaseOK DEF MapStep
-----------------------------------------------------------------------------
(* The steps of main and reconcile. *)

LEMMA StartOK == ASSUME MapInv, NEW r, Start(r) PROVE MapInv'
BY DEF MapInv, CallOK, StageOK, Unique, Accounted, Backed, Start, Enter, mapVars,
       Known, InCall, Leases, Whole, Held

LEMMA BootedOK == ASSUME MapInv, Booted PROVE MapInv'
BY DEF MapInv, CallOK, StageOK, Unique, Accounted, Backed, Booted, Enter, mapVars,
       Known, InCall, Leases, Whole, Held

\* After a crash the client knows nothing of what is at the gateway.
LEMMA CrashOK == ASSUME MapInv, Crash PROVE MapInv'
<1>1. CallOK'
  BY DEF Crash, CallOK, NoCall, Kinds
<1> QED BY <1>1 DEF MapInv, StageOK, Unique, Accounted, Backed, Crash, Enter, NoCall

LEMMA ReconcileOK == ASSUME MapInv, Reconcile PROVE MapInv'
<1>1. CallOK' /\ InCall' = InCall
  BY MapAssumption DEF MapInv, Reconcile, Map, CallOK, NoCall, Kinds, InCall
<1>2. Unique' /\ Accounted'
  BY <1>1 DEF MapInv, Reconcile, Map, Unique, Accounted, Known, Leases
<1> QED BY <1>1, <1>2 DEF MapInv, StageOK, Backed, Reconcile, Enter

LEMMA NotMappedOK == ASSUME MapInv, NotMapped PROVE MapInv'
<1>1. CallOK' /\ InCall = InCall' /\ call'.step = "idle"
  BY DEF MapInv, NotMapped, CallOK, NoCall, Kinds, InCall
<1>2. Unique' /\ Accounted'
  BY <1>1 DEF MapInv, NotMapped, Unique, Accounted, Known, Leases
<1> QED BY <1>1, <1>2 DEF MapInv, StageOK, Backed, NotMapped, Enter

LEMMA MappedOK == ASSUME MapInv, Mapped PROVE MapInv'
<1>1. /\ CallOK' /\ call'.step = "idle" /\ InCall' = {}
      /\ InCall = {call.derp, call.stun} /\ candidate = None
  BY DEF MapInv, Mapped, CallOK, StageOK, NoCall, Kinds, InCall
<1>2. candidate' \in Mapping /\ candidate'.derp = call.derp /\ candidate'.stun = call.stun
  BY DEF MapInv, Mapped, CallOK, Mapping
<1>3. Leases(candidate)' = InCall /\ Leases(candidate) = {}
  BY <1>1, <1>2, ProvisionAssumption DEF Leases
<1>4. Unique' /\ Accounted'
  BY <1>1, <1>3 DEF MapInv, Mapped, Unique, Accounted, Known, Leases
<1>5. Whole(candidate)' /\ \A l \in Leases(candidate)' : Held(l)'
  BY <1>1, <1>2, <1>3 DEF MapInv, Mapped, CallOK, Whole, Held
<1> QED BY <1>1, <1>4, <1>5 DEF MapInv, StageOK, Backed, Mapped, Enter, Whole

LEMMA DropOK ==
  ASSUME MapInv, DropCandidate, stage \in {"cert", "check"}
  PROVE  MapInv'
<1>1. Known' = Known /\ CallOK'
  BY DEF MapInv, StageOK, DropCandidate, mapVars, Known, Leases, InCall, CallOK, Held
<1>2. Unique' /\ Accounted'
  BY <1>1 DEF MapInv, DropCandidate, mapVars, Unique, Accounted
<1> QED BY <1>1, <1>2 DEF MapInv, StageOK, Backed, DropCandidate, Enter, mapVars

LEMMA CertifiedOK == ASSUME MapInv, Certified PROVE MapInv'
<1>1. CASE DropCandidate
  BY <1>1, DropOK DEF Certified
<1>2. CASE Enter("check") /\ UNCHANGED <<mapVars, active, candidate, releasing, published, crossed>>
  BY <1>2 DEF MapInv, CallOK, StageOK, Unique, Accounted, Backed, Certified, Enter,
              mapVars, Known, InCall, Leases, Whole, Held
<1> QED BY <1>1, <1>2 DEF Certified

LEMMA InvalidOK == ASSUME MapInv, Invalid PROVE MapInv'
BY DropOK DEF Invalid

\* A lease of a mapping that is the same is the same entry.
LEMMA SameEntry ==
  ASSUME Unique, Whole(active), Whole(candidate), sameMapping(active, candidate),
         \A l \in Leases(candidate) : Held(l),
         NEW m \in Leases(active), EntryOf(m) \in entries
  PROVE  \E l \in Leases(candidate) : EntryOf(m) = EntryOf(l)
<1>1. Leases(candidate) = {candidate.derp, candidate.stun}
      /\ Leases(active) = {active.derp, active.stun}
  BY ProvisionAssumption DEF Leases, Whole
<1>2. PICK l \in Leases(candidate) : l.by = m.by /\ l.kind = m.kind /\ l.port = m.port
  BY <1>1 DEF Whole, sameMapping, sameLease
<1>3. Replaces(EntryOf(m), EntryOf(l))
  BY <1>2 DEF Replaces, EntryOf
<1> QED BY <1>2, <1>3 DEF Unique, Held

LEMMA CommitOK == ASSUME MapInv, Commit PROVE MapInv'
<1>1. /\ Whole(candidate) /\ \A l \in Leases(candidate) : Held(l)
      /\ active # None => Whole(active)
      /\ releasing = {} /\ call.step = "idle" /\ candidate # None /\ published = None
  BY ProvisionAssumption DEF MapInv, StageOK, Commit, Whole
<1>2. CallOK' /\ Unique' /\ InCall' = InCall
  BY DEF MapInv, CallOK, Held, Unique, InCall, Commit, mapVars
<1>3. Accounted'
  <2> SUFFICES ASSUME NEW e \in entries, e \notin stray
               PROVE  \E l \in Known' : e = EntryOf(l)
    BY DEF Accounted, Commit, mapVars
  <2>1. PICK l \in Known : e = EntryOf(l)
    BY DEF MapInv, Accounted
  <2>2. CASE l \in Leases(candidate) \cup InCall
    BY <1>2, <2>1, <2>2 DEF Known, Commit, Leases
  <2>3. CASE l \in Leases(active) /\ releasing' = Leases(active)
    BY <2>1, <2>3 DEF Known
  <2>4. CASE l \in Leases(active) /\ active # None /\ sameMapping(active, candidate)
    <3>1. PICK m \in Leases(candidate) : e = EntryOf(m)
      BY <1>1, <2>1, <2>4, SameEntry DEF MapInv
    <3> QED BY <3>1 DEF Known, Commit, Leases
  <2> QED BY <1>1, <2>1, <2>2, <2>3, <2>4 DEF Known, Commit, Leases
<1>4. ASSUME NEW l \in Leases(candidate), NEW r \in releasing', Deletes(r, EntryOf(l))
      PROVE  crossed'
  <2>1. active # None /\ r \in Leases(active) /\ ~sameMapping(active, candidate)
    BY <1>4 DEF Commit
  <2>2. Leases(active) # Leases(candidate)
    <3>1. /\ Leases(candidate) = {candidate.derp, candidate.stun}
          /\ Leases(active) = {active.derp, active.stun}
      BY <1>1, <2>1 DEF Leases
    <3> QED BY <1>1, <2>1, <3>1 DEF Whole, sameMapping, sameLease
  <2> QED BY <1>4, <2>1, <2>2 DEF Commit
<1>5. Backed'
  BY <1>1, <1>4 DEF Backed, Commit, mapVars, Held, Leases
<1>6. StageOK'
  BY <1>1 DEF MapInv, StageOK, Commit, Enter, mapVars, Whole
<1> QED BY <1>2, <1>3, <1>5, <1>6 DEF MapInv

LEMMA ReleaseOneOK ==
  ASSUME MapInv, NEW l \in releasing, NEW out \in Outcomes, ReleaseOne(l, out)
  PROVE  MapInv'
<1>1. /\ Release(l, out) /\ stage \in {"undo", "old", "rest"}
      /\ call' = call /\ call.step = "idle"
  BY DEF MapInv, StageOK, ReleaseOne
<1>2. Unique' /\ Accounted'
  <2>1. Known \subseteq Known' \cup {l}
    BY DEF Known, ReleaseOne, InCall
  <2> QED BY <1>1, <2>1, ReleasedAccounted
<1>3. CallOK'
  BY <1>1 DEF MapInv, CallOK, Kinds
<1>4. StageOK'
  BY <1>1 DEF MapInv, StageOK, ReleaseOne, Whole
<1>5. Backed'
  BY <1>1, ReleaseEffect DEF MapInv, Backed, ReleaseOne, Held
<1> QED BY <1>2, <1>3, <1>4, <1>5 DEF MapInv

LEMMA PublishOK == ASSUME MapInv, NEW ok, Publish(ok) PROVE MapInv'
BY DEF MapInv, CallOK, StageOK, Unique, Accounted, Backed, Publish, Enter, mapVars,
       Known, InCall, Leases, Whole, Held

LEMMA FailOK == ASSUME MapInv, NEW giveUp, Fail(giveUp) PROVE MapInv'
<1>1. Known' = Known /\ CallOK'
  BY DEF MapInv, StageOK, Fail, mapVars, Known, Leases, InCall, CallOK, Held
<1>2. Unique' /\ Accounted'
  BY <1>1 DEF MapInv, Fail, mapVars, Unique, Accounted
<1> QED BY <1>1, <1>2 DEF MapInv, StageOK, Backed, Fail, Enter, mapVars, Whole

LEMMA RestOK == ASSUME MapInv, Rest PROVE MapInv'
BY DEF MapInv, CallOK, StageOK, Unique, Accounted, Backed, Rest, Enter, mapVars,
       Known, InCall, Leases, Whole, Held

\* Only what nobody renews runs out.
LEMMA RunOutOK ==
  ASSUME MapInv, NEW e \in entries, RunOut(e), UNCHANGED ownVars
  PROVE  MapInv'
<1>1. CallOK' /\ \A l : Held(l) => Held(l)'
  BY DEF MapInv, CallOK, RunOut, Held
<1>2. Unique' /\ Accounted'
  BY DEF MapInv, Unique, Accounted, RunOut, Known, InCall, Leases, ownVars
<1> QED BY <1>1, <1>2 DEF MapInv, StageOK, Backed, RunOut, ownVars, Whole, Leases

\* The certificate is no matter of the gateway's.
LEMMA Elsewhere ==
  ASSUME MapInv, UNCHANGED <<mapVars, ownVars>>
  PROVE  MapInv'
BY DEF MapInv, CallOK, StageOK, Unique, Accounted, Backed, mapVars, ownVars, Known,
       InCall, Leases, Whole, Held

LEMMA MapInvInit == ASSUME Init PROVE MapInv
BY DEF Init, MapInit, MapInv, CallOK, StageOK, Unique, Accounted, Backed, NoCall, Kinds

LEMMA MapInvNext == ASSUME MapInv, [Next]_vars PROVE MapInv'
<1>1. CASE Ages
  BY <1>1, RunOutOK, Elsewhere DEF Ages
<1>2. CASE MapStep(Known) /\ UNCHANGED <<certVars, ownVars>>
  BY <1>2, MapStepOK
<1>3. CASE CertStep(Pin) /\ UNCHANGED <<mapVars, ownVars>>
  BY <1>3, Elsewhere
<1>4. CASE UNCHANGED vars
  BY <1>4, Elsewhere DEF vars
<1> QED BY <1>1, <1>2, <1>3, <1>4, StartOK, BootedOK, CrashOK, ReconcileOK, MappedOK,
           NotMappedOK, CertifiedOK, InvalidOK, CommitOK, ReleaseOneOK, PublishOK,
           FailOK, RestOK DEF Next

LEMMA MapInvAlways == Spec => []MapInv
BY MapInvInit, MapInvNext, PTL DEF Spec

\* No method given up on, no failed step of reconcile and no crash leaves the
\* gateway with an entry that the client neither knows nor lost track of.
THEOREM EntriesAccountedTheorem == Spec => []EntriesAccounted
<1>1. MapInv => EntriesAccounted
  BY DEF MapInv, Accounted, EntriesAccounted
<1> QED BY <1>1, MapInvAlways, PTL

\* Unless the old mapping was the same entry as the new one, the endpoint that
\* a reconcile has put in the DERP map has both its mappings at the gateway.
THEOREM ActiveBackedTheorem == Spec => []ActiveBacked
<1>1. MapInv => ActiveBacked
  BY DEF MapInv, Backed, ActiveBacked, Held
<1> QED BY <1>1, MapInvAlways, PTL
-----------------------------------------------------------------------------
(* The certificate. *)

\* An update makes a key only where there is none; from its end to the
\* publication the certificate that is served has the candidate's address.
CertOK ==
  /\ update \in [step : {"idle", "load", "key", "cert", "ok", "failed"}, ips : SUBSET Names]
  /\ keyFile \in Keys \cup {Nil}
  /\ certFile \in Certificate \cup {Nil} /\ served \in Certificate \cup {Nil}
  /\ certFile # Nil => certFile.key = keyFile /\ BaseNames \subseteq certFile.names
  /\ served # Nil => BaseNames \cup endpoints \subseteq served.names
  /\ At("key") => keyFile = Nil
  /\ At("cert") => keyFile # Nil
  /\ At("ok") => served # Nil /\ endpoints = update.ips
  /\ ~At("idle") => stage \in {"boot", "cert"}
  /\ stage = "cert" => ~At("idle") /\ update.ips = {candidate.derp.ip}
  /\ stage = "check" => served # Nil /\ endpoints = {candidate.derp.ip}
  /\ stage = "old" => served # Nil /\ endpoints = {active.derp.ip}

\* Where the certificate with the published hash is, at each stage.
PinOK ==
  published # None =>
    \/ published.pin \in due
    \/ /\ stage = "idle" => /\ served # Nil /\ served.serial = published.pin
                            /\ published.ip \in served.names
       /\ stage \in {"down", "boot"} =>
            /\ certFile # Nil /\ certFile.serial = published.pin
            /\ published.ip \in certFile.names
       /\ stage = "boot" => At("ok") /\ served = certFile

\* No step of an update writes key.pem over one that is there.
LEMMA UpdateOK ==
  ASSUME CertOK, CertStep(Pin), UNCHANGED ownVars
  PROVE  CertOK' /\ (keyFile # Nil => keyFile' = keyFile)
<1>0. UNCHANGED <<stage, candidate, active>>
  BY DEF ownVars
<1>1. ASSUME NEW r \in Readable, loadExisting(r)
      PROVE  CertOK' /\ keyFile' = keyFile
  BY <1>0, <1>1 DEF CertOK, loadExisting, setCurrent, Goto, At, MissingKey, Wanted,
                    InDate, fileVars, Readable
<1>2. ASSUME NEW out \in Writes, writePrivateKey(out)
      PROVE  CertOK' /\ keyFile = Nil
  <2>1. keyFile = Nil /\ certFile = Nil /\ keyFile' \in Keys \cup {Nil}
        /\ (out # "fails" => keyFile' # Nil)
    BY <1>2, CertAssumption DEF CertOK, writePrivateKey, Certificate
  <2> QED BY <1>0, <1>2, <2>1 DEF CertOK, writePrivateKey, Goto, At, Writes
<1>3. ASSUME NEW out \in Writes, NEW s \in Serials, persist(s, out, Pin)
      PROVE  CertOK' /\ keyFile' = keyFile
  <2>1. PICK c : c = [key |-> keyFile, names |-> Wanted, serial |-> s]
    OBVIOUS
  <2>2. c \in Certificate /\ c # Nil /\ c.key = keyFile /\ c.names = Wanted
    BY <1>3, <2>1, CertNilAssumption DEF CertOK, persist, Certificate, Wanted
  <2>3. /\ At("cert") /\ keyFile' = keyFile
        /\ certFile' = IF out = "fails" THEN certFile ELSE c
        /\ IF out = "done" THEN setCurrent(c) ELSE Fails
    BY <1>3, <2>1 DEF persist
  <2> QED BY <1>0, <2>2, <2>3 DEF CertOK, setCurrent, Fails, Goto, At, Wanted
<1> QED BY <1>1, <1>2, <1>3 DEF CertStep

LEMMA CertOKInit == ASSUME Init PROVE CertOK
BY DEF Init, CertInit, CertOK, Idle, At

LEMMA CertOKNext ==
  ASSUME MapInv, CertOK, [Next]_vars
  PROVE  CertOK' /\ (keyFile # Nil => keyFile' = keyFile)
<1>1. CASE CertStep(Pin) /\ UNCHANGED <<mapVars, ownVars>>
  BY <1>1, UpdateOK
<1>2. ASSUME NEW r \in BOOLEAN, Start(r)
      PROVE  CertOK' /\ keyFile' = keyFile
  BY <1>2 DEF CertOK, Start, NewManager, Reusable, InDate, At, Enter, fileVars
<1>3. CASE Booted
  BY <1>3 DEF CertOK, Booted, At, Idle, Enter, fileVars
<1>4. CASE Crash
  BY <1>4 DEF CertOK, Crash, At, Idle, Enter, fileVars
<1>5. CASE Mapped
  <2>1. call.derp.ip \in Names /\ candidate'.derp = call.derp
    BY <1>5, ProvisionAssumption DEF MapInv, CallOK, Mapped, Lease
  <2> QED BY <1>5, <2>1 DEF CertOK, Mapped, UpdateEndpointIPs, InDate, At, Enter, fileVars
<1>6. CASE Certified
  BY <1>6 DEF CertOK, Certified, DropCandidate, At, Idle, Enter, fileVars
<1>7. CASE Commit
  BY <1>7 DEF CertOK, Commit, At, Enter, certVars
<1>8. CASE Reconcile \/ NotMapped \/ Invalid \/ Rest
           \/ \E ok \in BOOLEAN : Publish(ok) \/ Fail(ok)
  BY <1>8 DEF CertOK, Reconcile, NotMapped, Invalid, DropCandidate, Rest, Publish, Fail,
              At, Enter, certVars
<1>9. ASSUME NEW l \in releasing, NEW out \in Outcomes, ReleaseOne(l, out)
      PROVE  CertOK' /\ keyFile' = keyFile
  BY <1>9 DEF CertOK, ReleaseOne, At, certVars
<1>10. CASE MapStep(Known) /\ UNCHANGED <<certVars, ownVars>>
  BY <1>10 DEF CertOK, At, certVars, ownVars
<1>11. CASE Ages
  BY <1>11 DEF CertOK, Ages, Age, At, certVars, ownVars, fileVars
<1>12. CASE UNCHANGED vars
  BY <1>12 DEF CertOK, At, vars, certVars, ownVars
<1> QED BY <1>1, <1>2, <1>3, <1>4, <1>5, <1>6, <1>7, <1>8, <1>9, <1>10, <1>11, <1>12 DEF Next

LEMMA CertOKAlways == Spec => [](MapInv /\ CertOK)
<1>1. Init => MapInv /\ CertOK
  BY MapInvInit, CertOKInit
<1>2. MapInv /\ CertOK /\ [Next]_vars => (MapInv /\ CertOK)'
  BY MapInvNext, CertOKNext
<1> QED BY <1>1, <1>2, PTL DEF Spec

\* The pin is stable over every failure and restart: key.pem is never replaced,
\* and cert.pem always belongs to it.
THEOREM KeyStableTheorem == Spec => KeyStable
<1>1. MapInv /\ CertOK /\ [Next]_vars =>
        [/\ keyFile # Nil => keyFile' = keyFile
         /\ certFile' # Nil => certFile'.key = keyFile']_certVars
  BY CertOKNext DEF CertOK
<1> QED BY <1>1, CertOKAlways, PTL DEF Spec, KeyStable

\* The published hash does not leave due, and no update runs while it is not in it.
LEMMA UpdatePin ==
  ASSUME MapInv, CertOK, PinOK, CertStep(Pin), UNCHANGED ownVars
  PROVE  PinOK'
<1> SUFFICES ASSUME published # None PROVE PinOK'
  BY DEF PinOK, ownVars
<1>1. Pin = published.pin /\ published' = published
  BY DEF Pin, ownVars
<1>2. At("load") \/ At("key") \/ At("cert")
  BY DEF CertStep, loadExisting, writePrivateKey, persist
<1>3. published.pin \in due
  BY <1>2 DEF MapInv, StageOK, CertOK, PinOK, At
<1>4. published.pin \in due'
  BY <1>1, <1>3 DEF CertStep, loadExisting, writePrivateKey, persist
<1> QED BY <1>1, <1>4 DEF PinOK

LEMMA PinOKNext ==
  ASSUME MapInv, CertOK, PinOK, [Next]_vars
  PROVE  PinOK'
<1>1. CASE CertStep(Pin) /\ UNCHANGED <<mapVars, ownVars>>
  BY <1>1, UpdatePin
<1>2. ASSUME NEW r \in BOOLEAN, Start(r)
      PROVE  PinOK'
  BY <1>2 DEF PinOK, CertOK, Start, NewManager, Reusable, InDate, At, Enter, fileVars
<1>3. CASE Booted
  BY <1>3 DEF PinOK, Booted, At, Enter, fileVars
<1>4. CASE Crash
  BY <1>4 DEF PinOK, MapInv, StageOK, Crash, Enter, fileVars
<1>5. ASSUME NEW ok \in BOOLEAN, Publish(ok)
      PROVE  PinOK'
  <2>1. served # Nil /\ active.derp.ip \in served.names
    BY <1>5 DEF CertOK, Publish
  <2> QED BY <1>5, <2>1 DEF PinOK, Publish, Enter, certVars
<1>6. CASE Reconcile \/ NotMapped \/ Mapped \/ Certified \/ Invalid \/ Commit \/ Rest
           \/ \E giveUp \in BOOLEAN : Fail(giveUp)
  <2>1. published' = None
    BY <1>6 DEF MapInv, StageOK, Reconcile, NotMapped, Mapped, Certified, Invalid,
                DropCandidate, Commit, Rest, Fail
  <2> QED BY <2>1 DEF PinOK
<1>7. ASSUME NEW l \in releasing, NEW out \in Outcomes, ReleaseOne(l, out)
      PROVE  PinOK'
  BY <1>7 DEF PinOK, ReleaseOne, certVars, At
<1>8. CASE MapStep(Known) /\ UNCHANGED <<certVars, ownVars>>
  BY <1>8 DEF PinOK, certVars, ownVars, At
<1>9. CASE Ages
  BY <1>9 DEF PinOK, Ages, Age, certVars, ownVars, fileVars, At
<1>10. CASE UNCHANGED vars
  BY <1>10 DEF PinOK, vars, certVars, ownVars, At
<1> QED BY <1>1, <1>2, <1>3, <1>4, <1>5, <1>6, <1>7, <1>8, <1>9, <1>10 DEF Next

\* Clients that pin the published CertName find its certificate until it is due,
\* over failed updates, crashes and restarts.
THEOREM PinServedTheorem == Spec => []PinServed
<1>1. Init => MapInv /\ CertOK /\ PinOK
  BY MapInvInit, CertOKInit DEF Init, PinOK
<1>2. MapInv /\ CertOK /\ PinOK /\ [Next]_vars => (MapInv /\ CertOK /\ PinOK)'
  BY MapInvNext, CertOKNext, PinOKNext
<1>3. MapInv /\ PinOK => PinServed
  BY DEF MapInv, StageOK, PinOK, PinServed
<1> QED BY <1>1, <1>2, <1>3, PTL DEF Spec
=============================================================================
