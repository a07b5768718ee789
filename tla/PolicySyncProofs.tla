-------------------------- MODULE PolicySyncProofs --------------------------
(***************************************************************************)
(* Proofs about PolicySync, for any tailnets, goroutines and policy files. *)
(*                                                                         *)
(* The argument: a goroutine that is to write a file holds its lock        *)
(* (LockInv), and what a syncer is to write is the patch of what it read   *)
(* (DraftInv).  The write is accepted only if the file still is what was   *)
(* read, so it amounts to patching the file in one step, and a patch       *)
(* changes the own node and, when it publishes, the code and name of its   *)
(* region, and nothing else (PatchForeign).                                *)
(***************************************************************************)
EXTENDS PolicySync, TLAPS

\* A syncer or editor between its read and its write.
Working == {"validate", "set"}

\* Whoever is about to write, or a syncer about to read, holds the lock.
LockInv ==
  \A p \in Procs :
    pc[p] \in Working \/ (p \in Syncers /\ pc[p] = "fetch") =>
      policyMu[Site(p)] = p

\* What is to be written.
DraftInv ==
  /\ \A p \in Procs : pc[p] \in Working => read[p] \in Doc /\ draft[p] \in Doc
  /\ \A p \in Editors : pc[p] = "edit" => read[p] \in Doc
  /\ \A p \in Syncers : pc[p] \in Working =>
                          draft[p] = patchDERPMap(read[p], job[p])
  /\ \A p \in Syncers : pc[p] # "edit"

\* The inductive invariant.
Inv == TypeOK /\ LockInv /\ DraftInv /\ OwnWritesSerialised

\* A patch that is not refused is a policy file.
LEMMA PatchType ==
  ASSUME NEW doc \in Doc, NEW e \in Endpoints \cup {None},
         patchDERPMap(doc, e) # Fails
  PROVE  patchDERPMap(doc, e) \in Doc
<1>1. CASE e = None
  BY <1>1, PolicyAssumption
     DEF patchDERPMap, WithdrawnRegion, Doc, Region
<1>2. CASE e # None
  BY <1>2, PolicyAssumption
     DEF patchDERPMap, PublishedRegion, Doc, Region
<1> QED BY <1>1, <1>2

\* A patch leaves all that is not the call's to change as it was.
LEMMA PatchForeign ==
  ASSUME NEW doc \in Doc, NEW e \in Endpoints \cup {None},
         patchDERPMap(doc, e) # Fails
  PROVE  Foreign(patchDERPMap(doc, e), e) = Foreign(doc, e)
<1> DEFINE r == doc.region
           new == patchDERPMap(doc, e).region
<1>1. /\ r \in Region \cup {None} /\ ~Refused(r, e)
      /\ patchDERPMap(doc, e).text = doc.text
  BY DEF patchDERPMap, Doc
<1>2. /\ (new # None /\ new.others) <=> (r # None /\ r.others)
      /\ e = None /\ r # None /\ r.others => new.label = r.label
      /\ new = None \/ Owned(new)
  <2>1. CASE e = None
    <3>1. new = WithdrawnRegion(r)
      BY <1>1, <2>1 DEF patchDERPMap
    <3>2. CASE r = None \/ ~r.mine \/ r.own = None
      BY <1>1, <2>1, <3>1, <3>2 DEF WithdrawnRegion, Refused, Owned
    <3>3. CASE r \in Region /\ r.mine /\ r.own # None /\ r.others
      <4>1. new = [r EXCEPT !.own = None]
        BY <3>1, <3>3, PolicyAssumption DEF WithdrawnRegion
      <4>2. new.mine = r.mine /\ new.label = r.label /\ new.own = None
            /\ new.others = r.others
        BY <3>3, <4>1 DEF Region
      <4>3. r # None /\ new # None
        BY <3>3, <4>1, PolicyAssumption DEF Region
      <4> HIDE DEF new
      <4> QED BY <3>3, <4>2, <4>3, PolicyAssumption DEF Owned
    <3>4. CASE r \in Region /\ r.mine /\ r.own # None /\ ~r.others
      BY <2>1, <3>1, <3>4 DEF WithdrawnRegion
    <3> QED BY <1>1, <3>2, <3>3, <3>4
  <2>2. CASE e # None
    <3>1. new = PublishedRegion(r, e) /\ new \in Region
      BY <1>1, <2>2, PolicyAssumption
         DEF patchDERPMap, PublishedRegion, Region
    <3>2. /\ new.mine = TRUE /\ new.own = e
          /\ new.others = (r # None /\ r.others)
      BY <3>1 DEF PublishedRegion
    <3>3. new # None /\ e # Unclear
      BY <2>2, <3>1, PolicyAssumption
    <3> HIDE DEF new, r
    <3> QED BY <2>2, <3>2, <3>3 DEF Owned
  <2> QED BY <2>1, <2>2
<1>3. r = None \/ Owned(r)
  BY <1>1 DEF Refused
<1> HIDE DEF new
<1> QED BY <1>1, <1>2, <1>3 DEF Foreign, new

\* A patched file lists what was to be published.
LEMMA PatchListed ==
  ASSUME NEW doc \in Doc, NEW e \in Endpoints \cup {None},
         patchDERPMap(doc, e) # Fails
  PROVE  Listed(patchDERPMap(doc, e), e)
<1>1. CASE e = None
  <2> DEFINE r == doc.region
  <2>1. r \in Region \cup {None} /\ ~Refused(r, None)
    BY <1>1 DEF patchDERPMap, Doc
  <2>2. patchDERPMap(doc, e).region = WithdrawnRegion(r)
    BY <1>1, <2>1 DEF patchDERPMap
  <2>3. WithdrawnRegion(r) = None \/ WithdrawnRegion(r).own = None
    BY <2>1, PolicyAssumption
       DEF WithdrawnRegion, Refused, Owned, Region
  <2> QED BY <1>1, <2>2, <2>3 DEF Listed
<1>2. CASE e # None
  <2> DEFINE r == doc.region
  <2>1. r \in Region \cup {None} /\ ~Refused(r, e)
    BY DEF patchDERPMap, Doc
  <2>2. patchDERPMap(doc, e).region = PublishedRegion(r, e)
    BY <1>2, <2>1 DEF patchDERPMap
  <2>3. PublishedRegion(r, e) \in Region
    BY <1>2, <2>1, PolicyAssumption DEF PublishedRegion, Region
  <2>4. /\ PublishedRegion(r, e).mine /\ PublishedRegion(r, e).own = e
        /\ PublishedRegion(r, e).label = OurLabel
    BY DEF PublishedRegion
  <2> QED BY <1>2, <2>2, <2>3, <2>4, PolicyAssumption DEF Listed
<1> QED BY <1>1, <1>2

\* A goroutine works on a configured tailnet.
LEMMA SiteType ==
  ASSUME TypeOK, NEW p \in Procs
  PROVE  Site(p) \in Instances
BY DEF TypeOK, Site, Instances, Procs

\* The invariant holds at the start.
LEMMA InitInv == Init => Inv
<1> SUFFICES ASSUME Init PROVE Inv
  OBVIOUS
<1>1. 1 \in DOMAIN Configs
  BY PolicyAssumption
<1>2. TypeOK
  BY <1>1, PolicyAssumption DEF Init, TypeOK, policyUpdateAttempts
<1>3. \A p \in Procs : pc[p] = "idle"
  BY DEF Init
<1> QED BY <1>2, <1>3 DEF Inv, LockInv, DraftInv, OwnWritesSerialised, Working,
           Procs

\* The lock is given back and the goroutine goes on elsewhere.
LEMMA DoneStep ==
  ASSUME Inv, NEW p \in Procs, policyMu[Site(p)] = p,
         NEW result \in {"done", "error"}, Done(p, result), UNCHANGED at,
         policy' \in [Instances -> Doc],
         \A i \in Instances : i # Site(p) => policy'[i] = policy[i]
  PROVE  Inv'
<1> USE DEF Inv, Done, Forget, Goto
<1>1. Site(p) \in Instances
  BY SiteType
<1>2. /\ pc' \in [Procs -> {"idle", "lock", "fetch", "validate", "set", "edit"}]
      /\ turn' \in [Syncers -> DOMAIN Configs]
      /\ attempt' \in [Syncers -> 0 .. policyUpdateAttempts - 1]
      /\ job' = job
      /\ status' \in [Syncers -> [Instances -> {"syncing", "done", "error"}]]
      /\ pc'[p] \in {"lock", "idle"}
      /\ \A q \in Procs \ {p} : pc'[q] = pc[q]
      /\ \A q \in Syncers \ {p} : turn'[q] = turn[q]
  <2>1. CASE p \in Syncers
    <3>1. turn[p] < Len(Configs) => turn[p] + 1 \in DOMAIN Configs
      BY <2>1, PolicyAssumption DEF TypeOK
    <3>2. attempt' \in [Syncers -> 0 .. policyUpdateAttempts - 1] /\ job' = job
      <4>1. 0 \in 0 .. policyUpdateAttempts - 1
        BY DEF policyUpdateAttempts
      <4>2. attempt' = [attempt EXCEPT ![p] = 0] /\ job' = job
        BY <2>1 DEF SyncerDone
      <4> QED BY <4>1, <4>2 DEF TypeOK
    <3>3. /\ turn' \in [Syncers -> DOMAIN Configs]
          /\ pc' \in [Procs ->
                       {"idle", "lock", "fetch", "validate", "set", "edit"}]
          /\ pc'[p] \in {"lock", "idle"}
          /\ \A q \in Procs \ {p} : pc'[q] = pc[q]
          /\ \A q \in Syncers \ {p} : turn'[q] = turn[q]
      BY <2>1, <3>1, ZenonT(60) DEF TypeOK, SyncerDone
    <3>4. status' \in [Syncers -> [Instances -> {"syncing", "done", "error"}]]
      <4> DEFINE row == [status[p] EXCEPT ![Site(p)] = result]
      <4>1. row \in [Instances -> {"syncing", "done", "error"}]
        BY <1>1, <2>1 DEF TypeOK
      <4>2. status' = [status EXCEPT ![p] = row]
        BY <2>1 DEF SyncerDone
      <4> QED BY <4>1, <4>2 DEF TypeOK
    <3> QED BY <3>2, <3>3, <3>4
  <2>2. CASE p \notin Syncers
    BY <2>2 DEF TypeOK, EditorDone, callVars
  <2> QED BY <2>1, <2>2
<1>3. TypeOK'
  BY <1>1, <1>2 DEF TypeOK
<1>4. \A q \in Procs \ {p} : Site(q)' = Site(q)
  BY <1>2 DEF Site
<1>5. \A q \in Procs \ {p} :
        /\ pc'[q] = pc[q] /\ read'[q] = read[q] /\ draft'[q] = draft[q]
        /\ outside'[q] = outside[q]
  BY <1>2 DEF TypeOK
<1>6. \A q \in Procs \ {p} :
        pc[q] \in Working \/ (q \in Syncers /\ pc[q] = "fetch") =>
          Site(q) # Site(p) /\ policyMu'[Site(q)] = q
  BY <1>1, SiteType DEF TypeOK, LockInv, DraftInv, Procs
<1>7. LockInv'
  BY <1>2, <1>4, <1>5, <1>6 DEF LockInv, Working
<1>8. DraftInv'
  BY <1>2, <1>5, SMTT(30) DEF DraftInv, Working, Procs
<1>9. OwnWritesSerialised'
  BY <1>2, <1>4, <1>5, <1>6, SiteType DEF OwnWritesSerialised, Working, Procs
<1> QED BY <1>3, <1>7, <1>8, <1>9

\* A goroutine goes on and leaves files, locks, statuses and tailnets alone.
LEMMA LocalStep ==
  ASSUME Inv, NEW p \in Procs, UNCHANGED <<policy, policyMu, turn, at, job>>,
         TypeOK',
         \A q \in Procs \ {p} :
           /\ pc'[q] = pc[q] /\ read'[q] = read[q] /\ draft'[q] = draft[q]
           /\ outside'[q] = outside[q],
         pc'[p] # "edit",
         pc'[p] \in Working \/ (p \in Syncers /\ pc'[p] = "fetch") =>
           policyMu[Site(p)] = p,
         pc'[p] \in Working =>
           /\ read'[p] \in Doc /\ draft'[p] \in Doc
           /\ p \in Syncers => draft'[p] = patchDERPMap(read'[p], job[p])
           /\ p \in Syncers /\ policy[Site(p)] # read'[p] => outside'[p]
  PROVE  Inv'
<1> USE DEF Inv
<1>1. \A q \in Procs : Site(q)' = Site(q)
  BY DEF Site
<1>2. LockInv'
  BY <1>1 DEF LockInv
<1>3. DraftInv'
  <2>1. \A q \in Procs :
          pc'[q] \in Working => read'[q] \in Doc /\ draft'[q] \in Doc
    BY DEF DraftInv
  <2>2. \A q \in Syncers : q \in Procs
    BY DEF Procs
  <2>3. \A q \in Syncers : pc'[q] \in Working =>
                             draft'[q] = patchDERPMap(read'[q], job'[q])
    BY <2>2 DEF DraftInv
  <2>4. \A q \in Syncers : pc'[q] # "edit"
    BY <2>2 DEF DraftInv
  <2>5. \A q \in Editors : pc'[q] = "edit" => read'[q] \in Doc
    BY DEF DraftInv, Procs
  <2> QED BY <2>1, <2>3, <2>4, <2>5 DEF DraftInv, Working
<1>4. OwnWritesSerialised'
  <2> SUFFICES ASSUME NEW q \in Syncers, pc'[q] \in Working,
                      policy[Site(q)] # read'[q]
               PROVE  outside'[q]
    BY <1>1 DEF OwnWritesSerialised, Working, Procs
  <2> QED BY DEF OwnWritesSerialised, Working, Procs
<1> QED BY <1>2, <1>3, <1>4

\* Call.
LEMMA CallStep ==
  ASSUME Inv, NEW p \in Syncers, Call(p)
  PROVE  Inv'
<1> USE DEF Inv
<1>1. /\ pc[p] = "idle" /\ pc' = [pc EXCEPT ![p] = "lock"]
      /\ turn' = [turn EXCEPT ![p] = 1] /\ p \in Procs
      /\ \E e \in Endpoints \cup {None} : job' = [job EXCEPT ![p] = e]
      /\ UNCHANGED <<policy, policyMu, read, draft, at, outside>>
  BY DEF Call, Goto, Procs
<1>2. 1 \in DOMAIN Configs
  BY PolicyAssumption
<1>3. attempt' \in [Syncers -> 0 .. policyUpdateAttempts - 1]
  BY DEF Call, TypeOK, policyUpdateAttempts
<1>4. status' \in [Syncers -> [Instances -> {"syncing", "done", "error"}]]
  BY DEF Call, TypeOK
<1>5. TypeOK'
  <2>1. /\ job' \in [Syncers -> Endpoints \cup {None}]
        /\ turn' \in [Syncers -> DOMAIN Configs]
    BY <1>1, <1>2 DEF TypeOK
  <2> QED BY <1>1, <1>3, <1>4, <2>1 DEF TypeOK
<1>6. /\ \A q \in Procs \ {p} : Site(q)' = Site(q) /\ pc'[q] = pc[q]
      /\ \A q \in Syncers \ {p} : job'[q] = job[q]
  BY <1>1 DEF Site, TypeOK
<1>7. pc'[p] = "lock"
  BY <1>1 DEF TypeOK
<1>8. LockInv'
  BY <1>1, <1>6, <1>7 DEF LockInv, Working
<1>9. DraftInv'
  BY <1>1, <1>6, <1>7 DEF DraftInv, Working, Procs
<1>10. OwnWritesSerialised'
  BY <1>1, <1>6, <1>7 DEF OwnWritesSerialised, Procs
<1> QED BY <1>5, <1>8, <1>9, <1>10

\* The lock of a file is taken, by a syncer or by the editor.
LEMMA LockStep ==
  ASSUME Inv, NEW p \in Procs, Free(Site(p)),
         policyMu' = [policyMu EXCEPT ![Site(p)] = p],
         UNCHANGED <<policy, callVars, read, at, outside>>,
         NEW label \in {"fetch", "validate"},
         pc' = [pc EXCEPT ![p] = label],
         p \in Syncers => label = "fetch",
         label = "validate" => read[p] \in Doc /\ draft'[p] \in Doc,
         draft' \in [Procs -> Doc \cup {None}],
         \A q \in Procs \ {p} : draft'[q] = draft[q]
  PROVE  Inv'
<1> USE DEF Inv
<1>1. Site(p) \in Instances /\ \A q \in Procs : Site(q) \in Instances
  BY SiteType
<1>2. /\ pc'[p] = label /\ \A q \in Procs \ {p} : pc'[q] = pc[q]
      /\ \A q \in Procs : Site(q)' = Site(q)
  BY DEF TypeOK, Site, callVars
<1>3. TypeOK'
  BY DEF TypeOK, callVars
<1>4. LockInv'
  BY <1>1, <1>2, PolicyAssumption DEF LockInv, Free, TypeOK
<1>5. DraftInv'
  BY <1>2 DEF DraftInv, Working, Procs, callVars
<1>6. OwnWritesSerialised'
  BY <1>2 DEF OwnWritesSerialised, Procs
<1> QED BY <1>3, <1>4, <1>5, <1>6

\* Reading and patching.
LEMMA FetchStep ==
  ASSUME Inv, NEW p \in Syncers, Fetch(p)
  PROVE  Inv'
<1> USE DEF Inv
<1> DEFINE doc == policy[Site(p)]
           new == patchDERPMap(doc, job[p])
<1>1. /\ p \in Procs /\ pc[p] = "fetch" /\ policyMu[Site(p)] = p
      /\ Site(p) \in Instances /\ UNCHANGED <<policy, at>>
  BY SiteType DEF Fetch, LockInv, Procs
<1>2. /\ policy' \in [Instances -> Doc]
      /\ \A i \in Instances : policy'[i] = policy[i]
  BY <1>1 DEF TypeOK
<1>3. ASSUME NEW result \in {"done", "error"}, Done(p, result)
      PROVE  Inv'
  BY <1>1, <1>2, <1>3, DoneStep
<1>4. CASE /\ new \notin {Fails, doc}
           /\ read' = [read EXCEPT ![p] = doc]
           /\ draft' = [draft EXCEPT ![p] = new]
           /\ outside' = [outside EXCEPT ![p] = FALSE]
           /\ Goto(p, "validate")
           /\ UNCHANGED <<policyMu, callVars>>
  <2>1. doc \in Doc /\ new \in Doc
    BY <1>1, <1>4, PatchType DEF TypeOK
  <2>2. TypeOK'
    BY <1>1, <1>4, <2>1 DEF TypeOK, Goto, callVars
  <2>3. /\ pc'[p] = "validate" /\ read'[p] = doc /\ draft'[p] = new
        /\ \A q \in Procs \ {p} :
             /\ pc'[q] = pc[q] /\ read'[q] = read[q] /\ draft'[q] = draft[q]
             /\ outside'[q] = outside[q]
    BY <1>1, <1>4 DEF TypeOK, Goto
  <2>4. UNCHANGED <<policy, policyMu, turn, at, job>>
    BY <1>1, <1>4 DEF callVars
  <2> HIDE DEF new
  <2> QED BY <1>1, <2>1, <2>2, <2>3, <2>4, LocalStep DEF new, Working
<1> QED BY <1>3, <1>4 DEF Fetch

\* Validating and writing, for a syncer and for the editor.
LEMMA WriteStep ==
  ASSUME Inv, NEW p \in Procs, Write(p)
  PROVE  Inv'
<1> USE DEF Inv
<1>1. /\ pc[p] \in Working /\ policyMu[Site(p)] = p /\ Site(p) \in Instances
      /\ read[p] \in Doc /\ draft[p] \in Doc /\ UNCHANGED at
  BY SiteType DEF Write, Validate, SetWrites, SetFails, SetRetries, LockInv,
                  DraftInv, Working
<1>2. ASSUME NEW result \in {"done", "error"}, Done(p, result),
             UNCHANGED policy
      PROVE  Inv'
  BY <1>1, <1>2, DoneStep DEF TypeOK
<1>3. CASE Validate(p)
  <2>1. CASE Done(p, "error")
    BY <1>2, <1>3, <2>1 DEF Validate
  <2>2. CASE /\ Goto(p, "set")
             /\ UNCHANGED <<policyMu, callVars, read, draft, outside>>
    <3>1. UNCHANGED <<policy, policyMu, turn, at, job, read, draft, outside>>
      BY <1>3, <2>2 DEF Validate, callVars
    <3>2. pc[p] = "validate" /\ pc' = [pc EXCEPT ![p] = "set"]
      BY <1>3, <2>2 DEF Validate, Goto
    <3>3. TypeOK'
      BY <1>3, <2>2, <3>2 DEF Validate, TypeOK, callVars
    <3>4. pc'[p] = "set" /\ \A q \in Procs \ {p} : pc'[q] = pc[q]
      BY <3>2 DEF TypeOK
    <3>5. p \in Syncers => /\ draft[p] = patchDERPMap(read[p], job[p])
                           /\ policy[Site(p)] # read[p] => outside[p]
      BY <1>1 DEF DraftInv, OwnWritesSerialised, Working
    <3> QED BY <1>1, <3>1, <3>3, <3>4, <3>5, LocalStep DEF Working
  <2> QED BY <1>3, <2>1, <2>2 DEF Validate
<1>4. CASE SetWrites(p)
  <2>1. policy' \in [Instances -> Doc]
        /\ \A i \in Instances : i # Site(p) => policy'[i] = policy[i]
    BY <1>1, <1>4 DEF SetWrites, TypeOK
  <2> QED BY <1>1, <1>4, <2>1, DoneStep DEF SetWrites
<1>5. CASE SetFails(p)
  BY <1>2, <1>5 DEF SetFails, Reported
<1>6. CASE SetRetries(p)
  <2>1. /\ p \in Syncers /\ MayRetry(p) /\ pc' = [pc EXCEPT ![p] = "fetch"]
        /\ attempt' = [attempt EXCEPT ![p] = NextAttempt(p)]
        /\ UNCHANGED <<policy, policyMu, job, turn, status, at>>
    BY <1>6 DEF SetRetries, Goto
  <2>2. NextAttempt(p) \in 0 .. policyUpdateAttempts - 1
    BY <2>1, SMTT(30) DEF TypeOK, MayRetry, NextAttempt, policyUpdateAttempts
  <2>3. TypeOK'
    BY <1>6, <2>1, <2>2 DEF SetRetries, TypeOK, Forget
  <2>4. /\ pc'[p] = "fetch"
        /\ \A q \in Procs \ {p} :
             /\ pc'[q] = pc[q] /\ read'[q] = read[q] /\ draft'[q] = draft[q]
             /\ outside'[q] = outside[q]
    BY <1>6, <2>1 DEF SetRetries, TypeOK, Forget
  <2> QED BY <1>1, <2>1, <2>3, <2>4, LocalStep DEF Working
<1> QED BY <1>3, <1>4, <1>5, <1>6 DEF Write

\* The editor's two requests.
LEMMA EditorStep ==
  ASSUME Inv, NEW p \in Editors, EditorGet(p) \/ EditorSet(p)
  PROVE  Inv'
<1> USE DEF Inv
<1>1. p \in Procs /\ p \notin Syncers /\ Site(p) = at[p]
  BY PolicyAssumption DEF Procs, Site
<1>2. CASE EditorGet(p)
  <2>1. PICK i \in Instances : /\ at' = [at EXCEPT ![p] = i]
                               /\ read' = [read EXCEPT ![p] = policy[i]]
    BY <1>2 DEF EditorGet
  <2>2. /\ pc[p] = "idle" /\ pc' = [pc EXCEPT ![p] = "edit"]
        /\ UNCHANGED <<policy, policyMu, callVars, draft, outside>>
    BY <1>2 DEF EditorGet, Goto
  <2>3. TypeOK'
    BY <1>1, <2>1, <2>2 DEF TypeOK, callVars
  <2>4. /\ pc'[p] = "edit" /\ read'[p] \in Doc
        /\ \A q \in Procs \ {p} : /\ pc'[q] = pc[q] /\ read'[q] = read[q]
                                  /\ Site(q)' = Site(q)
    BY <1>1, <2>1, <2>2 DEF TypeOK, Site, callVars, Procs
  <2>5. LockInv'
    BY <1>1, <2>2, <2>4 DEF LockInv, Working
  <2>6. DraftInv'
    BY <1>1, <2>2, <2>4 DEF DraftInv, Working, Procs, callVars
  <2>7. OwnWritesSerialised'
    BY <1>1, <2>2, <2>4 DEF OwnWritesSerialised, Procs
  <2> QED BY <2>3, <2>5, <2>6, <2>7
<1>3. CASE EditorSet(p)
  <2>1. PICK doc \in Edits : draft' = [draft EXCEPT ![p] = doc]
    BY <1>3 DEF EditorSet
  <2>2. /\ pc[p] = "edit" /\ Free(Site(p))
        /\ pc' = [pc EXCEPT ![p] = "validate"]
        /\ policyMu' = [policyMu EXCEPT ![Site(p)] = p]
        /\ UNCHANGED <<policy, callVars, read, at, outside>>
    BY <1>1, <1>3 DEF EditorSet, Goto
  <2>3. doc \in Doc /\ read[p] \in Doc
    BY <1>1, <2>2, PolicyAssumption DEF DraftInv
  <2>4. /\ draft' \in [Procs -> Doc \cup {None}] /\ draft'[p] \in Doc
        /\ \A q \in Procs \ {p} : draft'[q] = draft[q]
    BY <1>1, <2>1, <2>3 DEF TypeOK
  <2> QED BY <1>1, <2>2, <2>3, <2>4, LockStep
<1> QED BY <1>2, <1>3

\* Someone edits a policy file elsewhere.
LEMMA OutsideStep ==
  ASSUME Inv, NEW i \in Instances, OutsideEdit(i)
  PROVE  Inv'
<1> USE DEF Inv
<1>1. PICK doc \in Edits : policy' = [policy EXCEPT ![i] = doc]
  BY DEF OutsideEdit
<1>2. /\ UNCHANGED <<policyMu, pc, callVars, read, draft, at>>
      /\ \A q \in Procs : outside'[q] = (outside[q] \/
                                         (read[q] # None /\ Site(q) = i))
      /\ outside' \in [Procs -> BOOLEAN]
  BY DEF OutsideEdit, TypeOK
<1>3. TypeOK'
  BY <1>1, <1>2, PolicyAssumption DEF TypeOK, callVars
<1>4. \A q \in Procs : Site(q)' = Site(q)
  BY <1>2 DEF Site, callVars
<1>5. LockInv' /\ DraftInv'
  BY <1>2, <1>4 DEF LockInv, DraftInv, callVars
<1>6. OwnWritesSerialised'
  BY <1>1, <1>2, <1>4, SiteType, PolicyAssumption
     DEF OwnWritesSerialised, DraftInv, Working, Procs, TypeOK
<1> QED BY <1>3, <1>5, <1>6

\* The invariant of all runs.
THEOREM Inductive == Spec => []Inv
<1>1. Inv /\ [Next]_vars => Inv'
  <2> SUFFICES ASSUME Inv, [Next]_vars PROVE Inv'
    OBVIOUS
  <2>1. CASE UNCHANGED vars
    <3>1. \A p \in Procs : Site(p)' = Site(p)
      BY <2>1 DEF Site, vars, callVars
    <3> QED BY <2>1, <3>1 DEF vars, callVars, Inv, TypeOK, LockInv, DraftInv,
                              OwnWritesSerialised, Procs
  <2>2. ASSUME NEW p \in Syncers, Syncer(p) PROVE Inv'
    <3>1. p \in Procs
      BY DEF Procs
    <3>2. CASE Lock(p)
      BY <3>1, <3>2, LockStep DEF Lock, Goto, Inv, TypeOK
    <3> QED BY <2>2, <3>1, <3>2, CallStep, FetchStep, WriteStep DEF Syncer
  <2>3. ASSUME NEW p \in Editors, Editor(p) PROVE Inv'
    BY <2>3, EditorStep, WriteStep DEF Editor, Procs
  <2> QED BY <2>1, <2>2, <2>3, OutsideStep DEF Next
<1> QED BY InitInv, <1>1, PTL DEF Spec

\* Files, locks and local variables keep their types.
THEOREM TypeCorrect == Spec => []TypeOK
<1>1. Inv => TypeOK
  BY DEF Inv
<1> QED BY Inductive, <1>1, PTL

\* Goroutines of one process never race for a file.
THEOREM SerialisedCorrect == Spec => []OwnWritesSerialised
<1>1. Inv => OwnWritesSerialised
  BY DEF Inv
<1> QED BY Inductive, <1>1, PTL

\* A step that changes a file is a write, or an edit from elsewhere, which
\* moves no goroutine.
LEMMA WhoWrites ==
  ASSUME Inv, Next, policy' # policy
  PROVE  (\E p \in Procs : SetWrites(p)) \/ pc' = pc
BY DEF Next, Syncer, Editor, Write, Call, Lock, Fetch, Validate, SetFails,
       SetRetries, EditorGet, EditorSet, OutsideEdit, Procs

\* Only one goroutine moves in a step.
LEMMA OneMoves ==
  ASSUME Inv, NEW p \in Procs, SetWrites(p), NEW q \in Procs \ {p}
  PROVE  pc'[q] = pc[q]
BY DEF SetWrites, Done, SyncerDone, EditorDone, Goto, Inv, TypeOK

\* A syncer's write amounts to patching the file as it is.
LEMMA WritePatches ==
  ASSUME Inv, NEW p \in Syncers, SetWrites(p)
  PROVE  /\ Site(p) \in Instances /\ policy[Site(p)] \in Doc
         /\ patchDERPMap(policy[Site(p)], job[p]) # Fails
         /\ policy' = [policy EXCEPT
                         ![Site(p)] = patchDERPMap(policy[Site(p)], job[p])]
<1>1. p \in Procs /\ pc[p] = "set" /\ policy[Site(p)] = read[p]
      /\ policy' = [policy EXCEPT ![Site(p)] = draft[p]]
  BY DEF SetWrites, Current, Procs
<1>2. /\ draft[p] = patchDERPMap(read[p], job[p])
      /\ read[p] \in Doc /\ draft[p] \in Doc
  BY <1>1 DEF Inv, DraftInv, Working
<1>3. Site(p) \in Instances
  BY <1>1, SiteType DEF Inv
<1> QED BY <1>1, <1>2, <1>3, PolicyAssumption

\* No write of a syncer loses an edit of what is not the call's to change: the
\* own node, and the code and name of its region when it publishes.
THEOREM ForeignCorrect == Spec => ForeignKept
<1> DEFINE A == \A p \in Syncers : pc[p] = "set" /\ pc'[p] # "set" =>
                  \A i \in Instances :
                    Foreign(policy'[i], job[p]) = Foreign(policy[i], job[p])
<1>1. Inv /\ [Next]_vars => [A]_vars
  <2> SUFFICES ASSUME Inv, Next, NEW p \in Syncers, pc[p] = "set",
                      pc'[p] # "set", NEW i \in Instances
               PROVE  Foreign(policy'[i], job[p]) = Foreign(policy[i], job[p])
    OBVIOUS
  <2>1. CASE policy' = policy
    BY <2>1
  <2>2. CASE policy' # policy
    <3>1. PICK q \in Procs : SetWrites(q)
      BY <2>2, WhoWrites
    <3>2. p = q
      BY <3>1, OneMoves DEF Procs
    <3>3. /\ Site(p) \in Instances /\ policy[Site(p)] \in Doc
          /\ patchDERPMap(policy[Site(p)], job[p]) # Fails
          /\ policy' = [policy EXCEPT
                          ![Site(p)] = patchDERPMap(policy[Site(p)], job[p])]
      BY <3>1, <3>2, WritePatches
    <3>4. job[p] \in Endpoints \cup {None} /\ policy \in [Instances -> Doc]
      BY DEF Inv, TypeOK
    <3>5. Foreign(patchDERPMap(policy[Site(p)], job[p]), job[p])
            = Foreign(policy[Site(p)], job[p])
      BY <3>3, <3>4, PatchForeign
    <3> QED BY <3>3, <3>4, <3>5
  <2> QED BY <2>1, <2>2
<1> QED BY Inductive, <1>1, PTL DEF Spec, ForeignKept

\* Finishing a tailnet sets its status, for the goroutine that worked on it.
LEMMA DoneStatus ==
  ASSUME Inv, NEW q \in Procs, NEW result, Done(q, result),
         NEW p \in Syncers, NEW i \in Instances, status'[p][i] # status[p][i]
  PROVE  q = p /\ i = Site(p) /\ status'[p][i] = result
<1>1. CASE q \in Syncers
  <2> DEFINE row == [status[q] EXCEPT ![Site(q)] = result]
  <2>1. status' = [status EXCEPT ![q] = row]
    BY <1>1 DEF Done, SyncerDone
  <2>2. status \in [Syncers -> [Instances -> {"syncing", "done", "error"}]]
        /\ Site(q) \in Instances
    BY SiteType DEF Inv, TypeOK
  <2>3. row[Site(q)] = result
        /\ \A j \in Instances : j # Site(q) => row[j] = status[q][j]
    BY <1>1, <2>2
  <2>4. \A d \in Syncers : status'[d] = IF d = q THEN row ELSE status[d]
    BY <2>1, <2>2
  <2> HIDE DEF row
  <2> QED BY <1>1, <2>3, <2>4
<1>2. CASE q \notin Syncers
  BY <1>2 DEF Done, EditorDone, callVars
<1> QED BY <1>1, <1>2

\* A tailnet is reported as done only when its file lists what was asked for.
THEOREM SuccessCorrect == Spec => SuccessIsListed
<1> DEFINE A == \A p \in Syncers, i \in Instances :
                  status[p][i] = "syncing" /\ status'[p][i] = "done" =>
                    Listed(policy'[i], job[p])
<1>1. Inv /\ [Next]_vars => [A]_vars
  <2> SUFFICES ASSUME Inv, Next, NEW p \in Syncers, NEW i \in Instances,
                      status[p][i] = "syncing", status'[p][i] = "done"
               PROVE  Listed(policy'[i], job[p])
    OBVIOUS
  <2>1. /\ status \in [Syncers -> [Instances -> {"syncing", "done", "error"}]]
        /\ policy \in [Instances -> Doc]
        /\ job[p] \in Endpoints \cup {None}
    BY DEF Inv, TypeOK
  <2>2. status' # status
    OBVIOUS
  <2>3. ASSUME NEW q \in Syncers, Call(q) PROVE FALSE
    BY <2>1, <2>3 DEF Call
  <2>4. PICK q \in Procs, result \in {"done", "error"} :
          /\ Done(q, result)
          /\ (q \in Syncers /\ Fetch(q)) \/ Write(q)
    BY <2>2, <2>3 DEF Next, Syncer, Editor, Write, Lock, Fetch, Validate,
       SetWrites, SetFails, SetRetries, EditorGet, EditorSet, OutsideEdit,
       Reported, callVars, Procs
  <2>5. q = p /\ i = Site(p) /\ result = "done"
    BY <2>4, DoneStatus
  <2>6. ASSUME NEW r, Done(p, r) PROVE r = "done"
    BY <2>6, DoneStatus DEF Procs
  <2>7. CASE Fetch(p)
    <3>1. patchDERPMap(policy[i], job[p]) = policy[i] /\ policy' = policy
      <4>1. ~Done(p, "error")
        BY <2>6
      <4> QED BY <2>2, <2>5, <2>7, <4>1 DEF Fetch, callVars
    <3>2. patchDERPMap(policy[i], job[p]) # Fails
      BY <2>1, <3>1, PolicyAssumption
    <3> QED BY <2>1, <3>1, <3>2, PatchListed
  <2>8. CASE Write(p)
    <3>1. SetWrites(p)
      <4>1. ~SetRetries(p) /\ ~SetFails(p)
        BY <2>2, <2>6 DEF SetRetries, SetFails, Reported
      <4>2. ~Validate(p)
        BY <2>2, <2>6 DEF Validate, callVars
      <4> QED BY <2>8, <4>1, <4>2 DEF Write
    <3>2. /\ patchDERPMap(policy[i], job[p]) # Fails
          /\ policy'[i] = patchDERPMap(policy[i], job[p])
      BY <2>1, <2>5, <3>1, WritePatches
    <3> QED BY <2>1, <3>2, PatchListed
  <2> QED BY <2>4, <2>5, <2>7, <2>8
<1> QED BY Inductive, <1>1, PTL DEF Spec, SuccessIsListed
=============================================================================
