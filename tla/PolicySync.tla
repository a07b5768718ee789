---------------------------- MODULE PolicySync ----------------------------
(***************************************************************************)
(* How the endpoint manager's Publish and Withdraw reach the policy files  *)
(* of the configured tailnets (internal/ops/derpmap.go), and how they meet *)
(* the policy editor of the ops API (internal/ops/tailnet_api.go) and      *)
(* people who edit the policy elsewhere.                                   *)
(*                                                                         *)
(* A policy file is read, patched, validated and written back in separate  *)
(* requests.  policyMu keeps this process's goroutines apart, per tailnet; *)
(* against everybody else there is only the ETag of the write, and a       *)
(* bounded number of retries.                                              *)
(*                                                                         *)
(* Of a policy file the model keeps the DERP region the node is configured *)
(* for and the text around it.  A file without derpMap or Regions is one   *)
(* without the region.  The code and the name of the region are the        *)
(* configured ones after a publish, even where it has nodes of others.     *)
(***************************************************************************)
EXTENDS Naturals, Sequences

CONSTANTS Configs,    \* the tailnets with DERPMapSync, in configuration order
          Syncers,    \* goroutines that call Publish or Withdraw
          Editors,    \* users of the ops API's policy editor
          Endpoints,  \* what can be published
          Entries,    \* what an entry of the node may say: these, or others
                      \* that earlier calls or people have left
          Texts,      \* the rest of a policy file
          Labels,     \* a region's RegionCode and RegionName
          OurLabel,   \* those configured for the node's region
          Edits,      \* the policy files that people write
          None, Unclear, Fails  \* nothing; a node of this name without the
                                \* region's id; patchDERPMap's error

Instances == {Configs[n] : n \in DOMAIN Configs}
Procs == Syncers \cup Editors
policyUpdateAttempts == 3

\* A region entry: its RegionID is the configured one (mine), its code and name
\* (label), what the node of this name says (own), and whether it has other
\* nodes.
Region == [mine : BOOLEAN, label : Labels,
           own : Entries \cup {None, Unclear}, others : BOOLEAN]
Doc == [region : Region \cup {None}, text : Texts]

ASSUME PolicyAssumption ==
  /\ Configs \in Seq(Instances) /\ Configs # <<>>
  /\ Syncers \cap Editors = {}
  /\ Edits \subseteq Doc /\ OurLabel \in Labels
  /\ Endpoints \subseteq Entries
  /\ None \notin Entries \cup Region \cup Procs \cup Doc
  /\ Unclear \notin Entries /\ None # Unclear
  /\ Fails \notin Doc

VARIABLES
  policy,         \* per tailnet: the policy file at the API
  policyMu,       \* per tailnet: who holds the lock, or None
  pc,             \* per goroutine
  job,            \* per syncer: the endpoint to publish, None to withdraw
  turn, attempt,  \* per syncer: position in Configs, failed attempts there
  read, draft,    \* per goroutine: the file as read, and to be written
  at,             \* per editor: the tailnet it works on
  status,         \* per syncer and tailnet: InstanceStatus.State
  outside         \* per goroutine: others edited the file since it was read

callVars == <<job, turn, attempt, status>>
vars == <<policy, policyMu, pc, callVars, read, draft, at, outside>>

\* Where a goroutine is at work.
Site(p) == IF p \in Syncers THEN Configs[turn[p]] ELSE at[p]
-----------------------------------------------------------------------------
(* patchDERPMap. *)

\* requireOwnedInt on the region, then on the node.
Owned(r) == r.mine /\ r.own # Unclear

\* The node is removed, and with the last node the region.
WithdrawnRegion(r) ==
  IF r = None \/ ~r.mine \/ r.own = None THEN r
  ELSE IF r.others THEN [r EXCEPT !.own = None] ELSE None

\* The region is created, or the node in it updated; either way the region
\* gets the configured id, code and name.
PublishedRegion(r, e) ==
  [mine |-> TRUE, label |-> OurLabel, own |-> e, others |-> r # None /\ r.others]

\* An existing region without the node belongs to someone else.
Refused(r, e) ==
  r # None /\ (~Owned(r) \/ (e # None /\ r.own = None))

patchDERPMap(doc, e) ==
  IF Refused(doc.region, e) THEN Fails
  ELSE [region |-> IF e = None THEN WithdrawnRegion(doc.region)
                   ELSE PublishedRegion(doc.region, e),
        text |-> doc.text]

Init ==
  /\ policy \in [Instances -> Edits]
  /\ policyMu = [i \in Instances |-> None]
  /\ pc = [p \in Procs |-> "idle"]
  /\ job = [p \in Syncers |-> None]
  /\ turn = [p \in Syncers |-> 1] /\ attempt = [p \in Syncers |-> 0]
  /\ status = [p \in Syncers |-> [i \in Instances |-> "syncing"]]
  /\ read = [p \in Procs |-> None] /\ draft = [p \in Procs |-> None]
  /\ at \in [Editors -> Instances]
  /\ outside = [p \in Procs |-> FALSE]
-----------------------------------------------------------------------------
(* Control. *)

Goto(p, label) == pc' = [pc EXCEPT ![p] = label]
Forget(p) == /\ read' = [read EXCEPT ![p] = None]
             /\ draft' = [draft EXCEPT ![p] = None]

\* Unlock; reconcileDERPMaps notes the status and goes on with the next
\* tailnet, whatever became of this one.
SyncerDone(p, result) ==
  /\ status' = [status EXCEPT ![p][Site(p)] = result]
  /\ attempt' = [attempt EXCEPT ![p] = 0]
  /\ IF turn[p] < Len(Configs)
     THEN turn' = [turn EXCEPT ![p] = turn[p] + 1] /\ Goto(p, "lock")
     ELSE UNCHANGED turn /\ Goto(p, "idle")
  /\ UNCHANGED job

EditorDone(p) == Goto(p, "idle") /\ UNCHANGED callVars

Done(p, result) ==
  /\ policyMu' = [policyMu EXCEPT ![Site(p)] = None]
  /\ Forget(p)
  /\ outside' = [outside EXCEPT ![p] = FALSE]
  /\ IF p \in Syncers THEN SyncerDone(p, result) ELSE EditorDone(p)

\* policyMu, per tailnet.
Ignored(i) == TRUE                         \* faulty: nobody waits
Free(i) == policyMu[i] = None
-----------------------------------------------------------------------------
(* reconcileDERPMaps and reconcileDERPMap. *)

\* Publish(e), or Withdraw for None.
Call(p) ==
  /\ pc[p] = "idle"
  /\ \E e \in Endpoints \cup {None} : job' = [job EXCEPT ![p] = e]
  /\ turn' = [turn EXCEPT ![p] = 1]
  /\ attempt' = [attempt EXCEPT ![p] = 0]
  /\ status' = [status EXCEPT ![p] = [i \in Instances |-> "syncing"]]
  /\ Goto(p, "lock")
  /\ UNCHANGED <<policy, policyMu, read, draft, at, outside>>

Lock(p) ==
  /\ pc[p] = "lock" /\ Free(Site(p))
  /\ policyMu' = [policyMu EXCEPT ![Site(p)] = p]
  /\ Goto(p, "fetch")
  /\ UNCHANGED <<policy, callVars, read, draft, at, outside>>

\* policyRawUnlocked and patchDERPMap.
Fetch(p) ==
  LET doc == policy[Site(p)]
      new == patchDERPMap(doc, job[p])
  IN /\ pc[p] = "fetch"
     /\ \/ Done(p, "error")
        \/ new = Fails /\ Done(p, "error")
        \/ new = doc /\ Done(p, "done")
        \/ /\ new \notin {Fails, doc}
           /\ read' = [read EXCEPT ![p] = doc]
           /\ draft' = [draft EXCEPT ![p] = new]
           /\ outside' = [outside EXCEPT ![p] = FALSE]
           /\ Goto(p, "validate")
           /\ UNCHANGED <<policyMu, callVars>>
     /\ UNCHANGED <<policy, at>>
-----------------------------------------------------------------------------
(* setPolicyUnlocked, for a syncer and for the editor. *)

Validate(p) ==
  /\ pc[p] = "validate"
  /\ \/ /\ Goto(p, "set")
        /\ UNCHANGED <<policyMu, callVars, read, draft, outside>>
     \/ Done(p, "error")
  /\ UNCHANGED <<policy, at>>

\* External: the write is refused if the ETag is not the file's any more.
Accepted(p) == TRUE                        \* faulty: no ETag sent
Current(p) == policy[Site(p)] = read[p]

\* A conflict is retried, a limited number of times; the lock is kept.
MayRetry(p) == attempt[p] + 1 < policyUpdateAttempts
Uncounted(p) == attempt[p]                 \* faulty: retries forever
NextAttempt(p) == attempt[p] + 1

\* The write succeeds; its answer may still be lost.
SetWrites(p) ==
  /\ pc[p] = "set" /\ Current(p)
  /\ policy' = [policy EXCEPT ![Site(p)] = draft[p]]
  /\ \E result \in {"done", "error"} : Done(p, result)
  /\ UNCHANGED at

\* The write fails: a conflict that is not retried, or something else.
Overlooked == "done"                       \* faulty: a conflict is no error
Reported == "error"
SetFails(p) ==
  /\ pc[p] = "set"
  /\ Done(p, Reported)
  /\ UNCHANGED <<policy, at>>

\* isPolicyConflict: read the file again.
SetRetries(p) ==
  /\ pc[p] = "set" /\ p \in Syncers /\ MayRetry(p)
  /\ attempt' = [attempt EXCEPT ![p] = NextAttempt(p)]
  /\ Goto(p, "fetch")
  /\ Forget(p)
  /\ outside' = [outside EXCEPT ![p] = FALSE]
  /\ UNCHANGED <<policy, policyMu, job, turn, status, at>>
-----------------------------------------------------------------------------
(* The policy editor: handlePolicyGet, and handlePolicySet with its ETag. *)

EditorGet(p) ==
  /\ pc[p] = "idle"
  /\ \E i \in Instances :
       /\ Free(i)
       /\ at' = [at EXCEPT ![p] = i]
       /\ read' = [read EXCEPT ![p] = policy[i]]
  /\ Goto(p, "edit")
  /\ UNCHANGED <<policy, policyMu, callVars, draft, outside>>

EditorSet(p) ==
  /\ pc[p] = "edit" /\ Free(at[p])
  /\ policyMu' = [policyMu EXCEPT ![at[p]] = p]
  /\ \E doc \in Edits \ {read[p]} : draft' = [draft EXCEPT ![p] = doc]
  /\ Goto(p, "validate")
  /\ UNCHANGED <<policy, callVars, read, at, outside>>

\* External: someone edits a policy file elsewhere.
OutsideEdit(i) ==
  /\ policy' \in {[policy EXCEPT ![i] = doc] : doc \in Edits \ {policy[i]}}
  /\ outside' = [p \in Procs |-> outside[p] \/ (read[p] # None /\ Site(p) = i)]
  /\ UNCHANGED <<policyMu, pc, callVars, read, draft, at>>
-----------------------------------------------------------------------------
Write(p) == Validate(p) \/ SetWrites(p) \/ SetFails(p) \/ SetRetries(p)
Syncer(p) == Call(p) \/ Lock(p) \/ Fetch(p) \/ Write(p)
Editor(p) == EditorGet(p) \/ EditorSet(p) \/ Write(p)

Next == \/ \E p \in Syncers : Syncer(p)
        \/ \E p \in Editors : Editor(p)
        \/ \E i \in Instances : OutsideEdit(i)

Spec == Init /\ [][Next]_vars

\* Requests have a timeout (deviceRequestTimeout), so a goroutine that holds a
\* lock goes on; sync.Mutex hands itself to a waiter that has starved.
FairSpec ==
  /\ Spec
  /\ \A p \in Syncers : WF_vars(Fetch(p) \/ Write(p)) /\ SF_vars(Lock(p))
  /\ \A p \in Editors : WF_vars(Write(p))
-----------------------------------------------------------------------------
(* Properties. *)

\* Every file, lock and local variable holds a value of its Go type.
TypeOK ==
  /\ policy \in [Instances -> Doc]
  /\ policyMu \in [Instances -> Procs \cup {None}]
  /\ pc \in [Procs -> {"idle", "lock", "fetch", "validate", "set", "edit"}]
  /\ job \in [Syncers -> Endpoints \cup {None}]
  /\ turn \in [Syncers -> DOMAIN Configs]
  /\ attempt \in [Syncers -> 0 .. policyUpdateAttempts - 1]
  /\ status \in [Syncers -> [Instances -> {"syncing", "done", "error"}]]
  /\ read \in [Procs -> Doc \cup {None}]
  /\ draft \in [Procs -> Doc \cup {None}]
  /\ at \in [Editors -> Instances]
  /\ outside \in [Procs -> BOOLEAN]

\* What a call for e leaves alone in a policy file: all but the own node and,
\* when it publishes, the code and name of the node's region.
Foreign(doc, e) ==
  LET r == doc.region
  IN [text   |-> doc.text,
      others |-> r # None /\ r.others,
      label  |-> IF e = None /\ r # None /\ r.others THEN r.label ELSE None,
      theirs |-> IF r = None \/ Owned(r) THEN None ELSE r]

\* A step of a syncer leaves all this as it is in the file at that moment: no
\* edit of it made between its read and its write is lost, neither one from the
\* ops API nor one from elsewhere (reconcileDERPMap).  What others call the
\* region is not theirs to keep: every publish overwrites it.
ForeignKept ==
  [][\A p \in Syncers : pc[p] = "set" /\ pc'[p] # "set" =>
       \A i \in Instances :
         Foreign(policy'[i], job[p]) = Foreign(policy[i], job[p])]_vars

\* Goroutines of this process never race for a file: while a syncer works on
\* it, it changes only by edits from elsewhere (policyMu).
OwnWritesSerialised ==
  \A p \in Syncers :
    pc[p] \in {"validate", "set"} /\ policy[Site(p)] # read[p] => outside[p]

\* The node's entry in a policy file is the endpoint e, in a region of the
\* configured id, code and name; or there is none.
Listed(doc, e) ==
  IF e = None THEN doc.region = None \/ doc.region.own = None
  ELSE /\ doc.region # None
       /\ doc.region.mine /\ doc.region.label = OurLabel /\ doc.region.own = e

\* A tailnet is reported as published or withdrawn only when its file says so,
\* over retries, files that needed no change and refused patches.
SuccessIsListed ==
  [][\A p \in Syncers, i \in Instances :
       status[p][i] = "syncing" /\ status'[p][i] = "done" =>
         Listed(policy'[i], job[p])]_vars

\* Publish and Withdraw return, however often the file changes under them, and
\* then every tailnet has been dealt with, also after one that failed.
CallsReturn ==
  \A p \in Syncers :
    pc[p] # "idle" ~> /\ pc[p] = "idle"
                      /\ \A i \in Instances : status[p][i] # "syncing"
=============================================================================
