-------------------------- MODULE TrafficPersister --------------------------
(***************************************************************************)
(* The traffic totals that survive restarts (internal/traffic/traffic.go), *)
(* with the parts of cmd/tailscale-derp/main.go that run it: startDERP     *)
(* loads the file and starts a ticker goroutine that saves; when serving   *)
(* ends it saves once more, cancels the ticker's context, upon which the   *)
(* ticker saves too, and the process exits without waiting for it.  Status *)
(* requests call Total at any time, also before Load.                      *)
(*                                                                         *)
(* Save and Total read the session's counters BEFORE they take mu, so a    *)
(* snapshot may be older than the offset it is compared with.  Bytes       *)
(* received, bytes sent and accepts are added up alike: one counter stands *)
(* for the three.                                                          *)
(***************************************************************************)
EXTENDS Integers

CONSTANTS Readers,    \* status requests
          MaxTraffic  \* bound on what the server carries (the code has none)

ASSUME TrafficAssumption ==
  MaxTraffic \in Nat /\ "ticker" \notin Readers /\ "final" \notin Readers

Savers == {"ticker", "final"}
Procs == Savers \cup Readers

VARIABLES
  phase,     \* the process: off, boot (before Load), serving, ended
  session,   \* the counters of derpserver, from 0 in every process
  persisted, offset,  \* Persister's fields
  mu,        \* Persister.mu is held by a Save that writes its files
  file, tmp, \* the stats file and path + ".tmp"
  pc, cur,   \* per goroutine: next step, and its snapshot of the session
  shown,     \* per reader: the total this process answered last
  loaded,    \* what the file held when this process read it
  carried    \* what all processes together carried

procVars == <<phase, session, loaded, carried>>
vars == <<persisted, offset, mu, file, tmp, pc, cur, shown, procVars>>

Init ==
  /\ phase = "off" /\ session = 0 /\ loaded = 0 /\ carried = 0
  /\ persisted = 0 /\ offset = 0 /\ mu = FALSE
  /\ file = 0 /\ tmp = 0
  /\ pc = [p \in Procs |-> "idle"] /\ cur = [p \in Procs |-> 0]
  /\ shown = [r \in Readers |-> 0]

Goto(p, label) == pc' = [pc EXCEPT ![p] = label]
-----------------------------------------------------------------------------
(* The process. *)

\* main creates the persister and starts the ops server.
Boot ==
  /\ phase = "off"
  /\ phase' = "boot"
  /\ session' = 0 /\ persisted' = 0 /\ offset' = 0 /\ mu' = FALSE
  /\ pc' = [p \in Procs |-> "idle"]
  /\ shown' = [r \in Readers |-> 0]
  /\ UNCHANGED <<file, tmp, cur, loaded, carried>>

\* What Load takes from the file: a missing one counts as zero.
Nothing == 0                         \* faulty: the file is not used
FromFile == file

\* Load, then Start and the listener.
Load ==
  /\ phase = "boot"
  /\ phase' = "serving"
  /\ persisted' = FromFile /\ offset' = session /\ loaded' = file
  /\ UNCHANGED <<session, carried, mu, file, tmp, pc, cur, shown>>

\* The server carries traffic.
Carry ==
  /\ phase \in {"serving", "ended"} /\ carried < MaxTraffic
  /\ session' = session + 1 /\ carried' = carried + 1
  /\ UNCHANGED <<phase, loaded, persisted, offset, mu, file, tmp, pc, cur, shown>>

\* ServeTLS returns: the deferred calls of startDERP run.
ServeEnds ==
  /\ phase = "serving"
  /\ phase' = "ended"
  /\ UNCHANGED <<session, loaded, carried, persisted, offset, mu, file, tmp, pc,
                 cur, shown>>

\* The process is gone: killed, or after the final Save (log.Fatalf), or
\* because Load failed.
Exit ==
  /\ phase # "off"
  /\ phase' = "off"
  /\ UNCHANGED <<session, loaded, carried, persisted, offset, mu, file, tmp, pc,
                 cur, shown>>
-----------------------------------------------------------------------------
(* Save and Total. *)

\* currentSession, before mu.  The final Save runs once.
Snapshot(p) ==
  /\ pc[p] = "idle"
  /\ CASE p = "ticker" -> phase \in {"serving", "ended"}
       [] p = "final"  -> phase = "ended"
       [] OTHER        -> phase # "off"
  /\ cur' = [cur EXCEPT ![p] = session]
  /\ Goto(p, "lock")
  /\ UNCHANGED <<persisted, offset, mu, file, tmp, shown, procVars>>

\* The total at a snapshot.
TotalAt(p) == persisted + (cur[p] - offset)

Saved(p) == Goto(p, IF p = "final" THEN "done" ELSE "idle")

\* Save up to the temporary file, which an error may leave incomplete.
SaveWrite(p, ok) ==
  /\ phase # "off" /\ pc[p] = "lock" /\ ~mu
  /\ mu' = ok
  /\ IF ok THEN tmp' = TotalAt(p) /\ Goto(p, "rename")
     ELSE UNCHANGED tmp /\ Saved(p)
  /\ UNCHANGED <<persisted, offset, file, cur, shown, procVars>>

\* The offset once the file is in place, or could not be put there.
Unmoved(p, ok) == offset             \* faulty: never advanced
Advanced(p, ok) == cur[p]            \* faulty: even if nothing was saved
Fresh(p, ok) == IF ok THEN session ELSE offset  \* faulty: not what was saved
NextOffset(p, ok) == IF ok THEN cur[p] ELSE offset

\* The rename, and the fields only if it succeeded.
SaveRename(p, ok) ==
  /\ phase # "off" /\ pc[p] = "rename"
  /\ mu' = FALSE
  /\ Saved(p)
  /\ offset' = NextOffset(p, ok)
  /\ IF ok THEN file' = tmp /\ persisted' = tmp
     ELSE UNCHANGED <<file, persisted>>
  /\ UNCHANGED <<tmp, cur, shown, procVars>>

Total(p) ==
  /\ phase # "off" /\ pc[p] = "lock" /\ ~mu
  /\ shown' = [shown EXCEPT ![p] = TotalAt(p)]
  /\ Goto(p, "idle")
  /\ UNCHANGED <<persisted, offset, mu, file, tmp, cur, procVars>>

Save(p) == \E ok \in BOOLEAN : SaveWrite(p, ok) \/ SaveRename(p, ok)

Process == Boot \/ Load \/ Carry \/ ServeEnds \/ Exit

Next ==
  \/ Process
  \/ \E p \in Procs : Snapshot(p)
  \/ \E p \in Savers : Save(p)
  \/ \E p \in Readers : Total(p)

Spec == Init /\ [][Next]_vars

\* The ticker keeps firing (time.Ticker), and of the Saves that are tried over
\* and over not all fail.
FairSpec ==
  /\ Spec
  /\ WF_vars(Snapshot("ticker")) /\ WF_vars(Save("ticker"))
  /\ SF_vars(SaveWrite("ticker", TRUE)) /\ SF_vars(SaveRename("ticker", TRUE))
-----------------------------------------------------------------------------
(* Properties. *)

\* The process and the file hold values of their Go types: byte counts are
\* never negative, although deltas are computed from old snapshots.
TypeOK ==
  /\ phase \in {"off", "boot", "serving", "ended"}
  /\ session \in Nat /\ loaded \in Nat /\ carried \in Nat
  /\ persisted \in Nat /\ offset \in Nat /\ mu \in BOOLEAN
  /\ file \in Nat /\ tmp \in Nat
  /\ pc \in [Procs -> {"idle", "lock", "rename", "done"}]
  /\ cur \in [Procs -> Nat] /\ shown \in [Readers -> Nat]

\* No byte is counted twice: neither the file nor a status answer exceeds what
\* all processes together carried, however saves fail, overlap or are cut off
\* by a restart (Save, Total).
NothingInvented ==
  /\ file <= carried
  /\ \A r \in Readers : shown[r] <= carried

\* What earlier processes had saved stays saved, whatever this one does.
NothingForgotten == phase \in {"serving", "ended"} => file >= loaded

\* The saved total goes back only while the process ends, when the ticker's
\* Save may come with an older snapshot after startDERP's final Save.
BackwardsOnlyAtEnd == [][file' < file => phase = "ended"]_vars

\* A status request never sees a smaller total than the one before it in the
\* same process, even while such a Save takes persisted back (Total).
TotalsMonotone ==
  [][~Boot => \A r \in Readers : shown'[r] >= shown[r]]_vars

\* If the server stays up and its traffic stops, the file comes to hold all of
\* it, although saves failed before (Start, Save).
CatchesUp == <>[](phase = "serving") => <>[](file = loaded + session)
=============================================================================
