----------------------- MODULE TrafficPersisterProofs -----------------------
(***************************************************************************)
(* Proofs about TrafficPersister, for any number of status requests and    *)
(* any amount of traffic.                                                  *)
(*                                                                         *)
(* The argument: while the server runs, persisted - offset is what the     *)
(* file held when it was loaded (LedgerInv), whatever snapshot a Save came *)
(* with; so every total is that amount plus some snapshot of the session,  *)
(* which was never more than the session (SnapshotInv), and what a Save    *)
(* writes is such a total too (RenameInv).                                 *)
(***************************************************************************)
EXTENDS TrafficPersister, TLAPS

\* Sessions are counted.
Up == phase \in {"serving", "ended"}

\* The books balance, and nothing saved or shown exceeds what was carried.
LedgerInv ==
  /\ phase = "boot" => persisted = 0 /\ offset = 0 /\ session = 0
  /\ Up => /\ persisted = loaded + offset
           /\ loaded + session <= carried
           /\ loaded <= file /\ file <= loaded + session
  /\ file <= carried

\* A snapshot in use is not newer than the session, nor older than the last
\* answer to the same reader.
SnapshotInv ==
  /\ \A p \in Procs : phase # "off" /\ pc[p] \in {"lock", "rename"} =>
                        cur[p] <= session
  /\ \A r \in Readers :
       /\ shown[r] <= carried
       /\ phase # "off" => /\ shown[r] + offset <= persisted + session
                           /\ pc[r] = "lock" =>
                                shown[r] + offset <= persisted + cur[r]
       /\ pc[r] \in {"idle", "lock"}

\* At most one Save is between its two files, and what it renames is a total.
RenameInv ==
  /\ \A p \in Procs : phase # "off" /\ pc[p] = "rename" =>
                        mu /\ Up /\ tmp = loaded + cur[p]
  /\ \A p, q \in Procs : phase # "off" /\ pc[p] = "rename" /\ pc[q] = "rename"
                           => p = q

\* While serving only the ticker saves, and not before Load.
SaverInv ==
  /\ phase = "boot" => \A p \in Savers : pc[p] = "idle"
  /\ phase = "serving" => pc["final"] = "idle"
  /\ phase = "serving" /\ pc["ticker"] \in {"lock", "rename"} =>
       file <= loaded + cur["ticker"]

\* The inductive invariant.
Inv == TypeOK /\ LedgerInv /\ SnapshotInv /\ RenameInv /\ SaverInv

\* The invariant holds before the first process is started.
LEMMA InitInv == Init => Inv
<1> SUFFICES ASSUME Init PROVE Inv
  OBVIOUS
<1> USE DEF Init, Procs, Savers
<1>1. TypeOK
  BY DEF TypeOK
<1>2. LedgerInv
  BY DEF LedgerInv, Up
<1>3. SnapshotInv
  BY DEF SnapshotInv
<1>4. RenameInv /\ SaverInv
  BY DEF RenameInv, SaverInv, Up
<1> QED BY <1>1, <1>2, <1>3, <1>4 DEF Inv

\* Boot, Load, traffic, the end of serving and the end of the process.
LEMMA ProcessInv == Inv /\ Process => Inv'
<1> SUFFICES ASSUME Inv, Process PROVE Inv'
  OBVIOUS
<1> USE DEF Inv, TypeOK, LedgerInv, SnapshotInv, RenameInv, SaverInv, Up
<1>1. CASE Boot
  <2>1. TypeOK' /\ LedgerInv'
    BY <1>1 DEF Boot
  <2>2. SnapshotInv'
    BY <1>1 DEF Boot, Procs
  <2>3. RenameInv' /\ SaverInv'
    BY <1>1 DEF Boot, Procs, Savers
  <2> QED BY <2>1, <2>2, <2>3
<1>2. CASE Load
  BY <1>2 DEF Load, FromFile, Procs, Savers
<1>3. CASE Carry
  BY <1>3 DEF Carry, Procs, Savers
<1>4. CASE ServeEnds
  BY <1>4 DEF ServeEnds, Procs, Savers
<1>5. CASE Exit
  BY <1>5 DEF Exit, Procs, Savers
<1> QED BY <1>1, <1>2, <1>3, <1>4, <1>5 DEF Process

\* Reading the session's counters.
LEMMA SnapshotStep ==
  ASSUME Inv, NEW p \in Procs, Snapshot(p)
  PROVE  Inv'
<1> USE DEF Inv, Snapshot, Goto
<1>1. TypeOK' /\ LedgerInv'
  BY DEF TypeOK, LedgerInv, Up, procVars
<1>2. SnapshotInv'
  BY DEF TypeOK, SnapshotInv, procVars
<1>3. RenameInv'
  BY DEF TypeOK, RenameInv, Up, procVars
<1>4. SaverInv'
  BY TrafficAssumption DEF TypeOK, LedgerInv, SaverInv, Up, procVars,
                           Savers, Procs
<1> QED BY <1>1, <1>2, <1>3, <1>4

\* The total at a snapshot in use is what was loaded plus the snapshot.
LEMMA TotalValue ==
  ASSUME Inv, NEW p \in Procs, phase # "off", pc[p] = "lock"
  PROVE  /\ TotalAt(p) \in Nat
         /\ Up => TotalAt(p) = loaded + cur[p]
         /\ TotalAt(p) <= carried
BY DEF Inv, TypeOK, LedgerInv, SnapshotInv, TotalAt, Up

\* The first half of Save.
LEMMA WriteStep ==
  ASSUME Inv, NEW p \in Savers, NEW ok \in BOOLEAN, SaveWrite(p, ok)
  PROVE  Inv'
<1> USE DEF Inv, SaveWrite, Saved, Goto, procVars
<1>1. p \in Procs /\ phase # "off" /\ pc[p] = "lock" /\ p \notin Readers
  BY TrafficAssumption DEF Procs, Savers
<1>2. Up
  BY <1>1 DEF SaverInv, Up, TypeOK
<1>3. tmp' \in Nat
  BY <1>1, TotalValue DEF TypeOK
<1>4. TypeOK'
  BY <1>1, <1>3 DEF TypeOK
<1>5. LedgerInv' /\ SnapshotInv'
  <2>1. \A r \in Readers : r \in Procs /\ pc'[r] = pc[r]
    BY <1>1 DEF TypeOK, Procs
  <2>2. \A q \in Procs : pc'[q] \in {"lock", "rename"} =>
                           pc[q] \in {"lock", "rename"}
    BY <1>1 DEF TypeOK
  <2> QED BY <2>1, <2>2 DEF LedgerInv, SnapshotInv, Up
<1>6. RenameInv'
  BY <1>1, <1>2, TotalValue DEF TypeOK, RenameInv, Up
<1>7. SaverInv'
  <2>1. CASE p = "ticker"
    BY <1>1, <1>2, <2>1 DEF TypeOK, SaverInv, Savers, Procs, Up
  <2>2. CASE p = "final"
    BY <1>1, <1>2, <2>2 DEF TypeOK, SaverInv, Savers, Procs, Up
  <2> QED BY <2>1, <2>2 DEF Savers
<1> QED BY <1>4, <1>5, <1>6, <1>7

\* The second half of Save.
LEMMA RenameStep ==
  ASSUME Inv, NEW p \in Savers, NEW ok \in BOOLEAN, SaveRename(p, ok)
  PROVE  Inv'
<1> USE DEF Inv, SaveRename, Saved, Goto, procVars
<1>1. p \in Procs /\ phase # "off" /\ pc[p] = "rename" /\ p \notin Readers
  BY TrafficAssumption DEF Procs, Savers
<1>2. mu /\ Up /\ tmp = loaded + cur[p] /\ cur[p] \in Nat /\ cur[p] <= session
  BY <1>1 DEF RenameInv, SnapshotInv, TypeOK
<1>3. offset' \in Nat /\ persisted' \in Nat /\ persisted' = loaded + offset'
  BY <1>2 DEF NextOffset, TypeOK, LedgerInv
<1>4. TypeOK'
  BY <1>1, <1>3 DEF TypeOK
<1>5. LedgerInv'
  BY <1>1, <1>2, <1>3 DEF TypeOK, LedgerInv, Up
<1>6. SnapshotInv'
  <2>1. \A r \in Readers : r \in Procs /\ pc'[r] = pc[r]
    BY <1>1 DEF TypeOK, Procs
  <2>2. \A q \in Procs : pc'[q] \in {"lock", "rename"} =>
                           pc[q] \in {"lock", "rename"}
    BY <1>1 DEF TypeOK
  <2>3. persisted - offset = persisted' - offset'
    BY <1>2, <1>3 DEF TypeOK, LedgerInv
  <2> QED BY <1>3, <2>1, <2>2, <2>3 DEF TypeOK, SnapshotInv
<1>7. RenameInv'
  BY <1>1 DEF TypeOK, RenameInv, Up
<1>8. SaverInv'
  <2>1. CASE p = "ticker"
    BY <1>1, <1>2, <2>1 DEF TypeOK, SaverInv, Savers, Procs, Up
  <2>2. CASE p = "final"
    BY <1>1, <1>2, <2>2 DEF TypeOK, SaverInv, Savers, Procs, Up
  <2> QED BY <2>1, <2>2 DEF Savers
<1> QED BY <1>4, <1>5, <1>6, <1>7, <1>8

\* A status answer.
LEMMA TotalStep ==
  ASSUME Inv, NEW p \in Readers, Total(p)
  PROVE  Inv'
<1> USE DEF Inv, Total, Goto, procVars
<1>1. p \in Procs /\ phase # "off" /\ pc[p] = "lock"
      /\ p # "ticker" /\ p # "final"
  BY TrafficAssumption DEF Procs
<1>2. TotalAt(p) \in Nat /\ TotalAt(p) <= carried
  BY <1>1, TotalValue
<1>3. TypeOK'
  BY <1>1, <1>2 DEF TypeOK
<1>4. LedgerInv'
  BY DEF LedgerInv, Up
<1>5. SnapshotInv'
  BY <1>1, <1>2 DEF TypeOK, SnapshotInv, TotalAt
<1>6. RenameInv'
  BY <1>1 DEF TypeOK, RenameInv, Up
<1>7. SaverInv'
  BY <1>1 DEF TypeOK, SaverInv, Savers, Procs
<1> QED BY <1>3, <1>4, <1>5, <1>6, <1>7

\* The invariant of all runs of the persister.
THEOREM Inductive == Spec => []Inv
<1>1. Inv /\ [Next]_vars => Inv'
  <2> SUFFICES ASSUME Inv, [Next]_vars PROVE Inv'
    OBVIOUS
  <2>1. CASE UNCHANGED vars
    BY <2>1 DEF vars, procVars, Inv, TypeOK, LedgerInv, SnapshotInv, RenameInv,
                SaverInv, Up
  <2>2. CASE Next
    BY <2>2, ProcessInv, SnapshotStep, WriteStep, RenameStep, TotalStep
       DEF Next, Save
  <2> QED BY <2>1, <2>2
<1> QED BY InitInv, <1>1, PTL DEF Spec

\* Counts are never negative.
THEOREM TypeCorrect == Spec => []TypeOK
<1>1. Inv => TypeOK
  BY DEF Inv
<1> QED BY Inductive, <1>1, PTL

\* No byte is counted twice, and what was saved before stays saved.
THEOREM TotalsCorrect == Spec => [](NothingInvented /\ NothingForgotten)
<1>1. Inv => NothingInvented /\ NothingForgotten
  BY DEF Inv, LedgerInv, SnapshotInv, NothingInvented, NothingForgotten, Up
<1> QED BY Inductive, <1>1, PTL

\* The saved total goes back only while the process ends.
THEOREM BackwardsCorrect == Spec => BackwardsOnlyAtEnd
<1>1. Inv /\ [Next]_vars => [file' < file => phase = "ended"]_vars
  <2> SUFFICES ASSUME Inv, Next, file' < file PROVE phase = "ended"
    BY DEF vars
  <2>1. file \in Nat /\ file' # file
    BY DEF Inv, TypeOK
  <2>2. PICK p \in Savers : \E ok \in BOOLEAN : SaveRename(p, ok)
    BY <2>1 DEF Next, Process, Boot, Load, Carry, ServeEnds, Exit, Snapshot,
                Save, SaveWrite, Total
  <2>3. p \in Procs /\ phase # "off" /\ pc[p] = "rename" /\ file' = tmp
    BY <2>1, <2>2 DEF SaveRename, Procs
  <2>4. Up /\ tmp = loaded + cur[p]
    BY <2>3 DEF Inv, RenameInv
  <2> QED BY <2>3, <2>4 DEF Inv, SaverInv, TypeOK, Up, Savers
<1> QED BY Inductive, <1>1, PTL DEF Spec, BackwardsOnlyAtEnd

\* The totals a status request sees in one process never go back.
THEOREM MonotoneCorrect == Spec => TotalsMonotone
<1>1. Inv /\ [Next]_vars =>
        [~Boot => \A r \in Readers : shown'[r] >= shown[r]]_vars
  <2> SUFFICES ASSUME Inv, Next, ~Boot, NEW r \in Readers
               PROVE  shown'[r] >= shown[r]
    BY DEF vars
  <2>1. ASSUME NEW p \in Readers, Total(p) PROVE shown'[r] >= shown[r]
    BY <2>1 DEF Total, TotalAt, Inv, TypeOK, SnapshotInv, Procs
  <2>2. ASSUME shown' = shown PROVE shown'[r] >= shown[r]
    BY <2>2 DEF Inv, TypeOK
  <2> QED BY <2>1, <2>2 DEF Next, Process, Load, Carry, ServeEnds, Exit,
             Snapshot, Save, SaveWrite, SaveRename
<1> QED BY Inductive, <1>1, PTL DEF Spec, TotalsMonotone
=============================================================================
