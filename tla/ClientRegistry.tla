--------------------------- MODULE ClientRegistry ---------------------------
(***************************************************************************)
(* The connection registry of the DERP server (internal/derpserver/        *)
(* derpserver.go): which connections (sclients) hold which node key, which *)
(* of a key's duplicate connections is active and gets its packets, what   *)
(* mesh peers are told about it, and who is told that a peer is gone.      *)
(*                                                                         *)
(* A connection is served by a reader goroutine (accept, run) and a sender *)
(* goroutine (sendLoop).  Server.mu guards the registry: a step is one     *)
(* critical section of it, or one read of a connection's atomic flags.     *)
(*                                                                         *)
(* sendHistory is an ever-growing log of which the code only uses the      *)
(* order of the connections' last entries (modules Recency, DupClientSet): *)
(* spoke holds that order.                                                 *)
(* Addresses, rate limits, counters that only grow and log lines are left  *)
(* out; a key's queued packets are one packet.                             *)
(***************************************************************************)
EXTENDS Integers, Sequences, FiniteSets, Recency

CONSTANTS Conns,      \* sclients; an id may serve a new connection later
          Keys,       \* node public keys
          KeyOf,      \* the key each connection authenticates with
          MeshConns,  \* connections that present the mesh key (canMesh)
          Homing,     \* bound: connections whose clients send NotePreferred
          Forwarders, \* PacketForwarders of other nodes of the region
          Elsewhere,  \* bound: <<key, forwarder>>: who may connect where
          Packets,    \* <<source key, connection>>: who talks to whom
          DupPolicy,  \* Server.dupPolicy
          None        \* nil

ASSUME RegistryAssumption ==
  /\ KeyOf \in [Conns -> Keys]
  /\ MeshConns \subseteq Conns
  /\ Packets \subseteq Keys \X Conns
  /\ DupPolicy \in {"lastWriterIsActive", "disableFighters"}
  /\ None \notin Conns

VARIABLES
  reader, sender,   \* per connection: where its two goroutines are
  clients,          \* keys of Server.clients
  active,           \* clientSet.activeClient
  dup, last, spoke, \* dupClientSet: set ({}: dup is nil), last, sendHistory
  isDup, isDisabled, preferred,  \* flags of a connection
  gauges,           \* Server's expvar gauges and numLocalClientKeys
  meshKeys, fwd,    \* keys of clientsMesh, and their forwarders ({}: nil)
  tracked,          \* connections known to PeerTracker
  watchers, changes, told,    \* mesh watchers, their peerStateChange, and
                              \* the keys they were told are present
  queued, sawSrc, goneWatch, goneMsg, routes
                    \* per connection: sources with a packet in sendQueue,
                    \* sawSrc, (per key) peerGoneWatchers, peer-gone frames
                    \* requested, and the sources its client has a route to

flagVars  == <<isDup, isDisabled>>
setVars   == <<clients, active, dup, last, spoke>>
meshVars  == <<meshKeys, fwd>>
watchVars == <<watchers, changes, told>>
goneVars  == <<queued, sawSrc, goneWatch, goneMsg, routes>>
vars == <<reader, sender, setVars, flagVars, preferred, gauges, meshVars,
          tracked, watchVars, goneVars>>

Gauges == {"curClients", "curHomeClients", "numLocalClientKeys",
           "dupClientKeys", "dupClientConns"}
NoChange == [k \in Keys |-> "same"]

Init ==
  /\ reader = [c \in Conns |-> "off"] /\ sender = [c \in Conns |-> "off"]
  /\ clients = {} /\ active = [k \in Keys |-> None]
  /\ dup = [k \in Keys |-> {}] /\ last = [k \in Keys |-> None]
  /\ spoke = [k \in Keys |-> <<>>]
  /\ isDup = [c \in Conns |-> FALSE] /\ isDisabled = [c \in Conns |-> FALSE]
  /\ preferred = [c \in Conns |-> FALSE]
  /\ gauges = [g \in Gauges |-> 0]
  /\ meshKeys = {} /\ fwd = [k \in Keys |-> {}]
  /\ tracked = {} /\ watchers = {}
  /\ changes = [c \in Conns |-> NoChange] /\ told = [c \in Conns |-> {}]
  /\ queued = [c \in Conns |-> {}] /\ sawSrc = [c \in Conns |-> {}]
  /\ goneWatch = [k \in Keys |-> {}] /\ goneMsg = [c \in Conns |-> {}]
  /\ routes = [c \in Conns |-> {}]
-----------------------------------------------------------------------------
(* Helpers. *)

At(c, label) == reader[c] = label

\* The gauges with the given amounts added.
Add(cur, home, keys, dupKeys, dupConns) ==
  gauges' = [g \in Gauges |->
    gauges[g] + CASE g = "curClients" -> cur
                  [] g = "curHomeClients" -> home
                  [] g = "numLocalClientKeys" -> keys
                  [] g = "dupClientKeys" -> dupKeys
                  [] g = "dupClientConns" -> dupConns]

\* broadcastPeerStateChangeLocked: queue the change for every watcher.  changes
\* holds the last change of each key that was not sent yet: frames are written
\* in queue order, so it decides what the watcher ends up with.
broadcastPeerStateChangeLocked(queues, k, change) ==
  changes' = [w \in Conns |-> IF w \in watchers
                              THEN [queues[w] EXCEPT ![k] = change]
                              ELSE queues[w]]

\* notePeerGoneFromRegionLocked: one goroutine per watcher, which asks the
\* watching connection's sender to write the frame; the watchers are dropped.
notePeerGoneFromRegionLocked(k) ==
  /\ goneMsg' = [c \in Conns |-> IF c \in goneWatch[k] THEN goneMsg[c] \cup {k}
                                 ELSE goneMsg[c]]
  /\ goneWatch' = [goneWatch EXCEPT ![k] = {}]
  /\ UNCHANGED <<queued, sawSrc, routes>>
-----------------------------------------------------------------------------
(* registerClient. *)

\* The new connection c and the one that was active are duplicates.
MarkNew(c, was) ==                   \* faulty: the old one is not marked
  /\ isDup' = [isDup EXCEPT ![c] = was # None]
  /\ isDisabled' = [isDisabled EXCEPT ![c] = FALSE]
MarkDuplicates(c, was) ==
  /\ isDup' = [d \in Conns |-> IF d = c THEN was # None
                               ELSE isDup[d] \/ d = was]
  /\ isDisabled' = [isDisabled EXCEPT ![c] = FALSE]

\* The key's second connection makes a dupClientSet.
Unduplicated(k) == dup[k] = {}       \* faulty: even of the first one
Duplicates(k) == dup[k] = {} /\ active[k] # None

registerClient(c) ==
  LET k == KeyOf[c]
      was == active[k]
      new == IF k \in clients THEN 0 ELSE 1
  IN /\ At(c, "off")
     /\ reader' = [reader EXCEPT ![c] = "run"]
     /\ sender' = [sender EXCEPT ![c] = "run"]
     /\ preferred' = [preferred EXCEPT ![c] = FALSE]
     /\ clients' = clients \cup {k}
     /\ MarkDuplicates(c, was)
     /\ \/ /\ dup[k] = {} /\ was = None
           /\ Add(1, 0, new, 0, 0)
           /\ UNCHANGED <<dup, last, spoke>>
        \/ /\ Duplicates(k)
           /\ Add(1, 0, new, 1, 2)
           /\ dup' = [dup EXCEPT ![k] = {c, was}]
           /\ last' = [last EXCEPT ![k] = c]
           /\ spoke' = [spoke EXCEPT ![k] = <<was>>]
        \/ /\ dup[k] # {}
           /\ Add(1, 0, new, 0, 1)
           /\ dup' = [dup EXCEPT ![k] = dup[k] \cup {c}]
           /\ last' = [last EXCEPT ![k] = c]
           /\ spoke' = [spoke EXCEPT ![k] = Spoken(spoke[k], c)]
     /\ active' = [active EXCEPT ![k] = c]
     /\ meshKeys' = meshKeys \cup {k}
     /\ tracked' = IF c \in MeshConns THEN tracked ELSE tracked \cup {c}
     /\ broadcastPeerStateChangeLocked([changes EXCEPT ![c] = NoChange], k,
                                       "present")
     /\ queued' = [queued EXCEPT ![c] = {}]
     /\ UNCHANGED <<fwd, watchers, told, sawSrc, goneWatch, goneMsg, routes>>
-----------------------------------------------------------------------------
(* unregisterClient, once run has returned and the sender is done. *)

\* dupClientSet.removeClient and pickActiveClient: who is last, who is active.
StaleLast(k, c) == last[k]           \* faulty: not replaced
NextLast(k, c) ==
  IF last[k] = c THEN LastOf(Without(spoke[k], c), None) ELSE last[k]
pickActiveClient(k, c) ==
  IF NextLast(k, c) # None /\ ~isDisabled[NextLast(k, c)]
  THEN NextLast(k, c) ELSE None

\* The last connection of its key: the key goes, unless the mesh forwards it.
UnregisterOnly(c, k, home) ==
  /\ dup[k] = {} /\ active[k] = c
  /\ active' = [active EXCEPT ![k] = None]
  /\ clients' = clients \ {k}
  /\ Add(-1, home, -1, 0, 0)
  /\ IF fwd[k] = {}
     THEN meshKeys' = meshKeys \ {k} /\ notePeerGoneFromRegionLocked(k)
     ELSE UNCHANGED <<meshKeys, goneVars>>
  /\ broadcastPeerStateChangeLocked(changes, k, "gone")
  /\ UNCHANGED <<dup, last, spoke, flagVars>>

\* Only remain is left when c leaves the dup set.
OneOfRest(k, c, remain) == remain \in dup[k] \ {c}   \* faulty: or others too
LeavesOnly(k, c, remain) == dup[k] # {} /\ dup[k] \ {c} = {remain}

\* Both connections of a dupClientSet stop being duplicates.
Departed == 1                        \* faulty: only the one that leaves
Demoted == 2

\* One of two: the other is demoted to a regular single client.
UnregisterDemote(c, k, home) ==
  \E remain \in Conns :
    /\ LeavesOnly(k, c, remain)
    /\ dup' = [dup EXCEPT ![k] = {}]
    /\ last' = [last EXCEPT ![k] = None]
    /\ spoke' = [spoke EXCEPT ![k] = <<>>]
    /\ isDup' = [isDup EXCEPT ![remain] = FALSE]
    /\ isDisabled' = [isDisabled EXCEPT ![remain] = FALSE]
    /\ active' = [active EXCEPT ![k] = remain]
    /\ Add(-1, home, 0, -1, -Demoted)
    /\ UNCHANGED <<clients, meshKeys, changes, goneVars>>

\* One of three or more: still a duplicate, pick a winner.
UnregisterDup(c, k, home) ==
  /\ dup[k] # {} /\ ~\E r \in Conns : dup[k] \ {c} = {r}
  /\ dup' = [dup EXCEPT ![k] = dup[k] \ {c}]
  /\ last' = [last EXCEPT ![k] = NextLast(k, c)]
  /\ spoke' = [spoke EXCEPT ![k] = Without(spoke[k], c)]
  /\ active' = [active EXCEPT ![k] = pickActiveClient(k, c)]
  /\ Add(-1, home, 0, 0, -1)
  /\ UNCHANGED <<clients, flagVars, meshKeys, changes, goneVars>>

unregisterClient(c) ==
  LET k == KeyOf[c]
      home == IF preferred[c] THEN -1 ELSE 0
  IN /\ At(c, "run") /\ sender[c] = "done"
     /\ reader' = [reader EXCEPT ![c] = "off"]
     /\ sender' = [sender EXCEPT ![c] = "off"]
     /\ tracked' = tracked \ {c}
     /\ \/ UnregisterOnly(c, k, home)
        \/ UnregisterDemote(c, k, home)
        \/ UnregisterDup(c, k, home)
     /\ watchers' = watchers \ {c}
     /\ UNCHANGED <<preferred, fwd, told>>
-----------------------------------------------------------------------------
(* The reader: a frame arrives, its activity is noted, it is handled. *)

\* noteClientActivity's reads of the flags, without Server.mu.
ReadFrame(c) ==
  /\ At(c, "run")
  /\ reader' = [reader EXCEPT ![c] = IF isDup[c] /\ ~isDisabled[c] THEN "note"
                                     ELSE "handle"]
  /\ UNCHANGED <<sender, setVars, flagVars, preferred, gauges, meshVars, tracked,
                 watchVars, goneVars>>

\* The group is fighting: c spoke before, and someone else after it.
Fighting(c, k) ==
  /\ DupPolicy = "disableFighters"
  /\ Spoke(spoke[k], c) /\ LastOf(spoke[k], None) # c

\* The speaker becomes last, and active unless the group is now disabled.
Takes(k) == DupPolicy = "lastWriterIsActive" \/ last[k] = None
NextActive(c, k) == IF Fighting(c, k) THEN None
                    ELSE IF Takes(k) THEN c ELSE active[k]

\* The rest of noteClientActivity, under Server.mu.
noteClientActivity(c) ==
  LET k == KeyOf[c]
  IN /\ At(c, "note")
     /\ reader' = [reader EXCEPT ![c] = "handle"]
     /\ \/ /\ dup[k] = {}        \* it became unduped in between
           /\ UNCHANGED <<active, last, spoke, isDisabled>>
        \/ /\ dup[k] # {}
           /\ last' = IF Takes(k) THEN [last EXCEPT ![k] = c] ELSE last
           /\ active' = [active EXCEPT ![k] = NextActive(c, k)]
           /\ isDisabled' = [d \in Conns |->
                isDisabled[d] \/ (Fighting(c, k) /\ d \in dup[k])]
           /\ spoke' = [spoke EXCEPT ![k] = Spoken(spoke[k], c)]
     /\ UNCHANGED <<sender, clients, dup, isDup, preferred, gauges, meshVars,
                    tracked, watchVars, goneVars>>

Handled(c) == At(c, "handle") /\ reader' = [reader EXCEPT ![c] = "run"]

\* handleFrameNotePreferred: setPreferred.
setPreferred(c) ==
  /\ Handled(c) /\ c \in Homing
  /\ preferred' = [preferred EXCEPT ![c] = ~preferred[c]]
  /\ Add(0, IF preferred[c] THEN -1 ELSE 1, 0, 0, 0)
  /\ UNCHANGED <<sender, setVars, flagVars, meshVars, tracked, watchVars, goneVars>>

\* What is connected is queued for a new watcher.
NoSnapshot(c) == changes[c]          \* faulty: only later changes
Snapshot(c) == [k \in Keys |-> IF k \in clients /\ active[k] # None
                               THEN "present" ELSE changes[c][k]]

\* handleFrameWatchConns: addWatcher queues the snapshot, then enrols c.
addWatcher(c) ==
  /\ Handled(c) /\ c \in MeshConns
  /\ changes' = [changes EXCEPT ![c] = Snapshot(c)]
  /\ watchers' = watchers \cup {c}
  /\ UNCHANGED <<sender, setVars, flagVars, preferred, gauges, meshVars, tracked,
                 told, goneVars>>

\* handleFrameSendPacket and, from a mesh peer, handleFrameForwardPacket: a
\* packet of source k for the active connection of its destination (lookupDest).
SendPacket(c, k, d) ==
  /\ Handled(c) /\ (k = KeyOf[c] \/ c \in MeshConns)
  /\ <<k, d>> \in Packets /\ active[KeyOf[d]] = d
  /\ queued' = [queued EXCEPT ![d] = queued[d] \cup {k}]
  /\ UNCHANGED <<sender, setVars, flagVars, preferred, gauges, meshVars, tracked,
                 watchVars, sawSrc, goneWatch, goneMsg, routes>>

\* Pings, dropped or forwarded packets, close-peer and unknown frames.
OtherFrame(c) ==
  /\ Handled(c)
  /\ UNCHANGED <<sender, setVars, flagVars, preferred, gauges, meshVars, tracked,
                 watchVars, goneVars>>
-----------------------------------------------------------------------------
(* The sender. *)

\* sendPacket of a packet from k, with noteSendFromSrc.
SendQueued(c, k) ==
  /\ sender[c] = "run" /\ k \in queued[c]
  /\ queued' = [queued EXCEPT ![c] = queued[c] \ {k}]
  /\ goneWatch' = IF k \in sawSrc[c] THEN goneWatch
                  ELSE [goneWatch EXCEPT ![k] = goneWatch[k] \cup {c}]
  /\ sawSrc' = [sawSrc EXCEPT ![c] = sawSrc[c] \cup {k}]
  /\ routes' = [routes EXCEPT ![c] = routes[c] \cup {k}]
  /\ UNCHANGED <<reader, sender, setVars, flagVars, preferred, gauges, meshVars,
                 tracked, watchVars, goneMsg>>

\* requestPeerGoneWrite is received and the frame written.
SendPeerGone(c, k) ==
  /\ sender[c] = "run" /\ k \in goneMsg[c]
  /\ goneMsg' = [goneMsg EXCEPT ![c] = goneMsg[c] \ {k}]
  /\ routes' = [routes EXCEPT ![c] = routes[c] \ {k}]
  /\ UNCHANGED <<reader, sender, setVars, flagVars, preferred, gauges, meshVars,
                 tracked, watchVars, queued, sawSrc, goneWatch>>

\* What a watcher will have been told once its queue is written.
Told(c) == {k \in Keys : \/ changes[c][k] = "present"
                         \/ changes[c][k] = "same" /\ k \in told[c]}

\* sendMeshUpdates takes the whole queue.
sendMeshUpdates(c) ==
  /\ sender[c] = "run" /\ changes[c] # NoChange
  /\ told' = [told EXCEPT ![c] = Told(c)]
  /\ changes' = [changes EXCEPT ![c] = NoChange]
  /\ UNCHANGED <<reader, sender, setVars, flagVars, preferred, gauges, meshVars,
                 tracked, watchers, goneVars>>

\* The peer-gone watches that are left without the ones of c.
AllWatches(c) == goneWatch           \* faulty: none is removed
OtherWatches(c) == [k \in Keys |-> IF k \in sawSrc[c] THEN goneWatch[k] \ {c}
                                   ELSE goneWatch[k]]

\* onSendLoopDone, after the reader ended or a write failed: the connection is
\* closed, its watches and its queue are cleaned up.
onSendLoopDone(c) ==
  /\ sender[c] = "run"
  /\ sender' = [sender EXCEPT ![c] = "done"]
  /\ goneWatch' = OtherWatches(c)
  /\ sawSrc' = [sawSrc EXCEPT ![c] = {}]
  /\ queued' = [queued EXCEPT ![c] = {}]
  /\ goneMsg' = [goneMsg EXCEPT ![c] = {}]
  /\ routes' = [routes EXCEPT ![c] = {}]
  /\ told' = [told EXCEPT ![c] = {}]
  /\ UNCHANGED <<reader, setVars, flagVars, preferred, gauges, meshVars, tracked,
                 watchers, changes>>
-----------------------------------------------------------------------------
(* Mesh forwarding: other nodes of the region that have the key. *)

AddPacketForwarder(k, f) ==
  /\ <<k, f>> \in Elsewhere
  /\ meshKeys' = meshKeys \cup {k}
  /\ fwd' = [fwd EXCEPT ![k] = fwd[k] \cup {f}]
  /\ UNCHANGED <<reader, sender, setVars, flagVars, preferred, gauges, tracked,
                 watchVars, goneVars>>

\* With f the key leaves the region.
LastForwarder(k, f) == fwd[k] = {f}  \* faulty: local clients are forgotten
LeavesRegion(k, f) == fwd[k] = {f} /\ k \notin clients

RemovePacketForwarder(k, f) ==
  /\ f \in fwd[k]
  /\ fwd' = [fwd EXCEPT ![k] = fwd[k] \ {f}]
  /\ IF LeavesRegion(k, f)
     THEN meshKeys' = meshKeys \ {k} /\ notePeerGoneFromRegionLocked(k)
     ELSE UNCHANGED <<meshKeys, goneVars>>
  /\ UNCHANGED <<reader, sender, setVars, flagVars, preferred, gauges, tracked,
                 watchVars>>
-----------------------------------------------------------------------------
Reader(c) ==
  \/ registerClient(c) \/ unregisterClient(c) \/ ReadFrame(c)
  \/ noteClientActivity(c) \/ setPreferred(c) \/ addWatcher(c) \/ OtherFrame(c)
  \/ \E k \in Keys, d \in Conns : SendPacket(c, k, d)

Sender(c) ==
  \/ \E k \in Keys : SendQueued(c, k) \/ SendPeerGone(c, k)
  \/ sendMeshUpdates(c) \/ onSendLoopDone(c)

Mesh == \E k \in Keys, f \in Forwarders :
          AddPacketForwarder(k, f) \/ RemovePacketForwarder(k, f)

Next == \/ \E c \in Conns : Reader(c) \/ Sender(c)
        \/ Mesh

Spec == Init /\ [][Next]_vars
-----------------------------------------------------------------------------
(* Properties. *)

Registered == {c \in Conns : reader[c] # "off"}

SetsOK ==
  /\ clients \subseteq Keys
  /\ active \in [Keys -> Conns \cup {None}]
  /\ dup \in [Keys -> SUBSET Conns]
  /\ last \in [Keys -> Conns \cup {None}]
  /\ spoke \in [Keys -> Seq(Conns)]

ConnsOK ==
  /\ reader \in [Conns -> {"off", "run", "note", "handle"}]
  /\ sender \in [Conns -> {"off", "run", "done"}]
  /\ isDup \in [Conns -> BOOLEAN]
  /\ isDisabled \in [Conns -> BOOLEAN]
  /\ preferred \in [Conns -> BOOLEAN]
  /\ gauges \in [Gauges -> Int]

ViewsOK ==
  /\ meshKeys \subseteq Keys /\ fwd \in [Keys -> SUBSET Forwarders]
  /\ tracked \subseteq Conns /\ watchers \subseteq Conns
  /\ changes \in [Conns -> [Keys -> {"same", "present", "gone"}]]
  /\ told \in [Conns -> SUBSET Keys]
  /\ queued \in [Conns -> SUBSET Keys] /\ sawSrc \in [Conns -> SUBSET Keys]
  /\ goneWatch \in [Keys -> SUBSET Conns]
  /\ goneMsg \in [Conns -> SUBSET Keys] /\ routes \in [Conns -> SUBSET Keys]

\* The registry's maps, flags and counters keep their Go types.
TypeOK == SetsOK /\ ConnsOK /\ ViewsOK

\* A key that is connected has an active connection, and it is one of its own
\* that has not been unregistered: no sequence of duplicates connecting,
\* speaking and leaving in any order makes the key unreachable (registerClient,
\* removeClient, pickActiveClient; the policy the server uses).
AlwaysRoutable ==
  \A k \in clients : active[k] \in Registered /\ KeyOf[active[k]] = k

\* unregisterClient never meets one of the states it logs as "[unexpected]":
\* the key is in the map, and the connection is its only one or in its dup set.
NeverUnexpected ==
  \A c \in Registered :
    /\ KeyOf[c] \in clients
    /\ dup[KeyOf[c]] = {} => active[KeyOf[c]] = c
    /\ dup[KeyOf[c]] # {} => c \in dup[KeyOf[c]]

\* A connection is flagged isDup exactly while its key has several: with the
\* flag missing noteClientActivity would return early for good, and the
\* connection that writes would not become the active one.
DupFlagsExact ==
  \A c \in Registered : isDup[c] <=> dup[KeyOf[c]] # {}

\* The gauges and the peer list of the status page count what is there, over
\* the demotions that take two off dupClientConns at once.
GaugesExact ==
  /\ gauges["curClients"] = Cardinality(Registered)
  /\ gauges["curHomeClients"] = Cardinality({c \in Registered : preferred[c]})
  /\ gauges["numLocalClientKeys"] = Cardinality(clients)
  /\ gauges["dupClientKeys"] = Cardinality({k \in Keys : dup[k] # {}})
  /\ gauges["dupClientConns"] = Cardinality(UNION {dup[k] : k \in Keys})
  /\ tracked = Registered \ MeshConns

\* The first two checks of ConsistencyCheck: every local client is in
\* clientsMesh, and an entry without a forwarder is a local client, however
\* registrations and mesh updates interleave.
MeshConsistent ==
  /\ clients \subseteq meshKeys
  /\ \A k \in meshKeys : fwd[k] = {} => k \in clients

\* Once its queue is written, a mesh watcher knows exactly the connected keys,
\* although it enrolled while duplicates came and went.
WatchersInformed ==
  \A c \in watchers : sender[c] = "run" => Told(c) = clients

\* A peer-gone watch belongs to a live sender that still remembers it, so its
\* callback never outlives the connection (noteSendFromSrc, onSendLoopDone).
NoDanglingWatch ==
  \A k \in Keys : \A c \in goneWatch[k] : sender[c] = "run" /\ k \in sawSrc[c]

\* notePeerGoneFromRegionLocked "sends peerGone frames to parties that key has
\* sent to previously": a route to a key that left the region is being dropped.
GoneIsAnnounced ==
  \A c \in Conns : sender[c] = "run" =>
    \A k \in routes[c] \ meshKeys : k \in goneMsg[c]
=============================================================================
