----------------------------- MODULE SendQueue -----------------------------
(***************************************************************************)
(* The data path of the DERP server (internal/derpserver/derpserver.go):   *)
(* the readers of other connections put packets for one client into its    *)
(* two bounded send queues (sendPkt) while its own sender writes them out  *)
(* (sendLoop) and its connection comes to an end (onSendLoopDone, run,     *)
(* accept).                                                                *)
(*                                                                         *)
(* No lock is held on this path.  A step is one operation on a channel,    *)
(* one look at a context, or one frame written; every select of sendPkt is *)
(* non-blocking, and the one of sendLoop takes any case that is ready.     *)
(* Frames are written whole: bytes, buffers and deadlines are left out, a  *)
(* write succeeds or fails.  Counters of one kind of drop are one counter. *)
(***************************************************************************)
EXTENDS Naturals, Sequences, FiniteSets

CONSTANTS Senders,     \* readers of other connections
          Depth,       \* perClientSendQueueDepth
          MaxPackets,  \* bound: packets that each sender reads
          Carried,     \* bound: the kinds of packet that each sender reads
          Requesters,  \* goroutines of requestPeerGoneWrite
          None         \* no packet

\* LooksLikeDiscoWrapper decides which queue a packet takes.
Kinds == {"disco", "other"}

ASSUME QueueAssumption ==
  /\ IsFiniteSet(Senders)
  /\ Depth \in Nat \ {0}
  /\ MaxPackets \in [Senders -> Nat]
  /\ Carried \in [Senders -> SUBSET Kinds]

Packet == [src : Senders, num : Nat \ {0}, kind : Kinds]
ASSUME NoneAssumption == None \notin Packet

Attempts == 3          \* of sendPkt

VARIABLES
  at, hand, attempt,   \* per sender: its step in sendPkt, the packet, the attempt
  received,            \* per sender: packets read from its client
  queue,               \* per kind: sendQueue and discoSendQueue
  recv,                \* packetsRecv, or packetsForwardedIn for a mesh peer
  sent, dropped,       \* packetsSent, and the sum of packetsDropped
  last,                \* per sender and kind: the last packet written
  reader, sender,      \* the client's own goroutines: run, sendLoop
  open,                \* its connection (nc) is not closed
  pong,                \* sendPongCh holds a pong
  asking,              \* requesters blocked on the peerGone channel
  rivals               \* per sender: packets that others queued into the same
                       \* queue during its sendPkt, counted to Attempts

sendVars == <<at, hand, attempt, received>>
connVars == <<reader, sender, open>>
vars == <<sendVars, queue, recv, sent, dropped, last, connVars, pong, asking, rivals>>

Init ==
  /\ at = [s \in Senders |-> "read"] /\ hand = [s \in Senders |-> None]
  /\ attempt = [s \in Senders |-> 1] /\ received = [s \in Senders |-> 0]
  /\ queue = [k \in Kinds |-> <<>>]
  /\ recv = 0 /\ sent = 0 /\ dropped = 0
  /\ last = [s \in Senders |-> [k \in Kinds |-> 0]]
  /\ reader = "info" /\ sender = "none" /\ open = TRUE
  /\ pong = FALSE /\ asking = {}
  /\ rivals = [s \in Senders |-> 0]

\* accept's deferred calls run in reverse: unregisterClient, then cancel.
Registered == reader \in {"info", "run", "stopping"}
Cancelled == reader = "gone"
-----------------------------------------------------------------------------
(* Another connection's reader: handleFrameSendPacket, or, for a mesh peer, *)
(* handleFrameForwardPacket.                                               *)

\* The client is found by lookupDest, without a lock.
ReadPacket(s, k) ==
  /\ at[s] = "read" /\ received[s] < MaxPackets[s] /\ k \in Carried[s]
  /\ Registered
  /\ received' = [received EXCEPT ![s] = @ + 1] /\ recv' = recv + 1
  /\ hand' = [hand EXCEPT ![s] = [src |-> s, num |-> received[s] + 1, kind |-> k]]
  /\ at' = [at EXCEPT ![s] = "check"]
  /\ UNCHANGED <<attempt, queue, sent, dropped, last, connVars, pong, asking, rivals>>

\* No connection of the key is active, here or in the mesh: unknown_dest, or
\* dup_client while its connections fight.
ReadUnknown(s) ==
  /\ at[s] = "read" /\ received[s] < MaxPackets[s]
  /\ ~Registered
  /\ received' = [received EXCEPT ![s] = @ + 1] /\ recv' = recv + 1
  /\ dropped' = dropped + 1
  /\ UNCHANGED <<at, hand, attempt, queue, sent, last, connVars, pong, asking,
                 rivals>>

Goto(s, step) ==
  /\ at' = [at EXCEPT ![s] = step]
  /\ UNCHANGED <<hand, attempt, received>>

\* sendPkt returns, with the packet queued or dropped; its variables go.
Return(s) ==
  /\ at' = [at EXCEPT ![s] = "read"]
  /\ hand' = [hand EXCEPT ![s] = None]
  /\ attempt' = [attempt EXCEPT ![s] = 1]
  /\ UNCHANGED received

\* First select: the client's context is done (gone_disconnected).
CheckGone(s) ==
  /\ at[s] = "check"
  /\ \/ /\ Cancelled /\ Return(s)
        /\ dropped' = dropped + 1
        /\ rivals' = [rivals EXCEPT ![s] = 0]
     \/ ~Cancelled /\ Goto(s, "put") /\ UNCHANGED <<dropped, rivals>>
  /\ UNCHANGED <<recv, queue, sent, last, connVars, pong, asking>>

\* Faulty: the newest packet goes first.
Prepend(q, p) == <<p>> \o q
Enqueue(q, p) == Append(q, p)

\* r is in a sendPkt of its own, into the queue that s puts a packet in.
Competes(r, s) ==
  /\ r # s /\ hand[r] # None /\ hand[r].kind = hand[s].kind
  /\ rivals[r] < Attempts

\* Second select: queue the packet if there is room.
Put(s) ==
  LET p == hand[s] IN
  /\ at[s] = "put"
  /\ \/ /\ Len(queue[p.kind]) < Depth
        /\ queue' = [queue EXCEPT ![p.kind] = Enqueue(@, p)]
        /\ rivals' = [r \in Senders |->
             CASE r = s -> 0
               [] Competes(r, s) -> rivals[r] + 1
               [] OTHER -> rivals[r]]
        /\ Return(s)
     \/ /\ Len(queue[p.kind]) >= Depth
        /\ Goto(s, "head")
        /\ UNCHANGED <<queue, rivals>>
  /\ UNCHANGED <<recv, sent, dropped, last, connVars, pong, asking>>

\* Faulty: a full queue is left as it is.
Untouched(q) == q
Beheaded(q) == Tail(q)

\* Third select: make room by dropping the oldest packet (queue_head), unless
\* the queue has been emptied meanwhile.  After three attempts, give up.
DropHead(s) ==
  LET k == hand[s].kind IN
  /\ at[s] = "head"
  /\ \/ /\ queue[k] # <<>>
        /\ queue' = [queue EXCEPT ![k] = Beheaded(@)]
        /\ dropped' = dropped + Len(queue[k]) - Len(queue'[k])
     \/ queue[k] = <<>> /\ UNCHANGED <<queue, dropped>>
  /\ IF attempt[s] < Attempts
     THEN /\ attempt' = [attempt EXCEPT ![s] = @ + 1]
          /\ at' = [at EXCEPT ![s] = "check"]
     ELSE at' = [at EXCEPT ![s] = "tail"] /\ UNCHANGED attempt
  /\ UNCHANGED <<recv, hand, received, sent, last, connVars, pong, asking, rivals>>

\* The packet itself is dropped (queue_tail).
DropTail(s) ==
  /\ at[s] = "tail"
  /\ Return(s)
  /\ dropped' = dropped + 1
  /\ rivals' = [rivals EXCEPT ![s] = 0]
  /\ UNCHANGED <<recv, queue, sent, last, connVars, pong, asking>>
-----------------------------------------------------------------------------
(* The client's sender. *)

\* sendLoop returns; onSendLoopDone first closes the connection, so that the
\* receive loop unblocks.
EndSendLoop == sender' = "drain" /\ open' = FALSE /\ UNCHANGED reader

\* A frame is written, or the write fails and ends the loop.
Writes(ok) == IF ok THEN UNCHANGED connVars ELSE EndSendLoop

\* Faulty: the packet of a failed write is not counted.
Uncounted(ok) == 0
WriteError(ok) == IF ok THEN 0 ELSE 1

\* sendPacket of the head of a queue.
SendPacket(k, ok) ==
  /\ sender = "run" /\ queue[k] # <<>>
  /\ queue' = [queue EXCEPT ![k] = Tail(@)]
  /\ dropped' = dropped + WriteError(ok)
  /\ \/ ok /\ sent' = sent + 1
           /\ last' = [last EXCEPT ![Head(queue[k]).src][k] = Head(queue[k]).num]
     \/ ~ok /\ UNCHANGED <<sent, last>>
  /\ Writes(ok)
  /\ UNCHANGED <<recv, sendVars, pong, asking, rivals>>

\* A peer-gone request is received and written.
SendPeerGone(r, ok) ==
  /\ sender = "run" /\ r \in asking
  /\ asking' = asking \ {r}
  /\ Writes(ok)
  /\ UNCHANGED <<recv, sendVars, queue, sent, dropped, last, pong, rivals>>

SendPong(ok) ==
  /\ sender = "run" /\ pong
  /\ pong' = FALSE
  /\ Writes(ok)
  /\ UNCHANGED <<recv, sendVars, queue, sent, dropped, last, asking, rivals>>

\* A keep-alive, a mesh update or a flush fails.
FlushFails ==
  /\ sender = "run"
  /\ EndSendLoop
  /\ UNCHANGED <<recv, sendVars, queue, sent, dropped, last, pong, asking, rivals>>

\* run is returning and has cancelled the sender's context.
SenderCancelled ==
  /\ sender = "run" /\ reader = "stopping"
  /\ EndSendLoop
  /\ UNCHANGED <<recv, sendVars, queue, sent, dropped, last, pong, asking, rivals>>

\* onSendLoopDone drains the queues, one packet at a time ...
Drain(k) ==
  /\ sender = "drain" /\ queue[k] # <<>>
  /\ queue' = [queue EXCEPT ![k] = Tail(@)]
  /\ dropped' = dropped + 1
  /\ UNCHANGED <<recv, sendVars, sent, last, connVars, pong, asking, rivals>>

\* ... and returns when it finds both empty.
Drained ==
  /\ sender = "drain" /\ \A k \in Kinds : queue[k] = <<>>
  /\ sender' = "done"
  /\ UNCHANGED <<recv, sendVars, queue, sent, dropped, last, reader, open, pong, asking,
                 rivals>>
-----------------------------------------------------------------------------
(* The client's reader. *)

\* accept has registered the client and writes the server's info; if that fails
\* there is never a sender.
sendServerInfo(ok) ==
  /\ reader = "info"
  /\ \/ ok /\ reader' = "run" /\ sender' = "run"
     \/ ~ok /\ reader' = "stopping" /\ sender' = "done"
  /\ UNCHANGED <<recv, sendVars, queue, sent, dropped, last, open, pong, asking, rivals>>

\* handleFramePing: a second ping is ignored while a pong is waiting.
ReadPing ==
  /\ reader = "run"
  /\ pong' = TRUE
  /\ UNCHANGED <<recv, sendVars, queue, sent, dropped, last, connVars, asking, rivals>>

\* requestPeerGoneWrite starts: the client sent to an unknown key, or a peer
\* that its sender watches has left.
AskPeerGone(r) ==
  /\ reader = "run" \/ sender = "run"
  /\ r \notin asking
  /\ asking' = asking \cup {r}
  /\ UNCHANGED <<recv, sendVars, queue, sent, dropped, last, connVars, pong, rivals>>

\* Faulty: the request waits for the sender only.
NeverDone == FALSE
Done == Cancelled

\* It gives up when the client has closed.
AbandonPeerGone(r) ==
  /\ r \in asking /\ Done
  /\ asking' = asking \ {r}
  /\ UNCHANGED <<recv, sendVars, queue, sent, dropped, last, connVars, pong, rivals>>

\* The client hangs up, a frame is refused, or the connection was closed: run
\* cancels the sender and waits for it.
ReaderEnds ==
  /\ reader = "run"
  /\ reader' = "stopping"
  /\ UNCHANGED <<recv, sendVars, queue, sent, dropped, last, sender, open, pong, asking,
                 rivals>>

unregisterClient ==
  /\ reader = "stopping" /\ sender = "done"
  /\ reader' = "cancel"
  /\ UNCHANGED <<recv, sendVars, queue, sent, dropped, last, sender, open, pong, asking,
                 rivals>>

\* accept's deferred cancel.
Cancel ==
  /\ reader = "cancel"
  /\ reader' = "gone"
  /\ UNCHANGED <<recv, sendVars, queue, sent, dropped, last, sender, open, pong, asking,
                 rivals>>
-----------------------------------------------------------------------------
sendPkt(s) == CheckGone(s) \/ Put(s) \/ DropHead(s) \/ DropTail(s)

sendLoop ==
  \/ \E k \in Kinds, ok \in BOOLEAN : SendPacket(k, ok)
  \/ \E r \in Requesters, ok \in BOOLEAN : SendPeerGone(r, ok)
  \/ \E ok \in BOOLEAN : SendPong(ok)
  \/ FlushFails \/ SenderCancelled

onSendLoopDone == (\E k \in Kinds : Drain(k)) \/ Drained

Next ==
  \/ \E s \in Senders : (\E k \in Kinds : ReadPacket(s, k)) \/ ReadUnknown(s)
  \/ \E s \in Senders : sendPkt(s)
  \/ sendLoop \/ onSendLoopDone
  \/ \E r \in Requesters : AskPeerGone(r) \/ AbandonPeerGone(r)
  \/ \E ok \in BOOLEAN : sendServerInfo(ok)
  \/ ReadPing \/ ReaderEnds \/ unregisterClient \/ Cancel

Spec == Init /\ [][Next]_vars

\* A goroutine that is not blocked runs on; a read on a closed connection
\* fails; the select of sendLoop passes over no case that stays ready.
FairSpec ==
  /\ Spec
  /\ \A s \in Senders : WF_vars(sendPkt(s))
  /\ WF_vars(SenderCancelled) /\ WF_vars(onSendLoopDone)
  /\ WF_vars(ReaderEnds /\ ~open) /\ WF_vars(unregisterClient) /\ WF_vars(Cancel)
  /\ \A r \in Requesters : WF_vars(AbandonPeerGone(r))
-----------------------------------------------------------------------------
(* Properties. *)

SendersOK ==
  /\ at \in [Senders -> {"read", "check", "put", "head", "tail"}]
  /\ hand \in [Senders -> Packet \cup {None}]
  /\ attempt \in [Senders -> 1 .. Attempts]
  /\ received \in [Senders -> Nat]
  /\ rivals \in [Senders -> 0 .. Attempts]
  /\ last \in [Senders -> [Kinds -> Nat]]

\* The queues hold packets and the goroutines are somewhere in the code.
TypeOK ==
  /\ SendersOK
  /\ queue \in [Kinds -> Seq(Packet)]
  /\ recv \in Nat /\ sent \in Nat /\ dropped \in Nat
  /\ reader \in {"info", "run", "stopping", "cancel", "gone"}
  /\ sender \in {"none", "run", "drain", "done"}
  /\ open \in BOOLEAN /\ pong \in BOOLEAN
  /\ asking \subseteq Requesters

InHand == {s \in Senders : hand[s] # None}

\* No packet disappears from the counters: every packet read from a client is
\* sent, counted as dropped exactly once, in the hands of sendPkt, or queued,
\* whatever the races between the writers, the sender and the drain.
PacketsAccounted ==
  recv = sent + dropped + Cardinality(InHand)
         + Len(queue["disco"]) + Len(queue["other"])

\* Dropping from the head never reorders: of the packets that one client sends
\* to another, those of a kind are written in the order they were read.
SentInOrder ==
  [][\A s \in Senders, k \in Kinds : last'[s][k] >= last[s][k]]_vars

\* A packet is tail-dropped only "in a heavily contended queue with racing
\* writers": others have queued two packets since its sendPkt began.
TailDropNeedsRivals ==
  \A s \in Senders : at[s] = "tail" => rivals[s] >= 2

\* A connection that has failed or was closed is wound up: the reader is
\* unblocked, the client unregistered, and no requestPeerGoneWrite stays blocked.
WindsUp == (sender \in {"drain", "done"} \/ ~open) ~> (reader = "gone" /\ asking = {})
=============================================================================
