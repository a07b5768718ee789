-------------------------- MODULE SendQueueProofs --------------------------
(***************************************************************************)
(* Proofs about SendQueue, for any number of senders, any queue depth and  *)
(* any number of packets.                                                  *)
(***************************************************************************)
EXTENDS SendQueue, FiniteSetTheorems, TLAPS

\* What a receive takes from a channel, and what it leaves.
LEMMA Received ==
  ASSUME NEW S, NEW q \in Seq(S), q # <<>>
  PROVE  /\ Tail(q) \in Seq(S) /\ Len(Tail(q)) = Len(q) - 1 /\ Len(q) > 0
         /\ Head(q) = q[1] /\ q[1] \in S
         /\ \A i \in 1 .. Len(Tail(q)) : Tail(q)[i] = q[i + 1]
OBVIOUS

\* What a send leaves.
LEMMA Sent ==
  ASSUME NEW S, NEW q \in Seq(S), NEW p \in S
  PROVE  /\ Append(q, p) \in Seq(S) /\ Len(Append(q, p)) = Len(q) + 1
         /\ \A i \in 1 .. Len(q) : Append(q, p)[i] = q[i]
         /\ Append(q, p)[Len(q) + 1] = p
OBVIOUS

\* A reader holds a packet while it is in sendPkt, the last one that it read.
Carrying ==
  \A s \in Senders :
    /\ at[s] = "read" <=> hand[s] = None
    /\ hand[s] # None => hand[s].src = s /\ hand[s].num = received[s]

Typed == TypeOK /\ Carrying

LEMMA TypedInit == ASSUME Init PROVE Typed
<1>1. <<>> \in Seq(Packet) /\ 1 \in 1 .. Attempts /\ 0 \in 0 .. Attempts
  BY DEF Attempts
<1> QED BY <1>1 DEF Init, Typed, TypeOK, SendersOK, Carrying

\* A step that leaves the readers alone.
LEMMA CarryingKept ==
  ASSUME Carrying, UNCHANGED sendVars
  PROVE  Carrying'
BY DEF Carrying, sendVars

\* The end of a sendPkt.
LEMMA ReturnOK ==
  ASSUME Typed, NEW s \in Senders, Return(s),
         rivals' \in [Senders -> 0 .. Attempts], last' = last
  PROVE  SendersOK' /\ Carrying'
<1>1. 1 \in 1 .. Attempts
  BY DEF Attempts
<1> QED BY <1>1 DEF Typed, TypeOK, SendersOK, Carrying, Return

\* A step within it.
LEMMA GotoOK ==
  ASSUME Typed, NEW s \in Senders, at[s] # "read",
         NEW step \in {"check", "put", "head", "tail"}, at' = [at EXCEPT ![s] = step],
         UNCHANGED <<hand, received, rivals, last>>, attempt' \in [Senders -> 1 .. Attempts]
  PROVE  SendersOK' /\ Carrying'
BY DEF Typed, TypeOK, SendersOK, Carrying

LEMMA ReadPacketOK ==
  ASSUME Typed, NEW s \in Senders, NEW k \in Kinds, ReadPacket(s, k)
  PROVE  Typed'
<1>1. SendersOK /\ Carrying
  BY DEF Typed, TypeOK
<1>2. [src |-> s, num |-> received[s] + 1, kind |-> k] \in Packet
  BY <1>1 DEF Packet, SendersOK
<1>3. PICK p \in Packet : p = [src |-> s, num |-> received[s] + 1, kind |-> k]
  BY <1>2
<1>4. /\ hand' = [hand EXCEPT ![s] = p] /\ p # None /\ p.src = s /\ p.num = received[s] + 1
      /\ received' = [received EXCEPT ![s] = @ + 1] /\ at' = [at EXCEPT ![s] = "check"]
      /\ UNCHANGED <<attempt, rivals, last>>
  BY <1>3, NoneAssumption DEF ReadPacket
<1>5. Carrying'
  BY <1>1, <1>4 DEF Carrying, SendersOK
<1>6. SendersOK'
  BY <1>1, <1>4 DEF SendersOK
<1> QED BY <1>5, <1>6 DEF Typed, TypeOK, ReadPacket, connVars

LEMMA PutOK == ASSUME Typed, NEW s \in Senders, Put(s) PROVE Typed'
<1>1. hand[s] \in Packet /\ hand[s].kind \in Kinds /\ at[s] = "put"
  BY DEF Typed, TypeOK, SendersOK, Carrying, Put, Packet
<1>2. CASE Return(s)
  <2>1. queue[hand[s].kind] \in Seq(Packet)
    BY <1>1 DEF Typed, TypeOK
  <2>2. Append(queue[hand[s].kind], hand[s]) \in Seq(Packet)
    BY <1>1, <2>1, Sent
  <2>3. queue' \in [Kinds -> Seq(Packet)]
    BY <1>1, <2>2 DEF Put, Enqueue, Typed, TypeOK
  <2>4. rivals' \in [Senders -> 0 .. Attempts]
    <3>1. \A r \in Senders : Competes(r, s) => rivals[r] + 1 \in 0 .. Attempts
      <4>1. \A r \in Senders : rivals[r] \in 0 .. Attempts
        BY DEF Typed, TypeOK, SendersOK
      <4> QED BY <4>1 DEF Competes, Attempts
    <3>2. \/ rivals' = [r \in Senders |->
                 CASE r = s -> 0 [] Competes(r, s) -> rivals[r] + 1 [] OTHER -> rivals[r]]
          \/ rivals' = rivals
      BY DEF Put
    <3>3. rivals \in [Senders -> 0 .. Attempts] /\ 0 \in 0 .. Attempts
      BY DEF Typed, TypeOK, SendersOK, Attempts
    <3> QED BY <3>1, <3>2, <3>3
  <2>5. UNCHANGED <<recv, sent, dropped, last, connVars, pong, asking>>
    BY DEF Put
  <2>6. SendersOK' /\ Carrying'
    BY <1>2, <2>4, <2>5, ReturnOK
  <2> QED BY <2>3, <2>5, <2>6 DEF Typed, TypeOK, connVars
<1>3. CASE Goto(s, "head") /\ UNCHANGED <<queue, rivals>>
  <2>1. UNCHANGED <<recv, sent, dropped, last, connVars, pong, asking>>
    BY DEF Put
  <2>2. SendersOK' /\ Carrying'
    BY <1>1, <1>3, <2>1, GotoOK DEF Goto, Typed, TypeOK, SendersOK
  <2> QED BY <1>3, <2>1, <2>2 DEF Typed, TypeOK, connVars
<1> QED BY <1>2, <1>3 DEF Put

LEMMA CheckGoneOK == ASSUME Typed, NEW s \in Senders, CheckGone(s) PROVE Typed'
<1>1. UNCHANGED <<recv, queue, sent, last, connVars, pong, asking>> /\ at[s] = "check"
  BY DEF CheckGone
<1>2. CASE Return(s) /\ dropped' = dropped + 1 /\ rivals' = [rivals EXCEPT ![s] = 0]
  <2>1. rivals' \in [Senders -> 0 .. Attempts]
    BY <1>2 DEF Typed, TypeOK, SendersOK, Attempts
  <2>2. SendersOK' /\ Carrying'
    BY <1>1, <1>2, <2>1, ReturnOK
  <2> QED BY <1>1, <1>2, <2>2 DEF Typed, TypeOK, connVars
<1>3. CASE Goto(s, "put") /\ UNCHANGED <<dropped, rivals>>
  <2>1. SendersOK' /\ Carrying'
    BY <1>1, <1>3, GotoOK DEF Goto, Typed, TypeOK, SendersOK
  <2> QED BY <1>1, <1>3, <2>1 DEF Typed, TypeOK, connVars
<1> QED BY <1>2, <1>3 DEF CheckGone

LEMMA DropHeadOK == ASSUME Typed, NEW s \in Senders, DropHead(s) PROVE Typed'
<1>1. hand[s].kind \in Kinds /\ at[s] = "head"
  BY DEF Typed, TypeOK, SendersOK, Carrying, DropHead, Packet
<1>2. PICK k \in Kinds : k = hand[s].kind
  BY <1>1
<1>3. queue \in [Kinds -> Seq(Packet)] /\ dropped \in Nat
  BY DEF Typed, TypeOK
<1>4. queue' \in [Kinds -> Seq(Packet)] /\ dropped' \in Nat
  <2>1. CASE queue[k] # <<>> /\ queue' = [queue EXCEPT ![k] = Tail(@)]
             /\ dropped' = dropped + Len(queue[k]) - Len(queue'[k])
    <3>1. Tail(queue[k]) \in Seq(Packet) /\ Len(Tail(queue[k])) = Len(queue[k]) - 1
      BY <1>3, <2>1, Received
    <3>2. Len(queue[k]) \in Nat
      BY <1>3
    <3> QED BY <1>3, <2>1, <3>1, <3>2
  <2> QED BY <1>2, <1>3, <2>1 DEF DropHead, Beheaded
<1>5. /\ \/ attempt' = [attempt EXCEPT ![s] = @ + 1] /\ attempt[s] < Attempts
            /\ at' = [at EXCEPT ![s] = "check"]
         \/ attempt' = attempt /\ at' = [at EXCEPT ![s] = "tail"]
      /\ UNCHANGED <<recv, hand, received, sent, last, connVars, pong, asking, rivals>>
  BY DEF DropHead
<1>6. attempt' \in [Senders -> 1 .. Attempts]
  <2>1. attempt \in [Senders -> 1 .. Attempts]
    BY DEF Typed, TypeOK, SendersOK
  <2> QED BY <1>5, <2>1 DEF Attempts
<1>7. SendersOK' /\ Carrying'
  BY <1>1, <1>5, <1>6, GotoOK
<1> QED BY <1>4, <1>5, <1>7 DEF Typed, TypeOK, connVars

LEMMA DropTailOK == ASSUME Typed, NEW s \in Senders, DropTail(s) PROVE Typed'
<1>1. rivals' \in [Senders -> 0 .. Attempts]
  BY DEF DropTail, Typed, TypeOK, SendersOK, Attempts
<1>2. SendersOK' /\ Carrying'
  BY <1>1, ReturnOK DEF DropTail
<1> QED BY <1>2 DEF DropTail, Typed, TypeOK, connVars

LEMMA SendPacketOK ==
  ASSUME Typed, NEW k \in Kinds, NEW ok \in BOOLEAN, SendPacket(k, ok)
  PROVE  Typed'
<1>1. queue[k] \in Seq(Packet) /\ queue[k] # <<>>
  BY DEF SendPacket, Typed, TypeOK
<1>2. Tail(queue[k]) \in Seq(Packet) /\ Head(queue[k]) \in Packet
  BY <1>1, Received
<1>3. Head(queue[k]).src \in Senders /\ Head(queue[k]).num \in Nat
  BY <1>2 DEF Packet
<1>4. queue' \in [Kinds -> Seq(Packet)] /\ dropped' \in Nat /\ sent' \in Nat
  BY <1>2 DEF SendPacket, WriteError, Typed, TypeOK
<1>5. last' \in [Senders -> [Kinds -> Nat]]
  <2>1. last \in [Senders -> [Kinds -> Nat]]
    BY DEF Typed, TypeOK, SendersOK
  <2>2. last' = [last EXCEPT ![Head(queue[k]).src][k] = Head(queue[k]).num] \/ last' = last
    BY DEF SendPacket
  <2> QED BY <1>3, <2>1, <2>2
<1>6. SendersOK' /\ Carrying'
  BY <1>5, CarryingKept DEF SendPacket, sendVars, Typed, TypeOK, SendersOK
<1> QED BY <1>4, <1>6 DEF SendPacket, Writes, EndSendLoop, connVars, Typed, TypeOK

LEMMA DrainOK == ASSUME Typed, NEW k \in Kinds, Drain(k) PROVE Typed'
<1>1. Tail(queue[k]) \in Seq(Packet)
  BY Received DEF Drain, Typed, TypeOK
<1>2. Carrying'
  BY CarryingKept DEF Drain, Typed
<1> QED BY <1>1, <1>2 DEF Drain, Typed, TypeOK, SendersOK, sendVars, connVars

\* Steps of the client's own goroutines that move no packet.
ConnStep ==
  \/ \E r \in Requesters, ok \in BOOLEAN : SendPeerGone(r, ok)
  \/ \E ok \in BOOLEAN : SendPong(ok) \/ sendServerInfo(ok)
  \/ FlushFails \/ SenderCancelled \/ Drained
  \/ \E r \in Requesters : AskPeerGone(r) \/ AbandonPeerGone(r)
  \/ ReadPing \/ ReaderEnds \/ unregisterClient \/ Cancel

LEMMA ConnStepOK ==
  ASSUME Typed, ConnStep
  PROVE  Typed' /\ UNCHANGED <<sendVars, queue, recv, sent, dropped, last, rivals>>
<1>1. UNCHANGED <<sendVars, queue, recv, sent, dropped, last, rivals>>
  BY DEF ConnStep, SendPeerGone, SendPong, sendServerInfo, FlushFails, SenderCancelled,
         Drained, AskPeerGone, AbandonPeerGone, ReadPing, ReaderEnds, unregisterClient,
         Cancel
<1>2. /\ reader' \in {"info", "run", "stopping", "cancel", "gone"}
      /\ sender' \in {"none", "run", "drain", "done"}
      /\ open' \in BOOLEAN /\ pong' \in BOOLEAN /\ asking' \subseteq Requesters
  BY DEF ConnStep, SendPeerGone, SendPong, sendServerInfo, FlushFails, SenderCancelled,
         Drained, AskPeerGone, AbandonPeerGone, ReadPing, ReaderEnds, unregisterClient,
         Cancel, Writes, EndSendLoop, connVars, Typed, TypeOK
<1> QED BY <1>1, <1>2, CarryingKept DEF Typed, TypeOK, SendersOK, sendVars

LEMMA TypedNext == ASSUME Typed, [Next]_vars PROVE Typed'
<1>1. ASSUME NEW s \in Senders, ReadUnknown(s) PROVE Typed'
  BY <1>1 DEF ReadUnknown, connVars, Typed, TypeOK, SendersOK, Carrying
<1>2. CASE UNCHANGED vars
  BY <1>2 DEF vars, sendVars, connVars, Typed, TypeOK, SendersOK, Carrying
<1> QED BY <1>1, <1>2, ReadPacketOK, CheckGoneOK, PutOK, DropHeadOK, DropTailOK,
           SendPacketOK, DrainOK, ConnStepOK
        DEF Next, sendPkt, sendLoop, onSendLoopDone, ConnStep

LEMMA TypedAlways == Spec => []Typed
BY TypedInit, TypedNext, PTL DEF Spec

\* The queues hold packets, and the goroutines are at some point of their code.
THEOREM TypeCorrect == Spec => []TypeOK
BY TypedAlways, PTL DEF Typed
-----------------------------------------------------------------------------
(* Drops from the tail. *)

Bounded == \A k \in Kinds : Len(queue[k]) <= Depth

\* An attempt begins with room in the queue, but for the first one; if there is
\* none when it puts its packet in, a rival has taken it.
Contended ==
  \A s \in Senders :
    /\ at[s] = "read" => attempt[s] = 1
    /\ at[s] \in {"check", "put"} =>
         \/ rivals[s] >= attempt[s] - 1
         \/ rivals[s] >= attempt[s] - 2 /\ Len(queue[hand[s].kind]) < Depth
    /\ at[s] = "head" => rivals[s] >= attempt[s] - 1
    /\ at[s] = "tail" => rivals[s] >= 2

Raced == Bounded /\ Contended

\* Room in a queue stays when packets are taken from it.
LEMMA Shorter ==
  ASSUME Typed, Raced, NEW k \in Kinds, queue[k] # <<>>,
         queue' = [queue EXCEPT ![k] = Tail(@)]
  PROVE  /\ Bounded'
         /\ \A j \in Kinds : Len(queue'[j]) <= Len(queue[j])
         /\ Len(queue'[k]) < Depth
<1>1. queue \in [Kinds -> Seq(Packet)] /\ Depth \in Nat
  BY QueueAssumption DEF Typed, TypeOK
<1>2. Tail(queue[k]) \in Seq(Packet) /\ Len(Tail(queue[k])) = Len(queue[k]) - 1
  BY <1>1, Received
<1>3. \A j \in Kinds : Len(queue[j]) \in Nat /\ Len(queue[j]) <= Depth
  BY <1>1 DEF Raced, Bounded
<1> QED BY <1>1, <1>2, <1>3 DEF Bounded

LEMMA RacedKept ==
  ASSUME Typed, Typed', Raced, UNCHANGED <<sendVars, rivals>>, Bounded',
         \A j \in Kinds : Len(queue'[j]) <= Len(queue[j])
  PROVE  Raced'
<1>1. \A s \in Senders : at[s] # "read" => hand[s].kind \in Kinds
  BY DEF Typed, TypeOK, SendersOK, Carrying, Packet
<1>2. /\ \A j \in Kinds : Len(queue[j]) \in Nat /\ Len(queue'[j]) \in Nat
      /\ Depth \in Nat
  BY QueueAssumption DEF Typed, TypeOK
<1>3. Contended'
  BY <1>1, <1>2 DEF Raced, Contended, sendVars
<1> QED BY <1>3 DEF Raced

\* The reader s goes on, the others stay where they are.
Others(s) ==
  \A r \in Senders \ {s} :
    /\ at'[r] = at[r] /\ attempt'[r] = attempt[r] /\ hand'[r] = hand[r]
    /\ rivals'[r] = rivals[r]

ContendedOf(s) ==
  /\ at[s] = "read" => attempt[s] = 1
  /\ at[s] \in {"check", "put"} =>
       \/ rivals[s] >= attempt[s] - 1
       \/ rivals[s] >= attempt[s] - 2 /\ Len(queue[hand[s].kind]) < Depth
  /\ at[s] = "head" => rivals[s] >= attempt[s] - 1
  /\ at[s] = "tail" => rivals[s] >= 2

LEMMA OthersKept ==
  ASSUME Typed, Typed', Raced, NEW s \in Senders, Others(s), ContendedOf(s)', Bounded',
         \A j \in Kinds : Len(queue'[j]) <= Len(queue[j])
  PROVE  Raced'
<1>1. ASSUME NEW r \in Senders \ {s} PROVE ContendedOf(r)'
  <2>1. at[r] # "read" => hand[r].kind \in Kinds
    BY DEF Typed, TypeOK, SendersOK, Carrying, Packet
  <2>2. /\ \A j \in Kinds : Len(queue[j]) \in Nat /\ Len(queue'[j]) \in Nat
        /\ Depth \in Nat
    BY QueueAssumption DEF Typed, TypeOK
  <2>3. ContendedOf(r)
    BY DEF Raced, Contended, ContendedOf
  <2> QED BY <2>1, <2>2, <2>3 DEF Others, ContendedOf
<1> QED BY <1>1 DEF Raced, Contended, ContendedOf

LEMMA RacedReadPacket ==
  ASSUME Typed, Typed', Raced, NEW s \in Senders, NEW k \in Kinds, ReadPacket(s, k)
  PROVE  Raced'
<1>1. Others(s) /\ queue' = queue /\ at'[s] = "check" /\ attempt' = attempt
  BY DEF ReadPacket, Others, Typed, TypeOK, SendersOK
<1>2. attempt[s] = 1 /\ rivals'[s] >= 0
  BY DEF Raced, Contended, ReadPacket, Typed, TypeOK, SendersOK
<1>3. ContendedOf(s)'
  BY <1>1, <1>2 DEF ContendedOf
<1>4. Bounded' /\ \A j \in Kinds : Len(queue'[j]) <= Len(queue[j])
  BY <1>1 DEF Raced, Bounded, Typed, TypeOK
<1> QED BY <1>1, <1>3, <1>4, OthersKept

\* A reader that returns has nothing to contend for.
LEMMA RacedReturn ==
  ASSUME Typed, Typed', Raced, NEW s \in Senders, Return(s), queue' = queue,
         rivals' = [rivals EXCEPT ![s] = 0]
  PROVE  Raced'
<1>1. Others(s) /\ at'[s] = "read" /\ attempt'[s] = 1
  BY DEF Return, Others, Typed, TypeOK, SendersOK
<1>2. Bounded' /\ \A j \in Kinds : Len(queue'[j]) <= Len(queue[j])
  BY DEF Raced, Bounded, Typed, TypeOK
<1>3. ContendedOf(s)'
  BY <1>1 DEF ContendedOf
<1> QED BY <1>1, <1>2, <1>3, OthersKept

LEMMA RacedCheckGone ==
  ASSUME Typed, Typed', Raced, NEW s \in Senders, CheckGone(s)
  PROVE  Raced'
<1>1. CASE Return(s) /\ rivals' = [rivals EXCEPT ![s] = 0]
  BY <1>1, RacedReturn DEF CheckGone
<1>2. CASE Goto(s, "put") /\ UNCHANGED rivals
  <2>1. /\ Others(s) /\ at[s] = "check" /\ at'[s] = "put" /\ queue' = queue
        /\ UNCHANGED <<attempt, hand, rivals>>
    BY <1>2 DEF CheckGone, Goto, Others, Typed, TypeOK, SendersOK
  <2>2. Bounded' /\ \A j \in Kinds : Len(queue'[j]) <= Len(queue[j])
    BY <2>1 DEF Raced, Bounded, Typed, TypeOK
  <2>3. ContendedOf(s)'
    BY <2>1 DEF Raced, Contended, ContendedOf
  <2> QED BY <2>1, <2>2, <2>3, OthersKept
<1> QED BY <1>1, <1>2 DEF CheckGone

\* After its drop from the head of the queue, an attempt has room in it.
LEMMA RacedDropHead ==
  ASSUME Typed, Typed', Raced, NEW s \in Senders, DropHead(s)
  PROVE  Raced'
<1>1. PICK k \in Kinds : k = hand[s].kind
  BY DEF DropHead, Typed, TypeOK, SendersOK, Carrying, Packet
<1>2. /\ Bounded' /\ Len(queue'[k]) < Depth
      /\ \A j \in Kinds : Len(queue'[j]) <= Len(queue[j])
  <2>1. CASE queue[k] # <<>> /\ queue' = [queue EXCEPT ![k] = Tail(@)]
    BY <2>1, Shorter
  <2>2. CASE queue[k] = <<>> /\ queue' = queue
    BY <2>2, QueueAssumption DEF Raced, Bounded, Typed, TypeOK
  <2> QED BY <1>1, <2>1, <2>2 DEF DropHead, Beheaded
<1>3. /\ Others(s) /\ hand'[s] = hand[s] /\ rivals'[s] = rivals[s]
      /\ \/ attempt'[s] = attempt[s] + 1 /\ at'[s] = "check"
         \/ attempt[s] >= Attempts /\ attempt'[s] = attempt[s] /\ at'[s] = "tail"
  <2>1. attempt \in [Senders -> 1 .. Attempts] /\ at \in [Senders -> {"read", "check", "put", "head", "tail"}]
    BY DEF Typed, TypeOK, SendersOK
  <2>2. attempt[s] \in 1 .. Attempts /\ Attempts = 3
    BY <2>1 DEF Attempts
  <2> QED BY <2>1, <2>2 DEF DropHead, Others
<1>4. rivals[s] >= attempt[s] - 1
  BY DEF DropHead, Raced, Contended
<1>5. rivals[s] \in Nat /\ attempt[s] \in Nat
  <2>1. rivals[s] \in 0 .. Attempts /\ attempt[s] \in 1 .. Attempts
    BY DEF Typed, TypeOK, SendersOK
  <2> QED BY <2>1 DEF Attempts
<1>6. ContendedOf(s)'
  BY <1>1, <1>2, <1>3, <1>4, <1>5 DEF ContendedOf, Attempts
<1> QED BY <1>2, <1>3, <1>6, OthersKept

\* A packet that is queued makes rivals of the readers with room no more.
LEMMA RacedPut ==
  ASSUME Typed, Typed', Raced, NEW s \in Senders, Put(s)
  PROVE  Raced'
<1>1. hand[s] \in Packet /\ at[s] = "put"
  BY DEF Typed, TypeOK, SendersOK, Carrying, Put
<1>2. PICK k \in Kinds : k = hand[s].kind
  BY <1>1 DEF Packet
<1>3. queue \in [Kinds -> Seq(Packet)] /\ Depth \in Nat /\ Len(queue[k]) \in Nat
  BY QueueAssumption DEF Typed, TypeOK
<1>4. ASSUME Len(queue[k]) < Depth, queue' = [queue EXCEPT ![k] = Append(@, hand[s])],
             rivals' = [r \in Senders |->
               CASE r = s -> 0 [] Competes(r, s) -> rivals[r] + 1 [] OTHER -> rivals[r]],
             Return(s)
      PROVE  Raced'
  <2>1. Len(queue'[k]) = Len(queue[k]) + 1 /\ \A j \in Kinds \ {k} : queue'[j] = queue[j]
    BY <1>1, <1>3, <1>4, Sent
  <2>2. Bounded'
    BY <1>3, <1>4, <2>1 DEF Raced, Bounded
  <2>3. ContendedOf(s)'
    BY <1>4 DEF ContendedOf, Return, Typed, TypeOK, SendersOK
  <2>4. ASSUME NEW r \in Senders \ {s} PROVE ContendedOf(r)'
    <3>1. at'[r] = at[r] /\ attempt'[r] = attempt[r] /\ hand'[r] = hand[r]
      BY <1>4 DEF Return, Typed, TypeOK, SendersOK
    <3>2. rivals[r] \in 0 .. Attempts /\ attempt[r] \in 1 .. Attempts
      BY DEF Typed, TypeOK, SendersOK
    <3>3. rivals'[r] = IF Competes(r, s) THEN rivals[r] + 1 ELSE rivals[r]
      BY <1>4
    <3>4. ContendedOf(r)
      BY DEF Raced, Contended, ContendedOf
    <3>5. CASE at[r] \notin {"check", "put"}
      BY <3>1, <3>2, <3>3, <3>4, <3>5 DEF ContendedOf, Attempts
    <3>6. CASE at[r] \in {"check", "put"} /\ hand[r].kind # k
      <4>1. hand[r].kind \in Kinds
        <5>1. hand[r] \in Packet
          <6>1. hand[r] # None
            BY <3>6 DEF Carrying, Typed
          <6> QED BY <6>1 DEF Typed, TypeOK, SendersOK
        <5> QED BY <5>1 DEF Packet
      <4> QED BY <2>1, <3>1, <3>2, <3>3, <3>4, <3>6, <4>1 DEF ContendedOf, Attempts
    <3>7. CASE at[r] \in {"check", "put"} /\ hand[r].kind = k
      <4>1. Competes(r, s) \/ rivals[r] = Attempts
        <5>1. hand[r] # None /\ r # s
          BY <3>7 DEF Carrying, Typed
        <5>2. rivals[r] < Attempts \/ rivals[r] = Attempts
          BY <3>2 DEF Attempts
        <5> QED BY <1>2, <3>7, <5>1, <5>2 DEF Competes
      <4>2. rivals'[r] >= attempt'[r] - 1
        BY <3>1, <3>2, <3>3, <3>4, <3>7, <4>1 DEF ContendedOf, Attempts
      <4> QED BY <3>1, <3>7, <4>2 DEF ContendedOf
    <3> QED BY <3>5, <3>6, <3>7
  <2> QED BY <2>2, <2>3, <2>4 DEF Raced, Contended, ContendedOf
<1>5. ASSUME Len(queue[k]) >= Depth, Goto(s, "head"), UNCHANGED <<queue, rivals>>
      PROVE  Raced'
  <2>1. /\ Others(s) /\ at'[s] = "head" /\ UNCHANGED <<attempt, hand, rivals, queue>>
    BY <1>5 DEF Goto, Others, Typed, TypeOK, SendersOK
  <2>2. Bounded' /\ \A j \in Kinds : Len(queue'[j]) <= Len(queue[j])
    BY <2>1 DEF Raced, Bounded, Typed, TypeOK
  <2>3. rivals[s] >= attempt[s] - 1
    BY <1>1, <1>2, <1>3, <1>5 DEF Raced, Contended
  <2>4. ContendedOf(s)'
    BY <2>1, <2>3 DEF ContendedOf
  <2> QED BY <2>1, <2>2, <2>4, OthersKept
<1> QED BY <1>2, <1>4, <1>5 DEF Put, Enqueue

LEMMA RacedInit == ASSUME Init PROVE Raced
BY QueueAssumption DEF Init, Raced, Bounded, Contended

LEMMA RacedNext == ASSUME Typed, Typed', Raced, [Next]_vars PROVE Raced'
<1>1. ASSUME NEW s \in Senders, ReadUnknown(s) PROVE Raced'
  BY <1>1 DEF ReadUnknown, Raced, Bounded, Contended
<1>2. ASSUME NEW s \in Senders, DropTail(s) PROVE Raced'
  BY <1>2, RacedReturn DEF DropTail
<1>3. ASSUME NEW k \in Kinds, NEW ok \in BOOLEAN, SendPacket(k, ok) PROVE Raced'
  BY <1>3, Shorter, RacedKept DEF SendPacket
<1>4. ASSUME NEW k \in Kinds, Drain(k) PROVE Raced'
  BY <1>4, Shorter, RacedKept DEF Drain
<1>5. CASE ConnStep
  <2>1. UNCHANGED <<sendVars, queue, rivals>>
    BY <1>5, ConnStepOK
  <2> QED BY <2>1 DEF sendVars, Raced, Bounded, Contended
<1>6. CASE UNCHANGED vars
  BY <1>6 DEF vars, sendVars, Raced, Bounded, Contended
<1> QED BY <1>1, <1>2, <1>3, <1>4, <1>5, <1>6, RacedReadPacket, RacedCheckGone, RacedPut,
           RacedDropHead
        DEF Next, sendPkt, sendLoop, onSendLoopDone, ConnStep

\* "a heavily contended queue with racing writers": a reader drops its own packet
\* only if others have queued two since it read it.
THEOREM TailDropCorrect == Spec => []TailDropNeedsRivals
<1>1. Init => Typed /\ Raced
  BY TypedInit, RacedInit
<1>2. Typed /\ Raced /\ [Next]_vars => (Typed /\ Raced)'
  BY TypedNext, RacedNext
<1>3. Raced => TailDropNeedsRivals
  BY DEF Raced, Contended, TailDropNeedsRivals
<1> QED BY <1>1, <1>2, <1>3, PTL DEF Spec
-----------------------------------------------------------------------------
(* The order of packets. *)

\* What is queued of a sender is newer than what was written, and older than
\* what it has in hand.
QueueOrdered(q, k) ==
  \A i \in 1 .. Len(q) :
    /\ q[i].num > last[q[i].src][k] /\ q[i].num <= received[q[i].src]
    /\ hand[q[i].src] # None => q[i].num < received[q[i].src]
    /\ \A j \in 1 .. Len(q) : i < j /\ q[i].src = q[j].src => q[i].num < q[j].num

Ordered ==
  /\ \A k \in Kinds : QueueOrdered(queue[k], k)
  /\ \A s \in Senders, k \in Kinds :
       /\ last[s][k] <= received[s]
       /\ hand[s] # None => last[s][k] < received[s]

LEMMA Queued ==
  ASSUME NEW q \in Seq(Packet), NEW i \in 1 .. Len(q)
  PROVE  q[i].src \in Senders /\ q[i].num \in Nat
<1>1. q[i] \in Packet
  OBVIOUS
<1> QED BY <1>1 DEF Packet

\* Taking the oldest packet away keeps the order of the rest.
LEMMA TailOrdered ==
  ASSUME NEW q \in Seq(Packet), q # <<>>, NEW k, QueueOrdered(q, k)
  PROVE  /\ QueueOrdered(Tail(q), k)
         /\ \A i \in 1 .. Len(Tail(q)) :
              Tail(q)[i].src = Head(q).src => Tail(q)[i].num > Head(q).num
<1>1. /\ Len(Tail(q)) = Len(q) - 1 /\ Len(q) \in Nat /\ Len(q) > 0 /\ Head(q) = q[1]
      /\ \A i \in 1 .. Len(Tail(q)) : Tail(q)[i] = q[i + 1]
  BY Received
<1>2. ASSUME NEW i \in 1 .. Len(Tail(q))
      PROVE  /\ i + 1 \in 1 .. Len(q) /\ Tail(q)[i] = q[i + 1]
             /\ 1 \in 1 .. Len(q) /\ 1 < i + 1
  BY <1>1
<1>3. ASSUME NEW i \in 1 .. Len(Tail(q)), NEW j \in 1 .. Len(Tail(q)), i < j,
             Tail(q)[i].src = Tail(q)[j].src
      PROVE  Tail(q)[i].num < Tail(q)[j].num
  <2>1. i + 1 < j + 1 /\ i + 1 \in 1 .. Len(q) /\ j + 1 \in 1 .. Len(q)
    BY <1>2, <1>3
  <2> QED BY <1>2, <1>3, <2>1 DEF QueueOrdered
<1>4. QueueOrdered(Tail(q), k)
  BY <1>2, <1>3 DEF QueueOrdered
<1>5. ASSUME NEW i \in 1 .. Len(Tail(q)), Tail(q)[i].src = Head(q).src
      PROVE  Tail(q)[i].num > Head(q).num
  <2>1. q[1].num < q[i + 1].num
    BY <1>1, <1>2, <1>5 DEF QueueOrdered
  <2>2. q[1].num \in Nat /\ q[i + 1].num \in Nat
    BY <1>2, Queued
  <2> QED BY <1>1, <1>2, <2>1, <2>2
<1> QED BY <1>4, <1>5

\* The reader s returns, or reads another packet.
LEMMA OrderedRead ==
  ASSUME Typed, Ordered, NEW s \in Senders, UNCHANGED <<queue, last>>,
         received' = [received EXCEPT ![s] = @ + 1],
         \A r \in Senders \ {s} : hand'[r] = hand[r]
  PROVE  Ordered'
<1>1. ASSUME NEW k \in Kinds PROVE QueueOrdered(queue[k], k)'
  <2>1. queue[k] \in Seq(Packet) /\ QueueOrdered(queue[k], k)
    BY DEF Typed, TypeOK, Ordered
  <2>2. \A i \in 1 .. Len(queue[k]) : queue[k][i].src \in Senders /\ queue[k][i].num \in Nat
    BY <2>1, Queued
  <2>3. \A r \in Senders : received[r] \in Nat
    BY DEF Typed, TypeOK, SendersOK
  <2>4. \A r \in Senders : received'[r] = IF r = s THEN received[r] + 1 ELSE received[r]
    BY DEF Typed, TypeOK, SendersOK
  <2>5. PICK q \in Seq(Packet) : q = queue[k] /\ q = queue'[k]
    BY <2>1
  <2>6. ASSUME NEW i \in 1 .. Len(q)
        PROVE  /\ q[i].num > last'[q[i].src][k] /\ q[i].num <= received'[q[i].src]
               /\ hand'[q[i].src] # None => q[i].num < received'[q[i].src]
    <3>1. PICK r \in Senders : r = q[i].src
      BY <2>2, <2>5
    <3>2. q[i].num \in Nat /\ q[i].num <= received[r] /\ q[i].num > last[r][k]
          /\ (hand[r] # None => q[i].num < received[r])
      BY <2>1, <2>2, <2>5, <3>1 DEF QueueOrdered
    <3> QED BY <2>3, <2>4, <3>1, <3>2
  <2> QED BY <2>1, <2>5, <2>6 DEF QueueOrdered
<1>2. ASSUME NEW r \in Senders, NEW k \in Kinds
      PROVE  last'[r][k] <= received'[r] /\ (hand'[r] # None => last'[r][k] < received'[r])
  <2>1. received[r] \in Nat /\ last[r][k] \in Nat
    BY DEF Typed, TypeOK, SendersOK
  <2>2. received'[r] = IF r = s THEN received[r] + 1 ELSE received[r]
    BY DEF Typed, TypeOK, SendersOK
  <2> QED BY <2>1, <2>2 DEF Ordered
<1> QED BY <1>1, <1>2 DEF Ordered

\* What a reader has in hand, if anything, it keeps or drops.
LEMMA OrderedKept ==
  ASSUME Typed, Ordered, UNCHANGED <<last, received>>,
         \A s \in Senders : hand'[s] \in {hand[s], None},
         \A k \in Kinds : \/ queue'[k] = queue[k]
                          \/ queue[k] # <<>> /\ queue'[k] = Tail(queue[k])
  PROVE  Ordered'
<1>1. ASSUME NEW k \in Kinds PROVE QueueOrdered(queue[k], k)'
  <2>1. queue[k] \in Seq(Packet) /\ QueueOrdered(queue[k], k)
    BY DEF Typed, TypeOK, Ordered
  <2>2. PICK q \in Seq(Packet) : q = queue'[k] /\ QueueOrdered(q, k)
    BY <2>1, TailOrdered, Received
  <2>3. \A i \in 1 .. Len(q) : q[i].src \in Senders
    BY Queued
  <2> QED BY <2>2, <2>3 DEF QueueOrdered
<1>2. ASSUME NEW s \in Senders, NEW k \in Kinds, hand'[s] # None
      PROVE  last[s][k] < received[s]
  BY <1>2 DEF Ordered
<1> QED BY <1>1, <1>2 DEF Ordered

\* A packet that is queued is newer than those of its sender before it.
LEMMA OrderedPut ==
  ASSUME Typed, Ordered, NEW s \in Senders, Put(s)
  PROVE  Ordered'
<1>1. CASE UNCHANGED <<queue, hand, received, last>>
  BY <1>1, OrderedKept
<1>2. ASSUME Return(s), queue' = [queue EXCEPT ![hand[s].kind] = Append(@, hand[s])]
      PROVE  Ordered'
  <2>1. hand[s] \in Packet /\ hand[s].src = s /\ hand[s].num = received[s]
        /\ hand[s].kind \in Kinds
    <3>1. hand[s] # None
      BY DEF Put, Typed, Carrying
    <3>2. hand[s] \in Packet
      BY <3>1 DEF Typed, TypeOK, SendersOK
    <3> QED BY <3>1, <3>2 DEF Typed, Carrying, Packet
  <2>2. PICK p \in Packet : p = hand[s]
    BY <2>1
  <2>3. /\ hand' = [hand EXCEPT ![s] = None] /\ last' = last /\ received' = received
        /\ queue \in [Kinds -> Seq(Packet)] /\ hand \in [Senders -> Packet \cup {None}]
        /\ received[s] \in Nat
    BY <1>2 DEF Put, Return, Typed, TypeOK, SendersOK
  <2>4. ASSUME NEW k \in Kinds PROVE QueueOrdered(queue[k], k)'
    <3>1. QueueOrdered(queue[k], k) /\ queue[k] \in Seq(Packet)
      BY <2>3 DEF Ordered
    <3>2. PICK q \in Seq(Packet) : q = queue[k]
      BY <3>1
    <3>3. PICK t \in Seq(Packet) : t = queue'[k] /\ t \in {q, Append(q, p)}
                                 /\ (t # q => t = Append(q, p) /\ k = p.kind)
      BY <1>2, <2>1, <2>2, <2>3, <3>2, Sent
    <3>4. \A i \in 1 .. Len(q) : q[i].src \in Senders /\ q[i].num \in Nat
      BY Queued
    <3>5. CASE t = q
      BY <2>3, <3>1, <3>2, <3>3, <3>4, <3>5 DEF QueueOrdered
    <3>6. CASE t = Append(q, p) /\ k = p.kind
      <4>1. /\ Len(t) = Len(q) + 1 /\ Len(q) \in Nat /\ t[Len(q) + 1] = p
            /\ \A i \in 1 .. Len(q) : t[i] = q[i]
        BY <3>6, Sent
      <4>2. p.num > last[s][k] /\ p.src = s /\ p.num = received[s] /\ hand'[s] = None
            /\ hand[s] # None
        BY <2>1, <2>2, <2>3, NoneAssumption DEF Ordered
      <4>3. ASSUME NEW i \in 1 .. Len(q)
            PROVE  /\ t[i].num > last'[t[i].src][k] /\ t[i].num <= received'[t[i].src]
                   /\ hand'[t[i].src] # None => t[i].num < received'[t[i].src]
                   /\ t[i].src = s => t[i].num < p.num
        BY <2>3, <3>1, <3>2, <3>4, <4>1, <4>2 DEF QueueOrdered
      <4>4. ASSUME NEW i \in 1 .. Len(t), NEW j \in 1 .. Len(t), i < j, t[i].src = t[j].src
            PROVE  t[i].num < t[j].num
        <5>1. i \in 1 .. Len(q)
          BY <4>1, <4>4
        <5>2. CASE j \in 1 .. Len(q)
          BY <3>1, <3>2, <4>1, <4>4, <5>1, <5>2 DEF QueueOrdered
        <5>3. CASE j = Len(q) + 1
          BY <4>1, <4>2, <4>3, <4>4, <5>1, <5>3
        <5> QED BY <4>1, <5>2, <5>3
      <4>5. ASSUME NEW i \in 1 .. Len(t)
            PROVE  /\ t[i].num > last'[t[i].src][k] /\ t[i].num <= received'[t[i].src]
                   /\ hand'[t[i].src] # None => t[i].num < received'[t[i].src]
        <5>1. CASE i \in 1 .. Len(q)
          BY <4>3, <5>1
        <5>2. CASE i = Len(q) + 1
          BY <2>3, <4>1, <4>2, <5>2
        <5> QED BY <4>1, <5>1, <5>2
      <4> QED BY <3>3, <4>4, <4>5 DEF QueueOrdered
    <3> QED BY <3>3, <3>5, <3>6
  <2>5. \A r \in Senders : hand'[r] \in {hand[r], None}
    BY <2>3
  <2> QED BY <2>3, <2>4, <2>5 DEF Ordered
<1> QED BY <1>1, <1>2 DEF Put, Goto, Enqueue

\* A packet that is written is newer than those of its sender before it.
LEMMA OrderedSend ==
  ASSUME Typed, Ordered, NEW k \in Kinds, NEW ok \in BOOLEAN, SendPacket(k, ok)
  PROVE  Ordered' /\ \A s \in Senders, j \in Kinds : last'[s][j] >= last[s][j]
<1>1. /\ queue[k] \in Seq(Packet) /\ queue[k] # <<>> /\ QueueOrdered(queue[k], k)
      /\ queue' = [queue EXCEPT ![k] = Tail(@)] /\ queue \in [Kinds -> Seq(Packet)]
      /\ UNCHANGED <<hand, received>>
  BY DEF SendPacket, sendVars, Typed, TypeOK, Ordered
<1>2. /\ last \in [Senders -> [Kinds -> Nat]] /\ received \in [Senders -> Nat]
  BY DEF Typed, TypeOK, SendersOK
<1>3. CASE last' = last
  <2>1. Ordered'
    BY <1>1, <1>3, OrderedKept
  <2> QED BY <1>2, <1>3, <2>1
<1>4. CASE last' = [last EXCEPT ![Head(queue[k]).src][k] = Head(queue[k]).num]
  <2>1. PICK h \in Packet : h = Head(queue[k]) /\ h = queue[k][1] /\ 1 \in 1 .. Len(queue[k])
    BY <1>1, Received
  <2>2. h.src \in Senders /\ h.num \in Nat
    BY DEF Packet
  <2>3. PICK s \in Senders : s = h.src
    BY <2>2
  <2>4. h.num > last[s][k] /\ h.num <= received[s] /\ (hand[s] # None => h.num < received[s])
    BY <1>1, <2>1, <2>3 DEF QueueOrdered
  <2>5. \A r \in Senders, j \in Kinds :
          last'[r][j] = IF r = s /\ j = k THEN h.num ELSE last[r][j]
    BY <1>2, <1>4, <2>1, <2>2, <2>3
  <2>6. \A r \in Senders, j \in Kinds : last'[r][j] >= last[r][j]
    BY <1>2, <2>2, <2>4, <2>5
  <2>7. ASSUME NEW j \in Kinds PROVE QueueOrdered(queue[j], j)'
    <3>1. CASE j # k
      <4>1. PICK q \in Seq(Packet) : q = queue[j] /\ q = queue'[j] /\ QueueOrdered(q, j)
        BY <1>1, <3>1 DEF Ordered
      <4>2. \A i \in 1 .. Len(q) : q[i].src \in Senders
        BY Queued
      <4>3. ASSUME NEW i \in 1 .. Len(q)
            PROVE  /\ q[i].num > last'[q[i].src][j] /\ q[i].num <= received'[q[i].src]
                   /\ hand'[q[i].src] # None => q[i].num < received'[q[i].src]
        <5>1. last'[q[i].src][j] = last[q[i].src][j]
          BY <2>5, <3>1, <4>2
        <5>2. hand' = hand /\ received' = received
          BY <1>1
        <5> QED BY <4>1, <5>1, <5>2 DEF QueueOrdered
      <4>4. \A i, i2 \in 1 .. Len(q) :
              i < i2 /\ q[i].src = q[i2].src => q[i].num < q[i2].num
        BY <4>1 DEF QueueOrdered
      <4> QED BY <4>1, <4>3, <4>4 DEF QueueOrdered
    <3>2. CASE j = k
      <4>1. PICK q \in Seq(Packet) :
              /\ q = queue'[k] /\ QueueOrdered(q, k)
              /\ \A i \in 1 .. Len(q) : q[i].src = h.src => q[i].num > h.num
        BY <1>1, <2>1, TailOrdered, Received
      <4>2. \A i \in 1 .. Len(q) : q[i].src \in Senders
        BY Queued
      <4>3. ASSUME NEW i \in 1 .. Len(q)
            PROVE  /\ q[i].num > last'[q[i].src][k] /\ q[i].num <= received'[q[i].src]
                   /\ hand'[q[i].src] # None => q[i].num < received'[q[i].src]
        <5>1. PICK r \in Senders : r = q[i].src
          BY <4>2
        <5>2. last'[r][k] = IF r = s THEN h.num ELSE last[r][k]
          BY <2>5
        <5>3. /\ q[i].num > last[r][k] /\ q[i].num <= received[r]
              /\ hand[r] # None => q[i].num < received[r]
          BY <4>1, <5>1 DEF QueueOrdered
        <5> QED BY <1>1, <2>3, <4>1, <5>1, <5>2, <5>3
      <4> QED BY <3>2, <4>1, <4>3 DEF QueueOrdered
    <3> QED BY <3>1, <3>2
  <2>8. ASSUME NEW r \in Senders, NEW j \in Kinds
        PROVE  last'[r][j] <= received'[r] /\ (hand'[r] # None => last'[r][j] < received'[r])
    BY <1>1, <2>4, <2>5 DEF Ordered
  <2> QED BY <2>6, <2>7, <2>8 DEF Ordered
<1> QED BY <1>3, <1>4 DEF SendPacket

LEMMA OrderedInit == ASSUME Init PROVE Ordered
BY DEF Init, Ordered, QueueOrdered

LEMMA OrderedNext ==
  ASSUME Typed, Ordered, [Next]_vars
  PROVE  Ordered' /\ \A s \in Senders, k \in Kinds : last'[s][k] >= last[s][k]
<1>0. last' = last => \A s \in Senders, k \in Kinds : last'[s][k] >= last[s][k]
  BY DEF Typed, TypeOK, SendersOK
<1>1. ASSUME NEW s \in Senders, NEW k \in Kinds, ReadPacket(s, k)
      PROVE  Ordered' /\ last' = last
  <2>1. \A r \in Senders \ {s} : hand'[r] = hand[r]
    BY <1>1 DEF ReadPacket, Typed, TypeOK, SendersOK
  <2> QED BY <1>1, <2>1, OrderedRead DEF ReadPacket
<1>2. ASSUME NEW s \in Senders, ReadUnknown(s)
      PROVE  Ordered' /\ last' = last
  BY <1>2, OrderedRead DEF ReadUnknown
<1>3. ASSUME NEW s \in Senders, CheckGone(s) \/ DropTail(s)
      PROVE  Ordered' /\ last' = last
  <2>1. /\ \A r \in Senders : hand'[r] \in {hand[r], None}
        /\ UNCHANGED <<queue, last, received>>
    BY <1>3 DEF CheckGone, DropTail, Return, Goto, Typed, TypeOK, SendersOK
  <2> QED BY <2>1, OrderedKept
<1>4. ASSUME NEW s \in Senders, Put(s)
      PROVE  Ordered' /\ last' = last
  BY <1>4, OrderedPut DEF Put
<1>5. ASSUME NEW s \in Senders, DropHead(s)
      PROVE  Ordered' /\ last' = last
  <2>1. /\ UNCHANGED <<hand, last, received>>
        /\ \A j \in Kinds : \/ queue'[j] = queue[j]
                            \/ queue[j] # <<>> /\ queue'[j] = Tail(queue[j])
    BY <1>5 DEF DropHead, Beheaded, Typed, TypeOK
  <2> QED BY <2>1, OrderedKept
<1>6. ASSUME NEW k \in Kinds, Drain(k)
      PROVE  Ordered' /\ last' = last
  <2>1. /\ UNCHANGED <<hand, last, received>>
        /\ \A j \in Kinds : \/ queue'[j] = queue[j]
                            \/ queue[j] # <<>> /\ queue'[j] = Tail(queue[j])
    BY <1>6 DEF Drain, sendVars, Typed, TypeOK
  <2> QED BY <2>1, OrderedKept
<1>7. CASE ConnStep
  <2>1. UNCHANGED <<hand, received, queue, last>>
    BY <1>7, ConnStepOK DEF sendVars
  <2> QED BY <1>0, <2>1, OrderedKept
<1>8. CASE UNCHANGED vars
  <2>1. UNCHANGED <<hand, received, queue, last>>
    BY <1>8 DEF vars, sendVars
  <2> QED BY <1>0, <2>1, OrderedKept
<1> QED BY <1>0, <1>1, <1>2, <1>3, <1>4, <1>5, <1>6, <1>7, <1>8, OrderedSend
        DEF Next, sendPkt, sendLoop, onSendLoopDone, ConnStep

\* Dropping from the head, racing for a full queue and the drain never reorder
\* the packets of one client to another.
THEOREM SentInOrderCorrect == Spec => SentInOrder
<1>1. Init => Typed /\ Ordered
  BY TypedInit, OrderedInit
<1>2. Typed /\ Ordered /\ [Next]_vars => (Typed /\ Ordered)'
  BY TypedNext, OrderedNext
<1>3. Typed /\ Ordered /\ [Next]_vars =>
        [\A s \in Senders, k \in Kinds : last'[s][k] >= last[s][k]]_vars
  BY OrderedNext
<1> QED BY <1>1, <1>2, <1>3, PTL DEF Spec, SentInOrder
-----------------------------------------------------------------------------
(* The counters. *)

InQueue(k) == Len(queue[k])
InQueues == InQueue("disco") + InQueue("other")

LEMMA Counted == ASSUME Typed PROVE InQueues \in Nat /\ Cardinality(InHand) \in Nat
<1>1. "disco" \in Kinds /\ "other" \in Kinds
  BY DEF Kinds
<1>2. InQueues \in Nat
  BY <1>1 DEF InQueues, InQueue, Typed, TypeOK
<1>3. IsFiniteSet(InHand)
  BY QueueAssumption, FS_Subset DEF InHand
<1> QED BY <1>2, <1>3, FS_CardinalityType

\* A packet comes into the hands of a reader, or leaves them.
LEMMA HandFilled ==
  ASSUME Typed, NEW s \in Senders, hand[s] = None, NEW p, p # None,
         hand' = [hand EXCEPT ![s] = p]
  PROVE  Cardinality(InHand)' = Cardinality(InHand) + 1
<1>1. InHand' = InHand \cup {s} /\ s \notin InHand
  BY DEF InHand, Typed, TypeOK, SendersOK
<1>2. IsFiniteSet(InHand)
  BY QueueAssumption, FS_Subset DEF InHand
<1> QED BY <1>1, <1>2, FS_AddElement

LEMMA HandEmptied ==
  ASSUME Typed, NEW s \in Senders, hand[s] # None, Return(s)
  PROVE  Cardinality(InHand)' = Cardinality(InHand) - 1
<1>1. InHand' = InHand \ {s} /\ s \in InHand
  BY DEF Return, InHand, Typed, TypeOK, SendersOK
<1>2. IsFiniteSet(InHand)
  BY QueueAssumption, FS_Subset DEF InHand
<1> QED BY <1>1, <1>2, FS_RemoveElement

\* A packet comes into a queue, or leaves it.
LEMMA QueueLengths ==
  ASSUME Typed, Typed', NEW k \in Kinds, NEW d \in {1, -1}, Len(queue'[k]) = Len(queue[k]) + d,
         \A j \in Kinds \ {k} : Len(queue'[j]) = Len(queue[j])
  PROVE  InQueues' = InQueues + d
<1>1. \A j \in Kinds : InQueue(j) \in Nat
  BY DEF Typed, TypeOK, InQueue
<1>2. InQueue(k)' = InQueue(k) + d /\ \A j \in Kinds \ {k} : InQueue(j)' = InQueue(j)
  BY DEF InQueue
<1>3. CASE k = "disco"
  <2>1. InQueue("disco")' = InQueue("disco") + d /\ InQueue("other")' = InQueue("other")
    BY <1>2, <1>3 DEF Kinds
  <2> QED BY <1>1, <2>1 DEF InQueues, Kinds
<1>4. CASE k = "other"
  <2>1. InQueue("other")' = InQueue("other") + d /\ InQueue("disco")' = InQueue("disco")
    BY <1>2, <1>4 DEF Kinds
  <2> QED BY <1>1, <2>1 DEF InQueues, Kinds
<1> QED BY <1>3, <1>4 DEF Kinds

LEMMA QueueFilled ==
  ASSUME Typed, Typed', NEW k \in Kinds, NEW p \in Packet,
         queue' = [queue EXCEPT ![k] = Append(@, p)]
  PROVE  InQueues' = InQueues + 1
<1>1. queue \in [Kinds -> Seq(Packet)]
  BY DEF Typed, TypeOK
<1>2. Len(queue'[k]) = Len(queue[k]) + 1 /\ \A j \in Kinds \ {k} : Len(queue'[j]) = Len(queue[j])
  BY <1>1, Sent
<1> QED BY <1>2, QueueLengths

LEMMA QueueEmptied ==
  ASSUME Typed, Typed', NEW k \in Kinds, queue[k] # <<>>, queue' = [queue EXCEPT ![k] = Tail(@)]
  PROVE  InQueues' = InQueues - 1 /\ Len(queue[k]) - Len(queue'[k]) = 1
<1>1. queue \in [Kinds -> Seq(Packet)]
  BY DEF Typed, TypeOK
<1>2. Len(queue'[k]) = Len(queue[k]) - 1 /\ \A j \in Kinds \ {k} : Len(queue'[j]) = Len(queue[j])
  BY <1>1, Received
<1>3. Len(queue[k]) \in Nat
  BY <1>1
<1>4. Len(queue'[k]) = Len(queue[k]) + (-1) /\ Len(queue[k]) - Len(queue'[k]) = 1
  BY <1>2, <1>3
<1>5. InQueues' = InQueues + (-1)
  BY <1>2, <1>4, QueueLengths
<1> QED BY <1>4, <1>5, Counted

Balanced == recv = sent + dropped + Cardinality(InHand) + InQueues

LEMMA BalancedInit == ASSUME Init PROVE Balanced
<1>1. InHand = {} /\ InQueues = 0
  BY DEF Init, InHand, InQueues, InQueue, Kinds
<1> QED BY <1>1, FS_EmptySet DEF Init, Balanced

LEMMA BalancedNext == ASSUME Typed, Typed', Balanced, [Next]_vars PROVE Balanced'
<1>0. /\ InQueues \in Nat /\ Cardinality(InHand) \in Nat
      /\ recv \in Nat /\ sent \in Nat /\ dropped \in Nat
  BY Counted DEF Typed, TypeOK
<1>1. ASSUME NEW s \in Senders, NEW k \in Kinds, ReadPacket(s, k) PROVE Balanced'
  <2>1. [src |-> s, num |-> received[s] + 1, kind |-> k] \in Packet
    BY DEF Packet, Typed, TypeOK, SendersOK
  <2>2. Cardinality(InHand)' = Cardinality(InHand) + 1
    BY <1>1, <2>1, NoneAssumption, HandFilled DEF ReadPacket, Typed, Carrying
  <2>3. InQueues' = InQueues /\ recv' = recv + 1 /\ UNCHANGED <<sent, dropped>>
    BY <1>1 DEF ReadPacket, InQueues, InQueue
  <2> QED BY <1>0, <2>2, <2>3 DEF Balanced
<1>2. ASSUME NEW s \in Senders, ReadUnknown(s) PROVE Balanced'
  <2>1. InQueues' = InQueues /\ InHand' = InHand
    BY <1>2 DEF ReadUnknown, InQueues, InQueue, InHand
  <2> QED BY <1>0, <1>2, <2>1 DEF ReadUnknown, Balanced
<1>3. ASSUME NEW s \in Senders, at[s] # "read", Return(s), dropped' = dropped + 1,
             UNCHANGED <<recv, sent, queue>>
      PROVE  Balanced'
  <2>1. Cardinality(InHand)' = Cardinality(InHand) - 1
    BY <1>3, HandEmptied DEF Typed, Carrying
  <2>2. InQueues' = InQueues
    BY <1>3 DEF InQueues, InQueue
  <2> QED BY <1>0, <1>3, <2>1, <2>2 DEF Balanced
<1>4. ASSUME UNCHANGED <<recv, sent, dropped, queue, hand>> PROVE Balanced'
  BY <1>4 DEF Balanced, InQueues, InQueue, InHand
<1>5. ASSUME NEW s \in Senders, CheckGone(s) PROVE Balanced'
  BY <1>3, <1>4, <1>5 DEF CheckGone, Goto
<1>6. ASSUME NEW s \in Senders, DropTail(s) PROVE Balanced'
  BY <1>3, <1>6 DEF DropTail
<1>7. ASSUME NEW s \in Senders, Put(s) PROVE Balanced'
  <2>1. PICK p \in Packet : p = hand[s]
    BY <1>7 DEF Put, Typed, TypeOK, SendersOK, Carrying
  <2>2. CASE Return(s) /\ queue' = [queue EXCEPT ![p.kind] = Append(@, p)]
    <3>1. Cardinality(InHand)' = Cardinality(InHand) - 1
      BY <2>1, <2>2, NoneAssumption, HandEmptied
    <3>2. InQueues' = InQueues + 1
      BY <2>2, QueueFilled DEF Packet
    <3> QED BY <1>0, <1>7, <3>1, <3>2 DEF Put, Balanced
  <2>3. CASE Goto(s, "head") /\ queue' = queue
    BY <1>4, <1>7, <2>3 DEF Put, Goto
  <2> QED BY <1>7, <2>1, <2>2, <2>3 DEF Put, Enqueue
<1>8. ASSUME NEW s \in Senders, DropHead(s) PROVE Balanced'
  <2>1. PICK k \in Kinds : k = hand[s].kind
    BY <1>8 DEF DropHead, Typed, TypeOK, SendersOK, Carrying, Packet
  <2>2. UNCHANGED <<recv, hand, sent>>
    BY <1>8 DEF DropHead
  <2>3. CASE /\ queue[k] # <<>> /\ queue' = [queue EXCEPT ![k] = Tail(@)]
             /\ dropped' = dropped + Len(queue[k]) - Len(queue'[k])
    <3>1. InQueues' = InQueues - 1 /\ Len(queue[k]) - Len(queue'[k]) = 1
      BY <2>3, QueueEmptied
    <3>2. Len(queue[k]) \in Nat /\ Len(queue'[k]) \in Nat
      BY <2>3, Received DEF Typed, TypeOK
    <3>3. dropped' = dropped + 1
      BY <1>0, <2>3, <3>1, <3>2
    <3>4. InHand' = InHand
      BY <2>2 DEF InHand
    <3> QED BY <1>0, <2>2, <3>1, <3>3, <3>4 DEF Balanced
  <2>4. CASE UNCHANGED <<queue, dropped>>
    BY <1>4, <2>2, <2>4
  <2> QED BY <1>8, <2>1, <2>3, <2>4 DEF DropHead, Beheaded
<1>9. ASSUME NEW k \in Kinds, queue[k] # <<>>, queue' = [queue EXCEPT ![k] = Tail(@)],
             UNCHANGED <<recv, hand>>, sent' + dropped' = sent + dropped + 1,
             sent' \in Nat, dropped' \in Nat
      PROVE  Balanced'
  <2>1. InQueues' = InQueues - 1
    BY <1>9, QueueEmptied
  <2>2. InHand' = InHand
    BY <1>9 DEF InHand
  <2>3. recv = (sent + dropped + 1) + Cardinality(InHand) + (InQueues - 1)
    BY <1>0 DEF Balanced
  <2>4. recv' = (sent' + dropped') + Cardinality(InHand)' + InQueues'
    BY <1>9, <2>1, <2>2, <2>3
  <2> QED BY <2>4 DEF Balanced
<1>10. ASSUME NEW k \in Kinds, NEW ok \in BOOLEAN, SendPacket(k, ok) PROVE Balanced'
  <2>1. /\ sent' + dropped' = sent + dropped + 1 /\ sent' \in Nat /\ dropped' \in Nat
    <3>1. \/ sent' = sent + 1 /\ dropped' = dropped + 0
          \/ sent' = sent /\ dropped' = dropped + 1
      BY <1>10 DEF SendPacket, WriteError
    <3> QED BY <1>0, <3>1
  <2>2. /\ queue[k] # <<>> /\ queue' = [queue EXCEPT ![k] = Tail(@)]
        /\ UNCHANGED <<recv, hand>>
    BY <1>10 DEF SendPacket, sendVars
  <2> QED BY <1>9, <2>1, <2>2
<1>11. ASSUME NEW k \in Kinds, Drain(k) PROVE Balanced'
  <2>1. /\ sent' + dropped' = sent + dropped + 1 /\ sent' \in Nat /\ dropped' \in Nat
    BY <1>0, <1>11 DEF Drain
  <2>2. /\ queue[k] # <<>> /\ queue' = [queue EXCEPT ![k] = Tail(@)]
        /\ UNCHANGED <<recv, hand>>
    BY <1>11 DEF Drain, sendVars
  <2> QED BY <1>9, <2>1, <2>2
<1>12. CASE ConnStep
  BY <1>4, <1>12, ConnStepOK DEF sendVars
<1>13. CASE UNCHANGED vars
  BY <1>4, <1>13 DEF vars, sendVars
<1> QED BY <1>1, <1>2, <1>5, <1>6, <1>7, <1>8, <1>10, <1>11, <1>12, <1>13
        DEF Next, sendPkt, sendLoop, onSendLoopDone, ConnStep

\* Every packet read is sent, dropped and counted once, in a queue, or in hand.
THEOREM AccountingCorrect == Spec => []PacketsAccounted
<1>1. Init => Typed /\ Balanced
  BY TypedInit, BalancedInit
<1>2. Typed /\ Balanced /\ [Next]_vars => (Typed /\ Balanced)'
  BY TypedNext, BalancedNext
<1>3. Typed /\ Balanced => PacketsAccounted
  <2> SUFFICES ASSUME Typed, Balanced PROVE PacketsAccounted
    OBVIOUS
  <2>1. InQueue("disco") \in Nat /\ InQueue("other") \in Nat
    BY DEF Typed, TypeOK, Kinds, InQueue
  <2>2. Cardinality(InHand) \in Nat /\ sent \in Nat /\ dropped \in Nat
    BY Counted DEF Typed, TypeOK
  <2>3. recv = sent + dropped + Cardinality(InHand) + InQueue("disco") + InQueue("other")
    BY <2>1, <2>2 DEF Balanced, InQueues
  <2> QED BY <2>3 DEF PacketsAccounted, InQueue
<1> QED BY <1>1, <1>2, <1>3, PTL DEF Spec
=============================================================================
