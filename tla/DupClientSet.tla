--------------------------- MODULE DupClientSet ---------------------------
(***************************************************************************)
(* dupClientSet of internal/derpserver/derpserver.go as the code keeps it: *)
(* sendHistory is a log, appended to by registerClient and                 *)
(* noteClientActivity and trimmed by removeClient, which writes the        *)
(* entries it keeps over those it has read, in the same array.  It         *)
(* implements DupHistory, which keeps only the order of the last entries:  *)
(* the model of the registry uses that one.                                *)
(*                                                                         *)
(* All of it runs under Server.mu: until removeClient is through with the  *)
(* log nothing else happens to the set.                                    *)
(***************************************************************************)
EXTENDS Naturals, Sequences, FiniteSets

CONSTANTS Conns,
          LastWriter, \* dupPolicy is lastWriterIsActive
          MaxLog,     \* bound on the log, which the code does not limit
          None

ASSUME LogAssumption ==
  MaxLog \in Nat /\ LastWriter \in BOOLEAN /\ None \notin Conns

VARIABLES set, last, sendHistory,
          trimming,   \* removeClient is in its loop ...
          read,       \* ... the entries it has looked at
          kept        \* ... and len(trim): they are the first of the array
trimVars == <<trimming, read, kept>>
vars == <<set, last, sendHistory, trimVars>>

\* The key has one connection: clientSet.dup is nil.
Alone == \E c \in Conns : set = {c}

NotTrimming == trimming = FALSE /\ read = 0 /\ kept = 0
Init == Alone /\ last = None /\ sendHistory = <<>> /\ NotTrimming

LastEqual(log, c) == log # <<>> /\ log[Len(log)] = c

Record(c) == Len(sendHistory) < MaxLog /\ sendHistory' = Append(sendHistory, c)

\* registerClient: the second connection makes a dupClientSet, in which the
\* first one counts as having spoken; one more is added to it.
Register(c) ==
  /\ ~trimming /\ c \notin set
  /\ set' = set \cup {c}
  /\ last' = c
  /\ IF Alone THEN \E was \in set : sendHistory' = <<was>> ELSE Record(c)
  /\ UNCHANGED trimVars

\* noteClientActivity: the speaker may become last, and is logged once in a row.
NoteActivity(c) ==
  /\ ~trimming /\ c \in set /\ ~Alone
  /\ last' = IF LastWriter \/ last = None THEN c ELSE last
  /\ IF LastEqual(sendHistory, c) THEN UNCHANGED sendHistory ELSE Record(c)
  /\ UNCHANGED <<set, trimVars>>

\* removeClient, up to its loop: trim is sendHistory[:0].
removeClient(c) ==
  /\ ~trimming /\ c \in set /\ ~Alone
  /\ set' = set \ {c}
  /\ last' = IF last = c THEN None ELSE last
  /\ trimming' = TRUE /\ read' = 0 /\ kept' = 0
  /\ UNCHANGED sendHistory

\* The entry is of a member, and not the one that was kept last.
KeepsAll(v) == TRUE                                    \* faulty: all kept
Keeps(v) == v \in set /\ (kept = 0 \/ sendHistory[kept] # v)

\* One round of the loop.
TrimEntry ==
  /\ trimming /\ read < Len(sendHistory)
  /\ LET v == sendHistory[read + 1]
     IN IF Keeps(v)
        THEN /\ sendHistory' = [sendHistory EXCEPT ![kept + 1] = v]
             /\ kept' = kept + 1
        ELSE UNCHANGED <<sendHistory, kept>>
  /\ read' = read + 1
  /\ UNCHANGED <<set, last, trimming>>

\* The last entry that is left.
Oldest(log) == IF log = <<>> THEN None ELSE log[1]     \* faulty: wrong end
Latest(log) == IF log = <<>> THEN None ELSE log[Len(log)]

\* The rest of removeClient: the log is what was kept, and if nobody is last its
\* last entry is.  When one connection is left unregisterClient drops the set.
TrimDone ==
  /\ trimming /\ read = Len(sendHistory)
  /\ LET trim == SubSeq(sendHistory, 1, kept)
     IN IF Alone THEN sendHistory' = <<>> /\ last' = None
        ELSE /\ sendHistory' = trim
             /\ last' = IF last = None THEN Latest(trim) ELSE last
  /\ trimming' = FALSE /\ read' = 0 /\ kept' = 0
  /\ UNCHANGED set

Next ==
  \/ \E c \in Conns : Register(c) \/ NoteActivity(c) \/ removeClient(c)
  \/ TrimEntry
  \/ TrimDone
Spec == Init /\ [][Next]_vars
-----------------------------------------------------------------------------
\* The entries that count: of the members, and while the loop runs those that it
\* has kept and those that it has yet to read.
Live ==
  {j \in DOMAIN sendHistory :
     /\ ~trimming \/ j <= kept \/ read < j
     /\ sendHistory[j] \in set}

\* Among the entries P of the log, b has one behind all those of a.
Before(log, P, a, b) ==
  \E j \in P : log[j] = b /\ \A i \in P : log[i] = a => i < j

Speakers(log, P) == {log[j] : j \in P}

\* The speakers of these entries in the order of their last ones.
Ordered(order, log, P) ==
  /\ {order[i] : i \in DOMAIN order} = Speakers(log, P)
  /\ \A i, j \in DOMAIN order : i < j => Before(log, P, order[i], order[j])
LastEntries(log, P) ==
  CHOOSE order \in [1 .. Cardinality(Speakers(log, P)) -> Speakers(log, P)] :
    Ordered(order, log, P)

Order == IF Alone THEN <<>> ELSE LastEntries(sendHistory, Live)

\* While the loop looks for it, last is the one it is going to find.
Successor ==
  IF Alone THEN None
  ELSE IF last # None THEN last
  ELSE IF Order = <<>> THEN None ELSE Order[Len(Order)]

Abstract == INSTANCE DupHistory WITH spoke <- Order, last <- Successor

\* Whatever the log looks like, the set behaves as if it kept only the order
\* of the last entries: removing a connection from the middle of the log, and
\* merging the rows that meet there, picks the same successor, and the loop
\* never writes over an entry it has yet to read.
ImplementsOrder == Abstract!Spec

\* While there are duplicates one of them is last, and at most one of them has
\* not been heard: the set can always name a successor.
SuccessorKnown ==
  ~Alone /\ ~trimming =>
  /\ last \in set
  /\ \A c, d \in set : c # d => \E i \in DOMAIN sendHistory :
                                  sendHistory[i] \in {c, d}
=============================================================================
