---------------------------- MODULE DupHistory ----------------------------
(***************************************************************************)
(* What a dupClientSet promises the registry: the duplicate connections of *)
(* a key, the one that is last, and the order in which they last spoke.    *)
(***************************************************************************)
EXTENDS Recency

CONSTANTS Conns, LastWriter, None
VARIABLES set, last, spoke
vars == <<set, last, spoke>>

Alone == \E c \in Conns : set = {c}

\* The key has one connection, and no history is kept.
Init == Alone /\ last = None /\ spoke = <<>>

\* The only connection counts as having spoken, a new one as being last.
Join(c) ==
  /\ c \notin set
  /\ set' = set \cup {c} /\ last' = c
  /\ IF Alone THEN \E was \in set : spoke' = <<was>>
     ELSE spoke' = Spoken(spoke, c)

Speak(c) ==
  /\ c \in set /\ ~Alone
  /\ last' = IF LastWriter \/ last = None THEN c ELSE last
  /\ spoke' = Spoken(spoke, c)
  /\ UNCHANGED set

\* A connection leaves: if it was last, the latest speaker takes its place; if
\* one is left, the history is forgotten.
Leave(c) ==
  /\ c \in set /\ ~Alone
  /\ set' = set \ {c}
  /\ IF Alone' THEN spoke' = <<>> /\ last' = None
     ELSE /\ spoke' = Without(spoke, c)
          /\ last' = IF last = c THEN LastOf(Without(spoke, c), None) ELSE last

Next == \E c \in Conns : Join(c) \/ Speak(c) \/ Leave(c)
Spec == Init /\ [][Next]_vars
=============================================================================
