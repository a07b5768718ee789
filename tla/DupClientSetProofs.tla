------------------------ MODULE DupClientSetProofs ------------------------
(***************************************************************************)
(* SuccessorKnown, and that the log implements the order of the last       *)
(* entries (DupHistory), for any number of connections and any length of   *)
(* the log.                                                                *)
(*                                                                         *)
(* LastEntries chooses the order, so the argument rests on there being     *)
(* only one (OrderUnique: two orders of the same entries cannot first      *)
(* differ anywhere).  Each step then has to exhibit the order it leads to: *)
(* the order without the connection that left, the order with the speaker  *)
(* moved to its end, and, for a round of the loop, the very same order     *)
(* (TrimOrder: what is kept moves to the front without passing an entry    *)
(* that still counts).                                                     *)
(***************************************************************************)
EXTENDS DupClientSet, FiniteSetTheorems, WellFoundedInduction, TLAPS

\* Types, and where the loop is.
DataOK ==
  /\ set \in SUBSET Conns /\ set # {}
  /\ last \in Conns \cup {None}
  /\ sendHistory \in Seq(Conns)
  /\ read \in Nat /\ kept \in Nat /\ kept <= read /\ read <= Len(sendHistory)
LoopOK == trimming \in BOOLEAN /\ (~trimming => NotTrimming)
LogTypeOK == DataOK /\ LoopOK

\* What is not in the middle of being trimmed is of the members.
Trimmed ==
  \A j \in DOMAIN sendHistory : ~trimming \/ j <= kept => sendHistory[j] \in set

\* A key with one connection has no history.
Forgotten == Alone /\ ~trimming => sendHistory = <<>> /\ last = None

\* Duplicates have a last one, or the loop is to find it.
Led == ~Alone => last \in set \/ (trimming /\ last = None)

\* All duplicates but one have an entry that counts.
Heard ==
  ~Alone => \A c, d \in set : c # d => \E j \in Live : sendHistory[j] \in {c, d}

IsOrder(s, log, P) == s \in Seq(Speakers(log, P)) /\ Ordered(s, log, P)

\* The entries that count have an order.
Sorted == ~Alone => IsOrder(LastEntries(sendHistory, Live), sendHistory, Live)

LogInv == LogTypeOK /\ Trimmed /\ Forgotten /\ Led /\ Heard /\ Sorted
-----------------------------------------------------------------------------
(* Orders of the entries of a log. *)

LEMMA NatMin ==
  ASSUME NEW T, T \subseteq Nat, T # {}
  PROVE  \E x \in T : \A y \in T : x <= y
<1> DEFINE R == {p \in Nat \X Nat : p[1] < p[2]}
<1>1. IsWellFoundedOn(R, Nat)
  BY NatLessThanWellFounded, Zenon DEF OpToRel
<1>2. PICK x \in T : \A y \in T : <<y, x>> \notin R
  BY <1>1, WFMin, Zenon
<1>3. ASSUME NEW y \in T PROVE x <= y
  <2>1. x \in Nat /\ y \in Nat /\ <<y, x>> \in Nat \X Nat
    BY <1>3
  <2>2. ~(y < x)
    BY <1>2, <1>3, <2>1
  <2> QED BY <2>1, <2>2
<1> QED BY <1>3

\* No two speakers are each behind the other, and none is behind itself.
LEMMA BeforeAsymmetric ==
  ASSUME NEW log, NEW P \in SUBSET Nat, NEW a, NEW b,
         Before(log, P, a, b), Before(log, P, b, a)
  PROVE  FALSE
<1>1. PICK j \in P : log[j] = b /\ \A i \in P : log[i] = a => i < j
  BY DEF Before
<1>2. PICK k \in P : log[k] = a /\ \A i \in P : log[i] = b => i < k
  BY DEF Before
<1>3. k < j /\ j < k
  BY <1>1, <1>2
<1> QED BY <1>3

\* An order names nobody twice.
LEMMA OrderInjective ==
  ASSUME NEW log, NEW P \in SUBSET Nat, NEW s, IsOrder(s, log, P),
         NEW i \in DOMAIN s, NEW j \in DOMAIN s, s[i] = s[j]
  PROVE  i = j
<1>1. i \in Nat /\ j \in Nat
  BY DEF IsOrder
<1>2. CASE i < j
  BY <1>2, BeforeAsymmetric DEF IsOrder, Ordered
<1>3. CASE j < i
  BY <1>3, BeforeAsymmetric DEF IsOrder, Ordered
<1> QED BY <1>1, <1>2, <1>3

LEMMA OrderElement ==
  ASSUME NEW log, NEW P \in SUBSET Nat, NEW s, IsOrder(s, log, P)
  PROVE  /\ Len(s) \in Nat /\ DOMAIN s = 1 .. Len(s)
         /\ \A i \in DOMAIN s : s[i] \in Speakers(log, P)
         /\ \A x \in Speakers(log, P) : \E i \in DOMAIN s : s[i] = x
BY DEF IsOrder, Ordered

\* Two orders of the same entries name the same speakers.
LEMMA OrderCovers ==
  ASSUME NEW log, NEW P \in SUBSET Nat, NEW s, NEW t,
         IsOrder(s, log, P), IsOrder(t, log, P), NEW k \in DOMAIN s
  PROVE  \E i \in DOMAIN t : t[i] = s[k]
BY DEF IsOrder, Ordered

LEMMA OrderPrefix ==
  ASSUME NEW log, NEW P \in SUBSET Nat, NEW s, NEW t,
         IsOrder(s, log, P), IsOrder(t, log, P),
         NEW k \in DOMAIN s, k \in DOMAIN t
  PROVE  s[k] = t[k]
<1> DEFINE D == {i \in DOMAIN s \cap DOMAIN t : s[i] # t[i]}
<1> SUFFICES ASSUME s[k] # t[k] PROVE FALSE
  OBVIOUS
<1>0. /\ Len(s) \in Nat /\ DOMAIN s = 1 .. Len(s)
      /\ Len(t) \in Nat /\ DOMAIN t = 1 .. Len(t)
  BY OrderElement
<1>1. D \subseteq Nat /\ D # {}
  BY <1>0
<1>2. PICK m \in D : \A y \in D : m <= y
  BY <1>1, NatMin
<1> HIDE DEF D
<1>3. m \in DOMAIN s /\ m \in DOMAIN t /\ s[m] # t[m] /\ m \in Nat
  BY <1>1, <1>2 DEF D
<1>4. ASSUME NEW i \in DOMAIN s, i \in DOMAIN t, i < m PROVE s[i] = t[i]
  <2>1. i \notin D
    BY <1>1, <1>2, <1>3, <1>4, OrderElement
  <2> QED BY <1>4, <2>1 DEF D
<1>5. PICK i \in DOMAIN t : t[i] = s[m]
  BY <1>3, OrderCovers
<1>6. PICK j \in DOMAIN s : s[j] = t[m]
  BY <1>3, OrderCovers
<1>7. i \in Nat /\ j \in Nat /\ DOMAIN s = 1 .. Len(s) /\ DOMAIN t = 1 .. Len(t)
      /\ Len(s) \in Nat /\ Len(t) \in Nat
  BY OrderElement
<1>8. ~(i < m)
  <2> SUFFICES ASSUME i < m PROVE FALSE
    OBVIOUS
  <2>1. i \in DOMAIN s /\ s[i] = s[m]
    BY <1>3, <1>4, <1>5, <1>7
  <2>2. i = m
    BY <1>3, <2>1, OrderInjective
  <2> QED BY <1>3, <2>2
<1>9. ~(j < m)
  <2> SUFFICES ASSUME j < m PROVE FALSE
    OBVIOUS
  <2>1. j \in DOMAIN t /\ t[j] = t[m]
    BY <1>3, <1>4, <1>6, <1>7
  <2>2. j = m
    BY <1>3, <2>1, OrderInjective
  <2> QED BY <1>3, <2>2
<1>10. m < i /\ m < j
  BY <1>3, <1>5, <1>6, <1>7, <1>8, <1>9
<1>11. Before(log, P, s[m], t[m]) /\ Before(log, P, t[m], s[m])
  BY <1>3, <1>5, <1>6, <1>10 DEF IsOrder, Ordered
<1> QED BY <1>11, BeforeAsymmetric

LEMMA OrderNoLonger ==
  ASSUME NEW log, NEW P \in SUBSET Nat, NEW s, NEW t,
         IsOrder(s, log, P), IsOrder(t, log, P)
  PROVE  Len(t) <= Len(s)
<1> SUFFICES ASSUME Len(s) < Len(t) PROVE FALSE
  BY OrderElement
<1> DEFINE n == Len(s) + 1
<1>1. n \in DOMAIN t /\ n \in Nat /\ Len(s) \in Nat
  BY OrderElement
<1>2. PICK i \in DOMAIN s : s[i] = t[n]
  BY <1>1, OrderCovers
<1>3. i \in DOMAIN t /\ i < n
  BY <1>1, OrderElement
<1>4. t[i] = t[n]
  BY <1>2, <1>3, OrderPrefix
<1>5. i = n
  BY <1>1, <1>3, <1>4, OrderInjective
<1> QED BY <1>1, <1>3, <1>5

\* The entries have one order at most: no two can first differ anywhere.
LEMMA OrderUnique ==
  ASSUME NEW log, NEW P \in SUBSET Nat, NEW s, NEW t,
         IsOrder(s, log, P), IsOrder(t, log, P)
  PROVE  s = t
<1>1. Len(s) = Len(t)
  BY OrderNoLonger, OrderElement
<1>2. \A k \in 1 .. Len(s) : s[k] = t[k]
  BY <1>1, OrderPrefix, OrderElement
<1> QED BY <1>1, <1>2 DEF IsOrder

\* So it is the one that LastEntries chooses.
LEMMA OrderChosen ==
  ASSUME NEW log, NEW P \in SUBSET Nat, NEW s, IsOrder(s, log, P)
  PROVE  LastEntries(log, P) = s
<1> DEFINE S == Speakers(log, P)
           n == Cardinality(S)
<1>1. Len(s) \in Nat /\ s \in [1 .. Len(s) -> S]
  BY OrderElement DEF IsOrder
<1>2. s \in Bijection(1 .. Len(s), S)
  <2>1. \A i, j \in 1 .. Len(s) : s[i] = s[j] => i = j
    BY OrderInjective, OrderElement
  <2>2. \A x \in S : \E i \in 1 .. Len(s) : s[i] = x
    BY OrderElement
  <2> HIDE DEF S
  <2> QED BY <1>1, <2>1, <2>2 DEF Bijection, Injection, Surjection, IsInjective
<1>3. n = Len(s)
  BY <1>1, <1>2, FS_CountingElements DEF ExistsBijection
<1>4. \E t \in [1 .. n -> S] : Ordered(t, log, P)
  BY <1>1, <1>3 DEF IsOrder
<1>5. LastEntries(log, P) \in [1 .. n -> S] /\ Ordered(LastEntries(log, P), log, P)
  BY <1>4 DEF LastEntries
<1>6. IsOrder(LastEntries(log, P), log, P)
  BY <1>1, <1>3, <1>5 DEF IsOrder
<1> QED BY <1>6, OrderUnique
-----------------------------------------------------------------------------
(* What the operations of DupHistory do to an order. *)

\* Without drops the one entry of a connection and keeps the rest in order.
LEMMA WithoutShape ==
  ASSUME NEW log, NEW P \in SUBSET Nat, NEW s, IsOrder(s, log, P), NEW c
  PROVE  LET w == Abstract!Without(s, c) IN
         \/ w = s /\ \A i \in DOMAIN s : s[i] # c
         \/ \E p \in 1 .. Len(s) :
              /\ s[p] = c
              /\ w = [j \in 1 .. Len(s) - 1 |-> s[IF j < p THEN j ELSE j + 1]]
<1> DEFINE p == Abstract!Position(s, c)
<1>1. DOMAIN s = 1 .. Len(s)
  BY OrderElement
<1>2. CASE ~Abstract!Spoke(s, c)
  BY <1>2 DEF Abstract!Without, Abstract!Spoke
<1>3. CASE Abstract!Spoke(s, c)
  <2>1. p \in 1 .. Len(s) /\ s[p] = c
    BY <1>1, <1>3 DEF Abstract!Spoke, Abstract!Position
  <2>2. Abstract!Without(s, c) = [j \in 1 .. Len(s) - 1 |-> s[IF j < p THEN j ELSE j + 1]]
    BY <1>3 DEF Abstract!Without
  <2> HIDE DEF p
  <2> QED BY <2>1, <2>2
<1> QED BY <1>2, <1>3

\* It is an order of the entries of the others.
LEMMA WithoutOrder ==
  ASSUME NEW log, NEW P \in SUBSET Nat, NEW s, IsOrder(s, log, P), NEW c,
         NEW Q, Q = {j \in P : log[j] # c}
  PROVE  IsOrder(Abstract!Without(s, c), log, Q)
<1> DEFINE w == Abstract!Without(s, c)
<1>1. Speakers(log, Q) = Speakers(log, P) \ {c}
  BY DEF Speakers
<1>2. ASSUME NEW a, NEW b, a # c, b # c, Before(log, P, a, b)
      PROVE  Before(log, Q, a, b)
  BY <1>2 DEF Before
<1>3. Len(s) \in Nat /\ DOMAIN s = 1 .. Len(s)
  BY OrderElement
<1>4. CASE w = s /\ \A i \in DOMAIN s : s[i] # c
  <2>1. c \notin Speakers(log, P)
    BY <1>4 DEF IsOrder, Ordered
  <2>2. Q = P
    BY <2>1 DEF Speakers
  <2> QED BY <1>4, <2>2
<1>5. CASE \E p \in 1 .. Len(s) :
             /\ s[p] = c
             /\ w = [j \in 1 .. Len(s) - 1 |-> s[IF j < p THEN j ELSE j + 1]]
  <2>1. PICK p \in 1 .. Len(s) :
             /\ s[p] = c
             /\ w = [j \in 1 .. Len(s) - 1 |-> s[IF j < p THEN j ELSE j + 1]]
    BY <1>5
  <2> HIDE DEF w
  <2> DEFINE from(j) == IF j < p THEN j ELSE j + 1
  <2>2. /\ DOMAIN w = 1 .. Len(s) - 1 /\ Len(s) - 1 \in Nat
        /\ \A j \in DOMAIN w : /\ from(j) \in DOMAIN s /\ from(j) # p
                               /\ w[j] = s[from(j)]
        /\ \A i, j \in DOMAIN w : i < j => from(i) < from(j)
    BY <1>3, <2>1
  <2>3. \A i \in DOMAIN s : i # p => \E j \in DOMAIN w : from(j) = i
    <3> SUFFICES ASSUME NEW i \in DOMAIN s, i # p
                 PROVE  \E j \in DOMAIN w : from(j) = i
      OBVIOUS
    <3>1. CASE i < p
      BY <1>3, <2>2, <3>1
    <3>2. CASE p < i
      <4>1. i - 1 \in DOMAIN w /\ from(i - 1) = i
        BY <1>3, <2>2, <3>2
      <4> QED BY <4>1
    <3> QED BY <1>3, <3>1, <3>2
  <2> HIDE DEF from
  <2>4. \A i \in DOMAIN s : s[i] = c => i = p
    BY <1>3, <2>1, OrderInjective
  <2>5. {w[j] : j \in DOMAIN w} = Speakers(log, P) \ {c}
    <3>1. {s[i] : i \in DOMAIN s} = Speakers(log, P)
      BY DEF IsOrder, Ordered
    <3>2. ASSUME NEW j \in DOMAIN w PROVE w[j] \in Speakers(log, P) \ {c}
      BY <2>2, <2>4, <3>1
    <3>3. ASSUME NEW x \in Speakers(log, P) \ {c}
          PROVE  \E j \in DOMAIN w : w[j] = x
      <4>1. PICK i \in DOMAIN s : s[i] = x
        BY <3>1
      <4>2. i # p
        BY <2>1, <4>1
      <4> QED BY <2>2, <2>3, <4>1, <4>2
    <3> QED BY <3>2, <3>3
  <2>6. ASSUME NEW i \in DOMAIN w, NEW j \in DOMAIN w, i < j
        PROVE  Before(log, Q, w[i], w[j])
    <3>1. Before(log, P, w[i], w[j])
      BY <2>2, <2>6 DEF IsOrder, Ordered
    <3> QED BY <1>2, <2>5, <3>1
  <2>7. w \in Seq(Speakers(log, Q))
    <3>1. w \in [1 .. Len(s) - 1 -> Speakers(log, Q)]
      BY <1>1, <2>1, <2>2, <2>5
    <3> QED BY <2>2, <3>1
  <2> QED BY <1>1, <2>5, <2>6, <2>7 DEF IsOrder, Ordered, w
<1> HIDE DEF w
<1> QED BY <1>4, <1>5, WithoutShape DEF w

\* Spoken is an order of the log that ends with the speaker, be it that it was
\* appended or that it was the last entry already.
LEMMA SpokenOrder ==
  ASSUME NEW S, NEW log \in Seq(S), NEW s, IsOrder(s, log, DOMAIN log), NEW c \in S,
         NEW new, new = Append(log, c) \/ (new = log /\ LastEqual(log, c))
  PROVE  IsOrder(Abstract!Spoken(s, c), new, DOMAIN new)
<1> DEFINE Q == {j \in DOMAIN log : log[j] # c}
           w == Abstract!Without(s, c)
           u == Append(w, c)
           n == Len(new)
<1>1. /\ new \in Seq(S) /\ n \in Nat /\ DOMAIN new = 1 .. n /\ n \in DOMAIN new
      /\ new[n] = c
      /\ \A j \in DOMAIN new : new[j] # c => j \in Q /\ j < n
      /\ \A j \in Q : j \in DOMAIN new /\ new[j] = log[j]
  BY DEF LastEqual
<1>2. IsOrder(w, log, Q)
  BY WithoutOrder
<1>3. Q \in SUBSET Nat
  OBVIOUS
<1> HIDE DEF Q, w, n
<1>4. Speakers(new, DOMAIN new) = Speakers(log, Q) \cup {c}
  <2>1. ASSUME NEW j \in DOMAIN new PROVE new[j] \in Speakers(log, Q) \cup {c}
    BY <1>1 DEF Speakers
  <2>2. ASSUME NEW j \in Q PROVE log[j] \in Speakers(new, DOMAIN new)
    BY <1>1 DEF Speakers
  <2>3. c \in Speakers(new, DOMAIN new)
    BY <1>1 DEF Speakers
  <2> QED BY <2>1, <2>2, <2>3 DEF Speakers
<1>5. /\ w \in Seq(Speakers(log, Q))
      /\ Len(w) \in Nat /\ DOMAIN w = 1 .. Len(w)
      /\ \A i \in DOMAIN w : w[i] \in Speakers(log, Q)
      /\ {w[i] : i \in DOMAIN w} = Speakers(log, Q)
  BY <1>2, <1>3, OrderElement DEF IsOrder, Ordered
<1>6. c \notin Speakers(log, Q)
  BY DEF Speakers, Q
<1>7. /\ u \in Seq(Speakers(new, DOMAIN new))
      /\ DOMAIN u = 1 .. Len(w) + 1 /\ u[Len(w) + 1] = c
      /\ \A i \in DOMAIN w : u[i] = w[i]
  <2>1. /\ Speakers(log, Q) \subseteq Speakers(new, DOMAIN new)
        /\ c \in Speakers(new, DOMAIN new)
    BY <1>4
  <2>2. w \in Seq(Speakers(new, DOMAIN new))
    BY <1>5, <2>1
  <2> QED BY <1>5, <2>1, <2>2
<1> HIDE DEF u
<1>8. {u[i] : i \in DOMAIN u} = Speakers(new, DOMAIN new)
  <2>1. ASSUME NEW i \in DOMAIN u PROVE u[i] \in Speakers(new, DOMAIN new)
    BY <1>7
  <2>2. ASSUME NEW x \in Speakers(new, DOMAIN new)
        PROVE  \E i \in DOMAIN u : u[i] = x
    <3>1. CASE x = c
      BY <1>5, <1>7, <3>1
    <3>2. CASE x # c
      <4>1. PICK i \in DOMAIN w : w[i] = x
        BY <1>4, <1>5, <3>2
      <4> QED BY <1>5, <1>7, <4>1
    <3> QED BY <3>1, <3>2
  <2> QED BY <2>1, <2>2
<1>9. ASSUME NEW i \in DOMAIN u, NEW j \in DOMAIN u, i < j
      PROVE  Before(new, DOMAIN new, u[i], u[j])
  <2>1. i \in DOMAIN w /\ u[i] # c /\ u[i] = w[i]
    BY <1>5, <1>6, <1>7, <1>9
  <2>2. CASE j = Len(w) + 1
    BY <1>1, <1>7, <2>1, <2>2 DEF Before
  <2>3. CASE j # Len(w) + 1
    <3>1. j \in DOMAIN w /\ u[j] = w[j]
      BY <1>5, <1>7, <2>3
    <3>2. Before(log, Q, w[i], w[j])
      BY <1>2, <1>9, <2>1, <3>1 DEF IsOrder, Ordered
    <3> QED BY <1>1, <2>1, <3>1, <3>2 DEF Before
  <2> QED BY <2>2, <2>3
<1> QED BY <1>7, <1>8, <1>9 DEF IsOrder, Ordered, Abstract!Spoken, u, w


\* The entries that count when k of the first r are kept, and a round of the loop.
Left(log, M, k, r) == {j \in DOMAIN log : (j <= k \/ r < j) /\ log[j] \in M}
Round(log, M, k, r, new, n) ==
  IF log[r + 1] \in M /\ (k = 0 \/ log[k] # log[r + 1])
  THEN new = [log EXCEPT ![k + 1] = log[r + 1]] /\ n = k + 1
  ELSE new = log /\ n = k

\* A round of the loop changes nothing about the order: the entry it keeps moves
\* to the front past entries that no longer count, and the one it drops repeats
\* the last one that was kept.
LEMMA TrimOrder ==
  ASSUME NEW log \in Seq(Conns), NEW M, NEW k \in Nat, NEW r \in Nat,
         k <= r, r < Len(log), \A j \in DOMAIN log : j <= k => log[j] \in M,
         NEW new, NEW n, Round(log, M, k, r, new, n)
  PROVE  /\ Speakers(new, Left(new, M, n, r + 1)) = Speakers(log, Left(log, M, k, r))
         /\ \A a, b : Before(log, Left(log, M, k, r), a, b)
                      => Before(new, Left(new, M, n, r + 1), a, b)
<1> DEFINE P == Left(log, M, k, r)
           Q == Left(new, M, n, r + 1)
           v == log[r + 1]
<1>0. P \subseteq DOMAIN log /\ Q \subseteq DOMAIN new
  BY DEF Left
<1>1. /\ DOMAIN log = 1 .. Len(log) /\ Len(log) \in Nat
      /\ r + 1 \in DOMAIN log /\ k + 1 \in DOMAIN log
      /\ k \in DOMAIN log \/ k = 0
  OBVIOUS
<1>2. CASE v \notin M
  BY <1>1, <1>2 DEF Speakers, Before, Left, Round
<1>3. CASE v \in M /\ k # 0 /\ log[k] = v
  <2>1. /\ new = log /\ Q = P \ {r + 1} /\ k \in Q
        /\ \A i \in P : i < r + 1 => i <= k
    BY <1>1, <1>3 DEF Left, Round
  <2>2. Speakers(new, Q) = Speakers(log, P)
    BY <1>1, <1>3, <2>1 DEF Speakers
  <2>3. ASSUME NEW a, NEW b, Before(log, P, a, b)
        PROVE  Before(new, Q, a, b)
    <3>1. PICK j \in P : log[j] = b /\ \A i \in P : log[i] = a => i < j
      BY <2>3 DEF Before
    <3>2. CASE j # r + 1
      BY <2>1, <3>1, <3>2 DEF Before
    <3>3. CASE j = r + 1
      <4>1. k \in P /\ a # v /\ r + 1 \in P
        BY <1>1, <1>3, <2>1, <3>1, <3>3
      <4>2. \A i \in Q : log[i] = a => i < k
        BY <1>1, <1>3, <2>1, <3>1, <3>3, <4>1
      <4> QED BY <1>3, <2>1, <3>1, <3>3, <4>2 DEF Before
    <3> QED BY <3>2, <3>3
  <2> QED BY <2>2, <2>3
<1>4. CASE v \in M /\ (k = 0 \/ log[k] # v)
  <2>1. /\ new = [log EXCEPT ![k + 1] = v] /\ n = k + 1
        /\ DOMAIN new = DOMAIN log
        /\ k + 1 \in Q /\ new[k + 1] = v /\ r + 1 \in P
    BY <1>1, <1>4 DEF Left, Round
  <2>2. \A i \in Q :
          i # k + 1 => /\ i \in P /\ i # r + 1 /\ new[i] = log[i]
                       /\ i < r + 1 => i <= k
    BY <1>1, <1>4, <2>1 DEF Left
  <2>3. \A i \in P :
          i # r + 1 => /\ i \in Q /\ i # k + 1 /\ new[i] = log[i]
                       /\ i < r + 1 => i <= k
    BY <1>1, <1>4, <2>1 DEF Left
  <2>4. Speakers(new, Q) = Speakers(log, P)
    BY <2>1, <2>2, <2>3 DEF Speakers
  <2>5. ASSUME NEW a, NEW b, Before(log, P, a, b)
        PROVE  Before(new, Q, a, b)
    <3>1. PICK j \in P : log[j] = b /\ \A i \in P : log[i] = a => i < j
      BY <2>5 DEF Before
    <3>2. CASE j # r + 1
      <4>1. ASSUME NEW i \in Q, new[i] = a PROVE i < j
        <5>1. CASE i = k + 1
          <6>1. r + 1 < j
            BY <2>1, <3>1, <4>1, <5>1
          <6> QED BY <1>1, <5>1, <6>1
        <5>2. CASE i # k + 1
          BY <2>2, <3>1, <4>1, <5>2
        <5> QED BY <5>1, <5>2
      <4> QED BY <2>3, <3>1, <3>2, <4>1 DEF Before
    <3>3. CASE j = r + 1
      <4>1. a # v
        BY <2>1, <3>1, <3>3
      <4>2. ASSUME NEW i \in Q, new[i] = a PROVE i < k + 1
        <5>1. i # k + 1
          BY <2>1, <4>1, <4>2
        <5>2. i \in P /\ log[i] = a /\ (i < r + 1 => i <= k)
          BY <2>2, <4>2, <5>1
        <5>3. i < r + 1
          BY <3>1, <3>3, <5>2
        <5> QED BY <1>0, <1>1, <5>2, <5>3
      <4> QED BY <2>1, <3>1, <3>3, <4>2 DEF Before
    <3> QED BY <3>2, <3>3
  <2> QED BY <2>4, <2>5
<1> QED BY <1>2, <1>3, <1>4
-----------------------------------------------------------------------------
(* The steps: each keeps the invariant and maps to a step of DupHistory. *)

LEMMA TwoMembers ==
  ASSUME LogTypeOK, ~Alone
  PROVE  \E c, d \in set : c # d
BY DEF LogTypeOK, DataOK, LoopOK, Alone

\* Outside of the loop all entries count.
LEMMA AllLive ==
  ASSUME LogInv, ~trimming
  PROVE  Live = DOMAIN sendHistory
BY DEF LogInv, Trimmed, Live

LEMMA OrderOfLog ==
  ASSUME LogInv, ~Alone
  PROVE  /\ Order = LastEntries(sendHistory, Live)
         /\ IsOrder(Order, sendHistory, Live)
         /\ last # None => Successor = last
BY DEF LogInv, Sorted, Order, Successor

LEMMA RegisterStep ==
  ASSUME LogInv, NEW c \in Conns, Register(c)
  PROVE  LogInv' /\ Abstract!Join(c)
<1>1. /\ LogTypeOK /\ ~trimming /\ ~trimming' /\ c \notin set
      /\ set' = set \cup {c} /\ last' = c /\ NotTrimming /\ NotTrimming'
  BY DEF Register, LogInv, LogTypeOK, DataOK, LoopOK, trimVars, NotTrimming
<1>2. ~Alone' /\ c # None
  BY <1>1, LogAssumption DEF Alone, LogTypeOK, DataOK, LoopOK
<1>3. CASE Alone
  <2>1. PICK was \in Conns : set = {was}
    BY <1>3 DEF Alone
  <2>2. sendHistory' = <<was>>
    BY <1>3, <2>1 DEF Register
  <2>3. /\ DOMAIN sendHistory' = {1} /\ sendHistory'[1] = was
        /\ Len(sendHistory') = 1 /\ sendHistory' \in Seq(Conns)
    BY <2>2
  <2>4. Live' = {1}
    BY <1>1, <2>1, <2>3 DEF Live
  <2>5. Speakers(sendHistory', Live') = {was}
    BY <2>3, <2>4 DEF Speakers
  <2>6. /\ <<was>> \in Seq({was}) /\ DOMAIN <<was>> = {1}
        /\ {<<was>>[i] : i \in DOMAIN <<was>>} = {was}
    OBVIOUS
  <2>7. IsOrder(<<was>>, sendHistory', Live')
    BY <2>5, <2>6 DEF IsOrder, Ordered
  <2>8. LastEntries(sendHistory', Live') = <<was>>
    BY <2>4, <2>7, OrderChosen
  <2>9. Order' = <<was>> /\ Successor' = c
    BY <1>1, <1>2, <2>8 DEF Order, Successor
  <2>10. Abstract!Join(c)
    BY <1>1, <1>3, <2>1, <2>9 DEF Abstract!Join, Abstract!Alone, Alone
  <2>11. LogTypeOK'
    <3>1. DataOK'
      BY <1>1, <2>3 DEF LogTypeOK, DataOK, NotTrimming
    <3> QED BY <1>1, <3>1, Zenon DEF LogTypeOK, LoopOK, NotTrimming
  <2>12. Trimmed' /\ Forgotten' /\ Led' /\ Sorted'
    BY <1>1, <1>2, <2>1, <2>3, <2>7, <2>8 DEF Trimmed, Forgotten, Led, Sorted
  <2>13. Heard'
    BY <1>1, <2>1, <2>3, <2>4 DEF Heard
  <2> QED BY <2>10, <2>11, <2>12, <2>13 DEF LogInv
<1>4. CASE ~Alone
  <2>1. sendHistory' = Append(sendHistory, c) /\ sendHistory \in Seq(Conns)
    BY <1>1, <1>4 DEF Register, Record, LogTypeOK, DataOK, LoopOK
  <2>2. /\ Len(sendHistory) \in Nat
        /\ Len(sendHistory') = Len(sendHistory) + 1
        /\ DOMAIN sendHistory = 1 .. Len(sendHistory)
        /\ DOMAIN sendHistory' = 1 .. Len(sendHistory) + 1
        /\ sendHistory' \in Seq(Conns)
        /\ \A j \in DOMAIN sendHistory :
             j \in DOMAIN sendHistory' /\ sendHistory'[j] = sendHistory[j]
        /\ sendHistory'[Len(sendHistory) + 1] = c
    BY <2>1
  <2>3. Live = DOMAIN sendHistory /\ \A j \in DOMAIN sendHistory : sendHistory[j] \in set
    BY <1>1, AllLive DEF LogInv, Trimmed
  <2>4. \A j \in DOMAIN sendHistory' : sendHistory'[j] \in set'
    BY <1>1, <2>2, <2>3
  <2>5. Live' = DOMAIN sendHistory'
    BY <1>1, <2>4 DEF Live
  <2>6. IsOrder(Abstract!Spoken(Order, c), sendHistory', Live')
    BY <1>4, <2>1, <2>3, <2>5, OrderOfLog, SpokenOrder
  <2>7. LastEntries(sendHistory', Live') = Abstract!Spoken(Order, c)
    BY <2>2, <2>5, <2>6, OrderChosen
  <2>8. Order' = Abstract!Spoken(Order, c) /\ Successor' = c
    BY <1>1, <1>2, <2>7 DEF Order, Successor
  <2>9. Abstract!Join(c)
    BY <1>1, <1>4, <2>8 DEF Abstract!Join, Abstract!Alone, Alone
  <2>10. LogTypeOK'
    <3>1. DataOK'
      BY <1>1, <2>2 DEF LogTypeOK, DataOK, NotTrimming
    <3> QED BY <1>1, <3>1, Zenon DEF LogTypeOK, LoopOK, NotTrimming
  <2>11. Trimmed' /\ Forgotten' /\ Led' /\ Sorted'
    BY <1>1, <1>2, <2>4, <2>6, <2>7 DEF Trimmed, Forgotten, Led, Sorted
  <2>12. Heard'
    <3> SUFFICES ASSUME NEW x \in set', NEW y \in set', x # y
                 PROVE  \E j \in Live' : sendHistory'[j] \in {x, y}
      BY DEF Heard
    <3>1. CASE x = c \/ y = c
      BY <2>2, <2>5, <3>1
    <3>2. CASE x # c /\ y # c
      <4>1. PICK j \in Live : sendHistory[j] \in {x, y}
        BY <1>1, <1>4, <3>2 DEF LogInv, Heard
      <4> QED BY <2>2, <2>3, <2>5, <4>1
    <3> QED BY <3>1, <3>2
  <2> QED BY <2>9, <2>10, <2>11, <2>12 DEF LogInv
<1> QED BY <1>3, <1>4

LEMMA NoteActivityStep ==
  ASSUME LogInv, NEW c \in Conns, NoteActivity(c)
  PROVE  LogInv' /\ Abstract!Speak(c)
<1>1. /\ LogTypeOK /\ ~trimming /\ ~trimming' /\ c \in set /\ ~Alone /\ ~Alone'
      /\ set' = set /\ NotTrimming /\ NotTrimming'
      /\ last' = IF LastWriter \/ last = None THEN c ELSE last
  BY DEF NoteActivity, LogInv, LogTypeOK, DataOK, LoopOK, trimVars, NotTrimming, Alone
<1>2. c # None /\ last \in set /\ last # None /\ last' \in set' /\ last' # None
  BY <1>1, LogAssumption DEF LogInv, Led, LogTypeOK, DataOK, LoopOK
<1>3. /\ sendHistory \in Seq(Conns)
      /\ \/ sendHistory' = Append(sendHistory, c)
         \/ sendHistory' = sendHistory /\ LastEqual(sendHistory, c)
  BY <1>1 DEF NoteActivity, Record, LogTypeOK, DataOK, LoopOK
<1>4. /\ Len(sendHistory) \in Nat
      /\ Len(sendHistory') \in Nat
      /\ Len(sendHistory) <= Len(sendHistory')
      /\ DOMAIN sendHistory = 1 .. Len(sendHistory)
      /\ DOMAIN sendHistory' = 1 .. Len(sendHistory')
      /\ sendHistory' \in Seq(Conns)
      /\ \A j \in DOMAIN sendHistory :
           j \in DOMAIN sendHistory' /\ sendHistory'[j] = sendHistory[j]
      /\ \A j \in DOMAIN sendHistory' : j \in DOMAIN sendHistory \/ sendHistory'[j] = c
  BY <1>3
<1>5. Live = DOMAIN sendHistory /\ \A j \in DOMAIN sendHistory : sendHistory[j] \in set
  BY <1>1, AllLive DEF LogInv, Trimmed
<1>6. \A j \in DOMAIN sendHistory' : sendHistory'[j] \in set'
  BY <1>1, <1>4, <1>5
<1>7. Live' = DOMAIN sendHistory'
  BY <1>1, <1>6 DEF Live
<1>8. IsOrder(Order, sendHistory, DOMAIN sendHistory)
  BY <1>1, <1>5, OrderOfLog
<1>9. IsOrder(Abstract!Spoken(Order, c), sendHistory', Live')
  BY <1>3, <1>7, <1>8, SpokenOrder
<1>10. LastEntries(sendHistory', Live') = Abstract!Spoken(Order, c)
  BY <1>4, <1>7, <1>9, OrderChosen
<1>11. /\ Order' = Abstract!Spoken(Order, c)
       /\ Successor = last /\ Successor' = last'
  BY <1>1, <1>2, <1>10 DEF Order, Successor
<1>12. Abstract!Speak(c)
  BY <1>1, <1>11 DEF Abstract!Speak, Abstract!Alone, Alone
<1>13. LogTypeOK'
  <2>1. DataOK'
    BY <1>1, <1>2, <1>4 DEF LogTypeOK, DataOK, NotTrimming
  <2> QED BY <1>1, <2>1, Zenon DEF LogTypeOK, LoopOK, NotTrimming
<1>14. Trimmed' /\ Forgotten' /\ Led' /\ Sorted'
  BY <1>1, <1>2, <1>6, <1>9, <1>10 DEF Trimmed, Forgotten, Led, Sorted
<1>15. Heard'
  <2> SUFFICES ASSUME NEW x \in set', NEW y \in set', x # y
               PROVE  \E j \in Live' : sendHistory'[j] \in {x, y}
    BY DEF Heard
  <2>1. PICK j \in Live : sendHistory[j] \in {x, y}
    BY <1>1 DEF LogInv, Heard
  <2> QED BY <1>4, <1>5, <1>7, <2>1
<1> QED BY <1>12, <1>13, <1>14, <1>15 DEF LogInv

LEMMA RemoveStep ==
  ASSUME LogInv, NEW c \in Conns, removeClient(c)
  PROVE  LogInv' /\ Abstract!Leave(c)
<1>1. /\ LogTypeOK /\ ~trimming /\ trimming' = TRUE /\ read' = 0 /\ kept' = 0
      /\ c \in set /\ ~Alone /\ set' = set \ {c}
      /\ last' = IF last = c THEN None ELSE last
      /\ sendHistory' = sendHistory
  BY DEF removeClient, LogInv
<1>2. last \in set /\ last # None /\ Successor = last
  BY <1>1, LogAssumption, OrderOfLog DEF LogInv, Led, LogTypeOK, DataOK, LoopOK
<1>3. Live = DOMAIN sendHistory /\ \A j \in DOMAIN sendHistory : sendHistory[j] \in set
  BY <1>1, AllLive DEF LogInv, Trimmed
<1>4. /\ sendHistory \in Seq(Conns) /\ Len(sendHistory) \in Nat
      /\ DOMAIN sendHistory = 1 .. Len(sendHistory)
  BY <1>1 DEF LogTypeOK, DataOK, LoopOK
<1>5. Live' = {j \in Live : sendHistory[j] # c}
  <2>1. \A j \in DOMAIN sendHistory : 0 < j
    BY <1>4
  <2> QED BY <1>1, <1>3, <2>1 DEF Live
<1>6. IsOrder(Abstract!Without(Order, c), sendHistory', Live')
  BY <1>1, <1>3, <1>4, <1>5, OrderOfLog, WithoutOrder
<1>7. LastEntries(sendHistory', Live') = Abstract!Without(Order, c)
  BY <1>3, <1>4, <1>5, <1>6, OrderChosen
<1>8. ~Alone' =>
        /\ Order' = Abstract!Without(Order, c)
        /\ Successor' = IF last = c THEN Abstract!LastOf(Abstract!Without(Order, c), None)
                        ELSE last
  BY <1>1, <1>2, <1>7 DEF Order, Successor, Abstract!LastOf
<1>9. Alone' => Order' = <<>> /\ Successor' = None
  BY DEF Order, Successor
<1>10. Abstract!Leave(c)
  BY <1>1, <1>2, <1>8, <1>9 DEF Abstract!Leave, Abstract!Alone, Alone
<1>11. LogTypeOK'
  <2>1. set' # {}
    BY <1>1 DEF Alone
  <2> QED BY <1>1, <1>4, <2>1 DEF LogTypeOK, DataOK, LoopOK
<1>12. Trimmed' /\ Forgotten' /\ Led' /\ Sorted'
  BY <1>1, <1>2, <1>4, <1>6, <1>7 DEF Trimmed, Forgotten, Led, Sorted
<1>13. Heard'
  <2> SUFFICES ASSUME NEW x \in set', NEW y \in set', x # y
               PROVE  \E j \in Live' : sendHistory'[j] \in {x, y}
    BY DEF Heard
  <2>1. PICK j \in Live : sendHistory[j] \in {x, y}
    BY <1>1 DEF LogInv, Heard
  <2> QED BY <1>1, <1>5, <2>1
<1> QED BY <1>10, <1>11, <1>12, <1>13 DEF LogInv

LEMMA TrimEntryStep ==
  ASSUME LogInv, TrimEntry
  PROVE  LogInv' /\ UNCHANGED Abstract!vars
<1>1. /\ LogTypeOK /\ trimming /\ trimming' /\ read < Len(sendHistory)
      /\ read' = read + 1 /\ set' = set /\ last' = last
      /\ trimming \in BOOLEAN /\ trimming' \in BOOLEAN
  BY DEF TrimEntry, LogInv, LogTypeOK, DataOK, LoopOK
<1>2. Round(sendHistory, set, kept, read, sendHistory', kept')
  BY DEF TrimEntry, Keeps, Round
<1>3. /\ sendHistory \in Seq(Conns) /\ Len(sendHistory) \in Nat
      /\ DOMAIN sendHistory = 1 .. Len(sendHistory)
      /\ read \in Nat /\ kept \in Nat /\ kept <= read
  BY <1>1 DEF LogTypeOK, DataOK, LoopOK
<1>4. /\ sendHistory' \in Seq(Conns) /\ Len(sendHistory') = Len(sendHistory)
      /\ DOMAIN sendHistory' = DOMAIN sendHistory
      /\ kept' \in Nat /\ kept' <= read'
  BY <1>1, <1>2, <1>3 DEF Round
<1>5. \A j \in DOMAIN sendHistory : j <= kept => sendHistory[j] \in set
  BY DEF LogInv, Trimmed
<1>6. Live = Left(sendHistory, set, kept, read)
  BY <1>1 DEF Live, Left
<1>7. Live' = Left(sendHistory', set, kept', read + 1)
  BY <1>1 DEF Live, Left
<1>8. /\ Speakers(sendHistory', Live') = Speakers(sendHistory, Live)
      /\ \A a, b : Before(sendHistory, Live, a, b) => Before(sendHistory', Live', a, b)
  <2> DEFINE P == Left(sendHistory, set, kept, read)
             Q == Left(sendHistory', set, kept', read + 1)
  <2>1. read < Len(sendHistory)
    BY <1>1
  <2>2. /\ Speakers(sendHistory', Q) = Speakers(sendHistory, P)
        /\ \A a, b : Before(sendHistory, P, a, b) => Before(sendHistory', Q, a, b)
    BY <1>2, <1>3, <1>5, <2>1, TrimOrder, Zenon
  <2> QED BY <1>6, <1>7, <2>2, Zenon
<1>9. Alone' <=> Alone
  BY <1>1 DEF Alone
<1>10. ASSUME ~Alone
       PROVE  /\ IsOrder(Order, sendHistory', Live')
              /\ LastEntries(sendHistory', Live') = Order
  <2>1. IsOrder(Order, sendHistory, Live)
    BY <1>10, OrderOfLog
  <2>2. IsOrder(Order, sendHistory', Live')
    BY <1>8, <2>1 DEF IsOrder, Ordered
  <2>3. Live' \in SUBSET Nat
    BY <1>3, <1>4, <1>7 DEF Left
  <2> QED BY <2>2, <2>3, OrderChosen
<1>11. Order' = Order
  BY <1>9, <1>10 DEF Order
<1>12. Successor' = Successor
  BY <1>1, <1>9, <1>11 DEF Successor
<1>13. LogTypeOK'
  BY <1>1, <1>3, <1>4 DEF LogTypeOK, DataOK, LoopOK
<1>14. Trimmed'
  BY <1>1, <1>2, <1>3, <1>4, <1>5 DEF Trimmed, Round
<1>15. Forgotten' /\ Led' /\ Sorted'
  BY <1>1, <1>9, <1>10 DEF Forgotten, LogInv, Led, Sorted
<1>16. Heard'
  <2> SUFFICES ASSUME ~Alone, NEW x \in set, NEW y \in set, x # y
               PROVE  \E j \in Live' : sendHistory'[j] \in {x, y}
    BY <1>1, <1>9 DEF Heard
  <2>1. PICK j \in Live : sendHistory[j] \in {x, y}
    BY DEF LogInv, Heard
  <2>2. sendHistory[j] \in Speakers(sendHistory', Live')
    BY <1>8 DEF Speakers
  <2> QED BY <2>1, <2>2 DEF Speakers
<1> QED BY <1>1, <1>11, <1>12, <1>13, <1>14, <1>15, <1>16 DEF LogInv, Abstract!vars

LEMMA TrimDoneStep ==
  ASSUME LogInv, TrimDone
  PROVE  LogInv' /\ UNCHANGED Abstract!vars
<1>1. /\ LogTypeOK /\ trimming /\ read = Len(sendHistory) /\ set' = set
      /\ trimming' = FALSE /\ read' = 0 /\ kept' = 0 /\ NotTrimming'
  BY DEF TrimDone, LogInv, NotTrimming
<1>2. /\ sendHistory \in Seq(Conns) /\ Len(sendHistory) \in Nat
      /\ DOMAIN sendHistory = 1 .. Len(sendHistory)
      /\ kept \in 0 .. Len(sendHistory)
  BY <1>1 DEF LogTypeOK, DataOK, LoopOK
<1>3. Alone' <=> Alone
  BY <1>1 DEF Alone
<1>4. CASE Alone
  <2>1. sendHistory' = <<>> /\ last' = None
    BY <1>4 DEF TrimDone
  <2>2. /\ sendHistory' \in Seq(Conns) /\ Len(sendHistory') = 0
        /\ DOMAIN sendHistory' = {}
    BY <2>1
  <2>3. Order' = Order /\ Successor' = Successor
    BY <1>3, <1>4 DEF Order, Successor
  <2>4. LogTypeOK'
    <3>1. DataOK'
      BY <1>1, <2>1, <2>2 DEF LogTypeOK, DataOK
    <3> QED BY <1>1, <3>1, Zenon DEF LogTypeOK, LoopOK, NotTrimming
  <2>5. Trimmed' /\ Forgotten' /\ Led' /\ Heard' /\ Sorted'
    BY <1>3, <1>4, <2>1, <2>2 DEF Trimmed, Forgotten, Led, Heard, Sorted
  <2> QED BY <1>1, <2>3, <2>4, <2>5 DEF LogInv, Abstract!vars
<1>5. CASE ~Alone
  <2>1. /\ sendHistory' = SubSeq(sendHistory, 1, kept)
        /\ last' = IF last = None THEN Latest(sendHistory') ELSE last
    BY <1>5 DEF TrimDone
  <2>2. /\ sendHistory' \in Seq(Conns) /\ Len(sendHistory') = kept
        /\ DOMAIN sendHistory' = 1 .. kept
        /\ \A j \in 1 .. kept : sendHistory'[j] = sendHistory[j]
    BY <1>2, <2>1
  <2>3. \A j \in 1 .. kept : sendHistory[j] \in set
    BY <1>2 DEF LogInv, Trimmed
  <2>4. Live = 1 .. kept
    BY <1>1, <1>2, <2>3 DEF Live
  <2>5. Live' = 1 .. kept
    BY <1>1, <2>2, <2>3 DEF Live
  <2>6. IsOrder(Order, sendHistory, Live)
    BY <1>5, OrderOfLog
  <2>7. Speakers(sendHistory', Live') = Speakers(sendHistory, Live)
    BY <2>2, <2>4, <2>5 DEF Speakers
  <2>8. \A a, b : Before(sendHistory, Live, a, b) => Before(sendHistory', Live', a, b)
    BY <2>2, <2>4, <2>5 DEF Before
  <2>9. IsOrder(Order, sendHistory', Live')
    BY <2>6, <2>7, <2>8 DEF IsOrder, Ordered
  <2>10. LastEntries(sendHistory', Live') = Order
    BY <1>2, <2>5, <2>9, OrderChosen
  <2>11. Order' = Order
    BY <1>3, <1>5, <2>10 DEF Order
  <2>12. kept # 0
    <3>1. PICK x \in set, y \in set : x # y
      BY <1>1, <1>5, TwoMembers
    <3>2. PICK j \in Live : sendHistory[j] \in {x, y}
      BY <1>5, <3>1 DEF LogInv, Heard
    <3> QED BY <1>2, <2>4, <3>2
  <2>13. kept \in Live /\ Live \in SUBSET Nat
    BY <1>2, <2>4, <2>12
  <2>14. PICK i \in DOMAIN Order : Order[i] = sendHistory[kept]
    <3>1. sendHistory[kept] \in Speakers(sendHistory, Live)
      BY <2>13 DEF Speakers
    <3> QED BY <2>6, <2>13, <3>1, OrderElement
  <2>15. DOMAIN Order = 1 .. Len(Order) /\ Len(Order) \in Nat
    BY <2>6, <2>13, OrderElement
  <2>16. i = Len(Order)
    <3> SUFFICES ASSUME i < Len(Order) PROVE FALSE
      BY <2>15
    <3>1. Before(sendHistory, Live, Order[i], Order[Len(Order)])
      BY <2>6, <2>15 DEF IsOrder, Ordered
    <3>2. PICK j \in Live : kept < j
      BY <2>13, <2>14, <3>1 DEF Before
    <3> QED BY <1>2, <2>4, <3>2
  <2>17. Order # <<>> /\ Order[Len(Order)] = sendHistory[kept]
    BY <2>14, <2>15, <2>16
  <2>18. /\ last' = IF last = None THEN sendHistory[kept] ELSE last
         /\ sendHistory[kept] \in set
    BY <1>2, <2>1, <2>2, <2>3, <2>12 DEF Latest
  <2>19. last' \in set' /\ last' # None
    BY <1>1, <1>5, <2>18, LogAssumption DEF LogInv, Led, LogTypeOK, DataOK, LoopOK
  <2>20. Successor' = Successor
    BY <1>3, <1>5, <2>17, <2>18, <2>19 DEF Successor
  <2>21. LogTypeOK'
    <3>1. DataOK'
      BY <1>1, <1>2, <2>2, <2>19 DEF LogTypeOK, DataOK
    <3> QED BY <1>1, <3>1, Zenon DEF LogTypeOK, LoopOK, NotTrimming
  <2>22. Trimmed' /\ Forgotten' /\ Led' /\ Sorted'
    BY <1>1, <1>3, <1>5, <2>2, <2>3, <2>9, <2>10, <2>19
       DEF Trimmed, Forgotten, Led, Sorted
  <2>23. Heard'
    BY <1>1, <1>3, <1>5, <2>2, <2>4, <2>5 DEF LogInv, Heard
  <2> QED BY <1>1, <2>11, <2>20, <2>21, <2>22, <2>23 DEF LogInv, Abstract!vars
<1> QED BY <1>4, <1>5

\* Each step keeps the invariant, and is a step of DupHistory or none.
LEMMA LogStep ==
  ASSUME LogInv, [Next]_vars
  PROVE  LogInv' /\ [Abstract!Next]_(Abstract!vars)
<1>1. ASSUME NEW c \in Conns, Register(c) \/ NoteActivity(c) \/ removeClient(c)
      PROVE  LogInv' /\ [Abstract!Next]_(Abstract!vars)
  BY <1>1, RegisterStep, NoteActivityStep, RemoveStep DEF Abstract!Next
<1>2. CASE UNCHANGED vars
  BY <1>2
     DEF vars, trimVars, LogInv, LogTypeOK, DataOK, LoopOK, NotTrimming, Trimmed,
     Forgotten, Led, Heard, Sorted, Alone, Live, Abstract!vars, Order, Successor
<1> QED BY <1>1, <1>2, TrimEntryStep, TrimDoneStep DEF Next

LEMMA LogInit == ASSUME Init PROVE LogInv /\ Abstract!Init
<1>1. /\ Alone /\ last = None /\ sendHistory = <<>> /\ NotTrimming
      /\ Order = <<>> /\ Successor = None
  BY DEF Init, Order, Successor
<1>2. LogInv
  <2>1. DataOK
    BY <1>1 DEF DataOK, NotTrimming, Alone
  <2>2. LoopOK
    BY <1>1, Zenon DEF LoopOK, NotTrimming
  <2>3. Trimmed
    BY <1>1 DEF Trimmed
  <2> QED BY <1>1, <2>1, <2>2, <2>3 DEF LogInv, LogTypeOK, Forgotten, Led, Heard, Sorted
<1> QED BY <1>1, <1>2 DEF Abstract!Init, Abstract!Alone, Alone

\* The inductive invariant, also in the middle of the loop.
THEOREM LogCorrect == Spec => []LogInv
<1>1. Init => LogInv
  BY LogInit
<1>2. LogInv /\ [Next]_vars => LogInv'
  BY LogStep
<1> QED BY <1>1, <1>2, PTL DEF Spec

\* Whenever removeClient has returned, a set of duplicates has a last one that is
\* a member, and no two members are both missing from its log.
THEOREM SuccessorCorrect == Spec => []SuccessorKnown
<1>1. LogInv => SuccessorKnown
  BY AllLive DEF LogInv, Led, Heard, SuccessorKnown
<1> QED BY <1>1, LogCorrect, PTL

\* The log, trimmed in place, implements the order of the last entries, which is
\* all that the model of the registry keeps of it.
THEOREM OrderImplemented == Spec => ImplementsOrder
<1>1. Init => Abstract!Init
  BY LogInit
<1>2. LogInv /\ [Next]_vars => [Abstract!Next]_(Abstract!vars)
  BY LogStep
<1> QED BY <1>1, <1>2, LogCorrect, PTL DEF Spec, ImplementsOrder, Abstract!Spec
=============================================================================
