----------------------- MODULE ClientRegistryProofs -----------------------
(***************************************************************************)
(* What ClientRegistry guarantees for any number of connections, keys and  *)
(* forwarders, under the policy the server uses (lastWriterIsActive).      *)
(*                                                                         *)
(* RegInv is the registry's own invariant.  The routing properties rest on *)
(* one conjunct of it: at most one member of a dup set never spoke.  So    *)
(* when the last writer of a set of three or more leaves, somebody else is *)
(* left in sendHistory to take over.                                       *)
(* ViewInv is about what others are told, and uses RegInv.  GaugeInv, on   *)
(* top of it, follows the gauges through sets that gain or lose one        *)
(* connection at a time.                                                   *)
(***************************************************************************)
EXTENDS ClientRegistry, SequenceTheorems, FiniteSetTheorems, TLAPS

\* No connection is twice in a recency order.
Distinct(s) == \A i, j \in DOMAIN s : s[i] = s[j] => i = j

\* Without removes the connection and nothing else (removeClient trims
\* sendHistory).
LEMMA WithoutMembers ==
  ASSUME NEW S, NEW s \in Seq(S), NEW c, Distinct(s)
  PROVE  /\ Without(s, c) \in Seq(S)
         /\ Distinct(Without(s, c))
         /\ \A d : Spoke(Without(s, c), d) <=> Spoke(s, d) /\ d # c
<1>1. CASE ~Spoke(s, c)
  BY <1>1 DEF Without, Spoke
<1>2. CASE Spoke(s, c)
  <2> DEFINE p == Position(s, c)
             n == Len(s)
             t == [j \in 1 .. n - 1 |-> s[IF j < p THEN j ELSE j + 1]]
  <2>1. p \in 1 .. n /\ s[p] = c /\ n \in Nat /\ DOMAIN s = 1 .. n
    BY <1>2 DEF Position, Spoke
  <2>2. Without(s, c) = t
    BY <1>2 DEF Without
  <2> HIDE DEF p, n
  <2>3. \A i \in 1 .. n : s[i] \in S
    BY <2>1 DEF n
  <2>4. t \in Seq(S) /\ DOMAIN t = 1 .. n - 1
    <3>1. \A j \in 1 .. n - 1 : t[j] \in S
      BY <2>1, <2>3
    <3>2. t \in [1 .. n - 1 -> S] /\ n - 1 \in Nat
      BY <2>1, <3>1
    <3> QED BY <3>2, IsASeq
  <2>5. Distinct(t)
    BY <2>1, <2>4 DEF Distinct
  <2>6. ASSUME NEW d, Spoke(t, d)
        PROVE  Spoke(s, d) /\ d # c
    BY <2>1, <2>4, <2>6, SMTT(30) DEF Spoke, Distinct
  <2>7. ASSUME NEW d, Spoke(s, d), d # c
        PROVE  Spoke(t, d)
    <3>1. PICK i \in 1 .. n : s[i] = d
      BY <2>1, <2>7 DEF Spoke
    <3>2. CASE i < p
      BY <2>1, <2>4, <3>1, <3>2 DEF Spoke
    <3>3. CASE i > p
      <4>1. i - 1 \in 1 .. n - 1 /\ ~(i - 1 < p) /\ (i - 1) + 1 = i
        BY <2>1, <3>1, <3>3
      <4>2. t[i - 1] = d
        BY <3>1, <4>1
      <4> QED BY <2>4, <4>1, <4>2 DEF Spoke
    <3> QED BY <2>1, <2>7, <3>1, <3>2, <3>3
  <2> HIDE DEF t
  <2> QED BY <2>2, <2>4, <2>5, <2>6, <2>7
<1> QED BY <1>1, <1>2

\* Spoken adds the connection (noteClientActivity appends to sendHistory).
LEMMA SpokenMembers ==
  ASSUME NEW S, NEW s \in Seq(S), NEW c \in S, Distinct(s)
  PROVE  /\ Spoken(s, c) \in Seq(S)
         /\ Distinct(Spoken(s, c))
         /\ \A d : Spoke(Spoken(s, c), d) <=> Spoke(s, d) \/ d = c
<1> DEFINE t == Without(s, c)
<1>1. /\ t \in Seq(S) /\ Distinct(t)
      /\ \A d : Spoke(t, d) <=> Spoke(s, d) /\ d # c
  BY WithoutMembers
<1> HIDE DEF t
<1> DEFINE u == Append(t, c)
<1>2. /\ u \in Seq(S) /\ DOMAIN u = 1 .. Len(t) + 1 /\ u[Len(t) + 1] = c
      /\ \A i \in 1 .. Len(t) : u[i] = t[i]
  BY <1>1, AppendProperties
<1>3. Len(t) \in Nat /\ DOMAIN t = 1 .. Len(t)
  BY <1>1
<1>4. \A i \in 1 .. Len(t) : t[i] # c
  BY <1>1, <1>3 DEF Spoke
<1> HIDE DEF u
<1>5. Distinct(u)
  BY <1>1, <1>2, <1>3, <1>4 DEF Distinct
<1>6. ASSUME NEW d
      PROVE  Spoke(u, d) <=> Spoke(t, d) \/ d = c
  <2>1. ASSUME Spoke(u, d) PROVE Spoke(t, d) \/ d = c
    BY <2>1, <1>2, <1>3 DEF Spoke
  <2>2. ASSUME Spoke(t, d) PROVE Spoke(u, d)
    BY <2>2, <1>2, <1>3 DEF Spoke
  <2>3. Spoke(u, c)
    BY <1>2, <1>3 DEF Spoke
  <2> QED BY <2>1, <2>2, <2>3
<1> QED BY <1>1, <1>2, <1>5, <1>6 DEF Spoken, t, u

\* If anyone spoke there is a last speaker, and it is one of them.
LEMMA LastSpoke ==
  ASSUME NEW S, NEW s \in Seq(S), NEW d, Spoke(s, d)
  PROVE  Spoke(s, LastOf(s, None))
<1>1. Len(s) \in Nat /\ DOMAIN s = 1 .. Len(s)
  OBVIOUS
<1>2. PICK i \in 1 .. Len(s) : s[i] = d
  BY <1>1 DEF Spoke
<1>3. Len(s) \in 1 .. Len(s) /\ s # <<>>
  BY <1>1, <1>2
<1> QED BY <1>1, <1>3 DEF LastOf, Spoke

-----------------------------------------------------------------------------
\* The registered connections of a key.
Members(k) == {c \in Registered : KeyOf[c] = k}

\* A key with a dupClientSet.
DupInv(k) ==
  /\ k \in clients
  /\ dup[k] = Members(k)
  /\ last[k] \in dup[k] /\ active[k] \in dup[k]
  /\ Distinct(spoke[k])
  /\ \A c \in Conns : Spoke(spoke[k], c) => c \in dup[k]
  /\ \A a, b \in dup[k] : Spoke(spoke[k], a) \/ Spoke(spoke[k], b) \/ a = b
  /\ \A a \in Conns : dup[k] # {a}

\* A key without: one connection, the active one, or none.
SoleInv(k) ==
  /\ k \in clients => active[k] \in Conns /\ Members(k) = {active[k]}
  /\ k \notin clients => active[k] = None /\ Members(k) = {}

\* Every key is one or the other.
SetsInv == \A k \in Keys : /\ dup[k] # {} => DupInv(k)
                           /\ dup[k] = {} => SoleInv(k)

\* The flags agree with the sets; this policy disables nobody.
FlagsInv == DupFlagsExact /\ \A c \in Conns : ~isDisabled[c]

\* The inductive invariant of the registry.
RegInv == SetsOK /\ ConnsOK /\ SetsInv /\ FlagsInv

\* Gauges stay integers.
LEMMA AddType ==
  ASSUME NEW cur \in Int, NEW home \in Int, NEW keys \in Int,
         NEW dupKeys \in Int, NEW dupConns \in Int,
         gauges \in [Gauges -> Int], Add(cur, home, keys, dupKeys, dupConns)
  PROVE  gauges' \in [Gauges -> Int]
BY DEF Add, Gauges

\* The other keys' entries are not disturbed.
LEMMA OtherKeys ==
  ASSUME SetsInv, NEW k \in Keys,
         \A j \in Keys \ {k} :
           /\ dup'[j] = dup[j] /\ last'[j] = last[j] /\ spoke'[j] = spoke[j]
           /\ active'[j] = active[j] /\ Members(j)' = Members(j)
           /\ j \in clients' <=> j \in clients,
         dup'[k] # {} => DupInv(k)',
         dup'[k] = {} => SoleInv(k)'
  PROVE  SetsInv'
<1> SUFFICES ASSUME NEW j \in Keys \ {k}
             PROVE  /\ dup'[j] # {} => DupInv(j)'
                    /\ dup'[j] = {} => SoleInv(j)'
  BY DEF SetsInv
<1>1. /\ dup[j] # {} => DupInv(j)
      /\ dup[j] = {} => SoleInv(j)
  BY DEF SetsInv
<1>2. DupInv(j) => DupInv(j)'
  BY DEF DupInv
<1>3. SoleInv(j) => SoleInv(j)'
  BY DEF SoleInv
<1> QED BY <1>1, <1>2, <1>3

\* registerClient keeps the invariant: first connection, second, further ones.
LEMMA RegisterReg ==
  ASSUME RegInv, NEW c \in Conns, registerClient(c)
  PROVE  RegInv'
<1> DEFINE k == KeyOf[c]
           was == active[k]
<1> USE DEF RegInv
<1>1. k \in Keys /\ None \notin Conns
  BY RegistryAssumption
<1>2. /\ reader[c] = "off"
      /\ reader' = [reader EXCEPT ![c] = "run"]
      /\ active' = [active EXCEPT ![k] = c]
      /\ clients' = clients \cup {k}
      /\ isDisabled' = [isDisabled EXCEPT ![c] = FALSE]
  BY DEF registerClient, At, MarkDuplicates
<1>3. c \notin Registered /\ Registered' = Registered \cup {c}
  BY <1>2 DEF Registered, ConnsOK
<1>4. \A j \in Keys : Members(j)' = IF j = k THEN Members(k) \cup {c}
                                    ELSE Members(j)
  BY <1>3 DEF Members
<1>5. c \notin Members(k)
  BY <1>3 DEF Members
<1>6. ConnsOK'
  <2>1. reader' \in [Conns -> {"off", "run", "note", "handle"}]
        /\ sender' \in [Conns -> {"off", "run", "done"}]
    BY <1>2 DEF registerClient, ConnsOK
  <2>2. isDup' \in [Conns -> BOOLEAN] /\ isDisabled' \in [Conns -> BOOLEAN]
        /\ preferred' \in [Conns -> BOOLEAN]
    BY DEF registerClient, MarkDuplicates, ConnsOK
  <2>3. gauges' \in [Gauges -> Int]
    BY AddType DEF registerClient, ConnsOK
  <2> QED BY <2>1, <2>2, <2>3 DEF ConnsOK
<1>7. \A d \in Conns : ~isDisabled'[d]
  BY <1>2 DEF FlagsInv, ConnsOK
<1>8. CASE dup[k] = {} /\ was = None
  <2>1. UNCHANGED <<dup, last, spoke>>
    BY <1>8 DEF registerClient, Duplicates
  <2>2. SetsOK'
    BY <1>1, <1>2, <2>1 DEF SetsOK
  <2>3. Members(k) = {} /\ k \notin clients
    BY <1>1, <1>8 DEF SetsInv, SoleInv
  <2>4. SoleInv(k)'
    BY <1>1, <1>2, <1>4, <2>3 DEF SoleInv, SetsOK
  <2>5. SetsInv'
    BY <1>1, <1>2, <1>4, <1>8, <2>1, <2>4, OtherKeys DEF SetsOK
  <2>6. FlagsInv'
    <3>1. \A d \in Registered : KeyOf[d] # k
      BY <2>3 DEF Members
    <3>2. \A d \in Conns : isDup'[d] = IF d = c THEN FALSE ELSE isDup[d]
      BY <1>8, <1>1 DEF registerClient, MarkDuplicates, ConnsOK
    <3>3. \A d \in Registered' : isDup'[d] <=> dup'[KeyOf[d]] # {}
      <4> SUFFICES ASSUME NEW d \in Registered'
                   PROVE  isDup'[d] <=> dup'[KeyOf[d]] # {}
        OBVIOUS
      <4>1. CASE d = c
        BY <1>8, <2>1, <3>2, <4>1
      <4>2. CASE d # c
        BY <1>3, <2>1, <3>2, <4>2 DEF FlagsInv, DupFlagsExact, Registered
      <4> QED BY <4>1, <4>2
    <3> QED BY <1>7, <3>3 DEF FlagsInv, DupFlagsExact
  <2> QED BY <1>6, <2>2, <2>5, <2>6
<1>9. CASE dup[k] = {} /\ was # None
  <2>1. /\ dup' = [dup EXCEPT ![k] = {c, was}]
        /\ last' = [last EXCEPT ![k] = c]
        /\ spoke' = [spoke EXCEPT ![k] = <<was>>]
    BY <1>9 DEF registerClient, Duplicates
  <2>2. was \in Conns /\ Members(k) = {was} /\ was # c /\ k \in clients
    BY <1>1, <1>5, <1>9 DEF SetsInv, SoleInv
  <2>3. SetsOK'
    BY <1>1, <1>2, <2>1, <2>2 DEF SetsOK
  <2>4. /\ Distinct(<<was>>) /\ Spoke(<<was>>, was)
        /\ \A d : Spoke(<<was>>, d) => d = was
    BY DEF Distinct, Spoke
  <2>5. /\ dup'[k] = {c, was} /\ last'[k] = c /\ spoke'[k] = <<was>>
        /\ active'[k] = c /\ Members(k)' = {c, was} /\ k \in clients'
    BY <1>1, <1>2, <1>4, <2>1, <2>2 DEF SetsOK
  <2>6. DupInv(k)'
    BY <2>5, <2>2, <2>4 DEF DupInv
  <2>7. SetsInv'
    BY <1>1, <1>2, <1>4, <2>1, <2>6, <2>5, OtherKeys DEF SetsOK
  <2>8. FlagsInv'
    <3>1. \A d \in Registered : KeyOf[d] = k => d = was
      BY <2>2 DEF Members
    <3>2. \A d \in Conns : isDup'[d] <=> (d = c \/ isDup[d] \/ d = was)
      BY <1>9, <1>1 DEF registerClient, MarkDuplicates, ConnsOK
    <3>3. was \in Registered /\ KeyOf[was] = k
      BY <2>2 DEF Members
    <3>4. \A d \in Registered' : isDup'[d] <=> dup'[KeyOf[d]] # {}
      <4> SUFFICES ASSUME NEW d \in Registered'
                   PROVE  isDup'[d] <=> dup'[KeyOf[d]] # {}
        OBVIOUS
      <4>1. d \in Conns /\ KeyOf[d] \in Keys
        BY RegistryAssumption DEF Registered
      <4>2. CASE d = c
        BY <2>5, <3>2, <4>1, <4>2
      <4>3. CASE d = was
        BY <2>5, <3>2, <3>3, <4>1, <4>3
      <4>4. CASE d # c /\ d # was
        <5>1. d \in Registered /\ KeyOf[d] # k
          BY <1>3, <3>1, <4>4
        <5>2. dup'[KeyOf[d]] = dup[KeyOf[d]]
          BY <1>1, <2>1, <4>1, <5>1 DEF SetsOK
        <5> QED BY <3>2, <4>1, <4>4, <5>1, <5>2 DEF FlagsInv, DupFlagsExact
      <4> QED BY <4>2, <4>3, <4>4
    <3> QED BY <1>7, <3>4 DEF FlagsInv, DupFlagsExact
  <2> QED BY <1>6, <2>3, <2>7, <2>8
<1>10. CASE dup[k] # {}
  <2>1. /\ dup' = [dup EXCEPT ![k] = dup[k] \cup {c}]
        /\ last' = [last EXCEPT ![k] = c]
        /\ spoke' = [spoke EXCEPT ![k] = Spoken(spoke[k], c)]
    BY <1>10 DEF registerClient, Duplicates
  <2>2. DupInv(k) /\ was \in dup[k] /\ was \in Conns /\ spoke[k] \in Seq(Conns)
    BY <1>1, <1>10 DEF SetsInv, DupInv, SetsOK
  <2>3. /\ Spoken(spoke[k], c) \in Seq(Conns) /\ Distinct(Spoken(spoke[k], c))
        /\ \A d : Spoke(Spoken(spoke[k], c), d) <=> Spoke(spoke[k], d) \/ d = c
    BY <2>2, SpokenMembers DEF DupInv
  <2>4. SetsOK'
    BY <1>1, <1>2, <2>1, <2>3 DEF SetsOK
  <2>5. /\ dup'[k] = dup[k] \cup {c} /\ last'[k] = c
        /\ spoke'[k] = Spoken(spoke[k], c)
        /\ active'[k] = c /\ Members(k)' = Members(k) \cup {c} /\ k \in clients'
    BY <1>1, <1>2, <1>4, <2>1, <2>2 DEF SetsOK
  <2>6. DupInv(k)'
    <3>1. /\ dup'[k] = Members(k)' /\ last'[k] \in dup'[k]
          /\ active'[k] \in dup'[k]
      BY <2>5, <2>2 DEF DupInv
    <3>2. \A d \in Conns : Spoke(spoke'[k], d) => d \in dup'[k]
      BY <2>5, <2>2, <2>3 DEF DupInv
    <3>3. \A a, b \in dup'[k] :
            Spoke(spoke'[k], a) \/ Spoke(spoke'[k], b) \/ a = b
      BY <2>5, <2>2, <2>3 DEF DupInv
    <3>4. \A a \in Conns : dup'[k] # {a}
      BY <2>5, <2>2, <1>5 DEF DupInv
    <3> QED BY <2>5, <2>3, <3>1, <3>2, <3>3, <3>4 DEF DupInv
  <2>7. SetsInv'
    BY <1>1, <1>2, <1>4, <2>1, <2>6, <2>5, OtherKeys DEF SetsOK
  <2>8. FlagsInv'
    <3>1. \A d \in Conns : isDup'[d] <=> (d = c \/ isDup[d] \/ d = was)
      BY <1>1, <2>2 DEF registerClient, MarkDuplicates, ConnsOK
    <3>2. was \in Registered /\ KeyOf[was] = k
      BY <2>2 DEF Members, DupInv
    <3>3. \A j \in Keys : dup'[j] # {} <=> dup[j] # {}
      BY <1>1, <1>10, <2>1 DEF SetsOK
    <3>4. \A d \in Registered' : isDup'[d] <=> dup'[KeyOf[d]] # {}
      BY <1>3, <1>10, <3>1, <3>2, <3>3, RegistryAssumption
         DEF FlagsInv, DupFlagsExact, Registered
    <3> QED BY <1>7, <3>4 DEF FlagsInv, DupFlagsExact
  <2> QED BY <1>6, <2>4, <2>7, <2>8
<1> QED BY <1>8, <1>9, <1>10

\* unregisterClient keeps the invariant: the only one, one of two, one of more.
LEMMA UnregisterReg ==
  ASSUME RegInv, NEW c \in Conns, unregisterClient(c)
  PROVE  RegInv'
<1> DEFINE k == KeyOf[c]
           home == IF preferred[c] THEN -1 ELSE 0
<1> USE DEF RegInv
<1>1. k \in Keys /\ None \notin Conns
  BY RegistryAssumption
<1>2. /\ reader[c] = "run"
      /\ reader' = [reader EXCEPT ![c] = "off"]
      /\ sender' = [sender EXCEPT ![c] = "off"]
      /\ UNCHANGED preferred
  BY DEF unregisterClient, At
<1>3. c \in Registered /\ Registered' = Registered \ {c}
  BY <1>2 DEF Registered, ConnsOK
<1>4. \A j \in Keys : Members(j)' = IF j = k THEN Members(k) \ {c}
                                    ELSE Members(j)
  BY <1>3 DEF Members
<1>5. c \in Members(k)
  BY <1>3 DEF Members
<1>6. reader' \in [Conns -> {"off", "run", "note", "handle"}]
      /\ sender' \in [Conns -> {"off", "run", "done"}]
      /\ home \in Int
  BY <1>2 DEF ConnsOK
<1>7. CASE UnregisterOnly(c, k, home)
  <2>1. /\ dup[k] = {} /\ active[k] = c
        /\ active' = [active EXCEPT ![k] = None]
        /\ clients' = clients \ {k}
        /\ UNCHANGED <<dup, last, spoke, flagVars>>
    BY <1>7 DEF UnregisterOnly
  <2>2. SetsOK'
    BY <1>1, <2>1 DEF SetsOK
  <2>3. gauges' \in [Gauges -> Int]
    BY <1>6, <1>7, AddType DEF UnregisterOnly, ConnsOK
  <2>4. ConnsOK'
    BY <1>2, <1>6, <2>1, <2>3 DEF ConnsOK, flagVars
  <2>5. Members(k) = {c}
    BY <1>1, <1>5, <2>1 DEF SetsInv, SoleInv
  <2>6. SoleInv(k)'
    BY <1>1, <1>4, <2>1, <2>5 DEF SoleInv, SetsOK
  <2>7. SetsInv'
    BY <1>1, <1>4, <2>1, <2>6, OtherKeys DEF SetsOK
  <2>8. FlagsInv'
    BY <1>3, <2>1 DEF FlagsInv, DupFlagsExact, flagVars
  <2> QED BY <2>2, <2>4, <2>7, <2>8
<1>8. CASE UnregisterDemote(c, k, home)
  <2>1. PICK remain \in Conns :
          /\ dup[k] # {} /\ dup[k] \ {c} = {remain}
          /\ dup' = [dup EXCEPT ![k] = {}]
          /\ last' = [last EXCEPT ![k] = None]
          /\ spoke' = [spoke EXCEPT ![k] = <<>>]
          /\ isDup' = [isDup EXCEPT ![remain] = FALSE]
          /\ isDisabled' = [isDisabled EXCEPT ![remain] = FALSE]
          /\ active' = [active EXCEPT ![k] = remain]
          /\ Add(-1, home, 0, -1, -Demoted)
          /\ clients' = clients
    BY <1>8 DEF UnregisterDemote, LeavesOnly
  <2>2. SetsOK'
    BY <1>1, <2>1 DEF SetsOK
  <2>3. gauges' \in [Gauges -> Int]
    BY <1>6, <2>1, AddType DEF ConnsOK, Demoted
  <2>4. ConnsOK'
    BY <1>2, <1>6, <2>1, <2>3 DEF ConnsOK
  <2>5. dup[k] = Members(k) /\ Members(k)' = {remain} /\ k \in clients
    BY <1>1, <1>4, <2>1 DEF SetsInv, DupInv
  <2>6. /\ dup'[k] = {} /\ active'[k] = remain
        /\ SoleInv(k)'
    BY <1>1, <2>1, <2>5 DEF SoleInv, SetsOK
  <2>7. SetsInv'
    BY <1>1, <1>4, <2>1, <2>6, OtherKeys DEF SetsOK
  <2>8. FlagsInv'
    <3>1. remain \in Registered /\ KeyOf[remain] = k
      BY <2>1, <2>5 DEF Members
    <3>2. \A d \in Registered' : KeyOf[d] = k => d = remain
      BY <1>3, <2>1, <2>5 DEF Members
    <3>3. \A d \in Conns : isDup'[d] <=> (isDup[d] /\ d # remain)
      BY <2>1 DEF ConnsOK
    <3>4. \A d \in Conns : ~isDisabled'[d]
      BY <2>1 DEF FlagsInv, ConnsOK
    <3>5. \A j \in Keys : j # k => dup'[j] = dup[j]
      BY <1>1, <2>1 DEF SetsOK
    <3>6. \A d \in Registered' : isDup'[d] <=> dup'[KeyOf[d]] # {}
      BY <1>3, <2>6, <3>1, <3>2, <3>3, <3>5, RegistryAssumption
         DEF FlagsInv, DupFlagsExact, Registered
    <3> QED BY <3>4, <3>6 DEF FlagsInv, DupFlagsExact
  <2> QED BY <2>2, <2>4, <2>7, <2>8
<1>9. CASE UnregisterDup(c, k, home)
  <2> DEFINE rest == Without(spoke[k], c)
  <2>1. /\ dup[k] # {} /\ \A r \in Conns : dup[k] \ {c} # {r}
        /\ dup' = [dup EXCEPT ![k] = dup[k] \ {c}]
        /\ last' = [last EXCEPT ![k] = NextLast(k, c)]
        /\ spoke' = [spoke EXCEPT ![k] = rest]
        /\ active' = [active EXCEPT ![k] = pickActiveClient(k, c)]
        /\ Add(-1, home, 0, 0, -1)
        /\ clients' = clients /\ UNCHANGED flagVars
    BY <1>9 DEF UnregisterDup
  <2>2. DupInv(k) /\ spoke[k] \in Seq(Conns) /\ dup[k] \subseteq Conns
    BY <1>1, <2>1 DEF SetsInv, SetsOK
  <2>3. /\ rest \in Seq(Conns) /\ Distinct(rest)
        /\ \A d : Spoke(rest, d) <=> Spoke(spoke[k], d) /\ d # c
    BY <2>2, WithoutMembers DEF DupInv
  <2> HIDE DEF rest
  <2>4. \A a \in Conns : dup[k] # {a}
    BY <2>2 DEF DupInv
  <2>5. PICK a \in dup[k] \ {c}, b \in dup[k] \ {c} : a # b
    BY <1>5, <2>1, <2>2, <2>4
  <2>6. \E d \in {a, b} : Spoke(rest, d)
    BY <2>2, <2>3, <2>5 DEF DupInv
  <2>7. Spoke(rest, LastOf(rest, None))
    BY <2>3, <2>6, LastSpoke
  <2>8. \E i \in DOMAIN rest : rest[i] = LastOf(rest, None)
    BY <2>7 DEF Spoke
  <2>9. LastOf(rest, None) \in Conns
    BY <2>3, <2>8
  <2>10. NextLast(k, c) \in dup[k] \ {c}
    <3>1. CASE last[k] = c
      BY <2>2, <2>3, <2>7, <2>9, <3>1 DEF NextLast, DupInv, rest
    <3>2. CASE last[k] # c
      BY <2>2, <3>2 DEF NextLast, DupInv
    <3> QED BY <3>1, <3>2
  <2>11. pickActiveClient(k, c) \in dup[k] \ {c}
    BY <1>1, <2>2, <2>10 DEF pickActiveClient, FlagsInv
  <2>12. SetsOK'
    BY <1>1, <2>1, <2>2, <2>3, <2>10, <2>11 DEF SetsOK
  <2>13. gauges' \in [Gauges -> Int]
    BY <1>6, <2>1, AddType DEF ConnsOK
  <2>14. ConnsOK'
    BY <1>2, <1>6, <2>1, <2>13 DEF ConnsOK, flagVars
  <2>15. /\ dup'[k] = dup[k] \ {c} /\ last'[k] \in dup[k] \ {c}
        /\ spoke'[k] = rest /\ active'[k] \in dup[k] \ {c}
        /\ Members(k)' = Members(k) \ {c} /\ k \in clients'
    BY <1>1, <1>4, <2>1, <2>2, <2>10, <2>11 DEF SetsOK, DupInv
  <2>16. DupInv(k)'
    <3>1. dup'[k] = Members(k)'
      BY <2>15, <2>2 DEF DupInv
    <3>2. \A d \in Conns : Spoke(spoke'[k], d) => d \in dup'[k]
      BY <2>15, <2>2, <2>3 DEF DupInv
    <3>3. \A x, y \in dup'[k] :
            Spoke(spoke'[k], x) \/ Spoke(spoke'[k], y) \/ x = y
      BY <2>15, <2>2, <2>3 DEF DupInv
    <3>4. \A x \in Conns : dup'[k] # {x}
      BY <2>15, <2>5
    <3> QED BY <2>15, <2>3, <3>1, <3>2, <3>3, <3>4 DEF DupInv
  <2>17. SetsInv'
    BY <1>1, <1>4, <2>1, <2>5, <2>15, <2>16, OtherKeys DEF SetsOK
  <2>18. FlagsInv'
    <3>1. \A j \in Keys : dup'[j] # {} <=> dup[j] # {}
      BY <1>1, <2>1, <2>5 DEF SetsOK
    <3> QED BY <1>3, <2>1, <3>1, RegistryAssumption
         DEF FlagsInv, DupFlagsExact, flagVars, Registered
  <2> QED BY <2>12, <2>14, <2>17, <2>18
<1> QED BY <1>7, <1>8, <1>9 DEF unregisterClient

\* A step that leaves sets and flags alone, and registers nobody.
LEMMA StableReg ==
  ASSUME RegInv, UNCHANGED <<setVars, flagVars>>, Registered' = Registered,
         ConnsOK'
  PROVE  RegInv'
<1> USE DEF RegInv, setVars, flagVars
<1>1. \A k \in Keys : Members(k)' = Members(k)
  BY DEF Members
<1>2. SetsOK'
  BY DEF SetsOK
<1>3. SetsInv'
  BY <1>1 DEF SetsInv, DupInv, SoleInv
<1>4. FlagsInv'
  BY DEF FlagsInv, DupFlagsExact
<1> QED BY <1>2, <1>3, <1>4

\* noteClientActivity keeps the invariant: the speaker becomes last and active.
LEMMA NoteReg ==
  ASSUME RegInv, DupPolicy = "lastWriterIsActive", NEW c \in Conns,
         noteClientActivity(c)
  PROVE  RegInv'
<1> DEFINE k == KeyOf[c]
<1> USE DEF RegInv
<1>1. /\ k \in Keys /\ reader[c] = "note"
      /\ reader' = [reader EXCEPT ![c] = "handle"]
      /\ UNCHANGED <<sender, clients, dup, isDup, preferred, gauges>>
  BY RegistryAssumption DEF noteClientActivity, At
<1>2. Registered' = Registered /\ c \in Registered
  BY <1>1 DEF Registered, ConnsOK
<1>3. \A j \in Keys : Members(j)' = Members(j)
  BY <1>2 DEF Members
<1>4. CASE dup[k] = {}
  <2>1. UNCHANGED <<setVars, flagVars>>
    BY <1>1, <1>4 DEF noteClientActivity, setVars, flagVars
  <2>2. ConnsOK'
    BY <1>1, <2>1 DEF ConnsOK, flagVars
  <2> QED BY <1>2, <2>1, <2>2, StableReg
<1>5. CASE dup[k] # {}
  <2>1. /\ last' = [last EXCEPT ![k] = c]
        /\ active' = [active EXCEPT ![k] = c]
        /\ spoke' = [spoke EXCEPT ![k] = Spoken(spoke[k], c)]
        /\ isDisabled' = [d \in Conns |-> isDisabled[d] \/ FALSE]
    BY <1>5 DEF noteClientActivity, NextActive, Takes, Fighting
  <2>2. DupInv(k) /\ spoke[k] \in Seq(Conns) /\ c \in dup[k]
    BY <1>1, <1>2, <1>5 DEF SetsInv, SetsOK, DupInv, Members
  <2>3. /\ Spoken(spoke[k], c) \in Seq(Conns) /\ Distinct(Spoken(spoke[k], c))
        /\ \A d : Spoke(Spoken(spoke[k], c), d) <=> Spoke(spoke[k], d) \/ d = c
    BY <2>2, SpokenMembers DEF DupInv
  <2>4. SetsOK'
    BY <1>1, <2>1, <2>3 DEF SetsOK
  <2>5. /\ last'[k] = c /\ active'[k] = c /\ spoke'[k] = Spoken(spoke[k], c)
        /\ dup'[k] = dup[k] /\ k \in clients'
    BY <1>1, <2>1, <2>2 DEF SetsOK, DupInv
  <2>6. DupInv(k)'
    BY <1>1, <1>3, <2>2, <2>3, <2>5 DEF DupInv
  <2>7. SetsInv'
    BY <1>1, <1>3, <1>5, <2>1, <2>5, <2>6, OtherKeys DEF SetsOK
  <2>8. isDisabled' \in [Conns -> BOOLEAN] /\ \A d \in Conns : ~isDisabled'[d]
    BY <2>1 DEF FlagsInv, ConnsOK
  <2>9. ConnsOK'
    BY <1>1, <2>8 DEF ConnsOK
  <2>10. FlagsInv'
    BY <1>1, <1>2, <2>8 DEF FlagsInv, DupFlagsExact
  <2> QED BY <2>4, <2>7, <2>9, <2>10
<1> QED BY <1>4, <1>5

\* A step of a reader goroutine keeps the invariant.
LEMMA ReaderReg ==
  ASSUME RegInv, DupPolicy = "lastWriterIsActive", NEW c \in Conns, Reader(c)
  PROVE  RegInv'
<1> USE DEF RegInv
<1>1. ASSUME NEW label \in {"run", "note", "handle"}, reader[c] # "off",
             reader' = [reader EXCEPT ![c] = label],
             UNCHANGED <<sender, setVars, flagVars, preferred, gauges>>
      PROVE  RegInv'
  <2>1. Registered' = Registered
    BY <1>1 DEF Registered, ConnsOK
  <2>2. ConnsOK'
    BY <1>1 DEF ConnsOK, flagVars
  <2> QED BY <1>1, <2>1, <2>2, StableReg
<1>2. CASE ReadFrame(c)
  BY <1>1, <1>2 DEF ReadFrame, At
<1>3. CASE setPreferred(c)
  <2>1. Registered' = Registered
    BY <1>3 DEF setPreferred, Handled, At, Registered, ConnsOK
  <2>2. reader' \in [Conns -> {"off", "run", "note", "handle"}]
        /\ UNCHANGED <<sender, setVars, flagVars>>
        /\ preferred' = [preferred EXCEPT ![c] = ~preferred[c]]
    BY <1>3 DEF setPreferred, Handled, ConnsOK
  <2>3. gauges' \in [Gauges -> Int]
    BY <1>3, AddType DEF setPreferred, ConnsOK
  <2>4. ConnsOK'
    BY <2>2, <2>3 DEF ConnsOK, flagVars
  <2> QED BY <2>1, <2>2, <2>4, StableReg
<1>4. CASE addWatcher(c)
  BY <1>1, <1>4 DEF addWatcher, Handled, At
<1>5. CASE OtherFrame(c)
  BY <1>1, <1>5 DEF OtherFrame, Handled, At
<1>6. ASSUME NEW k \in Keys, NEW d \in Conns, SendPacket(c, k, d)
      PROVE  RegInv'
  BY <1>1, <1>6 DEF SendPacket, Handled, At
<1> QED BY <1>2, <1>3, <1>4, <1>5, <1>6, RegisterReg, UnregisterReg,
           NoteReg DEF Reader

\* A step of a sender goroutine keeps the invariant.
LEMMA SenderReg ==
  ASSUME RegInv, NEW c \in Conns, Sender(c)
  PROVE  RegInv'
<1> USE DEF RegInv
<1>1. UNCHANGED <<reader, setVars, flagVars, preferred, gauges>>
  BY DEF Sender, SendQueued, SendPeerGone, sendMeshUpdates, onSendLoopDone
<1>2. sender' \in [Conns -> {"off", "run", "done"}]
  BY DEF Sender, SendQueued, SendPeerGone, sendMeshUpdates, onSendLoopDone,
         ConnsOK
<1>3. ConnsOK'
  BY <1>1, <1>2 DEF ConnsOK, flagVars
<1>4. Registered' = Registered
  BY <1>1 DEF Registered
<1> QED BY <1>1, <1>3, <1>4, StableReg

\* Mesh forwarding keeps the invariant.
LEMMA MeshReg ==
  ASSUME RegInv, Mesh \/ UNCHANGED vars
  PROVE  RegInv'
<1>1. UNCHANGED <<reader, sender, setVars, flagVars, preferred, gauges>>
  BY DEF Mesh, AddPacketForwarder, RemovePacketForwarder, vars
<1>2. ConnsOK' /\ Registered' = Registered
  BY <1>1 DEF RegInv, ConnsOK, Registered, flagVars
<1> QED BY <1>1, <1>2, StableReg

\* An empty registry satisfies the invariant.
LEMMA InitReg == Init => RegInv
<1> SUFFICES ASSUME Init PROVE RegInv
  OBVIOUS
<1>1. SetsOK /\ ConnsOK
  BY DEF Init, SetsOK, ConnsOK, Gauges
<1>2. Registered = {}
  BY DEF Init, Registered
<1>3. SetsInv
  BY <1>2 DEF Init, SetsInv, SoleInv, Members
<1>4. FlagsInv
  BY <1>2 DEF Init, FlagsInv, DupFlagsExact
<1> QED BY <1>1, <1>3, <1>4 DEF RegInv

\* RegInv holds in every reachable state.
THEOREM RegistryInvariant ==
  ASSUME DupPolicy = "lastWriterIsActive"
  PROVE  Spec => []RegInv
<1>1. RegInv /\ [Next]_vars => RegInv'
  BY ReaderReg, SenderReg, MeshReg DEF Next
<1> QED BY InitReg, <1>1, PTL DEF Spec

\* A connected key always has an active connection of its own, however many
\* duplicates connect, speak and leave (registerClient, unregisterClient,
\* noteClientActivity).
THEOREM NeverUnroutable ==
  ASSUME DupPolicy = "lastWriterIsActive"
  PROVE  Spec => []AlwaysRoutable
<1>1. RegInv => AlwaysRoutable
  <2> SUFFICES ASSUME RegInv, NEW k \in clients
               PROVE  active[k] \in Registered /\ KeyOf[active[k]] = k
    BY DEF AlwaysRoutable
  <2>1. k \in Keys
    BY DEF RegInv, SetsOK
  <2> QED BY <2>1 DEF RegInv, SetsInv, DupInv, SoleInv, Members
<1> QED BY RegistryInvariant, <1>1, PTL

\* unregisterClient never meets what it logs as "[unexpected]".
THEOREM UnregisterExpected ==
  ASSUME DupPolicy = "lastWriterIsActive"
  PROVE  Spec => []NeverUnexpected
<1>1. RegInv => NeverUnexpected
  <2> SUFFICES ASSUME RegInv, NEW c \in Registered
               PROVE  /\ KeyOf[c] \in clients
                      /\ dup[KeyOf[c]] = {} => active[KeyOf[c]] = c
                      /\ dup[KeyOf[c]] # {} => c \in dup[KeyOf[c]]
    BY DEF NeverUnexpected
  <2>1. KeyOf[c] \in Keys /\ c \in Members(KeyOf[c])
    BY RegistryAssumption DEF Registered, Members
  <2> QED BY <2>1 DEF RegInv, SetsInv, DupInv, SoleInv
<1> QED BY RegistryInvariant, <1>1, PTL

\* isDup is set exactly on the connections of keys that have several, so
\* noteClientActivity never returns early for one of them.
THEOREM DupFlagsCorrect ==
  ASSUME DupPolicy = "lastWriterIsActive"
  PROVE  Spec => []DupFlagsExact
<1>1. RegInv => DupFlagsExact
  BY DEF RegInv, FlagsInv
<1> QED BY RegistryInvariant, <1>1, PTL

-----------------------------------------------------------------------------
\* Both goroutines of a connection run or neither does.
PhaseInv == \A c \in Conns : reader[c] = "off" <=> sender[c] = "off"

\* Watchers are registered, and who is no watcher has nothing queued.
WatchInv ==
  /\ \A c \in watchers : reader[c] # "off"
  /\ \A c \in Conns : sender[c] # "run" => told[c] = {}
  /\ \A c \in Conns : sender[c] = "run" /\ c \notin watchers =>
                        changes[c] = NoChange /\ told[c] = {}
  /\ WatchersInformed

\* The inductive invariant of what others are told.
ViewInv == ViewsOK /\ MeshConsistent /\ PhaseInv /\ WatchInv /\ NoDanglingWatch

\* Steps that change neither what is watched nor who is connected.
LEMMA StableWatch ==
  ASSUME WatchInv, ViewsOK, UNCHANGED <<clients, watchVars, sender>>,
         \A c \in Conns : reader[c] # "off" => reader'[c] # "off"
  PROVE  WatchInv'
BY DEF WatchInv, WatchersInformed, Told, watchVars, ViewsOK

\* Steps that change no watch leave none dangling.
LEMMA StableGone ==
  ASSUME NoDanglingWatch, UNCHANGED <<sawSrc, goneWatch, sender>>
  PROVE  NoDanglingWatch'
BY DEF NoDanglingWatch

\* notePeerGoneFromRegionLocked only drops watches.
LEMMA GoneSent ==
  ASSUME ViewsOK, NEW k \in Keys, notePeerGoneFromRegionLocked(k)
  PROVE  /\ goneMsg' \in [Conns -> SUBSET Keys]
         /\ goneWatch' \in [Keys -> SUBSET Conns]
         /\ \A j \in Keys : goneWatch'[j] \subseteq goneWatch[j]
         /\ UNCHANGED <<queued, sawSrc, routes>>
BY DEF notePeerGoneFromRegionLocked, ViewsOK

\* broadcastPeerStateChangeLocked changes one key of the watchers' queues.
LEMMA Broadcast ==
  ASSUME ViewsOK,
         NEW queues \in [Conns -> [Keys -> {"same", "present", "gone"}]],
         NEW k \in Keys, NEW change \in {"present", "gone"},
         broadcastPeerStateChangeLocked(queues, k, change)
  PROVE  /\ changes' \in [Conns -> [Keys -> {"same", "present", "gone"}]]
         /\ \A w \in Conns \ watchers : changes'[w] = queues[w]
         /\ \A w \in watchers :
              /\ changes'[w][k] = change
              /\ \A j \in Keys \ {k} : changes'[w][j] = queues[w][j]
BY DEF broadcastPeerStateChangeLocked, ViewsOK

\* registerClient keeps ViewInv: every watcher gets "present".
LEMMA RegisterView ==
  ASSUME RegInv, ViewInv, NEW c \in Conns, registerClient(c)
  PROVE  ViewInv'
<1> DEFINE k == KeyOf[c]
           q == [changes EXCEPT ![c] = NoChange]
<1> USE DEF ViewInv
<1>1. /\ k \in Keys /\ reader[c] = "off" /\ sender[c] = "off"
      /\ reader' = [reader EXCEPT ![c] = "run"]
      /\ sender' = [sender EXCEPT ![c] = "run"]
      /\ clients' = clients \cup {k} /\ meshKeys' = meshKeys \cup {k}
      /\ queued' = [queued EXCEPT ![c] = {}]
      /\ tracked' \subseteq tracked \cup {c}
      /\ UNCHANGED <<fwd, watchers, told, sawSrc, goneWatch, goneMsg, routes>>
  BY RegistryAssumption DEF registerClient, At, PhaseInv
<1>2. reader \in [Conns -> {"off", "run", "note", "handle"}]
      /\ sender \in [Conns -> {"off", "run", "done"}]
  BY DEF RegInv, ConnsOK
<1>3. q \in [Conns -> [Keys -> {"same", "present", "gone"}]]
  BY DEF ViewsOK, NoChange
<1>4. broadcastPeerStateChangeLocked(q, k, "present")
  BY DEF registerClient
<1> HIDE DEF q
<1>5. /\ changes' \in [Conns -> [Keys -> {"same", "present", "gone"}]]
      /\ \A w \in Conns \ watchers : changes'[w] = q[w]
      /\ \A w \in watchers : /\ changes'[w][k] = "present"
                             /\ \A j \in Keys \ {k} : changes'[w][j] = q[w][j]
  BY <1>1, <1>3, <1>4, Broadcast
<1>6. ViewsOK'
  BY <1>1, <1>5 DEF ViewsOK
<1>7. MeshConsistent'
  BY <1>1 DEF MeshConsistent
<1>8. PhaseInv'
  BY <1>1, <1>2 DEF PhaseInv
<1>9. /\ c \notin watchers /\ q[c] = NoChange
      /\ \A w \in Conns \ {c} : q[w] = changes[w]
  BY <1>1 DEF WatchInv, q, ViewsOK
<1>10. WatchersInformed'
  <2> SUFFICES ASSUME NEW w \in watchers, sender'[w] = "run"
               PROVE  Told(w)' = clients \cup {k}
    BY <1>1 DEF WatchersInformed
  <2>1. w \in Conns \ {c} /\ sender[w] = "run"
    BY <1>1, <1>2, <1>9 DEF ViewsOK
  <2>2. Told(w) = clients
    BY <2>1 DEF WatchInv, WatchersInformed
  <2>3. \A j \in Keys \ {k} : changes'[w][j] = changes[w][j]
    BY <1>5, <1>9, <2>1
  <2> QED BY <1>1, <1>5, <2>2, <2>3 DEF Told
<1>11. WatchInv'
  BY <1>1, <1>2, <1>5, <1>9, <1>10 DEF WatchInv
<1>12. NoDanglingWatch'
  BY <1>1, <1>2 DEF NoDanglingWatch, ViewsOK
<1> QED BY <1>6, <1>7, <1>8, <1>11, <1>12

\* unregisterClient keeps ViewInv: "gone" only with the last connection.
LEMMA UnregisterView ==
  ASSUME RegInv, ViewInv, NEW c \in Conns, unregisterClient(c)
  PROVE  ViewInv'
<1> DEFINE k == KeyOf[c]
           home == IF preferred[c] THEN -1 ELSE 0
<1> USE DEF ViewInv
<1>1. /\ k \in Keys /\ reader[c] = "run" /\ sender[c] = "done"
      /\ reader' = [reader EXCEPT ![c] = "off"]
      /\ sender' = [sender EXCEPT ![c] = "off"]
      /\ watchers' = watchers \ {c} /\ tracked' \subseteq tracked
      /\ UNCHANGED <<fwd, told>>
  BY RegistryAssumption DEF unregisterClient, At
<1>2. reader \in [Conns -> {"off", "run", "note", "handle"}]
      /\ sender \in [Conns -> {"off", "run", "done"}]
  BY DEF RegInv, ConnsOK
<1>3. PhaseInv'
  BY <1>1, <1>2 DEF PhaseInv
<1>4. \A j \in Keys : c \notin goneWatch[j]
  BY <1>1 DEF NoDanglingWatch
<1>5. ASSUME UNCHANGED <<clients, meshKeys, changes, goneVars>>
      PROVE  ViewInv'
  <2>1. ViewsOK'
    BY <1>1, <1>5 DEF ViewsOK, goneVars
  <2>2. MeshConsistent'
    BY <1>1, <1>5 DEF MeshConsistent
  <2>3. WatchInv'
    BY <1>1, <1>2, <1>5 DEF WatchInv, WatchersInformed, Told, ViewsOK
  <2>4. NoDanglingWatch'
    BY <1>1, <1>2, <1>4, <1>5 DEF NoDanglingWatch, goneVars, ViewsOK
  <2> QED BY <1>3, <2>1, <2>2, <2>3, <2>4
<1>6. CASE UnregisterOnly(c, k, home)
  <2>1. /\ clients' = clients \ {k}
        /\ broadcastPeerStateChangeLocked(changes, k, "gone")
        /\ \/ fwd[k] = {} /\ meshKeys' = meshKeys \ {k}
              /\ notePeerGoneFromRegionLocked(k)
           \/ fwd[k] # {} /\ UNCHANGED <<meshKeys, goneVars>>
    BY <1>6 DEF UnregisterOnly
  <2>2. /\ changes' \in [Conns -> [Keys -> {"same", "present", "gone"}]]
        /\ \A w \in Conns \ watchers : changes'[w] = changes[w]
        /\ \A w \in watchers :
             /\ changes'[w][k] = "gone"
             /\ \A j \in Keys \ {k} : changes'[w][j] = changes[w][j]
    BY <1>1, <2>1, Broadcast DEF ViewsOK
  <2>3. /\ goneMsg' \in [Conns -> SUBSET Keys]
        /\ goneWatch' \in [Keys -> SUBSET Conns]
        /\ \A j \in Keys : goneWatch'[j] \subseteq goneWatch[j]
        /\ UNCHANGED <<queued, sawSrc, routes>>
    BY <1>1, <2>1, GoneSent DEF goneVars, ViewsOK
  <2>4. ViewsOK'
    BY <1>1, <2>1, <2>2, <2>3 DEF ViewsOK
  <2>5. MeshConsistent'
    BY <1>1, <2>1 DEF MeshConsistent
  <2>6. WatchersInformed'
    <3> SUFFICES ASSUME NEW w \in watchers \ {c}, sender'[w] = "run"
                 PROVE  Told(w)' = clients \ {k}
      BY <1>1, <2>1 DEF WatchersInformed
    <3>1. w \in Conns /\ sender[w] = "run"
      BY <1>1, <1>2 DEF ViewsOK
    <3>2. Told(w) = clients
      BY <3>1 DEF WatchInv, WatchersInformed
    <3> QED BY <1>1, <2>2, <3>2 DEF Told
  <2>7. WatchInv'
    BY <1>1, <1>2, <2>2, <2>6 DEF WatchInv
  <2>8. NoDanglingWatch'
    BY <1>1, <1>2, <1>4, <2>3 DEF NoDanglingWatch, ViewsOK
  <2> QED BY <1>3, <2>4, <2>5, <2>7, <2>8
<1>7. CASE UnregisterDemote(c, k, home)
  BY <1>5, <1>7 DEF UnregisterDemote
<1>8. CASE UnregisterDup(c, k, home)
  BY <1>5, <1>8 DEF UnregisterDup
<1> QED BY <1>6, <1>7, <1>8 DEF unregisterClient

\* Frames that touch neither views nor watches.
LEMMA FrameView ==
  ASSUME RegInv, ViewInv, NEW c \in Conns, reader[c] # "off",
         NEW label \in {"run", "note", "handle"},
         reader' = [reader EXCEPT ![c] = label],
         queued' \in [Conns -> SUBSET Keys],
         UNCHANGED <<sender, clients, meshVars, tracked, watchVars, sawSrc,
                     goneWatch, goneMsg, routes>>
  PROVE  ViewInv'
<1> USE DEF ViewInv, meshVars
<1>1. \A d \in Conns : reader'[d] = "off" <=> reader[d] = "off"
  BY DEF RegInv, ConnsOK
<1>2. ViewsOK'
  BY DEF ViewsOK, watchVars
<1>3. MeshConsistent'
  BY DEF MeshConsistent
<1>4. PhaseInv'
  BY <1>1 DEF PhaseInv
<1> QED BY <1>1, <1>2, <1>3, <1>4, StableWatch, StableGone

\* addWatcher keeps ViewInv: the snapshot catches up with the registry.
LEMMA AddWatcherView ==
  ASSUME RegInv, ViewInv, NEW c \in Conns, addWatcher(c)
  PROVE  ViewInv'
<1> USE DEF ViewInv
<1>1. /\ reader[c] = "handle" /\ reader' = [reader EXCEPT ![c] = "run"]
      /\ changes' = [changes EXCEPT ![c] =
           [k \in Keys |-> IF k \in clients /\ active[k] # None THEN "present"
                           ELSE changes[c][k]]]
      /\ watchers' = watchers \cup {c}
      /\ UNCHANGED <<sender, clients, meshVars, tracked, told, goneVars>>
  BY DEF addWatcher, Snapshot, Handled, At, setVars
<1>2. \A k \in clients : active[k] # None
  BY RegistryAssumption DEF RegInv, SetsInv, SetsOK, DupInv, SoleInv
<1>3. \A k \in Keys : changes'[c][k] = IF k \in clients THEN "present"
                                       ELSE changes[c][k]
  BY <1>1, <1>2 DEF ViewsOK
<1>4. \A w \in Conns \ {c} : changes'[w] = changes[w]
  BY <1>1 DEF ViewsOK
<1>5. changes' \in [Conns -> [Keys -> {"same", "present", "gone"}]]
  BY <1>1 DEF ViewsOK
<1>6. ViewsOK'
  BY <1>1, <1>5 DEF ViewsOK, meshVars, goneVars
<1>7. \A d \in Conns : reader'[d] = "off" <=> reader[d] = "off"
  BY <1>1 DEF RegInv, ConnsOK
<1>8. MeshConsistent'
  BY <1>1 DEF MeshConsistent, meshVars
<1>9. PhaseInv'
  BY <1>1, <1>7 DEF PhaseInv
<1>10. ASSUME sender[c] = "run"
       PROVE  Told(c)' = clients
  <2>1. \A k \in Keys \ clients :
          /\ changes[c][k] # "present"
          /\ ~(changes[c][k] = "same" /\ k \in told[c])
    <3>1. CASE c \in watchers
      BY <1>10, <3>1 DEF WatchInv, WatchersInformed, Told
    <3>2. CASE c \notin watchers
      BY <1>10, <3>2 DEF WatchInv, NoChange
    <3> QED BY <3>1, <3>2
  <2>2. clients \subseteq Keys /\ told' = told
    BY <1>1 DEF RegInv, SetsOK
  <2> QED BY <1>3, <2>1, <2>2 DEF Told
<1>11. WatchersInformed'
  <2> SUFFICES ASSUME NEW w \in watchers', sender[w] = "run"
               PROVE  Told(w)' = clients
    BY <1>1 DEF WatchersInformed
  <2>1. CASE w = c
    BY <1>10, <2>1
  <2>2. CASE w # c
    BY <1>1, <1>4, <2>2 DEF WatchInv, WatchersInformed, Told, ViewsOK
  <2> QED BY <2>1, <2>2
<1>12. WatchInv'
  BY <1>1, <1>4, <1>7, <1>11 DEF WatchInv, ViewsOK
<1>13. NoDanglingWatch'
  BY <1>1, StableGone DEF goneVars
<1> QED BY <1>6, <1>8, <1>9, <1>12, <1>13

\* A step of a reader goroutine keeps ViewInv.
LEMMA ReaderView ==
  ASSUME RegInv, ViewInv, NEW c \in Conns, Reader(c)
  PROVE  ViewInv'
<1>1. queued \in [Conns -> SUBSET Keys]
  BY DEF ViewInv, ViewsOK
<1>2. CASE ReadFrame(c)
  BY <1>1, <1>2, FrameView DEF ReadFrame, At, setVars, goneVars
<1>3. CASE setPreferred(c)
  BY <1>1, <1>3, FrameView DEF setPreferred, Handled, At, setVars, goneVars
<1>4. CASE noteClientActivity(c)
  BY <1>1, <1>4, FrameView DEF noteClientActivity, At, goneVars
<1>5. CASE OtherFrame(c)
  BY <1>1, <1>5, FrameView DEF OtherFrame, Handled, At, setVars, goneVars
<1>6. ASSUME NEW k \in Keys, NEW d \in Conns, SendPacket(c, k, d)
      PROVE  ViewInv'
  <2>1. queued' \in [Conns -> SUBSET Keys]
    BY <1>1, <1>6 DEF SendPacket
  <2> QED BY <1>6, <2>1, FrameView DEF SendPacket, Handled, At, setVars
<1> QED BY <1>2, <1>3, <1>4, <1>5, <1>6, RegisterView, UnregisterView,
           AddWatcherView DEF Reader

\* A step of a sender goroutine keeps ViewInv.
LEMMA SenderView ==
  ASSUME RegInv, ViewInv, NEW c \in Conns, Sender(c)
  PROVE  ViewInv'
<1> USE DEF ViewInv
<1>1. UNCHANGED <<reader, clients, meshVars, tracked, watchers>>
  BY DEF Sender, SendQueued, SendPeerGone, sendMeshUpdates, onSendLoopDone,
         setVars, watchVars
<1>2. MeshConsistent'
  BY <1>1 DEF MeshConsistent, meshVars
<1>3. ASSUME NEW k \in Keys, SendQueued(c, k)
      PROVE  ViewInv'
  <2>1. ViewsOK'
    BY <1>1, <1>3 DEF SendQueued, ViewsOK, meshVars, watchVars
  <2>2. PhaseInv'
    BY <1>1, <1>3 DEF SendQueued, PhaseInv
  <2>3. WatchInv'
    BY <1>1, <1>3, StableWatch DEF SendQueued
  <2>4. NoDanglingWatch'
    BY <1>3 DEF SendQueued, NoDanglingWatch, ViewsOK
  <2> QED BY <1>2, <2>1, <2>2, <2>3, <2>4
<1>4. ASSUME NEW k \in Keys, SendPeerGone(c, k)
      PROVE  ViewInv'
  <2>1. ViewsOK'
    BY <1>1, <1>4 DEF SendPeerGone, ViewsOK, meshVars, watchVars
  <2>2. PhaseInv'
    BY <1>1, <1>4 DEF SendPeerGone, PhaseInv
  <2>3. WatchInv' /\ NoDanglingWatch'
    BY <1>1, <1>4, StableWatch, StableGone DEF SendPeerGone
  <2> QED BY <1>2, <2>1, <2>2, <2>3
<1>5. CASE sendMeshUpdates(c)
  <2>1. /\ told' = [told EXCEPT ![c] = Told(c)]
        /\ changes' = [changes EXCEPT ![c] = NoChange]
        /\ sender[c] = "run" /\ changes[c] # NoChange
        /\ UNCHANGED <<sender, goneVars>>
    BY <1>5 DEF sendMeshUpdates
  <2>2. /\ Told(c) \subseteq Keys
        /\ NoChange \in [Keys -> {"same", "present", "gone"}]
    BY DEF Told, NoChange
  <2>3. ViewsOK'
    BY <1>1, <2>1, <2>2 DEF ViewsOK, meshVars, goneVars
  <2>4. PhaseInv'
    BY <1>1, <2>1 DEF PhaseInv
  <2>5. c \in watchers /\ Told(c) = clients
    BY <2>1 DEF WatchInv, WatchersInformed
  <2>6. \A w \in Conns : Told(w)' = Told(w)
    <3> SUFFICES ASSUME NEW w \in Conns PROVE Told(w)' = Told(w)
      OBVIOUS
    <3>1. CASE w = c
      <4>1. told'[c] = Told(c) /\ changes'[c] = NoChange
        BY <2>1 DEF ViewsOK
      <4> QED BY <2>2, <3>1, <4>1 DEF Told, NoChange
    <3>2. CASE w # c
      BY <2>1, <3>2 DEF Told, ViewsOK
    <3> QED BY <3>1, <3>2
  <2>7. WatchInv'
    BY <1>1, <2>1, <2>5, <2>6 DEF WatchInv, WatchersInformed, ViewsOK
  <2>8. NoDanglingWatch'
    BY <2>1, StableGone DEF goneVars
  <2> QED BY <1>2, <2>3, <2>4, <2>7, <2>8
<1>6. CASE onSendLoopDone(c)
  <2>1. /\ sender[c] = "run" /\ sender' = [sender EXCEPT ![c] = "done"]
        /\ told' = [told EXCEPT ![c] = {}]
        /\ changes' = changes
        /\ \A k \in Keys :
             goneWatch'[k] = IF k \in sawSrc[c] THEN goneWatch[k] \ {c}
                             ELSE goneWatch[k]
        /\ sawSrc' = [sawSrc EXCEPT ![c] = {}]
    BY <1>6 DEF onSendLoopDone, OtherWatches
  <2>2. sender \in [Conns -> {"off", "run", "done"}]
    BY DEF RegInv, ConnsOK
  <2>3. ViewsOK'
    BY <1>1, <1>6 DEF onSendLoopDone, OtherWatches, ViewsOK, meshVars
  <2>4. PhaseInv'
    BY <1>1, <2>1, <2>2 DEF PhaseInv
  <2>5. WatchInv'
    BY <1>1, <2>1, <2>2 DEF WatchInv, WatchersInformed, Told, ViewsOK
  <2>6. NoDanglingWatch'
    BY <2>1, <2>2 DEF NoDanglingWatch, ViewsOK
  <2> QED BY <1>2, <2>3, <2>4, <2>5, <2>6
<1> QED BY <1>3, <1>4, <1>5, <1>6 DEF Sender

\* Mesh forwarding keeps ViewInv.
LEMMA MeshView ==
  ASSUME RegInv, ViewInv, Mesh
  PROVE  ViewInv'
<1> USE DEF ViewInv
<1>1. UNCHANGED <<reader, sender, clients, tracked, watchVars>>
  BY DEF Mesh, AddPacketForwarder, RemovePacketForwarder, setVars
<1>2. PhaseInv' /\ WatchInv'
  BY <1>1, StableWatch DEF PhaseInv
<1>3. PICK k \in Keys, f \in Forwarders :
        AddPacketForwarder(k, f) \/ RemovePacketForwarder(k, f)
  BY DEF Mesh
<1>4. CASE AddPacketForwarder(k, f)
  <2>1. ViewsOK' /\ MeshConsistent'
    BY <1>4, ZenonT(60) DEF AddPacketForwarder, ViewsOK, MeshConsistent, setVars, watchVars,
                goneVars
  <2>2. NoDanglingWatch'
    BY <1>4, StableGone DEF AddPacketForwarder, goneVars
  <2> QED BY <1>2, <2>1, <2>2
<1>5. CASE RemovePacketForwarder(k, f)
  <2>1. /\ f \in fwd[k] /\ fwd' = [fwd EXCEPT ![k] = fwd[k] \ {f}]
        /\ \/ fwd[k] = {f} /\ k \notin clients /\ meshKeys' = meshKeys \ {k}
              /\ notePeerGoneFromRegionLocked(k)
           \/ /\ fwd[k] # {f} \/ k \in clients
              /\ UNCHANGED <<meshKeys, goneVars>>
    BY <1>5 DEF RemovePacketForwarder, LeavesRegion
  <2>2. /\ goneMsg' \in [Conns -> SUBSET Keys]
        /\ goneWatch' \in [Keys -> SUBSET Conns]
        /\ \A j \in Keys : goneWatch'[j] \subseteq goneWatch[j]
        /\ UNCHANGED <<queued, sawSrc, routes>>
    BY <2>1, GoneSent DEF goneVars, ViewsOK
  <2>3. fwd \in [Keys -> SUBSET Forwarders]
    BY DEF ViewsOK
  <2>4. ViewsOK'
    BY <1>1, <2>1, <2>2 DEF ViewsOK, watchVars
  <2>5. MeshConsistent'
    BY <1>1, <2>1, <2>3 DEF MeshConsistent
  <2>6. NoDanglingWatch'
    BY <1>1, <2>2 DEF NoDanglingWatch, ViewsOK
  <2> QED BY <1>2, <2>4, <2>5, <2>6
<1> QED BY <1>3, <1>4, <1>5

\* So does a step that changes nothing.
LEMMA StutterView ==
  ASSUME ViewInv, UNCHANGED vars
  PROVE  ViewInv'
<1> USE DEF vars, setVars, meshVars, watchVars, goneVars
<1>1. ViewsOK' /\ MeshConsistent' /\ PhaseInv'
  BY DEF ViewInv, ViewsOK, MeshConsistent, PhaseInv
<1> QED BY <1>1, StableWatch, StableGone DEF ViewInv

\* Nobody watches at first.
LEMMA InitView == Init => ViewInv
<1> SUFFICES ASSUME Init PROVE ViewInv
  OBVIOUS
<1>1. ViewsOK
  BY DEF Init, ViewsOK, NoChange
<1>2. MeshConsistent /\ PhaseInv
  BY DEF Init, MeshConsistent, PhaseInv
<1>3. WatchInv
  BY DEF Init, WatchInv, WatchersInformed
<1>4. NoDanglingWatch
  BY DEF Init, NoDanglingWatch
<1> QED BY <1>1, <1>2, <1>3, <1>4 DEF ViewInv

\* ViewInv holds in every reachable state.
THEOREM ViewInvariant ==
  ASSUME DupPolicy = "lastWriterIsActive"
  PROVE  Spec => []ViewInv
<1>1. RegInv /\ ViewInv /\ [Next]_vars => ViewInv'
  BY ReaderView, SenderView, MeshView, StutterView DEF Next
<1> QED BY RegistryInvariant, InitView, <1>1, PTL DEF Spec

\* Maps, flags and counters of the server keep their types.
THEOREM TypeCorrect ==
  ASSUME DupPolicy = "lastWriterIsActive"
  PROVE  Spec => []TypeOK
<1>1. RegInv /\ ViewInv => TypeOK
  BY DEF RegInv, ViewInv, TypeOK
<1> QED BY RegistryInvariant, ViewInvariant, <1>1, PTL

\* A mesh watcher that reads all its frames knows exactly the connected keys
\* (addWatcher, broadcastPeerStateChangeLocked, sendMeshUpdates).
THEOREM WatchersCorrect ==
  ASSUME DupPolicy = "lastWriterIsActive"
  PROVE  Spec => []WatchersInformed
<1>1. ViewInv => WatchersInformed
  BY DEF ViewInv, WatchInv
<1> QED BY ViewInvariant, <1>1, PTL

\* clientsMesh agrees with clients, as ConsistencyCheck demands.
THEOREM MeshCorrect ==
  ASSUME DupPolicy = "lastWriterIsActive"
  PROVE  Spec => []MeshConsistent
<1>1. ViewInv => MeshConsistent
  BY DEF ViewInv
<1> QED BY ViewInvariant, <1>1, PTL

\* No peer-gone callback outlives its connection, and none is registered that
\* the sender would not remove when it ends (noteSendFromSrc, onSendLoopDone).
THEOREM WatchesCorrect ==
  ASSUME DupPolicy = "lastWriterIsActive"
  PROVE  Spec => []NoDanglingWatch
<1>1. ViewInv => NoDanglingWatch
  BY DEF ViewInv
<1> QED BY ViewInvariant, <1>1, PTL
-----------------------------------------------------------------------------
(* The gauges. *)

\* What the gauges of home clients, duplicated keys and duplicates count.
Homes == {c \in Registered : preferred[c]}
DupKeys == {k \in Keys : dup[k] # {}}
DupConns == {c \in Registered : dup[KeyOf[c]] # {}}

\* The set is finite and the number is how many it has.  Sets of connections
\* grow by one in a step, so nothing need be assumed of Conns and Keys.
Counts(n, S) == IsFiniteSet(S) /\ n = Cardinality(S)

\* The inductive invariant of the gauges.
GaugeInv ==
  /\ Counts(gauges["curClients"], Registered)
  /\ Counts(gauges["curHomeClients"], Homes)
  /\ Counts(gauges["numLocalClientKeys"], clients)
  /\ Counts(gauges["dupClientKeys"], DupKeys)
  /\ Counts(gauges["dupClientConns"], DupConns)
  /\ tracked = Registered \ MeshConns

\* Counting one more, and one less.
LEMMA CountUp ==
  ASSUME NEW n, NEW S, NEW x, Counts(n, S), x \notin S
  PROVE  Counts(n + 1, S \cup {x})
BY FS_AddElement DEF Counts

LEMMA CountDown ==
  ASSUME NEW n, NEW S, NEW x, Counts(n, S), x \in S
  PROVE  Counts(n - 1, S \ {x})
BY FS_RemoveElement DEF Counts

\* What Add does to each gauge.
LEMMA AddEach ==
  ASSUME NEW cur \in Int, NEW home \in Int, NEW keys \in Int,
         NEW dupKeys \in Int, NEW dupConns \in Int,
         gauges \in [Gauges -> Int], Add(cur, home, keys, dupKeys, dupConns)
  PROVE  /\ gauges'["curClients"] = gauges["curClients"] + cur
         /\ gauges'["curHomeClients"] = gauges["curHomeClients"] + home
         /\ gauges'["numLocalClientKeys"] = gauges["numLocalClientKeys"] + keys
         /\ gauges'["dupClientKeys"] = gauges["dupClientKeys"] + dupKeys
         /\ gauges'["dupClientConns"] = gauges["dupClientConns"] + dupConns
BY DEF Add, Gauges

\* Dup sets are disjoint: together they are the registered duplicates.
LEMMA DupUnion ==
  ASSUME RegInv
  PROVE  UNION {dup[k] : k \in Keys} = DupConns
<1>1. ASSUME NEW k \in Keys, NEW c \in dup[k]
      PROVE  c \in DupConns
  BY <1>1 DEF RegInv, SetsInv, DupInv, Members, DupConns
<1>2. ASSUME NEW c \in DupConns
      PROVE  KeyOf[c] \in Keys /\ c \in dup[KeyOf[c]]
  BY <1>2, RegistryAssumption
     DEF RegInv, SetsInv, DupInv, Members, DupConns, Registered
<1> QED BY <1>1, <1>2

\* registerClient adds to each gauge what it adds to what the gauge counts.
LEMMA RegisterGauges ==
  ASSUME RegInv, GaugeInv, NEW c \in Conns, registerClient(c)
  PROVE  GaugeInv'
<1> DEFINE k == KeyOf[c]
           was == active[k]
           new == IF k \in clients THEN 0 ELSE 1
<1> USE DEF GaugeInv
<1>1. k \in Keys /\ None \notin Conns /\ new \in Int
  BY RegistryAssumption
<1>2. /\ reader[c] = "off"
      /\ reader' = [reader EXCEPT ![c] = "run"]
      /\ preferred' = [preferred EXCEPT ![c] = FALSE]
      /\ clients' = clients \cup {k}
      /\ tracked' = IF c \in MeshConns THEN tracked ELSE tracked \cup {c}
  BY DEF registerClient, At
<1>3. c \notin Registered /\ Registered' = Registered \cup {c}
  BY <1>2 DEF Registered, RegInv, ConnsOK
<1>4. Homes' = Homes
  BY <1>2, <1>3 DEF Homes, Registered, RegInv, ConnsOK
<1>5. tracked' = Registered' \ MeshConns
  BY <1>2, <1>3
<1>6. Counts(gauges["curClients"] + 1, Registered')
  BY <1>3, CountUp
<1>7. Counts(gauges["numLocalClientKeys"] + new, clients')
  <2>1. CASE k \in clients
    <3>1. clients' = clients /\ new = 0
      BY <1>2, <2>1
    <3>2. gauges["numLocalClientKeys"] + 0 = gauges["numLocalClientKeys"]
      BY DEF RegInv, ConnsOK, Gauges
    <3> HIDE DEF new
    <3> QED BY <3>1, <3>2
  <2>2. CASE k \notin clients
    BY <1>2, <2>2, CountUp
  <2> QED BY <2>1, <2>2
<1>8. gauges \in [Gauges -> Int] /\ dup \in [Keys -> SUBSET Conns]
  BY DEF RegInv, ConnsOK, SetsOK
<1>9. \A g \in Gauges : gauges[g] \in Int
  BY <1>8
<1>10. ASSUME NEW dk \in Int, NEW dc \in Int, Add(1, 0, new, dk, dc),
              Counts(gauges["dupClientKeys"] + dk, DupKeys'),
              Counts(gauges["dupClientConns"] + dc, DupConns')
       PROVE  GaugeInv'
  <2> HIDE DEF new
  <2>1. /\ gauges'["curClients"] = gauges["curClients"] + 1
        /\ gauges'["curHomeClients"] = gauges["curHomeClients"] + 0
        /\ gauges'["numLocalClientKeys"] = gauges["numLocalClientKeys"] + new
        /\ gauges'["dupClientKeys"] = gauges["dupClientKeys"] + dk
        /\ gauges'["dupClientConns"] = gauges["dupClientConns"] + dc
    BY <1>8, <1>10 DEF Add, Gauges
  <2>2. gauges["curHomeClients"] + 0 = gauges["curHomeClients"]
    BY <1>9 DEF Gauges
  <2> QED BY <2>1, <2>2, <1>4, <1>5, <1>6, <1>7, <1>10 DEF Counts
<1>11. KeyOf \in [Conns -> Keys]
  BY RegistryAssumption
<1>12. CASE dup[k] = {} /\ was = None
  <2>1. Add(1, 0, new, 0, 0) /\ dup' = dup
    BY <1>12 DEF registerClient, Duplicates
  <2>2. DupKeys' = DupKeys /\ DupConns' = DupConns
    BY <1>3, <1>12, <2>1 DEF DupKeys, DupConns
  <2>3. /\ gauges["dupClientKeys"] + 0 = gauges["dupClientKeys"]
        /\ gauges["dupClientConns"] + 0 = gauges["dupClientConns"]
    BY <1>9 DEF Gauges
  <2> QED BY <1>10, <2>1, <2>2, <2>3
<1>13. CASE dup[k] = {} /\ was # None
  <2>1. Add(1, 0, new, 1, 2) /\ dup' = [dup EXCEPT ![k] = {c, was}]
    BY <1>13 DEF registerClient, Duplicates
  <2>2. Members(k) = {was} /\ was \in Registered /\ KeyOf[was] = k
    BY <1>1, <1>13 DEF RegInv, SetsInv, SoleInv, Members
  <2>3. DupKeys' = DupKeys \cup {k} /\ k \notin DupKeys
    BY <1>1, <1>8, <1>13, <2>1 DEF DupKeys
  <2>4. DupConns' = (DupConns \cup {c}) \cup {was}
    <3>1. ASSUME NEW d \in Registered, d # was
          PROVE  dup'[KeyOf[d]] = dup[KeyOf[d]]
      BY <1>1, <1>8, <1>11, <2>1, <2>2, <3>1 DEF Members, Registered
    <3>2. dup'[KeyOf[c]] # {} /\ dup'[KeyOf[was]] # {}
      BY <1>1, <1>8, <2>1, <2>2
    <3> QED BY <1>3, <2>2, <3>1, <3>2 DEF DupConns
  <2>5. c \notin DupConns /\ was \notin DupConns \cup {c}
    BY <1>3, <1>13, <2>2 DEF DupConns
  <2>6. Counts((gauges["dupClientConns"] + 1) + 1, DupConns')
    BY <2>4, <2>5, CountUp
  <2>7. (gauges["dupClientConns"] + 1) + 1 = gauges["dupClientConns"] + 2
    BY <1>9 DEF Gauges
  <2>8. Counts(gauges["dupClientKeys"] + 1, DupKeys')
    BY <2>3, CountUp
  <2> QED BY <1>10, <2>1, <2>6, <2>7, <2>8
<1>14. CASE dup[k] # {}
  <2>1. Add(1, 0, new, 0, 1) /\ dup' = [dup EXCEPT ![k] = dup[k] \cup {c}]
    BY <1>14 DEF registerClient, Duplicates
  <2>2. \A j \in Keys : dup'[j] # {} <=> dup[j] # {}
    BY <1>1, <1>8, <1>14, <2>1
  <2>3. DupKeys' = DupKeys
    BY <2>2 DEF DupKeys
  <2>4. DupConns' = DupConns \cup {c} /\ c \notin DupConns
    BY <1>3, <1>11, <1>14, <2>2 DEF DupConns, Registered
  <2>5. Counts(gauges["dupClientConns"] + 1, DupConns')
    BY <2>4, CountUp
  <2>6. gauges["dupClientKeys"] + 0 = gauges["dupClientKeys"]
    BY <1>9 DEF Gauges
  <2> QED BY <1>10, <2>1, <2>3, <2>5, <2>6
<1> QED BY <1>12, <1>13, <1>14

\* unregisterClient takes off each gauge what it takes off what it counts: two
\* duplicates at once when a set of two is dissolved.
LEMMA UnregisterGauges ==
  ASSUME RegInv, GaugeInv, NEW c \in Conns, unregisterClient(c)
  PROVE  GaugeInv'
<1> DEFINE k == KeyOf[c]
           home == IF preferred[c] THEN -1 ELSE 0
<1> USE DEF GaugeInv
<1>1. k \in Keys /\ home \in Int
  BY RegistryAssumption
<1>2. /\ reader[c] = "run"
      /\ reader' = [reader EXCEPT ![c] = "off"]
      /\ UNCHANGED preferred
      /\ tracked' = tracked \ {c}
  BY DEF unregisterClient, At
<1>3. c \in Registered /\ Registered' = Registered \ {c}
  BY <1>2 DEF Registered, RegInv, ConnsOK
<1>4. tracked' = Registered' \ MeshConns
  BY <1>2, <1>3
<1>5. gauges \in [Gauges -> Int] /\ dup \in [Keys -> SUBSET Conns]
  BY DEF RegInv, ConnsOK, SetsOK
<1>6. \A g \in Gauges : gauges[g] \in Int
  BY <1>5
<1>7. Counts(gauges["curClients"] + (-1), Registered')
  <2>1. gauges["curClients"] + (-1) = gauges["curClients"] - 1
    BY <1>6 DEF Gauges
  <2> QED BY <1>3, <2>1, CountDown
<1>8. Counts(gauges["curHomeClients"] + home, Homes')
  <2>1. CASE preferred[c]
    <3>1. c \in Homes /\ Homes' = Homes \ {c}
      BY <1>2, <1>3, <2>1 DEF Homes
    <3>2. gauges["curHomeClients"] + home = gauges["curHomeClients"] - 1
      BY <1>6, <2>1 DEF Gauges
    <3> QED BY <3>1, <3>2, CountDown
  <2>2. CASE ~preferred[c]
    <3>1. Homes' = Homes
      BY <1>2, <1>3, <2>2 DEF Homes
    <3>2. gauges["curHomeClients"] + home = gauges["curHomeClients"]
      BY <1>6, <2>2 DEF Gauges
    <3> QED BY <3>1, <3>2
  <2> QED BY <2>1, <2>2
<1>9. KeyOf \in [Conns -> Keys]
  BY RegistryAssumption
<1>10. ASSUME NEW n \in Int, NEW dk \in Int, NEW dc \in Int,
              Add(-1, home, n, dk, dc),
              Counts(gauges["numLocalClientKeys"] + n, clients'),
              Counts(gauges["dupClientKeys"] + dk, DupKeys'),
              Counts(gauges["dupClientConns"] + dc, DupConns')
       PROVE  GaugeInv'
  <2>1. /\ gauges'["curClients"] = gauges["curClients"] + (-1)
        /\ gauges'["curHomeClients"] = gauges["curHomeClients"] + home
        /\ gauges'["numLocalClientKeys"] = gauges["numLocalClientKeys"] + n
        /\ gauges'["dupClientKeys"] = gauges["dupClientKeys"] + dk
        /\ gauges'["dupClientConns"] = gauges["dupClientConns"] + dc
    BY <1>5, <1>10 DEF Add, Gauges
  <2> HIDE DEF home
  <2> QED BY <2>1, <1>4, <1>7, <1>8, <1>10
<1>11. CASE UnregisterOnly(c, k, home)
  <2>1. /\ dup[k] = {} /\ active[k] = c /\ dup' = dup
        /\ clients' = clients \ {k} /\ Add(-1, home, -1, 0, 0)
    BY <1>11 DEF UnregisterOnly
  <2>2. k \in clients
    BY <1>1, <1>3, <2>1 DEF RegInv, SetsInv, SoleInv, Members
  <2>3. gauges["numLocalClientKeys"] + (-1) = gauges["numLocalClientKeys"] - 1
    BY <1>6 DEF Gauges
  <2>4. Counts(gauges["numLocalClientKeys"] + (-1), clients')
    BY <2>1, <2>2, <2>3, CountDown
  <2>5. DupKeys' = DupKeys /\ DupConns' = DupConns
    BY <1>3, <2>1 DEF DupKeys, DupConns
  <2>6. /\ gauges["dupClientKeys"] + 0 = gauges["dupClientKeys"]
        /\ gauges["dupClientConns"] + 0 = gauges["dupClientConns"]
    BY <1>6 DEF Gauges
  <2>7. -1 \in Int /\ 0 \in Int
    OBVIOUS
  <2> HIDE DEF home
  <2> QED BY <1>10, <2>1, <2>4, <2>5, <2>6, <2>7
<1>12. CASE UnregisterDemote(c, k, home)
  <2>1. PICK remain \in Conns :
          /\ dup[k] # {} /\ dup[k] \ {c} = {remain}
          /\ dup' = [dup EXCEPT ![k] = {}]
          /\ Add(-1, home, 0, -1, -Demoted)
          /\ clients' = clients
    BY <1>12 DEF UnregisterDemote, LeavesOnly
  <2>2. dup[k] = Members(k) /\ c \in Members(k)
    BY <1>1, <1>3, <2>1 DEF RegInv, SetsInv, DupInv, Members
  <2>3. /\ Members(k) = {c, remain} /\ c # remain
        /\ remain \in Registered /\ KeyOf[remain] = k
    BY <2>1, <2>2 DEF Members
  <2>4. DupKeys' = DupKeys \ {k} /\ k \in DupKeys
    BY <1>1, <1>5, <2>1 DEF DupKeys
  <2>5. DupConns' = (DupConns \ {c}) \ {remain}
    <3>1. ASSUME NEW d \in Registered, d # c, d # remain
          PROVE  dup'[KeyOf[d]] = dup[KeyOf[d]]
      BY <1>1, <1>5, <1>9, <2>1, <2>3, <3>1 DEF Members, Registered
    <3>2. dup'[KeyOf[c]] = {} /\ dup'[KeyOf[remain]] = {}
      BY <1>1, <1>5, <2>1, <2>3
    <3> QED BY <1>3, <2>3, <3>1, <3>2 DEF DupConns
  <2>6. c \in DupConns /\ remain \in DupConns \ {c}
    BY <1>3, <2>1, <2>3 DEF DupConns
  <2>7. Counts((gauges["dupClientConns"] - 1) - 1, DupConns')
    BY <2>5, <2>6, CountDown
  <2>8. /\ (gauges["dupClientConns"] - 1) - 1
             = gauges["dupClientConns"] + (-Demoted)
        /\ gauges["dupClientKeys"] + (-1) = gauges["dupClientKeys"] - 1
        /\ gauges["numLocalClientKeys"] + 0 = gauges["numLocalClientKeys"]
        /\ -1 \in Int /\ 0 \in Int /\ -Demoted \in Int
    BY <1>6 DEF Gauges, Demoted
  <2>9. Counts(gauges["dupClientKeys"] + (-1), DupKeys')
    BY <2>4, <2>8, CountDown
  <2> HIDE DEF home
  <2> QED BY <1>10, <2>1, <2>7, <2>8, <2>9
<1>13. CASE UnregisterDup(c, k, home)
  <2>1. /\ dup[k] # {} /\ \A r \in Conns : dup[k] \ {c} # {r}
        /\ dup' = [dup EXCEPT ![k] = dup[k] \ {c}]
        /\ Add(-1, home, 0, 0, -1)
        /\ clients' = clients
    BY <1>13 DEF UnregisterDup
  <2>2. dup[k] # {c}
    BY <1>1, <2>1 DEF RegInv, SetsInv, DupInv
  <2>3. \A j \in Keys : dup'[j] # {} <=> dup[j] # {}
    BY <1>1, <1>5, <2>1, <2>2
  <2>4. DupKeys' = DupKeys
    BY <2>3 DEF DupKeys
  <2>5. DupConns' = DupConns \ {c} /\ c \in DupConns
    BY <1>3, <1>9, <2>1, <2>3 DEF DupConns, Registered
  <2>6. /\ gauges["dupClientConns"] + (-1) = gauges["dupClientConns"] - 1
        /\ gauges["dupClientKeys"] + 0 = gauges["dupClientKeys"]
        /\ gauges["numLocalClientKeys"] + 0 = gauges["numLocalClientKeys"]
        /\ -1 \in Int /\ 0 \in Int
    BY <1>6 DEF Gauges
  <2>7. Counts(gauges["dupClientConns"] + (-1), DupConns')
    BY <2>5, <2>6, CountDown
  <2> HIDE DEF home
  <2> QED BY <1>10, <2>1, <2>4, <2>6, <2>7
<1> QED BY <1>11, <1>12, <1>13 DEF unregisterClient

\* setPreferred moves a connection in or out of the home clients.
LEMMA PreferredGauges ==
  ASSUME RegInv, GaugeInv, NEW c \in Conns, setPreferred(c)
  PROVE  GaugeInv'
<1> DEFINE home == IF preferred[c] THEN -1 ELSE 1
<1> USE DEF GaugeInv
<1>1. /\ reader[c] = "handle" /\ reader' = [reader EXCEPT ![c] = "run"]
      /\ preferred' = [preferred EXCEPT ![c] = ~preferred[c]]
      /\ Add(0, home, 0, 0, 0)
      /\ UNCHANGED <<clients, dup, tracked>>
  BY DEF setPreferred, Handled, At, setVars
<1>2. gauges \in [Gauges -> Int] /\ home \in Int
  BY DEF RegInv, ConnsOK
<1>3. \A g \in Gauges : gauges[g] \in Int
  BY <1>2
<1>4. Registered' = Registered /\ c \in Registered
  BY <1>1 DEF Registered, RegInv, ConnsOK
<1>5. Counts(gauges["curHomeClients"] + home, Homes')
  <2>1. CASE preferred[c]
    <3>1. Homes' = Homes \ {c} /\ c \in Homes
      BY <1>1, <1>4, <2>1 DEF Homes, Registered, RegInv, ConnsOK
    <3>2. gauges["curHomeClients"] + home = gauges["curHomeClients"] - 1
      BY <1>3, <2>1 DEF Gauges
    <3> QED BY <3>1, <3>2, CountDown
  <2>2. CASE ~preferred[c]
    <3>1. Homes' = Homes \cup {c} /\ c \notin Homes
      BY <1>1, <1>4, <2>2 DEF Homes, Registered, RegInv, ConnsOK
    <3>2. home = 1
      BY <2>2
    <3> QED BY <3>1, <3>2, CountUp
  <2> QED BY <2>1, <2>2
<1>6. DupKeys' = DupKeys /\ DupConns' = DupConns
  BY <1>1, <1>4 DEF DupKeys, DupConns
<1>7. /\ gauges'["curClients"] = gauges["curClients"] + 0
      /\ gauges'["curHomeClients"] = gauges["curHomeClients"] + home
      /\ gauges'["numLocalClientKeys"] = gauges["numLocalClientKeys"] + 0
      /\ gauges'["dupClientKeys"] = gauges["dupClientKeys"] + 0
      /\ gauges'["dupClientConns"] = gauges["dupClientConns"] + 0
  BY <1>1, <1>2, AddEach
<1>8. /\ gauges["curClients"] + 0 = gauges["curClients"]
      /\ gauges["numLocalClientKeys"] + 0 = gauges["numLocalClientKeys"]
      /\ gauges["dupClientKeys"] + 0 = gauges["dupClientKeys"]
      /\ gauges["dupClientConns"] + 0 = gauges["dupClientConns"]
  BY <1>3 DEF Gauges
<1> HIDE DEF home
<1> QED BY <1>1, <1>4, <1>5, <1>6, <1>7, <1>8

\* No other step registers, unregisters or counts.
LEMMA StableGauges ==
  ASSUME GaugeInv, Registered' = Registered,
         UNCHANGED <<preferred, clients, dup, gauges, tracked>>
  PROVE  GaugeInv'
BY DEF GaugeInv, Homes, DupKeys, DupConns

LEMMA OtherGauges ==
  ASSUME RegInv, GaugeInv,
         NEW c \in Conns,
         \/ ReadFrame(c) \/ noteClientActivity(c) \/ addWatcher(c)
         \/ OtherFrame(c) \/ \E k \in Keys, d \in Conns : SendPacket(c, k, d)
  PROVE  GaugeInv'
<1>1. PICK label \in {"run", "note", "handle"} :
        reader[c] # "off" /\ reader' = [reader EXCEPT ![c] = label]
  BY DEF ReadFrame, noteClientActivity, addWatcher, OtherFrame, SendPacket,
         Handled, At
<1>2. UNCHANGED <<preferred, clients, dup, gauges, tracked>>
  BY DEF ReadFrame, noteClientActivity, addWatcher, OtherFrame, SendPacket,
         setVars
<1>3. Registered' = Registered
  BY <1>1 DEF Registered, RegInv, ConnsOK
<1> QED BY <1>2, <1>3, StableGauges

LEMMA SenderGauges ==
  ASSUME GaugeInv,
         (\E c \in Conns : Sender(c)) \/ Mesh \/ UNCHANGED vars
  PROVE  GaugeInv'
<1>1. UNCHANGED <<reader, preferred, clients, dup, gauges, tracked>>
  BY DEF Sender, SendQueued, SendPeerGone, sendMeshUpdates, onSendLoopDone,
         Mesh, AddPacketForwarder, RemovePacketForwarder, vars, setVars
<1>2. Registered' = Registered
  BY <1>1 DEF Registered
<1> QED BY <1>1, <1>2, StableGauges

\* An empty registry is counted right.
LEMMA InitGauges == Init => GaugeInv
<1> SUFFICES ASSUME Init PROVE GaugeInv
  OBVIOUS
<1>1. Registered = {} /\ Homes = {} /\ DupConns = {} /\ DupKeys = {}
  BY DEF Init, Registered, Homes, DupConns, DupKeys
<1>2. Counts(0, {})
  BY FS_EmptySet DEF Counts
<1>3. \A g \in Gauges : gauges[g] = 0
  BY DEF Init
<1> QED BY <1>1, <1>2, <1>3 DEF GaugeInv, Gauges, Init

\* The gauges and the peer list count exactly what is connected, over any
\* number of connections, duplicates and demotions (registerClient,
\* unregisterClient, setPreferred).
THEOREM GaugesCorrect ==
  ASSUME DupPolicy = "lastWriterIsActive"
  PROVE  Spec => []GaugesExact
<1>1. RegInv /\ GaugeInv /\ [Next]_vars => GaugeInv'
  BY RegisterGauges, UnregisterGauges, PreferredGauges, OtherGauges,
     SenderGauges DEF Next, Reader
<1>2. RegInv /\ GaugeInv => GaugesExact
  BY DupUnion DEF GaugeInv, GaugesExact, Counts, Homes, DupKeys
<1> QED BY RegistryInvariant, InitGauges, <1>1, <1>2, PTL DEF Spec
-----------------------------------------------------------------------------
(* The registry and the duplicate history of each key. *)

\* The connections of one key as the dupClientSet that DupHistory specifies.
History(k) ==
  INSTANCE DupHistory WITH set <- Members(k), last <- last[k],
                           spoke <- spoke[k], LastWriter <- TRUE

\* From a key's first connection to its last, its history begins as a
\* DupHistory and takes only the steps of one.
LifeOf(k) ==
  /\ k \notin clients /\ k \in clients' => History(k)!Init'
  /\ k \in clients /\ k \in clients' => [History(k)!Next]_(History(k)!vars)
KeepsHistories == \A k \in Keys : LifeOf(k)

\* Without a dup set there is no history.
Blank == \A k \in Keys : dup[k] = {} => last[k] = None /\ spoke[k] = <<>>

LEMMA SameHistory ==
  ASSUME NEW k \in Keys, Members(k)' = Members(k),
         last'[k] = last[k], spoke'[k] = spoke[k], k \in clients' => k \in clients
  PROVE  LifeOf(k)
BY DEF LifeOf, History!vars

LEMMA KeyAlone ==
  ASSUME RegInv, NEW k \in clients
  PROVE  History(k)!Alone <=> dup[k] = {}
<1>1. k \in Keys
  BY DEF RegInv, SetsOK
<1>2. CASE dup[k] = {}
  BY <1>1, <1>2 DEF RegInv, SetsInv, SoleInv, History!Alone
<1>3. CASE dup[k] # {}
  BY <1>1, <1>3 DEF RegInv, SetsInv, DupInv, History!Alone
<1> QED BY <1>2, <1>3

\* registerClient: a key's first connection starts a history, another joins it.
LEMMA RegisterHistory ==
  ASSUME RegInv, Blank, NEW c \in Conns, registerClient(c)
  PROVE  KeepsHistories /\ Blank'
<1> DEFINE k == KeyOf[c]
           was == active[k]
<1>1. k \in Keys /\ None \notin Conns /\ SetsOK
  BY RegistryAssumption DEF RegInv
<1>2. /\ reader[c] = "off" /\ reader' = [reader EXCEPT ![c] = "run"]
      /\ clients' = clients \cup {k}
  BY DEF registerClient, At
<1>3. c \notin Registered /\ Registered' = Registered \cup {c}
  BY <1>2 DEF Registered, RegInv, ConnsOK
<1>4. c \notin Members(k)
  BY <1>3 DEF Members
<1>5. \A j \in Keys : Members(j)' = IF j = k THEN Members(k) \cup {c}
                                    ELSE Members(j)
  BY <1>3 DEF Members
<1>6. ASSUME NEW j \in Keys, j # k
      PROVE  /\ dup'[j] = dup[j] /\ last'[j] = last[j] /\ spoke'[j] = spoke[j]
             /\ LifeOf(j)
  <2>1. dup'[j] = dup[j] /\ last'[j] = last[j] /\ spoke'[j] = spoke[j]
    BY <1>1, <1>6 DEF registerClient, SetsOK
  <2>2. Members(j)' = Members(j) /\ (j \in clients' => j \in clients)
    BY <1>2, <1>5, <1>6
  <2> QED BY <2>1, <2>2, SameHistory
<1>7. CASE dup[k] = {} /\ was = None
  <2>1. UNCHANGED <<dup, last, spoke>> /\ k \notin clients /\ Members(k) = {}
    BY <1>1, <1>7 DEF registerClient, Duplicates, RegInv, SetsInv, SoleInv
  <2>2. Members(k)' = {c} /\ last'[k] = None /\ spoke'[k] = <<>>
    BY <1>1, <1>5, <1>7, <2>1 DEF Blank
  <2>3. LifeOf(k)
    BY <2>1, <2>2 DEF LifeOf, History!Init, History!Alone
  <2> QED BY <1>6, <2>1, <2>3 DEF KeepsHistories, Blank
<1>8. CASE dup[k] = {} /\ was # None
  <2>1. /\ dup' = [dup EXCEPT ![k] = {c, was}]
        /\ last' = [last EXCEPT ![k] = c]
        /\ spoke' = [spoke EXCEPT ![k] = <<was>>]
    BY <1>8 DEF registerClient, Duplicates
  <2>2. Members(k) = {was} /\ k \in clients
    BY <1>1, <1>8 DEF RegInv, SetsInv, SoleInv
  <2>3. History(k)!Alone
    BY <1>8, <2>2, KeyAlone
  <2>4. /\ Members(k)' = Members(k) \cup {c} /\ last'[k] = c /\ spoke'[k] = <<was>>
        /\ dup'[k] # {}
    BY <1>1, <1>5, <2>1 DEF SetsOK
  <2>5. History(k)!Join(c)
    BY <1>4, <2>2, <2>3, <2>4 DEF History!Join
  <2>6. LifeOf(k)
    BY <2>2, <2>5 DEF LifeOf, History!Next
  <2> QED BY <1>6, <2>4, <2>6 DEF KeepsHistories, Blank
<1>9. CASE dup[k] # {}
  <2>1. /\ dup' = [dup EXCEPT ![k] = dup[k] \cup {c}]
        /\ last' = [last EXCEPT ![k] = c]
        /\ spoke' = [spoke EXCEPT ![k] = Spoken(spoke[k], c)]
    BY <1>9 DEF registerClient, Duplicates
  <2>2. k \in clients
    BY <1>1, <1>9 DEF RegInv, SetsInv, DupInv
  <2>3. ~History(k)!Alone
    BY <1>9, <2>2, KeyAlone
  <2>4. /\ Members(k)' = Members(k) \cup {c} /\ last'[k] = c
        /\ spoke'[k] = Spoken(spoke[k], c) /\ dup'[k] # {}
    BY <1>1, <1>5, <2>1 DEF SetsOK
  <2>5. History(k)!Join(c)
    BY <1>4, <2>3, <2>4
       DEF History!Join, History!Spoken, History!Without, History!Position,
           History!Spoke, Spoken, Without, Position, Spoke
  <2>6. LifeOf(k)
    BY <2>2, <2>5 DEF LifeOf, History!Next
  <2> QED BY <1>6, <2>4, <2>6 DEF KeepsHistories, Blank
<1> QED BY <1>7, <1>8, <1>9

\* unregisterClient: the last connection ends the history, another leaves it.
LEMMA UnregisterHistory ==
  ASSUME RegInv, Blank, NEW c \in Conns, unregisterClient(c)
  PROVE  KeepsHistories /\ Blank'
<1> DEFINE k == KeyOf[c]
           home == IF preferred[c] THEN -1 ELSE 0
<1>1. k \in Keys /\ None \notin Conns /\ SetsOK
  BY RegistryAssumption DEF RegInv
<1>2. reader[c] = "run" /\ reader' = [reader EXCEPT ![c] = "off"]
  BY DEF unregisterClient, At
<1>3. c \in Registered /\ Registered' = Registered \ {c}
  BY <1>2 DEF Registered, RegInv, ConnsOK
<1>4. c \in Members(k)
  BY <1>3 DEF Members
<1>5. \A j \in Keys : Members(j)' = IF j = k THEN Members(k) \ {c}
                                    ELSE Members(j)
  BY <1>3 DEF Members
<1>6. ASSUME NEW j \in Keys, j # k
      PROVE  /\ dup'[j] = dup[j] /\ last'[j] = last[j] /\ spoke'[j] = spoke[j]
             /\ LifeOf(j)
  <2>1. /\ dup'[j] = dup[j] /\ last'[j] = last[j] /\ spoke'[j] = spoke[j]
        /\ j \in clients' => j \in clients
    BY <1>1, <1>6
       DEF unregisterClient, UnregisterOnly, UnregisterDemote, UnregisterDup, SetsOK
  <2>2. Members(j)' = Members(j)
    BY <1>5, <1>6
  <2> QED BY <2>1, <2>2, SameHistory
<1>7. CASE UnregisterOnly(c, k, home)
  <2>1. k \notin clients' /\ UNCHANGED <<dup, last, spoke>>
    BY <1>7 DEF UnregisterOnly
  <2> QED BY <1>6, <2>1 DEF KeepsHistories, LifeOf, Blank
<1>8. CASE UnregisterDemote(c, k, home)
  <2>1. PICK remain \in Conns :
          /\ dup[k] # {} /\ dup[k] \ {c} = {remain}
          /\ dup' = [dup EXCEPT ![k] = {}]
          /\ last' = [last EXCEPT ![k] = None]
          /\ spoke' = [spoke EXCEPT ![k] = <<>>]
    BY <1>8 DEF UnregisterDemote, LeavesOnly
  <2>2. k \in clients /\ dup[k] = Members(k)
    BY <1>1, <2>1 DEF RegInv, SetsInv, DupInv
  <2>3. ~History(k)!Alone
    BY <2>1, <2>2, KeyAlone
  <2>4. /\ Members(k)' = Members(k) \ {c} /\ Members(k)' = {remain}
        /\ last'[k] = None /\ spoke'[k] = <<>>
    BY <1>1, <1>5, <2>1, <2>2 DEF SetsOK
  <2>5. History(k)!Alone'
    BY <2>4 DEF History!Alone
  <2>6. History(k)!Leave(c)
    BY <1>4, <2>3, <2>4, <2>5 DEF History!Leave
  <2>7. LifeOf(k)
    BY <2>2, <2>6 DEF LifeOf, History!Next
  <2> QED BY <1>6, <2>4, <2>7 DEF KeepsHistories, Blank
<1>9. CASE UnregisterDup(c, k, home)
  <2>1. /\ dup[k] # {} /\ ~\E r \in Conns : dup[k] \ {c} = {r}
        /\ dup' = [dup EXCEPT ![k] = dup[k] \ {c}]
        /\ last' = [last EXCEPT ![k] = NextLast(k, c)]
        /\ spoke' = [spoke EXCEPT ![k] = Without(spoke[k], c)]
    BY <1>9 DEF UnregisterDup
  <2>2. k \in clients /\ DupInv(k) /\ dup[k] = Members(k)
    BY <1>1, <2>1 DEF RegInv, SetsInv, DupInv
  <2>3. ~History(k)!Alone
    BY <2>1, <2>2, KeyAlone
  <2>4. /\ Members(k)' = Members(k) \ {c} /\ dup'[k] = dup[k] \ {c}
        /\ last'[k] = NextLast(k, c) /\ spoke'[k] = Without(spoke[k], c)
    BY <1>1, <1>5, <2>1 DEF SetsOK
  <2>5. ~History(k)!Alone'
    BY <2>1, <2>2, <2>4 DEF History!Alone
  <2>6. dup'[k] # {}
    BY <1>4, <2>2, <2>4 DEF DupInv
  <2>7. History(k)!Leave(c)
    BY <1>4, <2>3, <2>4, <2>5
       DEF History!Leave, History!Without, History!Position, History!Spoke,
           History!LastOf, NextLast, Without, Position, Spoke, LastOf
  <2>8. LifeOf(k)
    BY <2>2, <2>7 DEF LifeOf, History!Next
  <2> QED BY <1>6, <2>6, <2>8 DEF KeepsHistories, Blank
<1> QED BY <1>7, <1>8, <1>9 DEF unregisterClient

\* noteClientActivity: a duplicate speaks; who became single in between does not.
LEMMA NoteHistory ==
  ASSUME RegInv, Blank, NEW c \in Conns, noteClientActivity(c),
         DupPolicy = "lastWriterIsActive"
  PROVE  KeepsHistories /\ Blank'
<1> DEFINE k == KeyOf[c]
<1>1. k \in Keys /\ SetsOK /\ UNCHANGED <<clients, dup>>
  BY RegistryAssumption DEF RegInv, noteClientActivity
<1>2. reader[c] = "note" /\ reader' = [reader EXCEPT ![c] = "handle"]
  BY DEF noteClientActivity, At
<1>3. c \in Registered /\ Registered' = Registered
  BY <1>2 DEF Registered, RegInv, ConnsOK
<1>4. c \in Members(k) /\ \A j \in Keys : Members(j)' = Members(j)
  BY <1>3 DEF Members
<1>5. CASE dup[k] = {}
  <2>1. UNCHANGED <<last, spoke>>
    BY <1>5 DEF noteClientActivity
  <2> QED BY <1>1, <1>4, <2>1, SameHistory DEF KeepsHistories, Blank
<1>6. CASE dup[k] # {}
  <2>1. /\ last' = [last EXCEPT ![k] = c]
        /\ spoke' = [spoke EXCEPT ![k] = Spoken(spoke[k], c)]
    BY <1>6 DEF noteClientActivity, Takes
  <2>2. k \in clients
    BY <1>1, <1>6 DEF RegInv, SetsInv, DupInv
  <2>3. ~History(k)!Alone
    BY <1>6, <2>2, KeyAlone
  <2>4. last'[k] = c /\ spoke'[k] = Spoken(spoke[k], c) /\ Members(k)' = Members(k)
    BY <1>1, <1>4, <2>1 DEF SetsOK
  <2>5. History(k)!Speak(c)
    BY <1>4, <2>3, <2>4
       DEF History!Speak, History!Spoken, History!Without, History!Position,
           History!Spoke, Spoken, Without, Position, Spoke
  <2>6. LifeOf(k)
    BY <2>2, <2>5 DEF LifeOf, History!Next
  <2>7. ASSUME NEW j \in Keys, j # k
        PROVE  last'[j] = last[j] /\ spoke'[j] = spoke[j] /\ LifeOf(j)
    BY <1>1, <1>4, <2>1, <2>7, SameHistory DEF SetsOK
  <2> QED BY <1>1, <1>6, <2>6, <2>7 DEF KeepsHistories, Blank
<1> QED BY <1>5, <1>6

\* All other steps leave the histories alone.
LEMMA OtherHistory ==
  ASSUME RegInv, Blank,
         \/ \E c \in Conns :
              \/ ReadFrame(c) \/ setPreferred(c) \/ addWatcher(c) \/ OtherFrame(c)
              \/ \E k \in Keys, d \in Conns : SendPacket(c, k, d)
              \/ Sender(c)
         \/ Mesh
         \/ UNCHANGED vars
  PROVE  KeepsHistories /\ Blank'
<1>1. UNCHANGED setVars
  BY DEF ReadFrame, setPreferred, addWatcher, OtherFrame, SendPacket, Sender,
     SendQueued, SendPeerGone, sendMeshUpdates, onSendLoopDone, Mesh,
     AddPacketForwarder, RemovePacketForwarder, vars
<1>2. Registered' = Registered
  <2>1. CASE \E c \in Conns :
               \/ ReadFrame(c) \/ setPreferred(c) \/ addWatcher(c) \/ OtherFrame(c)
               \/ \E k \in Keys, d \in Conns : SendPacket(c, k, d)
    <3>1. PICK c \in Conns, label \in {"run", "note", "handle"} :
            reader[c] # "off" /\ reader' = [reader EXCEPT ![c] = label]
      BY <2>1 DEF ReadFrame, setPreferred, addWatcher, OtherFrame, SendPacket,
         Handled, At
    <3> QED BY <3>1 DEF Registered, RegInv, ConnsOK
  <2>2. CASE (\E c \in Conns : Sender(c)) \/ Mesh \/ UNCHANGED vars
    <3>1. reader' = reader
      BY <2>2 DEF Sender, SendQueued, SendPeerGone, sendMeshUpdates,
         onSendLoopDone, Mesh, AddPacketForwarder, RemovePacketForwarder, vars
    <3> QED BY <3>1 DEF Registered
  <2> QED BY <2>1, <2>2
<1>3. \A k \in Keys : Members(k)' = Members(k)
  BY <1>2 DEF Members
<1>4. UNCHANGED <<clients, dup, last, spoke>>
  BY <1>1 DEF setVars
<1> QED BY <1>3, <1>4, SameHistory DEF KeepsHistories, Blank

\* Whatever its connections do, each key's part of the registry is a DupHistory:
\* what DupClientSet shows about the log of the code holds for every key.
THEOREM HistoriesKept ==
  ASSUME DupPolicy = "lastWriterIsActive"
  PROVE  Spec => [][KeepsHistories]_vars
<1>1. Init => Blank
  BY DEF Init, Blank
<1>2. RegInv /\ Blank /\ [Next]_vars => KeepsHistories /\ Blank'
  BY RegisterHistory, UnregisterHistory, NoteHistory, OtherHistory
     DEF Next, Reader
<1> QED BY RegistryInvariant, <1>1, <1>2, PTL DEF Spec
=============================================================================
