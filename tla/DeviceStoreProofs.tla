------------------------- MODULE DeviceStoreProofs -------------------------
(***************************************************************************)
(* AdmissionBacked and CacheExact for any number of instances, devices,    *)
(* refreshers and requests, any ttl and any timeout.                       *)
(*                                                                         *)
(* AdmissionBacked is not inductive: what a refresh or a request brings to *)
(* the cache was true of the API some time ago, and the entry it meets has *)
(* an age of its own.  BackedInv bounds each of the three places where a   *)
(* device can be held as authorized: the entry by its age and one timeout, *)
(* an answered List and a request on its way by their own age, which Tick  *)
(* keeps within the timeout.                                               *)
(*                                                                         *)
(* CacheExact needs ExactInv: while the one request on its way to an       *)
(* instance is pending, the API is the entry with that request applied.    *)
(*                                                                         *)
(* Admission, which puts the handshakes of the DERP server around the      *)
(* store, implements the store, and inherits both.                         *)
(***************************************************************************)
EXTENDS Admission, TLAPS

\* The answer of the API calls the device authorized.
Good(r) == r # None /\ r.authorized

RequestOK ==
  \A c \in Callers : request[c].busy => /\ request[c].instance \in Instances
                                        /\ request[c].device \in Devices
                                        /\ request[c].change \in Changes

Grants(q) == q.busy /\ q.change.field = "authorized" /\ q.change.value

CacheBacked ==
  \A i \in Instances, d \in Devices :
    Good(cache[i][d]) => sinceAuth[i][d] <= age[i] + Latency
ListBacked ==
  list.busy => /\ refreshMu # None
               /\ \A d \in Devices :
                    Good(list.devices[d]) => sinceAuth[Here][d] <= list.age
RequestBacked ==
  \A c \in Callers :
    Grants(request[c]) =>
      sinceAuth[request[c].instance][request[c].device] <= request[c].age
ControlBacked ==
  \A i \in Instances, d \in Devices : Authorized(i, d) => sinceAuth[i][d] = 0

BackedInv == CacheBacked /\ ListBacked /\ RequestBacked /\ ControlBacked

Settled ==
  \A i \in Instances \ suspect : ~Pending(i) => cache[i] = control[i]
OneBehind ==
  \A c \in Callers :
    request[c].busy /\ request[c].instance \notin suspect =>
      /\ control[request[c].instance] =
           [cache[request[c].instance] EXCEPT
              ![request[c].device] = Changed(@, request[c].change)]
      /\ \A b \in Callers :
           request[b].busy /\ request[b].instance = request[c].instance => b = c
ListExact ==
  list.busy /\ list.clean => list.devices = control[Here] /\ ~Pending(Here)

ExactInv == Settled /\ OneBehind /\ ListExact

Inv == TypeOK /\ RequestOK /\ BackedInv /\ ExactInv
-----------------------------------------------------------------------------
\* The position of a refresh names an instance.
LEMMA PositionOK ==
  /\ Configs[1] \in Instances /\ 1 \in DOMAIN Configs
  /\ \A n \in DOMAIN Configs : Configs[n] \in Instances
  /\ \A n \in DOMAIN Configs : n < Len(Configs) => n + 1 \in DOMAIN Configs
BY StoreAssumption DEF Instances

\* A change makes a device of a device, and grants nothing unless it is asked to.
LEMMA ChangedOK ==
  ASSUME NEW r \in Device \cup {None}, NEW ch \in Changes
  PROVE  /\ Changed(r, ch) \in Device \cup {None}
         /\ Good(Changed(r, ch)) =>
              Good(r) \/ (ch.field = "authorized" /\ ch.value)
         /\ r # None /\ ch.field = "authorized" /\ ch.value => Good(Changed(r, ch))
<1>1. ch \in Change
  BY StoreAssumption
<1>2. CASE r = None \/ ch.field = "delete"
  BY <1>2, StoreAssumption DEF Changed, Good
<1>3. CASE r # None /\ ch.field # "delete"
  <2>1. r \in Device /\ Changed(r, ch) = With(r, ch)
    BY <1>3 DEF Changed
  <2>2. With(r, ch) \in Device
    BY <1>1, <1>3, <2>1 DEF With, Device, Change
  <2>3. Good(Changed(r, ch)) <=>
          IF ch.field = "authorized" THEN ch.value ELSE r.authorized
    BY <2>1, <2>2, StoreAssumption DEF With, Good
  <2> QED BY <1>3, <2>1, <2>2, <2>3 DEF Good
<1> QED BY <1>2, <1>3

\* The clocks stay in their ranges.
LEMMA OlderOK ==
  ASSUME NEW cap \in Nat, NEW a \in 0 .. cap
  PROVE  Older(a, cap) \in 0 .. cap /\ Older(a, cap) <= a + 1
BY DEF Older
-----------------------------------------------------------------------------
\* The records of an idle refresh and an idle caller.
LEMMA IdleOK ==
  /\ NoList \in [busy : BOOLEAN, devices : Inventory, age : 0 .. Latency, clean : BOOLEAN]
  /\ NoRequest \in [busy : BOOLEAN, instance : Instances, device : Devices \cup {None},
                    change : Changes \cup {None}, age : 0 .. Latency]
  /\ ~NoList.busy /\ ~NoRequest.busy
BY PositionOK, StoreAssumption DEF NoList, NoRequest, Inventory

\* The caps of the clocks.
LEMMA CapsOK == MaxAge \in Nat /\ MaxSince \in Nat /\ MaxSince = MaxAge + Latency
BY StoreAssumption DEF MaxAge, MaxSince

\* What is stored is of the right kind, whatever the callers and others do.
LEMMA TypeStep ==
  ASSUME TypeOK, RequestOK, [Next]_vars
  PROVE  TypeOK' /\ RequestOK'
<1> USE PositionOK, IdleOK, CapsOK
<1> DEFINE LT == [busy : BOOLEAN, devices : Inventory, age : 0 .. Latency,
                  clean : BOOLEAN]
           RT == [busy : BOOLEAN, instance : Instances,
                  device : Devices \cup {None}, change : Changes \cup {None},
                  age : 0 .. Latency]
<1>1. CASE Tick
  <2>1. age' \in [Instances -> 0 .. MaxAge]
    BY <1>1, OlderOK DEF TypeOK, Tick
  <2>2. sinceAuth' \in [Instances -> [Devices -> 0 .. MaxSince]]
    <3>1. \A i \in Instances, d \in Devices :
            Older(sinceAuth[i][d], MaxSince) \in 0 .. MaxSince
      <4>1. ASSUME NEW i \in Instances, NEW d \in Devices
            PROVE  sinceAuth[i][d] \in 0 .. MaxSince
        BY DEF TypeOK
      <4> QED BY <4>1, OlderOK
    <3>2. 0 \in 0 .. MaxSince
      OBVIOUS
    <3> QED BY <1>1, <3>1, <3>2, Zenon DEF Tick
  <2>3. list' \in LT
    BY <1>1, StoreAssumption DEF TypeOK, Tick, Waited
  <2>4. request' \in [Callers -> RT]
    <3>1. ASSUME NEW c \in Callers PROVE WaitedFor(request[c]) \in RT
      <4>1. request[c] \in RT
        BY DEF TypeOK
      <4>2. request[c].busy => request[c].age < Latency
        BY <1>1 DEF Tick
      <4> QED BY <4>1, <4>2, StoreAssumption DEF WaitedFor
    <3> QED BY <1>1, <3>1 DEF Tick
  <2>5. RequestOK'
    BY <1>1 DEF TypeOK, RequestOK, Tick, WaitedFor
  <2>6. passed' \subseteq Instants
    BY <1>1 DEF TypeOK, Tick
  <2> QED BY <1>1, <2>1, <2>2, <2>3, <2>4, <2>5, <2>6 DEF TypeOK, Tick
<1>2. ASSUME NEW i \in Instances, NEW d \in Devices, NEW r \in Device \cup {None},
             Assign(i, d, r)
      PROVE  /\ control' \in [Instances -> Inventory]
             /\ sinceAuth' \in [Instances -> [Devices -> 0 .. MaxSince]]
             /\ list' \in LT
  <2>1. control' \in [Instances -> Inventory]
    BY <1>2 DEF TypeOK, Assign, Inventory
  <2>2. sinceAuth' \in [Instances -> [Devices -> 0 .. MaxSince]]
    BY <1>2, SMTT(30) DEF TypeOK, Assign
  <2>3. list' \in LT
    BY <1>2 DEF TypeOK, Assign
  <2> QED BY <2>1, <2>2, <2>3
<1>3. ASSUME NEW i \in Instances, NEW d \in Devices, OutsideChange(i, d)
      PROVE  TypeOK' /\ RequestOK'
  <2>1. PICK r \in Device \cup {None} : Assign(i, d, r)
    BY <1>3, StoreAssumption DEF OutsideChange
  <2> QED BY <1>2, <1>3, <2>1 DEF TypeOK, RequestOK, OutsideChange
<1>4. ASSUME NEW c \in Callers, NEW i \in Instances, NEW d \in Devices,
             NEW ch \in Changes, Call(c, i, d, ch)
      PROVE  TypeOK' /\ RequestOK'
  <2>1. Changed(control[i][d], ch) \in Device \cup {None}
    <3>1. control[i][d] \in Device \cup {None}
      BY DEF TypeOK, Inventory
    <3> QED BY <3>1, ChangedOK
  <2>2. request' \in [Callers -> RT] /\ RequestOK'
    <3> DEFINE q == [busy |-> TRUE, instance |-> i, device |-> d, change |-> ch,
                     age |-> 0]
    <3>1. q \in RT /\ request' = [request EXCEPT ![c] = q]
      BY <1>4, StoreAssumption DEF Call
    <3>2. request' \in [Callers -> RT]
      BY <3>1 DEF TypeOK
    <3>3. ASSUME NEW b \in Callers
          PROVE  request'[b] = IF b = c THEN q ELSE request[b]
      BY <3>1 DEF TypeOK
    <3> QED BY <3>2, <3>3 DEF RequestOK
  <2> QED BY <1>2, <1>4, <2>1, <2>2 DEF TypeOK, Call
<1>5. ASSUME NEW c \in Callers, Settle(c)
      PROVE  TypeOK' /\ RequestOK'
  <2>1. request' = [request EXCEPT ![c] = NoRequest] /\ request[c].busy
    BY <1>5 DEF Settle, Answered, Lost
  <2>2. request' \in [Callers -> RT] /\ RequestOK'
    BY <2>1 DEF TypeOK, RequestOK
  <2>3. CASE Answered(c)
    <3> DEFINE q == request[c]
    <3>1. q.instance \in Instances /\ q.device \in Devices /\ q.change \in Changes
      BY <2>1 DEF RequestOK
    <3>2. Changed(cache[q.instance][q.device], q.change) \in Device \cup {None}
      <4>1. cache[q.instance][q.device] \in Device \cup {None}
        BY <3>1 DEF TypeOK, Inventory
      <4> QED BY <3>1, <4>1, ChangedOK
    <3>3. cache' \in [Instances -> Inventory]
      BY <2>3, <3>1, <3>2 DEF TypeOK, Inventory, Answered, Recached
    <3> QED BY <2>2, <2>3, <3>3 DEF TypeOK, Answered, timeVars, refreshVars
  <2>4. CASE Lost(c)
    BY <2>2, <2>4 DEF TypeOK, Lost, timeVars, refreshVars
  <2> QED BY <1>5, <2>3, <2>4 DEF Settle
<1>6. ASSUME NEW r \in Refreshers, Want(r) \/ Lock(r)
      PROVE  TypeOK' /\ RequestOK'
  BY <1>6 DEF TypeOK, RequestOK, Want, Lock, timeVars
<1>7. CASE Step
  <2>1. Here \in Instances
    BY DEF TypeOK, Here
  <2>2. ASSUME Onward
        PROVE  at' \in DOMAIN Configs /\ list' \in LT
               /\ refreshMu' \in Refreshers \cup {None}
    BY <2>2 DEF TypeOK, Onward
  <2>3. CASE Skip \/ ListFails
    BY <2>2, <2>3 DEF TypeOK, RequestOK, Skip, ListFails, Continue, recordFailure
  <2>4. CASE List
    <3>1. list' \in LT
      BY <2>1, <2>4, StoreAssumption DEF TypeOK, List, Pending
    <3> QED BY <2>4, <3>1 DEF TypeOK, RequestOK, List, timeVars
  <2>5. CASE Store
    <3>1. cache' \in [Instances -> Inventory] /\ age' \in [Instances -> 0 .. MaxAge]
      BY <2>1, <2>5 DEF TypeOK, Store
    <3> QED BY <2>1, <2>2, <2>5, <3>1 DEF TypeOK, RequestOK, Store
  <2> QED BY <1>7, <2>3, <2>4, <2>5 DEF Step
<1>8. CASE UNCHANGED vars
  BY <1>8 DEF TypeOK, RequestOK, vars, timeVars, refreshVars
<1> QED BY <1>1, <1>3, <1>4, <1>5, <1>6, <1>7, <1>8 DEF Next

\* The ticks since a device was authorized, and the age of a young answer.
LEMMA Elements ==
  ASSUME TypeOK
  PROVE  /\ \A i \in Instances, d \in Devices :
              /\ sinceAuth[i][d] \in 0 .. MaxSince
              /\ control[i][d] \in Device \cup {None}
              /\ cache[i][d] \in Device \cup {None}
         /\ \A i \in Instances : age[i] \in 0 .. MaxAge
         /\ Here \in Instances
         /\ list.age \in 0 .. Latency
         /\ \A c \in Callers : request[c].age \in 0 .. Latency
BY PositionOK DEF TypeOK, Inventory, Here

\* A change at the API never makes the last authorization look older, and one
\* that authorizes the device makes it as recent as can be.
LEMMA AssignLowers ==
  ASSUME TypeOK, NEW i \in Instances, NEW d \in Devices, NEW r, Assign(i, d, r)
  PROVE  /\ \A j \in Instances, e \in Devices :
              sinceAuth'[j][e] \in 0 .. sinceAuth[j][e]
         /\ Good(r) => sinceAuth'[i][d] = 0
         /\ \A j \in Instances, e \in Devices :
              control'[j][e] = IF j = i /\ e = d THEN r ELSE control[j][e]
         /\ list'.busy = list.busy /\ list'.devices = list.devices
         /\ list'.age = list.age
<1>1. \A j \in Instances, e \in Devices :
        sinceAuth'[j][e] = IF j = i /\ e = d /\ Good(r) THEN 0 ELSE sinceAuth[j][e]
  BY DEF TypeOK, Assign, Good
<1>2. \A j \in Instances, e \in Devices :
        control'[j][e] = IF j = i /\ e = d THEN r ELSE control[j][e]
  BY DEF TypeOK, Inventory, Assign
<1> QED BY <1>1, <1>2, Elements, CapsOK DEF Assign

\* One unit of time later, an age and its bound are still in order.
LEMMA Later ==
  ASSUME NEW a \in Nat, NEW b \in Nat, NEW x \in Nat, a <= b, x <= a + 1
  PROVE  x <= b + 1
OBVIOUS

\* A change at the API keeps what is held as authorized backed.
LEMMA AssignBacked ==
  ASSUME TypeOK, RequestOK, BackedInv, NEW i \in Instances, NEW d \in Devices,
         NEW r, Assign(i, d, r), UNCHANGED <<cache, age, refreshMu, at>>
  PROVE  CacheBacked' /\ ListBacked' /\ ControlBacked'
<1>1. CacheBacked'
  <2>1. ASSUME NEW j \in Instances, NEW e \in Devices, Good(cache[j][e])
        PROVE  sinceAuth'[j][e] <= age[j] + Latency
    <3>1. sinceAuth[j][e] <= age[j] + Latency
      BY <2>1 DEF BackedInv, CacheBacked
    <3>2. sinceAuth'[j][e] \in 0 .. sinceAuth[j][e]
      BY AssignLowers
    <3> QED BY <3>1, <3>2, Elements, CapsOK, StoreAssumption
  <2>2. cache' = cache /\ age' = age
    OBVIOUS
  <2> QED BY <2>1, <2>2 DEF CacheBacked, Good
<1>2. ListBacked'
  <2>1. Here' = Here
    BY DEF Here
  <2>2. ASSUME NEW e \in Devices, list.busy, Good(list.devices[e])
        PROVE  sinceAuth'[Here][e] <= list.age
    <3>1. sinceAuth[Here][e] <= list.age
      BY <2>2 DEF BackedInv, ListBacked
    <3>2. sinceAuth'[Here][e] \in 0 .. sinceAuth[Here][e]
      BY AssignLowers, Elements
    <3> QED BY <3>1, <3>2, Elements
  <2> QED BY <2>1, <2>2, AssignLowers DEF BackedInv, ListBacked, Good
<1>3. ControlBacked'
  <2>1. ASSUME NEW j \in Instances, NEW e \in Devices, Good(control'[j][e])
        PROVE  sinceAuth'[j][e] = 0
    BY <2>1, AssignLowers DEF BackedInv, ControlBacked, Authorized, Good, Assign, TypeOK
  <2> QED BY <2>1 DEF ControlBacked, Authorized, Good
<1> QED BY <1>1, <1>2, <1>3

\* Every step keeps what is held as authorized backed by the API.
LEMMA BackedStep ==
  ASSUME TypeOK, RequestOK, BackedInv, [Next]_vars
  PROVE  BackedInv'
<1> USE Elements, CapsOK, StoreAssumption
<1>1. CASE Tick
  <2>1. ASSUME NEW i \in Instances, NEW d \in Devices
        PROVE  /\ sinceAuth'[i][d] <= sinceAuth[i][d] + 1
               /\ Authorized(i, d) => sinceAuth'[i][d] = 0
               /\ sinceAuth'[i][d] \in 0 .. MaxSince
    <3>1. /\ Older(sinceAuth[i][d], MaxSince) \in 0 .. MaxSince
          /\ Older(sinceAuth[i][d], MaxSince) <= sinceAuth[i][d] + 1
      BY OlderOK
    <3>2. sinceAuth'[i][d] =
            IF Authorized(i, d) THEN 0 ELSE Older(sinceAuth[i][d], MaxSince)
      BY <1>1 DEF Tick
    <3> QED BY <3>1, <3>2
  <2>2. CacheBacked'
    <3>1. ASSUME NEW i \in Instances
          PROVE  age'[i] = MaxAge \/ age'[i] = age[i] + 1
      BY <1>1 DEF Tick, Older
    <3>2. UNCHANGED cache
      BY <1>1 DEF Tick
    <3>3. ASSUME NEW i \in Instances, NEW d \in Devices, Good(cache[i][d])
          PROVE  sinceAuth'[i][d] <= age'[i] + Latency
      <4>1. sinceAuth[i][d] <= age[i] + Latency
        BY <3>3 DEF BackedInv, CacheBacked
      <4>2. age'[i] = MaxAge \/ age'[i] = age[i] + 1
        BY <3>1
      <4>3. sinceAuth[i][d] \in Nat /\ age[i] \in Nat
        OBVIOUS
      <4>4. /\ sinceAuth'[i][d] \in Nat /\ sinceAuth'[i][d] <= MaxSince
            /\ sinceAuth'[i][d] <= sinceAuth[i][d] + 1
        BY <2>1
      <4>5. CASE age'[i] = MaxAge
        BY <4>4, <4>5
      <4>6. CASE age'[i] = age[i] + 1
        <5>1. sinceAuth[i][d] + 1 <= (age[i] + 1) + Latency
          BY <4>1, <4>3
        <5>2. sinceAuth'[i][d] <= (age[i] + 1) + Latency
          BY <4>3, <4>4, <5>1, SMTT(30)
        <5> QED BY <4>6, <5>2
      <4> QED BY <4>2, <4>5, <4>6
    <3> QED BY <3>2, <3>3 DEF CacheBacked, Good
  <2>3. ListBacked'
    <3>1. Here' = Here
      BY <1>1 DEF Tick, Here
    <3>2. /\ list'.busy = list.busy /\ list'.devices = list.devices
          /\ list.busy => list'.age = list.age + 1
          /\ refreshMu' = refreshMu
      BY <1>1 DEF Tick, Waited, TypeOK
    <3>3. ASSUME NEW d \in Devices, list.busy, Good(list.devices[d])
          PROVE  sinceAuth'[Here][d] <= list'.age
      <4>1. sinceAuth[Here][d] <= list.age /\ Here \in Instances
        BY <3>3, Elements DEF BackedInv, ListBacked
      <4>2. /\ sinceAuth[Here][d] \in Nat /\ list.age \in Nat
            /\ sinceAuth'[Here][d] \in Nat
            /\ sinceAuth'[Here][d] <= sinceAuth[Here][d] + 1
        BY <2>1, <4>1
      <4>3. sinceAuth'[Here][d] <= list.age + 1
        BY <4>1, <4>2, Later
      <4> QED BY <3>2, <3>3, <4>3
    <3>4. list.busy => refreshMu # None
      BY DEF BackedInv, ListBacked
    <3> QED BY <3>1, <3>2, <3>3, <3>4 DEF ListBacked, Good
  <2>4. RequestBacked'
    <3>1. ASSUME NEW c \in Callers, Grants(request'[c])
          PROVE  sinceAuth'[request'[c].instance][request'[c].device]
                   <= request'[c].age
      <4>1. /\ request'[c].busy = request[c].busy
            /\ request'[c].instance = request[c].instance
            /\ request'[c].device = request[c].device
            /\ request'[c].change = request[c].change
            /\ request[c].busy => request'[c].age = request[c].age + 1
        BY <1>1 DEF Tick, WaitedFor
      <4>2. Grants(request[c]) /\ request[c].instance \in Instances
            /\ request[c].device \in Devices
        BY <3>1, <4>1 DEF Grants, RequestOK
      <4>3. sinceAuth[request[c].instance][request[c].device] <= request[c].age
        BY <4>2 DEF BackedInv, RequestBacked
      <4> DEFINE i == request[c].instance  d == request[c].device
      <4>4. sinceAuth[i][d] \in Nat /\ request[c].age \in Nat
        BY <4>2
      <4>5. sinceAuth'[i][d] \in Nat /\ sinceAuth'[i][d] <= sinceAuth[i][d] + 1
        BY <2>1, <4>2
      <4>6. sinceAuth'[i][d] <= request[c].age + 1
        BY <4>3, <4>4, <4>5, Later
      <4> QED BY <4>1, <4>2, <4>6 DEF Grants
    <3> QED BY <3>1 DEF RequestBacked
  <2>5. ControlBacked'
    BY <1>1, <2>1 DEF Tick, ControlBacked, Authorized
  <2> QED BY <2>2, <2>3, <2>4, <2>5 DEF BackedInv
<1>2. ASSUME NEW i \in Instances, NEW d \in Devices, OutsideChange(i, d)
      PROVE  BackedInv'
  <2>1. PICK r : Assign(i, d, r)
    BY <1>2 DEF OutsideChange
  <2>2. CacheBacked' /\ ListBacked' /\ ControlBacked'
    BY <1>2, <2>1, AssignBacked DEF OutsideChange
  <2>3. RequestBacked'
    <3>1. request' = request
      BY <1>2 DEF OutsideChange
    <3>2. ASSUME NEW c \in Callers, Grants(request[c])
          PROVE  sinceAuth'[request[c].instance][request[c].device] <= request[c].age
      <4>1. request[c].instance \in Instances /\ request[c].device \in Devices
        BY <3>2 DEF Grants, RequestOK
      <4>2. sinceAuth[request[c].instance][request[c].device] <= request[c].age
        BY <3>2 DEF BackedInv, RequestBacked
      <4>3. sinceAuth'[request[c].instance][request[c].device]
              \in 0 .. sinceAuth[request[c].instance][request[c].device]
        BY <2>1, <4>1, AssignLowers
      <4>4. sinceAuth[request[c].instance][request[c].device] \in Nat
            /\ request[c].age \in Nat
        BY <4>1
      <4> QED BY <4>2, <4>3, <4>4, SMTT(30)
    <3> QED BY <3>1, <3>2 DEF RequestBacked
  <2> QED BY <2>2, <2>3 DEF BackedInv
<1>3. ASSUME NEW c \in Callers, NEW i \in Instances, NEW d \in Devices,
             NEW ch \in Changes, Call(c, i, d, ch)
      PROVE  BackedInv'
  <2> DEFINE r == Changed(control[i][d], ch)
  <2>1. Assign(i, d, r) /\ control[i][d] # None
    BY <1>3 DEF Call
  <2>2. CacheBacked' /\ ListBacked' /\ ControlBacked'
    <3> HIDE DEF r
    <3> QED BY <1>3, <2>1, AssignBacked DEF Call
  <2>3. ASSUME NEW b \in Callers, Grants(request'[b])
        PROVE  sinceAuth'[request'[b].instance][request'[b].device] <= request'[b].age
    <3>1. CASE b = c
      <4>1. request'[c].instance = i /\ request'[c].device = d
            /\ request'[c].age = 0 /\ request'[c].change = ch
        BY <1>3 DEF Call, TypeOK
      <4>2. Good(r)
        BY <2>1, <2>3, <3>1, <4>1, ChangedOK DEF Grants
      <4> HIDE DEF r
      <4> QED BY <2>1, <3>1, <4>1, <4>2, AssignLowers
    <3>2. CASE b # c
      <4>1. request'[b] = request[b]
        BY <1>3, <3>2 DEF Call, TypeOK
      <4>2. request[b].instance \in Instances /\ request[b].device \in Devices
        BY <2>3, <4>1 DEF Grants, RequestOK
      <4>3. sinceAuth[request[b].instance][request[b].device] <= request[b].age
        BY <2>3, <4>1 DEF BackedInv, RequestBacked
      <4>4. sinceAuth'[request[b].instance][request[b].device]
              \in 0 .. sinceAuth[request[b].instance][request[b].device]
        <5> HIDE DEF r
        <5> QED BY <2>1, <4>2, AssignLowers
      <4>5. sinceAuth[request[b].instance][request[b].device] \in Nat
            /\ request[b].age \in Nat
        BY <4>2
      <4> QED BY <4>1, <4>3, <4>4, <4>5
    <3> QED BY <3>1, <3>2
  <2> QED BY <2>2, <2>3 DEF BackedInv, RequestBacked
<1>4. ASSUME NEW c \in Callers, Settle(c)
      PROVE  BackedInv'
  <2>1. /\ request' = [request EXCEPT ![c] = NoRequest] /\ request[c].busy
        /\ UNCHANGED <<control, timeVars, refreshVars>>
    BY <1>4 DEF Settle, Answered, Lost
  <2>2. RequestBacked'
    <3>1. ASSUME NEW b \in Callers
          PROVE  request'[b] = request[b] \/ ~request'[b].busy
      BY <2>1, IdleOK DEF TypeOK
    <3> QED BY <2>1, <3>1 DEF BackedInv, RequestBacked, Grants, timeVars
  <2>3. ListBacked' /\ ControlBacked'
    BY <2>1 DEF BackedInv, ListBacked, ControlBacked, Here, Authorized, timeVars,
       refreshVars, Good
  <2>4. CacheBacked'
    <3>1. CASE Answered(c)
      <4> DEFINE q == request[c]
      <4>1. q.instance \in Instances /\ q.device \in Devices /\ q.change \in Changes
        BY <2>1 DEF RequestOK
      <4>2. \A i \in Instances, d \in Devices :
              cache'[i][d] = IF i = q.instance /\ d = q.device
                             THEN Changed(cache[i][d], q.change) ELSE cache[i][d]
        BY <3>1, <4>1 DEF Answered, Recached, TypeOK, Inventory
      <4>3. ASSUME NEW i \in Instances, NEW d \in Devices, Good(cache'[i][d])
            PROVE  sinceAuth[i][d] <= age[i] + Latency
        <5>1. Good(cache[i][d]) \/ (i = q.instance /\ d = q.device /\ Grants(q))
          <6>1. CASE i = q.instance /\ d = q.device
            BY <2>1, <4>1, <4>2, <4>3, <6>1, ChangedOK DEF Grants
          <6>2. CASE ~(i = q.instance /\ d = q.device)
            BY <4>2, <4>3, <6>2
          <6> QED BY <6>1, <6>2
        <5>2. CASE Good(cache[i][d])
          BY <5>2 DEF BackedInv, CacheBacked
        <5>3. CASE i = q.instance /\ d = q.device /\ Grants(q)
          <6>1. sinceAuth[i][d] <= q.age
            BY <5>3 DEF BackedInv, RequestBacked
          <6>2. q.age <= Latency
            OBVIOUS
          <6> QED BY <6>1, <6>2
        <5> QED BY <5>1, <5>2, <5>3
      <4> QED BY <2>1, <4>3 DEF CacheBacked, timeVars, Good
    <3>2. CASE Lost(c)
      BY <2>1, <3>2 DEF BackedInv, CacheBacked, Lost, timeVars, Good
    <3> QED BY <1>4, <3>1, <3>2 DEF Settle
  <2> QED BY <2>2, <2>3, <2>4 DEF BackedInv
<1>5. ASSUME NEW r \in Refreshers, Want(r) \/ Lock(r)
      PROVE  BackedInv'
  <2>1. UNCHANGED <<control, cache, timeVars, request, list>>
    BY <1>5 DEF Want, Lock
  <2>2. list.busy => UNCHANGED <<refreshMu, at>>
    BY <1>5 DEF Want, Lock, BackedInv, ListBacked
  <2>3. ListBacked'
    BY <2>1, <2>2 DEF BackedInv, ListBacked, Here, timeVars, Good
  <2> QED BY <2>1, <2>3 DEF BackedInv, CacheBacked, RequestBacked, ControlBacked,
      Authorized, Grants, timeVars, Good
<1>6. CASE Step
  <2>1. UNCHANGED <<control, sinceAuth, request>>
    BY <1>6 DEF Step, Skip, List, Store, ListFails, timeVars
  <2>2. RequestBacked' /\ ControlBacked'
    BY <2>1 DEF BackedInv, RequestBacked, ControlBacked, Authorized, Grants, Good
  <2>3. CASE Skip \/ ListFails
    <3>1. UNCHANGED <<cache, age>> /\ ~list'.busy
      BY <2>3, IdleOK DEF Skip, ListFails, Continue, Onward, recordFailure
    <3> QED BY <2>1, <2>2, <3>1 DEF BackedInv, CacheBacked, ListBacked, Good
  <2>4. CASE List
    <3>1. UNCHANGED <<cache, age, refreshMu, at>> /\ refreshMu # None
      BY <2>4 DEF List, timeVars
    <3>2. list'.devices = control[Here] /\ list'.age = 0
      BY <2>4 DEF List
    <3>3. ListBacked'
      BY <2>1, <3>1, <3>2 DEF BackedInv, ControlBacked, ListBacked, Authorized, Good, Here
    <3> QED BY <2>1, <2>2, <3>1, <3>3 DEF BackedInv, CacheBacked, Good
  <2>5. CASE Store
    <3>1. ~list'.busy
      BY <2>5, IdleOK DEF Store, Onward
    <3>2. \A i \in Instances :
            /\ age'[i] = IF i = Here THEN 0 ELSE age[i]
            /\ cache'[i] = IF i = Here THEN list.devices ELSE cache[i]
      BY <2>5 DEF Store, TypeOK
    <3>3. CacheBacked'
      <4>1. ASSUME NEW i \in Instances, NEW d \in Devices, Good(cache'[i][d])
            PROVE  sinceAuth[i][d] <= age'[i] + Latency
        <5>1. CASE i = Here
          <6>1. sinceAuth[i][d] <= list.age
            BY <2>5, <3>2, <4>1, <5>1 DEF BackedInv, ListBacked, Store
          <6> QED BY <3>2, <5>1, <6>1
        <5>2. CASE i # Here
          BY <3>2, <4>1, <5>2 DEF BackedInv, CacheBacked
        <5> QED BY <5>1, <5>2
      <4> QED BY <2>1, <4>1 DEF CacheBacked, Good
    <3> QED BY <2>2, <3>1, <3>3 DEF BackedInv, ListBacked
  <2> QED BY <1>6, <2>3, <2>4, <2>5 DEF Step
<1>7. CASE UNCHANGED vars
  BY <1>7 DEF BackedInv, CacheBacked, ListBacked, RequestBacked, ControlBacked,
     Authorized, Grants, Good, Here, vars, timeVars, refreshVars
<1> QED BY <1>1, <1>2, <1>3, <1>4, <1>5, <1>6, <1>7 DEF Next

\* Every step keeps the cache exact where nothing interfered.
LEMMA ExactStep ==
  ASSUME TypeOK, RequestOK, BackedInv, ExactInv, [Next]_vars
  PROVE  ExactInv'
<1>1. CASE Tick
  <2>1. UNCHANGED <<control, cache, suspect, at>>
    BY <1>1 DEF Tick
  <2>2. \A c \in Callers : /\ request'[c].busy = request[c].busy
                           /\ request'[c].instance = request[c].instance
                           /\ request'[c].device = request[c].device
                           /\ request'[c].change = request[c].change
    BY <1>1 DEF Tick, WaitedFor
  <2>3. list'.busy = list.busy /\ list'.clean = list.clean
        /\ list'.devices = list.devices
    BY <1>1 DEF Tick, Waited
  <2>4. \A i : Pending(i)' <=> Pending(i)
    BY <2>2 DEF Pending
  <2>5. Settled'
    BY <2>1, <2>4 DEF ExactInv, Settled
  <2>6. OneBehind'
    BY <2>1, <2>2 DEF ExactInv, OneBehind
  <2>7. ListExact'
    BY <2>1, <2>3, <2>4 DEF ExactInv, ListExact, Here
  <2> QED BY <2>5, <2>6, <2>7 DEF ExactInv
<1>2. ASSUME NEW i \in Instances, NEW d \in Devices, NEW r, Assign(i, d, r)
      PROVE  /\ \A j \in Instances : j # i => control'[j] = control[j]
             /\ control'[i] = [control[i] EXCEPT ![d] = r]
             /\ list'.devices = list.devices
             /\ list'.clean => list.clean /\ Here # i
             /\ list'.busy = list.busy
  BY <1>2 DEF TypeOK, Assign
<1>3. ASSUME NEW i \in Instances, NEW d \in Devices, OutsideChange(i, d)
      PROVE  ExactInv'
  <2>1. PICK r : Assign(i, d, r)
    BY <1>3 DEF OutsideChange
  <2>2. UNCHANGED <<cache, request, at>> /\ suspect' = suspect \cup {i}
    BY <1>3 DEF OutsideChange
  <2>3. \A j : Pending(j)' <=> Pending(j)
    BY <2>2 DEF Pending
  <2>4. Settled'
    BY <1>2, <2>1, <2>2, <2>3 DEF ExactInv, Settled
  <2>5. OneBehind'
    <3>1. ASSUME NEW c \in Callers, request[c].busy,
                 request[c].instance \notin suspect'
          PROVE  /\ request[c].instance \notin suspect
                 /\ control'[request[c].instance] = control[request[c].instance]
      <4>1. request[c].instance \in Instances \ {i}
        BY <2>2, <3>1 DEF RequestOK
      <4> QED BY <1>2, <2>1, <2>2, <3>1, <4>1
    <3> QED BY <2>2, <3>1 DEF ExactInv, OneBehind
  <2>6. ListExact'
    BY <1>2, <2>1, <2>2, <2>3, Elements DEF ExactInv, ListExact, Here
  <2> QED BY <2>4, <2>5, <2>6 DEF ExactInv
<1>4. ASSUME NEW c \in Callers, NEW i \in Instances, NEW d \in Devices,
             NEW ch \in Changes, Call(c, i, d, ch)
      PROVE  ExactInv'
  <2> DEFINE r == Changed(control[i][d], ch)
  <2>1. Assign(i, d, r) /\ ~request[c].busy
    BY <1>4 DEF Call
  <2>2. /\ UNCHANGED <<cache, at>>
        /\ suspect' = IF Pending(i) THEN suspect \cup {i} ELSE suspect
        /\ \A b \in Callers : b # c => request'[b] = request[b]
        /\ request'[c].busy /\ request'[c].instance = i
        /\ request'[c].device = d /\ request'[c].change = ch
    BY <1>4 DEF Call, TypeOK
  <2>3. \A j : Pending(j)' <=> Pending(j) \/ j = i
    BY <2>1, <2>2 DEF Pending
  <2>4. /\ \A j \in Instances : j # i => control'[j] = control[j]
        /\ control'[i] = [control[i] EXCEPT ![d] = r]
        /\ list'.devices = list.devices
        /\ list'.clean => list.clean /\ Here # i
        /\ list'.busy = list.busy
    <3> HIDE DEF r
    <3> QED BY <1>2, <2>1
  <2> HIDE DEF r
  <2>5. Settled'
    BY <2>2, <2>3, <2>4 DEF ExactInv, Settled
  <2>6. OneBehind'
    <3>1. ASSUME NEW b \in Callers, request'[b].busy,
                 request'[b].instance \notin suspect'
          PROVE  /\ control'[request'[b].instance] =
                      [cache[request'[b].instance] EXCEPT
                         ![request'[b].device] = Changed(@, request'[b].change)]
                 /\ \A a \in Callers :
                      request'[a].busy /\ request'[a].instance = request'[b].instance
                        => a = b
      <4>1. CASE b = c
        <5>1. i \notin suspect /\ ~Pending(i)
          BY <2>2, <3>1, <4>1
        <5>2. cache[i] = control[i]
          BY <5>1 DEF ExactInv, Settled
        <5>3. control'[i] = [cache[i] EXCEPT ![d] = Changed(cache[i][d], ch)]
          BY <2>4, <5>2 DEF r
        <5> QED BY <2>2, <4>1, <5>1, <5>3 DEF Pending
      <4>2. CASE b # c
        <5>1. request'[b] = request[b] /\ request[b].busy
              /\ request[b].instance \in Instances
          BY <2>2, <3>1, <4>2 DEF RequestOK
        <5>2. request[b].instance # i /\ request[b].instance \notin suspect
          BY <2>2, <3>1, <5>1 DEF Pending
        <5>3. control'[request[b].instance] = control[request[b].instance]
          BY <2>4, <5>1, <5>2
        <5>4. ASSUME NEW a \in Callers, request'[a].busy,
                     request'[a].instance = request[b].instance
              PROVE  a = b
          <6>1. a # c /\ request'[a] = request[a]
            BY <2>2, <5>2, <5>4
          <6> QED BY <5>1, <5>2, <5>4, <6>1 DEF ExactInv, OneBehind
        <5>5. control[request[b].instance] =
                [cache[request[b].instance] EXCEPT
                   ![request[b].device] = Changed(@, request[b].change)]
          BY <5>1, <5>2 DEF ExactInv, OneBehind
        <5> QED BY <5>1, <5>3, <5>4, <5>5
      <4> QED BY <4>1, <4>2
    <3> QED BY <2>2, <3>1 DEF OneBehind
  <2>7. ListExact'
    BY <2>2, <2>3, <2>4, Elements DEF ExactInv, ListExact, Here
  <2> QED BY <2>5, <2>6, <2>7 DEF ExactInv
<1>5. ASSUME NEW c \in Callers, Settle(c)
      PROVE  ExactInv'
  <2> DEFINE q == request[c]
  <2>1. /\ \A b \in Callers : b # c => request'[b] = request[b]
        /\ ~request'[c].busy
        /\ q.busy /\ UNCHANGED <<control, refreshVars>>
    BY <1>5, IdleOK DEF Settle, Answered, Lost, TypeOK
  <2>2. q.instance \in Instances /\ q.device \in Devices
    BY <2>1 DEF RequestOK
  <2>3. \A j : Pending(j)' => Pending(j)
    BY <2>1 DEF Pending
  <2>4. \A j : j # q.instance => (Pending(j)' <=> Pending(j))
    BY <2>1 DEF Pending
  <2>5. ListExact'
    BY <2>1, <2>3 DEF ExactInv, ListExact, Here, refreshVars
  <2>6. CASE Answered(c)
    <3>1. suspect' = suspect /\ \A j \in Instances : j # q.instance => cache'[j] = cache[j]
      BY <2>6 DEF Answered, TypeOK
    <3>2. q.instance \notin suspect => cache'[q.instance] = control[q.instance]
      <4>1. cache'[q.instance] =
              [cache[q.instance] EXCEPT ![q.device] = Changed(@, q.change)]
        BY <2>2, <2>6 DEF Answered, TypeOK, Recached
      <4> QED BY <2>1, <4>1 DEF ExactInv, OneBehind
    <3>3. Settled'
      BY <2>1, <2>4, <3>1, <3>2 DEF ExactInv, Settled
    <3>4. OneBehind'
      <4>1. ASSUME NEW b \in Callers, request'[b].busy, request'[b].instance \notin suspect
            PROVE  /\ b # c /\ request'[b] = request[b]
                   /\ request[b].instance \in Instances
                   /\ request[b].instance # q.instance
        BY <2>1, <4>1 DEF ExactInv, OneBehind, RequestOK
      <4> QED BY <2>1, <3>1, <4>1, SMTT(30) DEF ExactInv, OneBehind
    <3> QED BY <2>5, <3>3, <3>4 DEF ExactInv
  <2>7. CASE Lost(c)
    <3>1. suspect' = suspect \cup {q.instance} /\ cache' = cache
      BY <2>7 DEF Lost
    <3>2. Settled'
      BY <2>1, <2>4, <3>1 DEF ExactInv, Settled
    <3>3. OneBehind'
      BY <2>1, <3>1 DEF ExactInv, OneBehind
    <3> QED BY <2>5, <3>2, <3>3 DEF ExactInv
  <2> QED BY <1>5, <2>6, <2>7 DEF Settle
<1>6. ASSUME UNCHANGED <<control, cache, request, suspect>>
      PROVE  Settled' /\ OneBehind' /\ \A j : Pending(j)' <=> Pending(j)
  BY <1>6 DEF ExactInv, Settled, OneBehind, Pending
<1>7. ASSUME NEW r \in Refreshers, Want(r) \/ Lock(r)
      PROVE  ExactInv'
  <2>1. UNCHANGED <<control, cache, request, suspect, list>>
    BY <1>7 DEF Want, Lock
  <2>2. list.busy => at' = at
    BY <1>7 DEF Want, Lock, BackedInv, ListBacked
  <2>3. ListExact'
    BY <1>6, <2>1, <2>2 DEF ExactInv, ListExact, Here
  <2> QED BY <1>6, <2>1, <2>3 DEF ExactInv
<1>8. CASE Step
  <2>1. CASE Skip \/ ListFails
    <3>1. UNCHANGED <<control, cache, request, suspect>> /\ ~list'.busy
      BY <2>1, IdleOK DEF Skip, ListFails, Continue, Onward
    <3> QED BY <1>6, <3>1 DEF ExactInv, ListExact
  <2>2. CASE List
    <3>1. UNCHANGED <<control, cache, request, suspect, at>>
      BY <2>2 DEF List
    <3>2. list'.devices = control[Here] /\ (list'.clean <=> ~Pending(Here))
      BY <2>2 DEF List
    <3>3. ListExact'
      BY <1>6, <3>1, <3>2 DEF ListExact, Here
    <3> QED BY <1>6, <3>1, <3>3 DEF ExactInv
  <2>3. CASE Store
    <3>1. /\ UNCHANGED <<control, request>> /\ ~list'.busy
          /\ list.busy
          /\ suspect' = IF list.clean THEN suspect \ {Here} ELSE suspect \cup {Here}
          /\ \A j \in Instances :
               cache'[j] = IF j = Here THEN list.devices ELSE cache[j]
      BY <2>3, IdleOK DEF Store, Onward, TypeOK
    <3>2. \A j : Pending(j)' <=> Pending(j)
      BY <3>1 DEF Pending
    <3>3. Settled'
      BY <3>1, <3>2 DEF ExactInv, Settled, ListExact
    <3>4. OneBehind'
      <4>1. ASSUME NEW b \in Callers, request[b].busy, request[b].instance \notin suspect'
            PROVE  /\ request[b].instance \in Instances
                   /\ request[b].instance # Here
                   /\ request[b].instance \notin suspect
        BY <3>1, <4>1 DEF ExactInv, ListExact, Pending, RequestOK
      <4> QED BY <3>1, <4>1 DEF ExactInv, OneBehind
    <3> QED BY <3>1, <3>3, <3>4 DEF ExactInv, ListExact
  <2> QED BY <1>8, <2>1, <2>2, <2>3 DEF Step
<1>9. CASE UNCHANGED vars
  BY <1>6, <1>9 DEF ExactInv, ListExact, Here, vars, refreshVars
<1> QED BY <1>1, <1>3, <1>4, <1>5, <1>7, <1>8, <1>9 DEF Next
-----------------------------------------------------------------------------
\* The inductive invariant: an empty cache vouches for nobody, and every
\* operation of the store, the callers and the API keeps it.
THEOREM Inductive == Spec => []Inv
<1>1. Init => Inv
  <2> SUFFICES ASSUME Init PROVE Inv
    OBVIOUS
  <2> USE PositionOK, IdleOK, CapsOK, StoreAssumption
  <2>1. /\ control \in [Instances -> Inventory]
        /\ cache \in [Instances -> Inventory]
    BY DEF Init, Inventory
  <2>2. sinceAuth \in [Instances -> [Devices -> 0 .. MaxSince]]
    BY DEF Init
  <2>3. TypeOK /\ RequestOK
    BY <2>1, <2>2 DEF Init, TypeOK, RequestOK
  <2>4. BackedInv
    BY DEF Init, BackedInv, CacheBacked, ListBacked, RequestBacked, ControlBacked,
       Good, Grants
  <2>5. ExactInv
    BY DEF Init, ExactInv, Settled, OneBehind, ListExact
  <2> QED BY <2>3, <2>4, <2>5 DEF Inv
<1>2. Inv /\ [Next]_vars => Inv'
  BY TypeStep, BackedStep, ExactStep DEF Inv
<1> QED BY <1>1, <1>2, PTL DEF Spec

\* The store's state is always of its type.
THEOREM TypeCorrect == Spec => []TypeOK
<1>1. Inv => TypeOK
  BY DEF Inv
<1> QED BY <1>1, Inductive, PTL

\* allowed never admits a key on the word of a tailnet that has not had its
\* device authorized for longer than the ttl and one request timeout.
THEOREM AdmissionCorrect == Spec => []AdmissionBacked
<1>1. Inv => AdmissionBacked
  <2> SUFFICES ASSUME Inv, NEW i \in Instances, NEW d \in Devices, Vouches(i, d)
               PROVE  sinceAuth[i][d] <= TTL + Latency
    BY DEF AdmissionBacked
  <2>1. sinceAuth[i][d] <= age[i] + Latency
    BY DEF Inv, BackedInv, CacheBacked, Good, Vouches, Usable
  <2>2. age[i] <= TTL
    BY DEF Vouches, Fresh
  <2>3. sinceAuth[i][d] \in 0 .. MaxSince /\ age[i] \in 0 .. MaxAge
    BY Elements DEF Inv
  <2> QED BY <2>1, <2>2, <2>3, CapsOK, StoreAssumption
<1> QED BY <1>1, Inductive, PTL

\* Where nothing interfered since the last refresh, the management requests
\* leave the cache equal to the API.
THEOREM CacheCorrect == Spec => []CacheExact
<1>1. Inv => CacheExact
  BY DEF Inv, ExactInv, Settled, CacheExact
<1> QED BY <1>1, Inductive, PTL
-----------------------------------------------------------------------------
(* The store under the handshakes of the DERP server. *)

\* A handshake reads the store and a connection's end does not touch it.
LEMMA AdmissionImplementsStore == AdmissionSpec => Spec
<1>1. AdmissionInit => Init
  BY DEF AdmissionInit
<1>2. [AdmissionNext]_admissionVars => [Next]_vars
  BY DEF AdmissionNext, accept, Disconnect, admissionVars
<1> QED BY <1>1, <1>2, PTL DEF AdmissionSpec, Spec

\* With the handshakes, too, allowed admits on an authorization of at most the
\* ttl and one timeout ago.
THEOREM AdmissionServed == AdmissionSpec => []AdmissionBacked
BY AdmissionImplementsStore, AdmissionCorrect, PTL

\* And the handshakes leave the cache as exact as the requests keep it.
THEOREM CacheServed == AdmissionSpec => []CacheExact
BY AdmissionImplementsStore, CacheCorrect, PTL

\* A key without a connection gets one on the word of the store.
Admitted(d) == d \notin linked /\ d \in linked'
RecentWord(d) == \E i \in Instances : sinceAuth[i][d] <= TTL + Latency
AdmittedOnRecentWord == \A d \in Devices : Admitted(d) => RecentWord(d)

\* accept never registers a client that no other source vouches for unless one
\* of the tailnets had its device authorized within the ttl and one timeout:
\* not when the URLs were late, not in the middle of a refresh, not between a
\* management request and its answer.
THEOREM AdmittedCorrect == AdmissionSpec => [][AdmittedOnRecentWord]_admissionVars
<1>1. ASSUME AdmissionBacked, [AdmissionNext]_admissionVars
      PROVE  [AdmittedOnRecentWord]_admissionVars
  <2> SUFFICES ASSUME AdmissionNext, NEW d \in Devices, Admitted(d)
               PROVE  RecentWord(d)
    BY <1>1 DEF AdmittedOnRecentWord
  <2>1. PICK e \in Devices, h \in Handshake : accept(e, h)
    BY DEF AdmissionNext, Disconnect, Admitted
  <2>2. e = d /\ NeedsStore(h)
    BY <2>1 DEF accept, Admitted
  <2>3. ByStore(d)
    BY <2>1, <2>2 DEF accept, verifyClient, verify, NeedsStore
  <2>4. PICK i \in Instances : Vouches(i, d)
    BY <2>3 DEF ByStore, allowed
  <2> QED BY <1>1, <2>4 DEF AdmissionBacked, RecentWord
<1> QED BY <1>1, AdmissionServed, PTL DEF AdmissionSpec
=============================================================================
