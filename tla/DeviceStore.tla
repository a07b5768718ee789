---------------------------- MODULE DeviceStore ----------------------------
(***************************************************************************)
(* The device inventory that decides who may use the relay                 *)
(* (internal/ops/devices.go), the management requests that change it       *)
(* (internal/ops/device_management.go, setDeviceIPv4 of tailnet_api.go)    *)
(* and the tailnets' own truth at the Tailscale API.                       *)
(*                                                                         *)
(* The API is asked without any lock.  refreshMu keeps refreshes apart and *)
(* mu makes a change of the cache atomic, but nothing relates a change at  *)
(* the API to the change of the cache that follows it: a refresh, another  *)
(* request or an administrator elsewhere may come between.                 *)
(*                                                                         *)
(* Time is counted in ticks.  A cache entry has the age of its lastSuccess *)
(* (one that is zero or past the ttl is equally not fresh), and a request  *)
(* takes at most Latency ticks, which is deviceRequestTimeout; what the    *)
(* code does after the answer and under mu takes no tick.  lastAttempt and *)
(* err are shown to the user only.  A device keeps its node key.           *)
(***************************************************************************)
EXTENDS Naturals, Sequences

CONSTANTS Configs,     \* the API instances in configuration order
          Configured,  \* the ones with credentials
          Devices,     \* node keys
          Refreshers,  \* the refresh loop and the users of POST /devices/refresh
          Loop,        \* the refresh loop
          Callers,     \* management requests
          Changes,     \* what they ask for
          Edits,       \* what others may make of a device, None to delete it
          Instants,    \* instants at which keys expire
          Shown,       \* the fields nothing is decided by: name, tags, addresses
          TTL, Latency,
          None, Never, Past  \* no device; no expiry; an instant long gone

Instances == {Configs[n] : n \in DOMAIN Configs}

Device == [authorized : BOOLEAN, keyExpiryDisabled : BOOLEAN,
           expires : Instants \cup {Never, Past}, shown : Shown]
Inventory == [Devices -> Device \cup {None}]

Change == [field : {"authorized", "keyExpiryDisabled"}, value : BOOLEAN]
            \cup [field : {"shown"}, value : Shown]
            \cup [field : {"delete", "expire"}, value : {None}]

ASSUME StoreAssumption ==
  /\ Configs \in Seq(Instances) /\ Configs # <<>>
  /\ Configured \subseteq Instances
  /\ Loop \in Refreshers
  /\ Changes \subseteq Change
  /\ Edits \subseteq Device \cup {None}
  /\ None \notin Device /\ None \notin Refreshers
  /\ TTL \in Nat /\ Latency \in Nat

VARIABLES
  control,    \* per instance: the devices as the API knows them
  cache,      \* per instance: deviceCache.devices
  age,        \* per instance: ticks since deviceCache.lastSuccess
  passed,     \* the instants that lie in the past
  waiting,    \* who waits for refreshMu
  refreshMu,  \* who holds it, or None
  at,         \* its holder's position in Configs
  list,       \* its holder's request: the devices answered, ticks since then
  request,    \* per caller: the change made at the API, not yet in the cache
  sinceAuth,  \* per instance and device: ticks since the API last had it
              \* authorized
  suspect     \* instances whose cache may differ from the API: others changed
              \* the devices, or requests overlapped, since the last refresh

timeVars == <<age, passed, sinceAuth>>
refreshVars == <<waiting, refreshMu, at, list>>
vars == <<control, cache, timeVars, refreshVars, request, suspect>>

NoList == [busy |-> FALSE, devices |-> [d \in Devices |-> None], age |-> 0,
           clean |-> FALSE]
NoRequest == [busy |-> FALSE, instance |-> Configs[1], device |-> None,
              change |-> None, age |-> 0]

\* A request is between the API and the cache of this instance.
Pending(i) == \E c \in Callers : request[c].busy /\ request[c].instance = i

Here == Configs[at]
-----------------------------------------------------------------------------
(* Reading the cache. *)

\* Faulty: an entry is trusted however old it is.
Whenever(i) == TRUE

\* lastSuccess is set and within the ttl.
Fresh(i) == age[i] <= TTL

\* An empty value never expires.
deviceExpired(e) == e = Past \/ e \in passed

Usable(r) ==
  /\ r # None
  /\ r.authorized
  /\ r.keyExpiryDisabled \/ ~deviceExpired(r.expires)

\* The verifier's answer to the DERP server: some instance vouches for the key.
Vouches(i, d) == Fresh(i) /\ Usable(cache[i][d])
allowed(d) == \E i \in Instances : Vouches(i, d)
-----------------------------------------------------------------------------
(* What a management request changes, at the API and then in the cache. *)

\* The device with the field that the change is about.
With(r, ch) ==
  [authorized |-> IF ch.field = "authorized" THEN ch.value ELSE r.authorized,
   keyExpiryDisabled |->
     IF ch.field = "keyExpiryDisabled" THEN ch.value ELSE r.keyExpiryDisabled,
   expires |-> IF ch.field = "expire" THEN Past ELSE r.expires,
   shown |-> IF ch.field = "shown" THEN ch.value ELSE r.shown]

Changed(r, ch) == IF r = None \/ ch.field = "delete" THEN None ELSE With(r, ch)

\* Faulty: the cached device is only changed, never removed.
Edited(r, ch) == IF r = None THEN None ELSE With(r, ch)

\* updateCachedDevice, removeCachedDevice and updateCachedIPv4: a device that
\* the cache does not have is left alone.
Recached(r, ch) == Changed(r, ch)
-----------------------------------------------------------------------------
(* Time. *)

Older(a, cap) == IF a < cap THEN a + 1 ELSE cap

MaxAge == TTL + 1
MaxSince == TTL + Latency + 1

Authorized(i, d) == control[i][d] # None /\ control[i][d].authorized

Waited(l) == [busy |-> l.busy, devices |-> l.devices, clean |-> l.clean,
              age |-> IF l.busy THEN l.age + 1 ELSE 0]
WaitedFor(q) == [busy |-> q.busy, instance |-> q.instance, device |-> q.device,
                 change |-> q.change, age |-> IF q.busy THEN q.age + 1 ELSE 0]

\* A tick; keys may expire.  No request outlasts its timeout.
Tick ==
  /\ list.busy => list.age < Latency
  /\ \A c \in Callers : request[c].busy => request[c].age < Latency
  /\ age' = [i \in Instances |-> Older(age[i], MaxAge)]
  /\ \E now \in SUBSET Instants : passed' = passed \cup now
  /\ sinceAuth' = [i \in Instances |-> [d \in Devices |->
                     IF Authorized(i, d) THEN 0 ELSE Older(sinceAuth[i][d], MaxSince)]]
  /\ list' = Waited(list)
  /\ request' = [c \in Callers |-> WaitedFor(request[c])]
  /\ UNCHANGED <<control, cache, waiting, refreshMu, at, suspect>>
-----------------------------------------------------------------------------
(* The API. *)

\* The API changes a device.
Assign(i, d, r) ==
  /\ control' = [control EXCEPT ![i][d] = r]
  /\ sinceAuth' = IF r # None /\ r.authorized
                  THEN [sinceAuth EXCEPT ![i][d] = 0] ELSE sinceAuth
  /\ list' = [busy |-> list.busy, devices |-> list.devices, age |-> list.age,
              clean |-> list.clean /\ Here # i]

\* Somebody else edits, adds or removes a device.
OutsideChange(i, d) ==
  /\ \E r \in Edits : r # control[i][d] /\ Assign(i, d, r)
  /\ suspect' = suspect \cup {i}
  /\ UNCHANGED <<cache, age, passed, waiting, refreshMu, at, request>>
-----------------------------------------------------------------------------
(* Management requests.  One that the API or apiInstance refuses changes    *)
(* nothing.                                                                *)

\* The API carries the request out.
Call(c, i, d, ch) ==
  /\ ~request[c].busy
  /\ i \in Configured
  /\ control[i][d] # None
  /\ Assign(i, d, Changed(control[i][d], ch))
  /\ request' = [request EXCEPT ![c] = [busy |-> TRUE, instance |-> i, device |-> d,
                                        change |-> ch, age |-> 0]]
  /\ suspect' = IF Pending(i) THEN suspect \cup {i} ELSE suspect
  /\ UNCHANGED <<cache, age, passed, waiting, refreshMu, at>>

\* Its answer arrives, and the cache follows under mu.
Answered(c) ==
  LET q == request[c] IN
  /\ q.busy
  /\ cache' = [cache EXCEPT ![q.instance][q.device] = Recached(@, q.change)]
  /\ request' = [request EXCEPT ![c] = NoRequest]
  /\ UNCHANGED <<control, timeVars, refreshVars, suspect>>

\* Its answer is lost or too late: the request fails, having had its effect.
Lost(c) ==
  /\ request[c].busy
  /\ request' = [request EXCEPT ![c] = NoRequest]
  /\ suspect' = suspect \cup {request[c].instance}
  /\ UNCHANGED <<control, cache, timeVars, refreshVars>>
-----------------------------------------------------------------------------
(* Refreshes. *)

\* The ticker fires, or a user asks.
Want(r) ==
  /\ r \notin waiting /\ refreshMu # r
  /\ waiting' = waiting \cup {r}
  /\ UNCHANGED <<control, cache, timeVars, refreshMu, at, list, request, suspect>>

Lock(r) ==
  /\ r \in waiting /\ refreshMu = None
  /\ waiting' = waiting \ {r}
  /\ refreshMu' = r
  /\ at' = 1
  /\ UNCHANGED <<control, cache, timeVars, list, request, suspect>>

\* The next instance; after the last, the lock is released.
Onward ==
  /\ IF at < Len(Configs) THEN at' = at + 1 /\ UNCHANGED refreshMu
                          ELSE at' = 1 /\ refreshMu' = None
  /\ list' = NoList

\* Faulty: the first failure ends the refresh.
EndRefresh == at' = 1 /\ refreshMu' = None /\ list' = NoList

\* A failed instance does not keep the others from their turn.
Continue == Onward

\* Faulty: an attempt counts as a success.
RecordAttempt(i) == age' = [age EXCEPT ![i] = 0]

\* Devices and lastSuccess stay.
recordFailure(i) == UNCHANGED age

\* No credentials.
Skip ==
  /\ refreshMu # None /\ Here \notin Configured
  /\ recordFailure(Here)
  /\ Continue
  /\ UNCHANGED <<control, cache, passed, sinceAuth, waiting, request, suspect>>

\* The API answers List.
List ==
  /\ refreshMu # None /\ Here \in Configured
  /\ ~list.busy
  /\ list' = [busy |-> TRUE, devices |-> control[Here], age |-> 0,
              clean |-> ~Pending(Here)]
  /\ UNCHANGED <<control, cache, timeVars, waiting, refreshMu, at, request, suspect>>

\* The answer arrives, and replaces the entry under mu.
Store ==
  /\ refreshMu # None /\ list.busy
  /\ cache' = [cache EXCEPT ![Here] = list.devices]
  /\ age' = [age EXCEPT ![Here] = 0]
  /\ suspect' = IF list.clean THEN suspect \ {Here} ELSE suspect \cup {Here}
  /\ Onward
  /\ UNCHANGED <<control, passed, sinceAuth, waiting, request>>

\* The request is refused, its answer lost or too late.
ListFails ==
  /\ refreshMu # None /\ Here \in Configured
  /\ recordFailure(Here)
  /\ Continue
  /\ UNCHANGED <<control, cache, passed, sinceAuth, waiting, request, suspect>>
-----------------------------------------------------------------------------
Init ==
  /\ control \in [Instances -> [Devices -> Edits]]
  /\ cache = [i \in Instances |-> [d \in Devices |-> None]]
  /\ age = [i \in Instances |-> MaxAge]
  /\ passed = {}
  /\ waiting = {}
  /\ refreshMu = None
  /\ at = 1
  /\ list = NoList
  /\ request = [c \in Callers |-> NoRequest]
  /\ sinceAuth = [i \in Instances |-> [d \in Devices |->
                    IF Authorized(i, d) THEN 0 ELSE MaxSince]]
  /\ suspect = Instances

Step == Skip \/ List \/ Store \/ ListFails
Settle(c) == Answered(c) \/ Lost(c)

Next ==
  \/ Tick
  \/ \E i \in Instances, d \in Devices : OutsideChange(i, d)
  \/ \E c \in Callers, i \in Instances, d \in Devices, ch \in Changes : Call(c, i, d, ch)
  \/ \E c \in Callers : Settle(c)
  \/ \E r \in Refreshers : Want(r) \/ Lock(r)
  \/ Step

Spec == Init /\ [][Next]_vars

\* Time passes whatever the program does; a goroutine at work goes on, and a
\* request ends by its timeout at the latest.  The ticker fires, and sync.Mutex
\* starves nobody.  The API need never answer.
Fair ==
  /\ SF_vars(Tick)
  /\ WF_vars(Step)
  /\ WF_vars(Want(Loop))
  /\ SF_vars(Lock(Loop))
  /\ \A c \in Callers : WF_vars(Settle(c))

\* The API of the instance answers List again and again.
Answers(i) == SF_vars(List /\ Here = i) /\ SF_vars(Store /\ Here = i)
-----------------------------------------------------------------------------
(* Properties. *)

\* The inventories hold devices, a request never outlasts its timeout, and the
\* clocks stay within what the code tells apart.
TypeOK ==
  /\ control \in [Instances -> Inventory]
  /\ cache \in [Instances -> Inventory]
  /\ age \in [Instances -> 0 .. MaxAge]
  /\ passed \subseteq Instants
  /\ waiting \subseteq Refreshers
  /\ refreshMu \in Refreshers \cup {None}
  /\ at \in DOMAIN Configs
  /\ list \in [busy : BOOLEAN, devices : Inventory, age : 0 .. Latency, clean : BOOLEAN]
  /\ request \in [Callers -> [busy : BOOLEAN, instance : Instances,
                              device : Devices \cup {None},
                              change : Changes \cup {None}, age : 0 .. Latency]]
  /\ sinceAuth \in [Instances -> [Devices -> 0 .. MaxSince]]
  /\ suspect \subseteq Instances

\* An instance vouches for a key only if its tailnet had the device authorized
\* at most ttl and one request timeout ago.  Failed refreshes, answers that
\* arrive late and changes made to a stale entry (updateCachedDevice leaves
\* lastSuccess alone) never stretch that.
AdmissionBacked ==
  \A i \in Instances, d \in Devices :
    Vouches(i, d) => sinceAuth[i][d] <= TTL + Latency

\* The cache repeats every management request faithfully: between requests the
\* entry of an instance is what the API has, unless since its last refresh
\* others changed the tailnet, a request's answer was lost, or requests and
\* refreshes overlapped.
CacheExact ==
  \A i \in Instances \ suspect : ~Pending(i) => cache[i] = control[i]

\* Every tailnet has withdrawn the device.
Revoked(d) == \A i \in Instances : ~Authorized(i, d)

\* A device that a configured tailnet keeps usable is admitted again and again
\* while that API answers, whatever fails in the other instances.
Readmits ==
  \A i \in Configured, d \in Devices :
    Answers(i) /\ <>[]Usable(control[i][d]) => []<>allowed(d)
=============================================================================
