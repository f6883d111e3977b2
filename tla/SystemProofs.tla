------------------------------ MODULE SystemProofs -----------------------------
(***************************************************************************)
(* The two reconcilers and deployment-duplicator together implement        *)
(* Traffic, for any Forks, Services, Deployments and selectors, whichever  *)
(* names are cut, through any edits, faults and restarts.  The inductive   *)
(* invariant follows one request of a Fork from its wish to its route:     *)
(* what the caches, the update, the children and the Pods say of it, for   *)
(* as long as anything is promised of it.                                  *)
(***************************************************************************)
EXTENDS System, MicroserviceProofs, Ranks

-----------------------------------------------------------------------------
(* Types *)

MicroTypes ==
    /\ fork \in [Forks -> Values] /\ seen \in [Forks -> Values]
    /\ store \in [Children -> Objects \cup {Gone}]
    /\ rpc \in {"idle", "list", "sync"}
    /\ rpc # "idle" => cur \in Forks /\ val \in Values /\ val # Gone
    /\ kind \in 1..4 /\ (rpc = "sync" => kind \in 1..3)
    /\ rpc = "sync" => doomed \subseteq Children /\ todo \subseteq Wanted
                       /\ \A c \in doomed : c[1] = GenerateLists[kind] /\ c[2] = cur /\ c \notin Wanted

-----------------------------------------------------------------------------
(* What a step does *)

\* The effect of the actions on what the invariant mentions: first on Forks,
\* children and the update of a Fork, then on routes and the update of a Service.
Fleet == <<fork, seen, store, rpc, cur, val, kind, doomed, todo>>

Starts(f) ==
    /\ rpc = "idle" /\ seen[f] # Gone
    /\ rpc' = "list" /\ kind' = 1 /\ cur' = f /\ val' = seen[f]
    /\ UNCHANGED <<fork, seen, store>>

Leaves ==
    /\ Leave /\ seen' \in {seen, fork}
    /\ UNCHANGED <<fork, store>>

Deletes(c) ==
    /\ rpc = "sync" /\ c \in doomed
    /\ store' = [store EXCEPT ![c] = Gone] /\ doomed' = doomed \ {c}
    /\ UNCHANGED <<fork, seen, rpc, cur, val, kind, todo>>

Writes(c) ==
    /\ rpc = "sync" /\ c \in todo
    /\ store' = [store EXCEPT ![c] = Built(c, val)] /\ todo' = todo \ {c}
    /\ UNCHANGED <<fork, seen, rpc, cur, val, kind, doomed>>

Sees(f) ==
    /\ seen' = [seen EXCEPT ![f] = fork[f]]
    /\ UNCHANGED <<fork, store, rpc, cur, val, kind, doomed, todo>>

Reaps(c) ==
    /\ Exists(c) /\ (fork[c[2]] = Gone \/ fork[c[2]].uid # store[c].owner)
    /\ store' = [store EXCEPT ![c] = Gone]
    /\ UNCHANGED <<fork, seen, rpc, cur, val, kind, doomed, todo>>

Puts(f) ==
    /\ \E x \in [uid : 1..MaxUid, spec : ForkSpecs[f]] \cup {Gone} :
          /\ fork' = [fork EXCEPT ![f] = x]
          /\ fork[f] # Gone /\ x # Gone => x.uid = fork[f].uid
    /\ UNCHANGED <<seen, store, rpc, cur, val, kind, doomed, todo>>

FleetStep ==
    \/ UNCHANGED Fleet \/ List \/ ListDone \/ Leaves
    \/ \E f \in Forks : Starts(f) \/ Sees(f) \/ Puts(f)
    \/ \E c \in Children : Deletes(c) \/ Writes(c) \/ Reaps(c)

Mesh == <<vs, seenConfig, vrpc, cs, csUid, routes, stale>>

Reads(s) ==
    /\ vrpc' = "list" /\ cs' = s /\ csUid' = 1 /\ routes' = V!HTTPRoutes(s, seenConfig)
    /\ UNCHANGED <<vs, seenConfig>>

Finds ==
    /\ vrpc = "list" /\ vrpc' = "write" /\ (stale' => ~V!Wanted(routes))
    /\ UNCHANGED <<vs, seenConfig, cs, csUid, routes>>

Unroutes ==
    /\ vrpc = "write" /\ stale
    /\ vs' = [vs EXCEPT ![cs] = Gone] /\ stale' = FALSE
    /\ UNCHANGED <<seenConfig, vrpc, cs, csUid, routes>>

Installs ==
    /\ vrpc = "write"
    /\ vs' = [vs EXCEPT ![cs] = [owner |-> csUid, routes |-> routes]]
    /\ UNCHANGED <<seenConfig, vrpc, cs, csUid, routes, stale>>

Rests ==
    /\ vrpc' \in {"idle", "read"} /\ seenConfig' \in {seenConfig, Config}
    /\ UNCHANGED vs

Hears(i) ==
    /\ seenConfig' = [seenConfig EXCEPT ![i] = Config[i]]
    /\ UNCHANGED <<vs, vrpc, cs, csUid, routes, stale>>

MeshStep ==
    \/ UNCHANGED Mesh
    \/ /\ UNCHANGED <<fork, store, dropped>>
       /\ \/ Finds \/ Unroutes \/ Installs \/ Rests
          \/ \E s \in Services : Reads(s)
          \/ \E i \in DOMAIN ByName : Hears(i)

DropStep == dropped' = dropped \cup {<<w[2], w[3]>> : w \in Wish \ Wish'}

PodStep ==
    \/ UNCHANGED pods
    \/ UNCHANGED Fleet /\ \E w \in Workloads : pods' = [pods EXCEPT ![w] = store[w]]

AnyStep == FleetStep /\ MeshStep /\ DropStep /\ PodStep

\* A step of the Fork reconciler, its caches or the users.
LEMMA MicroSteps ==
    ASSUME Micro(Micros \/ UpdateStep \/ ApiFault \/ (\E f \in Forks : PutFork(f) \/ DeleteFork(f))
                 \/ (\E c \in Children : SyncView(c)))
    PROVE  AnyStep
<1> USE DEF objects, locals
<1>1. MeshStep /\ DropStep /\ PodStep
  BY DEF Micro, MeshStep, DropStep, PodStep, Mesh, vsCaches, vsLocals
<1>2. ASSUME List \/ ListDone \/ UpdateDone PROVE FleetStep
  BY <1>2 DEF FleetStep, UpdateDone, Leaves
<1>3. ASSUME NEW c \in Children, DeleteChild(c)
      PROVE  FleetStep
  BY <1>3 DEF DeleteChild, Store, Deletes, Fail, Leaves, FleetStep
<1>4. ASSUME NEW c \in Children, SyncChild(c)
      PROVE  FleetStep
  BY <1>4 DEF SyncChild, Store, Writes, Fail, Leaves, FleetStep
<1>5. ASSUME ApiFault PROVE FleetStep
  BY <1>5 DEF ApiFault, Fail, Leaves, FleetStep
<1>6. ASSUME NEW c \in Children, Collect(c)
      PROVE  FleetStep
  BY <1>6 DEF Collect, Store, Reaps, FleetStep
<1>7. ASSUME NEW c \in Children, SyncView(c)
      PROVE  FleetStep
  BY <1>7 DEF SyncView, FleetStep, Fleet
<1>8. ASSUME NEW f \in Forks, Build(f) \/ ForkGone(f) \/ SeeFork(f)
      PROVE  FleetStep
  BY <1>8 DEF Build, ForkGone, SeeFork, SyncFork, Starts, Sees, FleetStep, Fleet
<1>9. ASSUME NEW f \in Forks, PutFork(f)
      PROVE  FleetStep
  <2>1. PICK u \in 1..MaxUid, spec \in ForkSpecs[f] :
           /\ fork[f] # Gone => u = fork[f].uid
           /\ fork' = [fork EXCEPT ![f] = [uid |-> u, spec |-> spec]]
    BY <1>9 DEF PutFork
  <2>2. PICK x : x = [uid |-> u, spec |-> spec]
    OBVIOUS
  <2>3. x \in [uid : 1..MaxUid, spec : ForkSpecs[f]] /\ x.uid = u
    BY <2>2
  <2>4. Puts(f)
    BY <1>9, <2>1, <2>2, <2>3 DEF PutFork, Puts
  <2> QED
    BY <2>4 DEF FleetStep
<1>10. ASSUME NEW f \in Forks, DeleteFork(f)
       PROVE  FleetStep
  BY <1>10 DEF DeleteFork, Puts, FleetStep
<1>11. FleetStep
  BY <1>2, <1>3, <1>4, <1>5, <1>6, <1>7, <1>8, <1>9, <1>10 DEF Micro, Micros, UpdateStep
<1> QED
  BY <1>1, <1>11 DEF AnyStep

\* What is asked for does not change while the Forks do not.
LEMMA WishUnchanged == UNCHANGED fork => Wish' = Wish
BY DEF Wish, WishOf, Behind, RoutedBy

\* A step of the VSConfig reconciler or its caches.
LEMMA RouteSteps ==
    ASSUME Route(Routes \/ V!UpdateStep \/ V!ApiFault \/ (\E s \in Services : V!SyncSeenVS(s)))
    PROVE  AnyStep
<1>1. UNCHANGED <<Fleet, dropped>> /\ UNCHANGED <<fork, store, dropped>>
  BY DEF Route, microVars, Fleet, objects, locals
<1>2. FleetStep /\ DropStep /\ PodStep
  BY <1>1, WishUnchanged DEF Route, FleetStep, DropStep, PodStep
<1> USE DEF V!cluster, V!caches, V!locals, V!budget, MeshStep
<1>3. ASSUME NEW s \in Services, V!ReadInputs(s) \/ V!ServiceMissing(s)
      PROVE  MeshStep
  BY <1>1, <1>3 DEF V!ReadInputs, V!ServiceMissing, V!Fail, V!Leave, Reads, Rests
<1>4. ASSUME V!ListOwned PROVE MeshStep
  BY <1>1, <1>4 DEF V!ListOwned, Finds
<1>5. ASSUME V!DeleteStale PROVE MeshStep
  BY <1>1, <1>5 DEF V!DeleteStale, V!StoreVS, V!Fail, V!Leave, Unroutes, Rests
<1>6. ASSUME V!SyncVS PROVE MeshStep
  BY <1>1, <1>6 DEF V!SyncVS, V!StoreVS, V!Fail, V!Leave, Installs, Rests
<1>7. ASSUME V!ServiceDone \/ V!UpdateDone \/ V!ApiFault PROVE MeshStep
  BY <1>1, <1>7 DEF V!ServiceDone, V!UpdateDone, V!ApiFault, V!Fail, V!Leave, Rests
<1>8. ASSUME NEW i \in DOMAIN ByName, V!Reconcile(i)
      PROVE  MeshStep
  BY <1>1, <1>8 DEF V!Reconcile, Rests
<1>9. ASSUME NEW i \in DOMAIN ByName, V!SyncConfig(i)
      PROVE  MeshStep
  BY <1>1, <1>9 DEF V!SyncConfig, Hears
<1>10. ASSUME NEW s \in Services, V!SyncSeenVS(s)
       PROVE  MeshStep
  BY <1>1, <1>10 DEF V!SyncSeenVS, Mesh
<1>11. MeshStep
  BY <1>3, <1>4, <1>5, <1>6, <1>7, <1>8, <1>9, <1>10 DEF Route, Routes, V!UpdateStep
<1> QED
  BY <1>2, <1>11 DEF AnyStep

\* Both stop and start.
LEMMA RestartSteps ==
    ASSUME SystemRestart
    PROVE  AnyStep
<1>1. UNCHANGED <<fork, store, dropped>>
  BY DEF SystemRestart, Relist
<1>2. FleetStep /\ PodStep
  BY DEF SystemRestart, Relist, Leaves, FleetStep, PodStep
<1>3. MeshStep
  BY <1>1 DEF SystemRestart, V!Relist, V!Leave, Rests, MeshStep, V!cluster
<1> QED
  BY <1>1, <1>2, <1>3, WishUnchanged DEF AnyStep, DropStep

\* deployment-duplicator's step.
LEMMA DuplicateSteps ==
    ASSUME NEW w \in Workloads, Duplicate(w)
    PROVE  AnyStep
<1>1. UNCHANGED Fleet /\ UNCHANGED Mesh /\ UNCHANGED <<fork, dropped>>
  BY DEF Duplicate, microVars, vsCaches, vsLocals, objects, locals, Fleet, Mesh
<1>2. PodStep
  BY <1>1 DEF Duplicate, PodStep
<1> QED
  BY <1>1, <1>2, WishUnchanged DEF AnyStep, FleetStep, MeshStep, DropStep

\* Every step of the system is one of these.
LEMMA Steps ==
    ASSUME [SystemNext]_systemVars
    PROVE  AnyStep
<1>1. CASE UNCHANGED systemVars
  <2>1. UNCHANGED Fleet /\ UNCHANGED Mesh /\ UNCHANGED <<fork, dropped>>
    BY <1>1 DEF systemVars, microVars, vsCaches, vsLocals, objects, locals, Fleet, Mesh
  <2> QED
    BY <1>1, <2>1, WishUnchanged DEF systemVars, AnyStep, FleetStep, MeshStep, DropStep, PodStep
<1>2. CASE SystemNext
  BY <1>2, MicroSteps, RouteSteps, RestartSteps, DuplicateSteps DEF SystemNext, Work, Disturbance, Micro, Route
<1> QED
  BY <1>1, <1>2

-----------------------------------------------------------------------------
(* Types are kept *)

\* What a list holds are children of the Fork and of the list's kind.
LEMMA WantedType ==
    ASSUME MicroTypes, rpc # "idle", kind \in 1..3
    PROVE  Wanted \subseteq Children /\ \A c \in Wanted : c[1] = GenerateLists[kind] /\ c[2] = cur
<1>1. GenerateLists[kind] \in Kinds /\ cur \in Forks /\ val.spec \in Specs
  BY Lists DEF Kinds, MicroTypes, Values
<1> QED
  BY <1>1, ItemsType DEF Wanted

\* The types hold at the start.
LEMMA MicroTypesInit == SystemInit => MicroTypes
<1> SUFFICES ASSUME SystemInit PROVE MicroTypes
  OBVIOUS
<1>1. TypeOK
  BY InitType DEF SystemInit, TypeInv
<1>2. rpc = "idle" /\ kind = 1
  BY DEF SystemInit, Init
<1> QED
  BY <1>1, <1>2 DEF MicroTypes, TypeOK, Values

\* No step leaves the types.
LEMMA MicroTypesNext ==
    ASSUME MicroTypes, AnyStep
    PROVE  MicroTypes'
<1>1. UNCHANGED Fleet => MicroTypes'
  BY DEF MicroTypes, Fleet, Wanted
<1>2. List => MicroTypes'
  <2> SUFFICES ASSUME List PROVE MicroTypes'
    OBVIOUS
  <2>1. kind \in 1..3 /\ rpc # "idle"
    BY Lists DEF List
  <2>2. Wanted' = Wanted
    BY DEF List, Wanted
  <2>3. /\ doomed' \subseteq Children /\ todo' = Wanted
        /\ \A c \in doomed' : c[1] = GenerateLists[kind] /\ c[2] = cur /\ c \notin Wanted
    BY DEF List
  <2> QED
    BY <2>1, <2>2, <2>3 DEF List, MicroTypes, objects
<1>3. ListDone => MicroTypes'
  <2> SUFFICES ASSUME ListDone PROVE MicroTypes'
    OBVIOUS
  <2>1. kind \in 1..3 /\ kind' \in 1..4
    BY DEF ListDone, MicroTypes
  <2> QED
    BY <2>1 DEF ListDone, MicroTypes, objects
<1>4. Leaves => MicroTypes'
  BY DEF Leaves, Leave, MicroTypes
<1>5. ASSUME NEW f \in Forks, Starts(f)
      PROVE  MicroTypes'
  BY <1>5 DEF Starts, MicroTypes
<1>6. ASSUME NEW f \in Forks, Sees(f)
      PROVE  MicroTypes'
  <2>1. Wanted' = Wanted
    BY <1>6 DEF Sees, Wanted
  <2> QED
    BY <1>6, <2>1 DEF Sees, MicroTypes
<1>7. ASSUME NEW f \in Forks, Puts(f)
      PROVE  MicroTypes'
  <2>1. PICK x \in [uid : 1..MaxUid, spec : ForkSpecs[f]] \cup {Gone} : fork' = [fork EXCEPT ![f] = x]
    BY <1>7 DEF Puts
  <2>2. x \in Values
    BY ConstantsAssumption DEF Values
  <2>3. Wanted' = Wanted
    BY <1>7 DEF Puts, Wanted
  <2>4. fork' \in [Forks -> Values]
    BY <2>1, <2>2 DEF MicroTypes
  <2> QED
    BY <1>7, <2>3, <2>4 DEF Puts, MicroTypes
<1>8. ASSUME NEW c \in Children, Deletes(c) \/ Reaps(c)
      PROVE  MicroTypes'
  <2>1. store' \in [Children -> Objects \cup {Gone}]
    BY <1>8 DEF Deletes, Reaps, MicroTypes
  <2>2. Wanted' = Wanted /\ doomed' \subseteq doomed
    BY <1>8 DEF Deletes, Reaps, Wanted
  <2> QED
    BY <1>8, <2>1, <2>2 DEF Deletes, Reaps, MicroTypes
<1>9. ASSUME NEW c \in Children, Writes(c)
      PROVE  MicroTypes'
  <2>1. Built(c, val) \in Objects
    BY <1>9, BuiltType DEF Writes, MicroTypes
  <2>2. store' \in [Children -> Objects \cup {Gone}]
    BY <1>9, <2>1 DEF Writes, MicroTypes
  <2>3. Wanted' = Wanted /\ todo' \subseteq todo
    BY <1>9 DEF Writes, Wanted
  <2> QED
    BY <1>9, <2>2, <2>3 DEF Writes, MicroTypes
<1> QED
  BY <1>1, <1>2, <1>3, <1>4, <1>5, <1>6, <1>7, <1>8, <1>9 DEF AnyStep, FleetStep

-----------------------------------------------------------------------------
(* A request that is asked for *)

\* v, of incarnation u, asks for requests to s with identifier i, and selects d.
Asks(v, u, s, i, d) ==
    v # Gone /\ v.uid = u /\ s \in v.spec.services /\ v.spec.id = i /\ d \in Behind(v.spec, s)

\* Requests of which users have dropped a wish or have one with nothing to copy.
Loss == dropped \cup {<<w[2], w[3]>> : w \in {x \in Wish : x[4] = V!NoValue}}

\* Every trace of Fork f asks for it, unless it is lost.
Kept(f, u, s, i, d) ==
    \/ <<s, i>> \in Loss
    \/ /\ Asks(fork[f], u, s, i, d) /\ Asks(seen[f], u, s, i, d)
       /\ rpc # "idle" /\ cur = f => Asks(val, u, s, i, d)

\* What the cache and the update ask for is asked for, or was.
SeenInv ==
    \A f \in Forks, s \in Services : \A u, i, d :
        Asks(seen[f], u, s, i, d) => <<s, i>> \in Loss \/ Asks(fork[f], u, s, i, d)

ValInv ==
    rpc # "idle" =>
        \A s \in Services : \A u, i, d : Asks(val, u, s, i, d) => Kept(cur, u, s, i, d)

\* What a Fork selects behind a Service: Deployments, or nothing.
LEMMA BehindIs ==
    ASSUME NEW spec, NEW s
    PROVE  /\ \A d \in spec.deployments \cap RoutedBy(s) : d \in Behind(spec, s)
           /\ \A d \in Behind(spec, s) : d = V!NoValue \/ d \in spec.deployments \cap RoutedBy(s)
           /\ spec.deployments \cap RoutedBy(s) = {} => V!NoValue \in Behind(spec, s)
           /\ \A d \in RoutedBy(s) : d \in Deployments /\ d # V!NoValue
BY SystemAssumption DEF Behind, RoutedBy

\* What a Fork asks for is a wish.
LEMMA AskedWished ==
    ASSUME NEW f \in Forks, NEW u, NEW s, NEW i, NEW d, Asks(fork[f], u, s, i, d)
    PROVE  <<f, s, i, d>> \in Wish
<1>1. <<f, s, i, d>> \in {<<f, s, fork[f].spec.id, x>> : x \in Behind(fork[f].spec, s)}
  BY DEF Asks
<1>2. <<f, s, i, d>> \in WishOf(f)
  BY <1>1 DEF Asks, WishOf
<1> QED
  BY <1>2 DEF Wish

\* A request that is asked for with nothing to copy is lost.
LEMMA BareLost ==
    ASSUME NEW f \in Forks, NEW u, NEW s, NEW i, Asks(fork[f], u, s, i, V!NoValue)
    PROVE  <<s, i>> \in Loss
<1>1. PICK w : w = <<f, s, i, V!NoValue>>
  OBVIOUS
<1>2. w \in Wish /\ w[4] = V!NoValue /\ <<w[2], w[3]>> = <<s, i>>
  BY <1>1, AskedWished
<1> QED
  BY <1>2 DEF Loss

\* What is lost stays so.
LEMMA LossStays == ASSUME AnyStep PROVE Loss \subseteq Loss'
<1> SUFFICES ASSUME NEW r \in Loss, r \notin Loss' PROVE FALSE
  OBVIOUS
<1>1. dropped' = dropped \cup {<<w[2], w[3]>> : w \in Wish \ Wish'}
  BY DEF AnyStep, DropStep
<1>2. r \notin dropped'
  BY DEF Loss
<1>3. PICK w \in Wish : w[4] = V!NoValue /\ r = <<w[2], w[3]>>
  BY <1>1, <1>2 DEF Loss
<1>4. w \in Wish'
  BY <1>1, <1>2, <1>3
<1> QED
  BY <1>3, <1>4 DEF Loss

\* Users cannot take a wish back without losing it.
LEMMA WishStays ==
    ASSUME MicroTypes, AnyStep, NEW f \in Forks, NEW u, NEW s \in Services, NEW i, NEW d,
           Asks(fork[f], u, s, i, d), <<s, i>> \notin Loss'
    PROVE  Asks(fork'[f], u, s, i, d)
<1>1. PICK w : w = <<f, s, i, d>>
  OBVIOUS
<1>2. w \in Wish'
  <2>1. w \in Wish /\ <<w[2], w[3]>> = <<s, i>>
    BY <1>1, AskedWished
  <2>2. <<s, i>> \notin dropped'
    BY DEF Loss
  <2> QED
    BY <2>1, <2>2 DEF AnyStep, DropStep
<1>3. PICK g \in Forks : w \in WishOf(g)'
  BY <1>2 DEF Wish
<1>4. fork'[g] # Gone /\ \E t \in fork'[g].spec.services :
         \E x \in Behind(fork'[g].spec, t) : w = <<g, t, fork'[g].spec.id, x>>
  BY <1>3 DEF WishOf, Behind, RoutedBy
<1>5. /\ g = f /\ fork'[f] # Gone /\ s \in fork'[f].spec.services /\ fork'[f].spec.id = i
      /\ d \in Behind(fork'[f].spec, s)
  BY <1>1, <1>4
<1>6. fork'[f].uid = u
  <2>1. CASE fork' = fork
    BY <2>1 DEF Asks
  <2>2. ASSUME NEW h \in Forks, Puts(h) PROVE fork'[f].uid = u
    BY <1>5, <2>2 DEF Puts, MicroTypes, Asks
  <2>3. UNCHANGED Fleet \/ List \/ ListDone \/ Leaves => fork' = fork
    BY DEF Fleet, List, ListDone, Leaves
  <2>4. ASSUME NEW h \in Forks, Starts(h) \/ Sees(h) PROVE fork' = fork
    BY <2>4 DEF Starts, Sees
  <2>5. ASSUME NEW c \in Children, Deletes(c) \/ Writes(c) \/ Reaps(c) PROVE fork' = fork
    BY <2>5 DEF Deletes, Writes, Reaps
  <2> QED
    BY <2>1, <2>2, <2>3, <2>4, <2>5 DEF AnyStep, FleetStep
<1> QED
  BY <1>5, <1>6 DEF Asks

\* How a step changes the cached Forks.
LEMMA SeenSteps ==
    ASSUME MicroTypes, AnyStep, NEW f \in Forks
    PROVE  seen'[f] = seen[f] \/ (seen'[f] = fork[f] /\ fork' = fork)
<1>1. UNCHANGED Fleet \/ List \/ ListDone => seen' = seen
  BY DEF Fleet, List, ListDone
<1>2. Leaves => seen' = seen \/ (seen' = fork /\ fork' = fork)
  BY DEF Leaves
<1>3. ASSUME NEW h \in Forks, Starts(h) \/ Puts(h) PROVE seen' = seen
  BY <1>3 DEF Starts, Puts
<1>4. ASSUME NEW h \in Forks, Sees(h)
      PROVE  seen'[f] = seen[f] \/ (seen'[f] = fork[f] /\ fork' = fork)
  BY <1>4 DEF Sees, MicroTypes
<1>5. ASSUME NEW c \in Children, Deletes(c) \/ Writes(c) \/ Reaps(c) PROVE seen' = seen
  BY <1>5 DEF Deletes, Writes, Reaps
<1> QED
  BY <1>1, <1>2, <1>3, <1>4, <1>5 DEF AnyStep, FleetStep

\* How a step changes what the update has.
LEMMA ValSteps ==
    ASSUME MicroTypes, AnyStep, rpc' # "idle"
    PROVE  \/ rpc # "idle" /\ cur' = cur /\ val' = val
           \/ cur' \in Forks /\ val' = seen[cur'] /\ seen' = seen /\ fork' = fork
<1>1. ~Leaves
  BY DEF Leaves, Leave
<1>2. UNCHANGED Fleet \/ List \/ ListDone => rpc # "idle" /\ cur' = cur /\ val' = val
  BY DEF Fleet, List, ListDone
<1>3. ASSUME NEW f \in Forks, Starts(f)
      PROVE  cur' \in Forks /\ val' = seen[cur'] /\ seen' = seen /\ fork' = fork
  BY <1>3 DEF Starts
<1>4. ASSUME NEW f \in Forks, Sees(f) \/ Puts(f) PROVE rpc # "idle" /\ cur' = cur /\ val' = val
  BY <1>4 DEF Sees, Puts
<1>5. ASSUME NEW c \in Children, Deletes(c) \/ Writes(c) \/ Reaps(c)
      PROVE  rpc # "idle" /\ cur' = cur /\ val' = val
  BY <1>5 DEF Deletes, Writes, Reaps
<1> QED
  BY <1>1, <1>2, <1>3, <1>4, <1>5 DEF AnyStep, FleetStep

\* The cache asks only for what is asked for, or was.
LEMMA SeenNext ==
    ASSUME MicroTypes, SeenInv, AnyStep
    PROVE  SeenInv'
<1> SUFFICES ASSUME NEW f \in Forks, NEW s \in Services, NEW u, NEW i, NEW d,
                    Asks(seen'[f], u, s, i, d), <<s, i>> \notin Loss'
             PROVE  Asks(fork'[f], u, s, i, d)
  BY DEF SeenInv, Asks, Behind, RoutedBy
<1>1. CASE seen'[f] = seen[f]
  <2>1. Asks(fork[f], u, s, i, d)
    BY <1>1, LossStays DEF SeenInv
  <2> QED
    BY <2>1, WishStays
<1>2. CASE seen'[f] = fork[f] /\ fork' = fork
  BY <1>2
<1> QED
  BY <1>1, <1>2, SeenSteps

\* A wish that is kept stays so, or is lost.
LEMMA KeptStays ==
    ASSUME MicroTypes, SeenInv, AnyStep, NEW f \in Forks, NEW u, NEW s \in Services, NEW i, NEW d,
           Kept(f, u, s, i, d)
    PROVE  Kept(f, u, s, i, d)'
<1> SUFFICES ASSUME <<s, i>> \notin Loss'
             PROVE  /\ Asks(fork'[f], u, s, i, d) /\ Asks(seen'[f], u, s, i, d)
                    /\ rpc' # "idle" /\ cur' = f => Asks(val', u, s, i, d)
  BY DEF Kept, Asks, Behind, RoutedBy
<1>1. /\ Asks(fork[f], u, s, i, d) /\ Asks(seen[f], u, s, i, d)
      /\ rpc # "idle" /\ cur = f => Asks(val, u, s, i, d)
  BY LossStays DEF Kept
<1>2. Asks(fork'[f], u, s, i, d)
  BY <1>1, WishStays
<1>3. Asks(seen'[f], u, s, i, d)
  BY <1>1, SeenSteps
<1>4. ASSUME rpc' # "idle", cur' = f PROVE Asks(val', u, s, i, d)
  BY <1>1, <1>4, ValSteps
<1> QED
  BY <1>2, <1>3, <1>4

\* So does the update.
LEMMA ValNext ==
    ASSUME MicroTypes, SeenInv, ValInv, AnyStep
    PROVE  ValInv'
<1> SUFFICES ASSUME rpc' # "idle", NEW s \in Services, NEW u, NEW i, NEW d, Asks(val', u, s, i, d)
             PROVE  Kept(cur, u, s, i, d)'
  BY DEF ValInv, Asks, Behind, RoutedBy
<1>1. CASE rpc # "idle" /\ cur' = cur /\ val' = val
  <2>1. cur \in Forks /\ Kept(cur, u, s, i, d)
    BY <1>1 DEF ValInv, MicroTypes
  <2>2. Kept(cur, u, s, i, d)'
    <3>1. PICK f \in Forks : f = cur
      BY <2>1
    <3>2. Kept(f, u, s, i, d)'
      BY <2>1, <3>1, KeptStays
    <3> QED
      BY <1>1, <3>1, <3>2 DEF Kept, Asks, Behind, RoutedBy
  <2> QED
    BY <2>2
<1>2. CASE cur' \in Forks /\ val' = seen[cur'] /\ seen' = seen /\ fork' = fork
  <2>1. <<s, i>> \in Loss' \/ Asks(fork[cur'], u, s, i, d)
    BY <1>2, LossStays DEF SeenInv
  <2> QED
    BY <1>2, <2>1 DEF Kept, Asks, Behind, RoutedBy
<1> QED
  BY <1>1, <1>2, ValSteps

-----------------------------------------------------------------------------
(* Children *)

\* Child c serves requests to s of identifier i.
Has(c, s, i) == Exists(c) /\ store[c].id = i /\ s \in store[c].from

\* c is, if it is a copied Deployment's, of one that s routes to.
Lasting(c, s) == c[1] = "DeploymentCopy" => c[3] \in RoutedBy(s)

\* A child belongs to wishes that are kept, those of its Deployment if it is
\* a copy of one.
ChildInv ==
    \A c \in Children : Exists(c) =>
        /\ c[1] # "DeploymentCopy" => store[c].from = {c[3]}
        /\ \A s \in store[c].from : Lasting(c, s) =>
              \E d : /\ c[1] = "DeploymentCopy" => d = c[3]
                    /\ Kept(c[2], store[c].owner, s, store[c].id, d)

\* A child is its kind, its Fork and its original.
LEMMA ChildType ==
    ASSUME NEW c \in Children
    PROVE  /\ c[1] \in Kinds /\ c[2] \in Forks /\ c = <<c[1], c[2], c[3]>>
           /\ c[1] = "DeploymentCopy" => c[3] \in Deployments
           /\ c[1] # "DeploymentCopy" => c[3] \in Services
BY DEF Children, Kinds

\* How a step changes one child.
LEMMA StoreSteps ==
    ASSUME MicroTypes, AnyStep, NEW c \in Children
    PROVE  store'[c] = store[c] \/ Deletes(c) \/ Writes(c) \/ Reaps(c)
<1>1. UNCHANGED Fleet \/ List \/ ListDone \/ Leaves => store' = store
  BY DEF Fleet, List, ListDone, Leaves, objects
<1>2. ASSUME NEW f \in Forks, Starts(f) \/ Sees(f) \/ Puts(f) PROVE store' = store
  BY <1>2 DEF Starts, Sees, Puts
<1>3. ASSUME NEW d \in Children, Deletes(d) \/ Writes(d) \/ Reaps(d)
      PROVE  d = c \/ store'[c] = store[c]
  BY <1>3 DEF Deletes, Writes, Reaps, MicroTypes
<1> QED
  BY <1>1, <1>2, <1>3 DEF AnyStep, FleetStep

\* What is written for an item.
LEMMA WrittenIs ==
    ASSUME MicroTypes, NEW c \in Children, Writes(c)
    PROVE  /\ c \in Wanted /\ c[2] = cur /\ cur \in Forks /\ rpc = "sync" /\ val # Gone
           /\ c[1] = GenerateLists[kind] /\ kind \in 1..3
           /\ store'[c] = Built(c, val) /\ store'[c] # Gone
           /\ store'[c].owner = val.uid /\ store'[c].id = val.spec.id
           /\ c[1] = "DeploymentCopy" => /\ store'[c].from = ServicesOf(c[3], val.spec)
                                         /\ c[3] \in val.spec.deployments
           /\ c[1] # "DeploymentCopy" => store'[c].from = {c[3]} /\ c[3] \in val.spec.services
           /\ store'[c].from \subseteq val.spec.services /\ val.spec.services \subseteq Services
<1>1. rpc = "sync" /\ kind \in 1..3 /\ c \in Wanted /\ cur \in Forks /\ val \in Values /\ val # Gone
  BY DEF Writes, MicroTypes
<1>2. c[1] = GenerateLists[kind] /\ c[2] = cur
  BY <1>1, WantedType
<1>3. store'[c] = Built(c, val)
  BY DEF Writes, MicroTypes
<1>4. Built(c, val) # Gone
  BY <1>1, BuiltType
<1>5. IF c[1] = "DeploymentCopy" THEN c[3] \in val.spec.deployments ELSE c[3] \in val.spec.services
  BY <1>1, <1>2 DEF Wanted, Items
<1>6. ServicesOf(c[3], val.spec) \subseteq val.spec.services
  BY DEF ServicesOf
<1>7. val.spec.services \subseteq Services
  BY <1>1 DEF Values, Specs
<1> QED
  BY <1>1, <1>2, <1>3, <1>4, <1>5, <1>6, <1>7 DEF Built

\* What is written belongs to wishes that are kept.
LEMMA ChildNext ==
    ASSUME MicroTypes, SeenInv, ValInv, ChildInv, AnyStep
    PROVE  ChildInv'
<1> SUFFICES ASSUME NEW c \in Children, store'[c] # Gone
             PROVE  /\ c[1] # "DeploymentCopy" => store'[c].from = {c[3]}
                    /\ \A s \in store'[c].from : Lasting(c, s) =>
                          \E d : /\ c[1] = "DeploymentCopy" => d = c[3]
                                /\ Kept(c[2], store[c].owner, s, store[c].id, d)'
  BY DEF ChildInv, Exists, Lasting, RoutedBy
<1>0. c[2] \in Forks
  BY ChildType
<1>1. CASE store'[c] = store[c]
  <2>1. store[c].from \subseteq Services
    BY <1>1 DEF MicroTypes, Objects
  <2>2. ASSUME NEW s \in store[c].from, Lasting(c, s)
        PROVE  \E d : /\ c[1] = "DeploymentCopy" => d = c[3]
                     /\ Kept(c[2], store[c].owner, s, store[c].id, d)'
    <3>1. PICK f, u, i : f = c[2] /\ u = store[c].owner /\ i = store[c].id
      OBVIOUS
    <3>2. PICK d : (c[1] = "DeploymentCopy" => d = c[3]) /\ Kept(f, u, s, i, d)
      BY <1>1, <2>2, <3>1 DEF ChildInv, Exists
    <3>3. Kept(f, u, s, i, d)'
      BY <1>0, <2>1, <3>1, <3>2, KeptStays
    <3>4. Kept(c[2], store[c].owner, s, store[c].id, d)'
      BY <1>1, <3>1, <3>3 DEF Kept, Asks
    <3> QED
      BY <3>2, <3>4
  <2> QED
    BY <1>1, <2>2 DEF ChildInv, Exists
<1>2. CASE Deletes(c) \/ Reaps(c)
  BY <1>2 DEF Deletes, Reaps, MicroTypes
<1>3. CASE Writes(c)
  <2>1. ASSUME NEW s \in store'[c].from, Lasting(c, s)
        PROVE  \E d : /\ c[1] = "DeploymentCopy" => d = c[3]
                     /\ Kept(c[2], store[c].owner, s, store[c].id, d)'
    <3>1. PICK f, u, i : f = cur /\ u = val.uid /\ i = val.spec.id
      OBVIOUS
    <3>2. PICK d \in Behind(val.spec, s) : c[1] = "DeploymentCopy" => d = c[3]
      <4>1. CASE c[1] = "DeploymentCopy"
        <5>1. c[3] \in val.spec.deployments \cap RoutedBy(s)
          BY <1>3, <2>1, <4>1, WrittenIs DEF Lasting
        <5> QED
          BY <4>1, <5>1, BehindIs
      <4>2. CASE c[1] # "DeploymentCopy"
        BY <4>2, BehindIs
      <4> QED
        BY <4>1, <4>2
    <3>3. Asks(val, u, s, i, d) /\ s \in Services /\ rpc = "sync"
      BY <1>3, <2>1, <3>1, <3>2, WrittenIs DEF Asks
    <3>4. Kept(f, u, s, i, d) /\ f \in Forks
      BY <1>3, <3>1, <3>3, WrittenIs DEF ValInv
    <3>5. Kept(f, u, s, i, d)'
      BY <3>3, <3>4, KeptStays
    <3>6. c[2] = f /\ store'[c].owner = u /\ store'[c].id = i
      BY <1>3, <3>1, WrittenIs
    <3>7. Kept(c[2], store[c].owner, s, store[c].id, d)'
      BY <3>5, <3>6 DEF Kept, Asks
    <3> QED
      BY <3>2, <3>7
  <2> QED
    BY <1>3, <2>1, WrittenIs
<1> QED
  BY <1>1, <1>2, <1>3, StoreSteps

\* The children of a list that a Service asked for needs are items of it.
LEMMA NeededWanted ==
    ASSUME MicroTypes, rpc # "idle", kind \in 1..3, NEW c \in Children, NEW s \in val.spec.services,
           c[1] = GenerateLists[kind], c[2] = cur, Lasting(c, s),
           IF c[1] = "DeploymentCopy" THEN c[3] \in val.spec.deployments ELSE c[3] = s
    PROVE  c \in Wanted /\ s \in Built(c, val).from
<1>1. c = <<c[1], cur, c[3]>>
  BY ChildType
<1>2. CASE c[1] # "DeploymentCopy"
  <2>1. Wanted = {<<c[1], cur, t>> : t \in val.spec.services}
    BY <1>2 DEF Wanted, Items
  <2> QED
    BY <1>1, <1>2, <2>1 DEF Built
<1>3. CASE c[1] = "DeploymentCopy"
  <2>1. c[3] \in val.spec.deployments /\ c[3] \in RoutedBy(s)
    BY <1>3 DEF Lasting
  <2>2. s \in ServicesOf(c[3], val.spec)
    BY <2>1 DEF RoutedBy, ServicesOf, Routable
  <2>3. Wanted = {<<c[1], cur, d>> : d \in {x \in val.spec.deployments : ServicesOf(x, val.spec) # {}}}
    BY <1>3 DEF Wanted, Items
  <2> QED
    BY <1>1, <1>3, <2>1, <2>2, <2>3 DEF Built
<1> QED
  BY <1>2, <1>3

\* A child that requests need stays while they are not lost.
LEMMA ChildStays ==
    ASSUME MicroTypes, ChildInv, AnyStep,
           NEW c \in Children, NEW s \in Services, NEW i, Has(c, s, i), Lasting(c, s),
           <<s, i>> \notin Loss'
    PROVE  Has(c, s, i)'
<1>1. PICK f, u : f = c[2] /\ u = store[c].owner
  OBVIOUS
<1>2. /\ fork[f] # Gone /\ fork[f].uid = u /\ f \in Forks
      /\ rpc # "idle" /\ cur = f =>
            /\ s \in val.spec.services /\ val.spec.id = i
            /\ (c[1] = "DeploymentCopy" => c[3] \in val.spec.deployments)
  <2>1. PICK d : (c[1] = "DeploymentCopy" => d = c[3]) /\ Kept(f, u, s, i, d)
    BY <1>1 DEF ChildInv, Has
  <2>2. /\ Asks(fork[f], u, s, i, d) /\ f \in Forks
        /\ rpc # "idle" /\ cur = f => Asks(val, u, s, i, d)
    BY <1>1, <2>1, ChildType, LossStays DEF Kept
  <2>3. ASSUME c[1] = "DeploymentCopy", d \in Behind(val.spec, s) PROVE c[3] \in val.spec.deployments
    BY <2>1, <2>3, BehindIs DEF Lasting
  <2> QED
    BY <2>2, <2>3 DEF Asks
<1>3. c[1] # "DeploymentCopy" => c[3] = s
  BY DEF ChildInv, Has
<1>4. CASE store'[c] = store[c]
  BY <1>4 DEF Has, Exists
<1>5. CASE Reaps(c)
  BY <1>1, <1>2, <1>5 DEF Reaps
<1>6. CASE Deletes(c)
  <2>1. /\ rpc = "sync" /\ kind \in 1..3 /\ c[1] = GenerateLists[kind] /\ c[2] = cur
        /\ c \notin Wanted
    BY <1>6 DEF Deletes, MicroTypes
  <2>2. s \in val.spec.services
        /\ IF c[1] = "DeploymentCopy" THEN c[3] \in val.spec.deployments ELSE c[3] = s
    BY <1>1, <1>2, <1>3, <2>1
  <2> QED
    BY <2>1, <2>2, NeededWanted
<1>7. CASE Writes(c)
  <2>1. rpc = "sync" /\ kind \in 1..3 /\ c[1] = GenerateLists[kind] /\ c[2] = cur
    BY <1>7, WrittenIs
  <2>2. s \in val.spec.services /\ val.spec.id = i
        /\ IF c[1] = "DeploymentCopy" THEN c[3] \in val.spec.deployments ELSE c[3] = s
    BY <1>1, <1>2, <1>3, <2>1
  <2>3. s \in Built(c, val).from
    BY <2>1, <2>2, NeededWanted
  <2> QED
    BY <1>7, <2>2, <2>3, WrittenIs DEF Has, Exists
<1> QED
  BY <1>4, <1>5, <1>6, <1>7, StoreSteps

-----------------------------------------------------------------------------
(* Pods *)

\* There are Pods of w that serve requests to s of identifier i.
Made(w, s, i) == pods[w] # Gone /\ pods[w].id = i /\ s \in pods[w].from /\ w[3] \in RoutedBy(s)

\* Pods that serve requests are those of a copied Deployment that still does.
PodsInv ==
    /\ pods \in [Workloads -> Objects \cup {Gone}]
    /\ \A w \in Workloads, s \in Services : \A i : Made(w, s, i) => <<s, i>> \in Loss \/ Has(w, s, i)

\* Copied Deployments are children.
LEMMA WorkloadType ==
    ASSUME NEW w \in Workloads
    PROVE  w \in Children /\ w[1] = "DeploymentCopy" /\ w[2] \in Forks /\ w[3] \in Deployments
BY DEF Workloads, Children

\* How a step changes the Pods of one copied Deployment.
LEMMA PodSteps ==
    ASSUME PodsInv, AnyStep, NEW w \in Workloads
    PROVE  pods'[w] = pods[w] \/ (pods'[w] = store[w] /\ store' = store)
BY DEF PodsInv, AnyStep, PodStep, Fleet

\* Pods come from copied Deployments and, while these serve, so do they.
LEMMA PodsNext ==
    ASSUME MicroTypes, ChildInv, PodsInv, AnyStep
    PROVE  PodsInv'
<1>1. pods' \in [Workloads -> Objects \cup {Gone}]
  <2>1. ASSUME NEW w \in Workloads, pods' = [pods EXCEPT ![w] = store[w]]
        PROVE  pods' \in [Workloads -> Objects \cup {Gone}]
    BY <2>1, WorkloadType DEF PodsInv, MicroTypes
  <2> QED
    BY <2>1 DEF PodsInv, AnyStep, PodStep
<1>2. ASSUME NEW w \in Workloads, NEW s \in Services, NEW i, Made(w, s, i)', <<s, i>> \notin Loss'
      PROVE  Has(w, s, i)'
  <2>1. CASE pods'[w] = pods[w]
    <3>1. Made(w, s, i)
      BY <1>2, <2>1 DEF Made, RoutedBy
    <3>2. Has(w, s, i) /\ w \in Children /\ Lasting(w, s)
      BY <1>2, <3>1, LossStays, WorkloadType DEF PodsInv, Made, Lasting
    <3> QED
      BY <1>2, <3>2, ChildStays
  <2>2. CASE pods'[w] = store[w] /\ store' = store
    BY <1>2, <2>2 DEF Made, Has, Exists
  <2> QED
    BY <2>1, <2>2, PodSteps
<1> QED
  BY <1>1, <1>2 DEF PodsInv

\* Pods that serve requests go on doing so while these are not lost.
LEMMA MadeStays ==
    ASSUME PodsInv, AnyStep, NEW w \in Workloads, NEW s \in Services, NEW i,
           Made(w, s, i), <<s, i>> \notin Loss'
    PROVE  Made(w, s, i)'
<1>1. Has(w, s, i)
  BY LossStays DEF PodsInv
<1>2. pods'[w] # Gone /\ pods'[w].id = i /\ s \in pods'[w].from /\ w[3] \in RoutedBy(s)
  BY <1>1, PodSteps DEF Made, Has, Exists
<1> QED
  BY <1>2 DEF Made, RoutedBy

-----------------------------------------------------------------------------
(* What stands behind a VSConfig *)

Copy(f, s) == <<"Service", f, s>>
Workload(f, d) == <<"DeploymentCopy", f, d>>
Trap(f, s) == <<"VSConfig", f, s>>

\* The copy of s for f has identifier i and a copied Deployment, unless the
\* requests are lost.
Backing(f, s, i) ==
    \/ <<s, i>> \in Loss
    \/ Has(Copy(f, s), s, i) /\ \E d \in RoutedBy(s) : Has(Workload(f, d), s, i)

\* The update is past item c of list k.
Past(k, c) == k < kind \/ (k = kind /\ rpc = "sync" /\ c \notin todo)

\* What the update is past of is there, as long as it is asked for.
PassInv ==
    rpc # "idle" => \A s \in val.spec.services : <<s, val.spec.id>> \notin Loss =>
        /\ \A d \in val.spec.deployments \cap RoutedBy(s) :
              Past(1, Workload(cur, d)) => Has(Workload(cur, d), s, val.spec.id)
        /\ Past(2, Copy(cur, s)) => Has(Copy(cur, s), s, val.spec.id)

\* A VSConfig has its copy behind it.
BackedInv ==
    \A f \in Forks, s \in Services : Exists(Trap(f, s)) => Backing(f, s, store[Trap(f, s)].id)

\* The three are children, in the order of their lists.
LEMMA ChildrenAre ==
    ASSUME NEW f \in Forks, NEW s \in Services
    PROVE  /\ Copy(f, s) \in Children /\ Copy(f, s)[1] = GenerateLists[2]
           /\ Copy(f, s)[2] = f /\ Copy(f, s)[3] = s /\ Copy(f, s)[1] # "DeploymentCopy"
           /\ Trap(f, s) \in Children /\ Trap(f, s)[1] = GenerateLists[3]
           /\ Trap(f, s)[2] = f /\ Trap(f, s)[3] = s /\ Trap(f, s)[1] # "DeploymentCopy"
           /\ Lasting(Copy(f, s), s) /\ Lasting(Trap(f, s), s)
           /\ \A d \in RoutedBy(s) :
                /\ Workload(f, d) \in Children /\ Workload(f, d)[1] = GenerateLists[1]
                /\ Workload(f, d)[2] = f /\ Workload(f, d)[3] = d /\ Lasting(Workload(f, d), s)
                /\ Workload(f, d)[1] = "DeploymentCopy"
<1>1. RoutedBy(s) \subseteq Deployments
  BY DEF RoutedBy
<1> QED
  BY <1>1, Lists DEF Copy, Trap, Workload, Children, Lasting

\* What stands behind a VSConfig stays while its requests are not lost.
LEMMA BackingStays ==
    ASSUME MicroTypes, ChildInv, AnyStep, NEW f \in Forks, NEW s \in Services, NEW i,
           Backing(f, s, i)
    PROVE  Backing(f, s, i)'
<1> SUFFICES ASSUME <<s, i>> \notin Loss'
             PROVE  Has(Copy(f, s), s, i)' /\ \E d \in RoutedBy(s) : Has(Workload(f, d), s, i)'
  BY DEF Backing, RoutedBy, Copy, Workload
<1>1. Has(Copy(f, s), s, i)
  BY LossStays DEF Backing
<1>2. PICK d \in RoutedBy(s) : Has(Workload(f, d), s, i)
  BY LossStays DEF Backing
<1>3. Has(Copy(f, s), s, i)'
  <2>1. PICK c : c = Copy(f, s)
    OBVIOUS
  <2>2. Has(c, s, i)'
    BY <1>1, <2>1, ChildrenAre, ChildStays
  <2> QED
    BY <2>1, <2>2 DEF Copy
<1>4. Has(Workload(f, d), s, i)'
  <2>1. PICK c : c = Workload(f, d)
    OBVIOUS
  <2>2. Has(c, s, i)'
    BY <1>2, <2>1, ChildrenAre, ChildStays
  <2> QED
    BY <2>1, <2>2 DEF Workload
<1> QED
  BY <1>3, <1>4

\* What a list has no item left of is there: a step past an item wrote it.
LEMMA PastNext ==
    ASSUME MicroTypes, ChildInv, ValInv, AnyStep, rpc # "idle", rpc' # "idle",
           cur' = cur, val' = val,
           NEW s \in val.spec.services, <<s, val.spec.id>> \notin Loss',
           NEW k \in {1, 2}, NEW c \in Children, c[1] = GenerateLists[k], c[2] = cur,
           Lasting(c, s), IF c[1] = "DeploymentCopy" THEN c[3] \in val.spec.deployments ELSE c[3] = s,
           Past(k, c) => Has(c, s, val.spec.id), Past(k, c)'
    PROVE  Has(c, s, val.spec.id)'
<1>0. s \in Services
  BY DEF MicroTypes, Values, Specs
<1>1. CASE Past(k, c)
  <2>1. PICK i : i = val.spec.id
    OBVIOUS
  <2>2. Has(c, s, i)'
    BY <1>0, <1>1, <2>1, ChildStays
  <2> QED
    BY <2>1, <2>2 DEF Has
<1>2. CASE ~Past(k, c)
  <2>1. ~UNCHANGED Fleet /\ ~Leaves
    BY <1>2 DEF Fleet, Leaves, Leave, Past
  <2>2. ~ListDone
    <3> SUFFICES ASSUME ListDone PROVE FALSE
      OBVIOUS
    <3>1. rpc = "sync" /\ todo = {} /\ kind' = kind + 1 /\ rpc' = "list" /\ kind \in 1..3
      BY DEF ListDone, MicroTypes
    <3>2. k < kind + 1
      BY <3>1 DEF Past
    <3>3. ~(k < kind) /\ k # kind
      BY <1>2, <3>1 DEF Past
    <3> QED
      BY <3>1, <3>2, <3>3
  <2>3. ~List
    <3> SUFFICES ASSUME List PROVE FALSE
      OBVIOUS
    <3>1. kind \in 1..3 /\ todo' = Wanted /\ kind' = kind
      BY Lists DEF List
    <3>2. k = kind /\ c \notin Wanted
      BY <1>2, <3>1 DEF Past
    <3> QED
      BY <3>1, <3>2, NeededWanted
  <2>4. \A f \in Forks : ~(Starts(f) \/ Sees(f) \/ Puts(f))
    BY <1>2 DEF Starts, Sees, Puts, Past
  <2>5. \A d \in Children : ~(Deletes(d) \/ Reaps(d))
    BY <1>2 DEF Deletes, Reaps, Past
  <2>6. PICK d \in Children : Writes(d)
    BY <2>1, <2>2, <2>3, <2>4, <2>5 DEF AnyStep, FleetStep
  <2>7. d = c
    BY <1>2, <2>6 DEF Writes, Past
  <2>8. c \in Wanted /\ s \in Built(c, val).from /\ store'[c] = Built(c, val) /\ store'[c] # Gone
        /\ store'[c].id = val.spec.id
    BY <2>6, <2>7, WrittenIs, NeededWanted
  <2> QED
    BY <2>8 DEF Has, Exists
<1> QED
  BY <1>1, <1>2

\* The update leaves nothing undone behind it.
LEMMA PassNext ==
    ASSUME MicroTypes, ChildInv, ValInv, PassInv, AnyStep
    PROVE  PassInv'
<1> SUFFICES ASSUME rpc' # "idle", NEW s \in val'.spec.services, <<s, val'.spec.id>> \notin Loss'
             PROVE  /\ \A d \in val'.spec.deployments \cap RoutedBy(s) :
                         Past(1, Workload(cur, d))' => Has(Workload(cur, d), s, val.spec.id)'
                    /\ Past(2, Copy(cur, s))' => Has(Copy(cur, s), s, val.spec.id)'
  BY DEF PassInv, RoutedBy
<1>1. CASE rpc # "idle" /\ cur' = cur /\ val' = val
  <2>0. cur \in Forks /\ s \in Services /\ s \in val.spec.services
    BY <1>1 DEF MicroTypes, Values, Specs
  <2>1. ASSUME NEW d \in val.spec.deployments \cap RoutedBy(s), Past(1, Workload(cur, d))'
        PROVE  Has(Workload(cur, d), s, val.spec.id)'
    <3>1. PICK c : c = Workload(cur, d)
      OBVIOUS
    <3>2. /\ c \in Children /\ c[1] = GenerateLists[1] /\ c[2] = cur /\ Lasting(c, s)
          /\ c[1] = "DeploymentCopy" /\ c[3] \in val.spec.deployments
      BY <2>0, <3>1, ChildrenAre
    <3>3. Past(1, c) => Has(c, s, val.spec.id)
      BY <1>1, <2>0, <3>1, LossStays DEF PassInv
    <3>4. Past(1, c)'
      BY <1>1, <2>1, <3>1 DEF Past, Workload
    <3>5. Has(c, s, val.spec.id)'
      BY <1>1, <2>0, <3>2, <3>3, <3>4, PastNext
    <3> QED
      BY <1>1, <3>1, <3>5 DEF Has, Workload, Exists
  <2>2. ASSUME Past(2, Copy(cur, s))'
        PROVE  Has(Copy(cur, s), s, val.spec.id)'
    <3>1. PICK c : c = Copy(cur, s)
      OBVIOUS
    <3>2. /\ c \in Children /\ c[1] = GenerateLists[2] /\ c[2] = cur /\ Lasting(c, s)
          /\ c[1] # "DeploymentCopy" /\ c[3] = s
      BY <2>0, <3>1, ChildrenAre
    <3>3. Past(2, c) => Has(c, s, val.spec.id)
      BY <1>1, <2>0, <3>1, LossStays DEF PassInv
    <3>4. Past(2, c)'
      BY <1>1, <2>2, <3>1 DEF Past, Copy
    <3>5. Has(c, s, val.spec.id)'
      BY <1>1, <2>0, <3>2, <3>3, <3>4, PastNext
    <3> QED
      BY <1>1, <3>1, <3>5 DEF Has, Copy, Exists
  <2> QED
    BY <1>1, <2>1, <2>2
<1>2. CASE ~(rpc # "idle" /\ cur' = cur /\ val' = val)
  <2>1. \A f \in Forks : ~(Sees(f) \/ Puts(f))
    BY <1>2 DEF Sees, Puts
  <2>2. ~UNCHANGED Fleet /\ ~List /\ ~ListDone /\ ~Leaves
    BY <1>2 DEF Fleet, List, ListDone, Leaves, Leave
  <2>3. \A c \in Children : ~(Deletes(c) \/ Writes(c) \/ Reaps(c))
    BY <1>2 DEF Deletes, Writes, Reaps
  <2>4. PICK f \in Forks : Starts(f)
    BY <2>1, <2>2, <2>3 DEF AnyStep, FleetStep
  <2>5. kind' = 1 /\ rpc' = "list"
    BY <2>4 DEF Starts
  <2>6. ASSUME NEW k \in {1, 2}, NEW c PROVE ~Past(k, c)'
    BY <2>5 DEF Past
  <2>7. ASSUME NEW c PROVE ~Past(1, c)' /\ ~Past(2, c)'
    BY <2>6
  <2> QED
    BY <2>5 DEF Past
<1> QED
  BY <1>1, <1>2

\* A VSConfig is written after what it needs.
LEMMA BackedNext ==
    ASSUME MicroTypes, ValInv, ChildInv, PassInv, BackedInv, AnyStep
    PROVE  BackedInv'
<1> SUFFICES ASSUME NEW f \in Forks, NEW s \in Services, store'[Trap(f, s)] # Gone
             PROVE  Backing(f, s, store[Trap(f, s)].id)'
  BY DEF BackedInv, Exists, Trap
<1>1. PICK c : c = Trap(f, s)
  OBVIOUS
<1>2. /\ c \in Children /\ c[1] = GenerateLists[3] /\ c[2] = f /\ c[3] = s
      /\ c[1] # "DeploymentCopy" /\ c[1] = "VSConfig"
  BY <1>1, ChildrenAre, Lists
<1>3. PICK i : i = store'[c].id
  OBVIOUS
<1>4. Backing(f, s, i)'
  <2>1. CASE store'[c] = store[c]
    <3>1. Backing(f, s, i)
      BY <1>1, <1>3, <2>1 DEF BackedInv, Exists
    <3> QED
      BY <3>1, BackingStays
  <2>2. CASE Deletes(c) \/ Reaps(c)
    BY <1>1, <1>2, <2>2 DEF Deletes, Reaps, MicroTypes
  <2>3. CASE Writes(c)
    <3>1. /\ cur = f /\ rpc = "sync" /\ GenerateLists[kind] = "VSConfig" /\ kind \in 1..3
          /\ i = val.spec.id /\ s \in val.spec.services
      BY <1>2, <1>3, <2>3, WrittenIs DEF MicroTypes
    <3>2. kind = 3
      BY <3>1, Lists
    <3>3. \A x : Past(1, x) /\ Past(2, x)
      BY <3>2 DEF Past
    <3>4. ASSUME val.spec.deployments \cap RoutedBy(s) = {} PROVE Backing(f, s, i)
      <4>1. PICK u : u = val.uid
        OBVIOUS
      <4>2. Asks(val, u, s, i, V!NoValue)
        BY <1>2, <2>3, <3>1, <3>4, <4>1, BehindIs, WrittenIs DEF Asks
      <4>3. Kept(f, u, s, i, V!NoValue)
        BY <3>1, <4>2 DEF ValInv
      <4> QED
        BY <4>3, BareLost DEF Kept, Backing
    <3>5. ASSUME val.spec.deployments \cap RoutedBy(s) # {} PROVE Backing(f, s, i)
      BY <3>1, <3>3, <3>5 DEF PassInv, Backing
    <3>6. Backing(f, s, i)
      BY <3>4, <3>5
    <3> QED
      BY <3>6, BackingStays
  <2> QED
    BY <1>2, <2>1, <2>2, <2>3, StoreSteps
<1> QED
  BY <1>1, <1>3, <1>4 DEF Backing, Has, Exists, Copy, Workload, Trap, RoutedBy

-----------------------------------------------------------------------------
(* Routes *)

\* The instance's own names for what this module has already.
LEMMA SameCardinality == \A S : V!Cardinality(S) = Cardinality(S)
BY DEF V!Cardinality, Cardinality

\* InOrder enumerates a set.
LEMMA InOrderLists ==
    ASSUME NEW S \in SUBSET Nat, IsFiniteSet(S)
    PROVE  /\ Cardinality(S) \in Nat /\ V!InOrder(S) \in [1..Cardinality(S) -> S]
           /\ \A x \in S : \E i \in 1..Cardinality(S) : V!InOrder(S)[i] = x
<1> DEFINE n == Cardinality(S)
           VRank(x) == V!Cardinality({y \in S : y < x})
           q == V!InOrder(S)
<1>1. n \in Nat /\ V!Cardinality(S) = n
  BY FS_CardinalityType, SameCardinality
<1>2. \A x \in S : VRank(x) = Rank(S, x)
  BY SameCardinality DEF Rank
<1>3. q = [i \in 1..n |-> CHOOSE x \in S : VRank(x) = i - 1]
  BY <1>1 DEF V!InOrder
<1>4. ASSUME NEW i \in 1..n
      PROVE  q[i] \in S /\ Rank(S, q[i]) = i - 1
  <2>1. PICK x \in S : Rank(S, x) = i - 1
    BY RankOnto
  <2>2. q[i] = CHOOSE y \in S : VRank(y) = i - 1
    BY <1>3
  <2>3. VRank(x) = i - 1
    BY <1>2, <2>1
  <2> HIDE DEF VRank, q
  <2> QED
    BY <1>2, <2>2, <2>3
<1>5. q \in [1..n -> S]
  <2>1. q = [i \in 1..n |-> q[i]]
    BY <1>3
  <2> HIDE DEF q, VRank, n
  <2> QED
    BY <1>4, <2>1
<1>6. ASSUME NEW x \in S
      PROVE  \E i \in 1..n : q[i] = x
  <2>1. PICK r : r = Rank(S, x)
    OBVIOUS
  <2>2. r \in Nat /\ r + 1 \in 1..n
    BY <1>1, <2>1, RankBound
  <2>3. q[r + 1] \in S /\ Rank(S, q[r + 1]) = r
    BY <1>4, <2>2
  <2>4. PICK y \in S : y = q[r + 1] /\ Rank(S, y) = r
    BY <2>3
  <2>5. ~(y < x) /\ ~(x < y)
    <3>1. ~(r < r)
      BY <2>2
    <3> QED
      BY <2>1, <2>4, <3>1, RankMonotone
  <2>6. x \in Nat /\ y \in Nat
    OBVIOUS
  <2> QED
    BY <2>2, <2>4, <2>5, <2>6
<1> QED
  BY <1>1, <1>5, <1>6

\* The VSConfigs of c that make routes of s.
Trapping(s, c) == {j \in DOMAIN ByName : c[j] # Gone /\ c[j].host = s /\ c[j].value # V!NoValue}

ConfigValues == V!Specs \cup {Gone}

\* The VSConfigs are numbered in the order of their names.
LEMMA Names ==
    /\ DOMAIN ByName = 1..Len(ByName) /\ Len(ByName) \in Nat
    /\ \A j \in DOMAIN ByName :
          ByName[j][2] \in Forks /\ ByName[j][3] \in Services /\ ByName[j] = Trap(ByName[j][2], ByName[j][3])
<1>1. DOMAIN ByName = 1..Len(ByName) /\ Len(ByName) \in Nat
  BY SystemAssumption
<1>2. ASSUME NEW j \in DOMAIN ByName
      PROVE  ByName[j] \in {"VSConfig"} \X Forks \X Services
  BY SystemAssumption
<1> QED
  BY <1>1, <1>2 DEF Trap

\* buildHTTPRoutes: the routes of the VSConfigs that name s, then the default.
LEMMA HTTPRoutesAre ==
    ASSUME NEW s \in Services, NEW c \in [DOMAIN ByName -> ConfigValues]
    PROVE  LET h == V!HTTPRoutes(s, c)
           IN  /\ h \in V!Routes /\ Len(h) \in Nat \ {0} /\ DOMAIN h = 1..Len(h)
               /\ h[Len(h)] = V!Default(s)
               /\ \A k \in 1..Len(h) - 1 : \E j \in Trapping(s, c) :
                     h[k].value = c[j].value /\ h[k].to = c[j].to
               /\ \A j \in Trapping(s, c) : \E k \in 1..Len(h) - 1 : h[k].value = c[j].value
<1> DEFINE D == Trapping(s, c)
           n == Cardinality(D)
           q == V!Routing(s, c)
           R == [value : Identifiers \cup {V!NoValue}, to : Services \cup ({"Service"} \X Forks \X Services)]
           a == [k \in 1..n |-> [value |-> c[q[k]].value, to |-> c[q[k]].to]]
           h == V!HTTPRoutes(s, c)
<1>1. D \in SUBSET Nat /\ IsFiniteSet(D)
  <2>1. IsFiniteSet(1..Len(ByName)) /\ D \subseteq 1..Len(ByName)
    BY Names, FS_Interval DEF Trapping
  <2> QED
    BY <2>1, Names, FS_Subset
<1>2. n \in Nat /\ q \in [1..n -> D] /\ \A x \in D : \E k \in 1..n : q[k] = x
  <2>1. q = V!InOrder(D)
    BY DEF V!Routing, Trapping
  <2> HIDE DEF D, q
  <2> QED
    BY <1>1, <2>1, InOrderLists
<1>3. \A j \in D : c[j] \in V!Specs
  BY DEF Trapping, ConfigValues
<1>4. a \in [1..n -> R]
  <2>1. \A k \in 1..n : c[q[k]] \in V!Specs
    BY <1>2, <1>3
  <2> QED
    BY <2>1 DEF V!Specs
<1>5. V!Default(s) \in R
  BY DEF V!Default
<1>6. h = a \o <<V!Default(s)>>
  <2>1. DOMAIN q = 1..n
    BY <1>2
  <2> QED
    BY <2>1 DEF V!HTTPRoutes
<1>7. /\ h \in Seq(R) /\ Len(h) = n + 1 /\ DOMAIN h = 1..n + 1 /\ h[n + 1] = V!Default(s)
      /\ \A k \in 1..n : h[k] = a[k]
  <2>1. PICK b, e, m : b = a /\ e = V!Default(s) /\ m = n
    OBVIOUS
  <2>2. m \in Nat /\ b \in [1..m -> R] /\ e \in R /\ h = b \o <<e>>
    BY <1>2, <1>4, <1>5, <1>6, <2>1
  <2>3. /\ b \o <<e>> \in Seq(R) /\ Len(b \o <<e>>) = m + 1 /\ DOMAIN (b \o <<e>>) = 1..m + 1
        /\ \A i \in 1..m : (b \o <<e>>)[i] = b[i]
        /\ (b \o <<e>>)[m + 1] = e
    <3> HIDE DEF R, a, h, n, q, D
    <3>1. PICK r : r = R
      OBVIOUS
    <3>2. m \in Nat /\ b \in [1..m -> r] /\ e \in r
      BY <2>2, <3>1
    <3> QED
      BY <3>1, <3>2, OneMore
  <2> HIDE DEF R, a, h, n
  <2> QED
    BY <2>1, <2>2, <2>3
<1>8. V!Routes = Seq(R)
  BY DEF V!Routes
<1>9. Len(h) \in Nat \ {0} /\ Len(h) - 1 = n
  BY <1>2, <1>7
<1>10. ASSUME NEW k \in 1..n
       PROVE  q[k] \in D /\ h[k].value = c[q[k]].value /\ h[k].to = c[q[k]].to
  <2>1. a[k].value = c[q[k]].value /\ a[k].to = c[q[k]].to
    OBVIOUS
  <2>2. q[k] \in D /\ h[k] = a[k]
    BY <1>2, <1>7
  <2> HIDE DEF a, h, q, D, n
  <2> QED
    BY <2>1, <2>2
<1> HIDE DEF a, h, n, q, R
<1>11. \A j \in D : \E k \in 1..n : h[k].value = c[j].value
  BY <1>2, <1>10
<1> QED
  BY <1>7, <1>8, <1>9, <1>10, <1>11 DEF h

-----------------------------------------------------------------------------
(* What the caches and the VirtualServices hold *)

Updating == vrpc \in {"list", "write"}

MeshTypes ==
    /\ seenConfig \in [DOMAIN ByName -> ConfigValues]
    /\ vs \in [Services -> V!Objects \cup {Gone}]
    /\ Updating => cs \in Services /\ csUid = 1 /\ routes \in V!Routes

\* What VSConfig j says, x, has its copy behind it, and j says so still unless
\* the requests are lost.
Sane(j, x) ==
    x # Gone =>
        LET f == ByName[j][2]
            s == ByName[j][3]
        IN  /\ x.host = s /\ x.value \in Identifiers /\ x.to = Copy(f, s)
            /\ Backing(f, s, x.value)
            /\ <<s, x.value>> \in Loss \/ Has(Trap(f, s), s, x.value)

CacheInv == \A j \in DOMAIN ByName : Sane(j, seenConfig[j])

\* The cache has a VSConfig that sends identifier i.
Heard(s, i) ==
    \E j \in DOMAIN ByName : seenConfig[j] # Gone /\ seenConfig[j].host = s /\ seenConfig[j].value = i

\* The routes of s lead, each for one identifier, to a copy that is backed, and
\* the last to s.  The cache still has a VSConfig of each unless it is lost.
Sound(rs, s) ==
    /\ rs \in V!Routes /\ Len(rs) \in Nat \ {0} /\ rs[Len(rs)] = V!Default(s)
    /\ \A k \in 1..Len(rs) - 1 :
          /\ rs[k].value \in Identifiers
          /\ \E f \in Forks : rs[k].to = Copy(f, s) /\ Backing(f, s, rs[k].value)
          /\ <<s, rs[k].value>> \in Loss \/ Heard(s, rs[k].value)

Carries(rs, i) == \E k \in 1..Len(rs) - 1 : rs[k].value = i

Carrying(s, i) == vs[s] # Gone /\ Carries(vs[s].routes, i)

VSInv == \A s \in Services : vs[s] # Gone => Sound(vs[s].routes, s)

\* The update takes no request from a copy unless it is lost.
UpdatingInv ==
    Updating =>
        /\ Sound(routes, cs)
        /\ \A i \in Identifiers : Carrying(cs, i) => <<cs, i>> \in Loss \/ Carries(routes, i)
        /\ vrpc = "write" /\ stale => ~V!Wanted(routes)

\* A stored VSConfig says what its Fork asks for.
LEMMA ConfigIs ==
    ASSUME MicroTypes, ChildInv, BackedInv, NEW j \in DOMAIN ByName
    PROVE  Config[j] \in ConfigValues /\ Sane(j, Config[j])
<1>1. PICK f \in Forks, s \in Services : ByName[j] = Trap(f, s)
  BY Names
<1>2. ByName[j][2] = f /\ ByName[j][3] = s /\ Trap(f, s) \in Children /\ Trap(f, s)[3] = s
  BY <1>1, ChildrenAre DEF Trap
<1>3. Config[j] = ConfigOf(Trap(f, s))
  BY <1>1 DEF Config
<1>4. CASE ~Exists(Trap(f, s))
  BY <1>3, <1>4 DEF ConfigOf, ConfigValues, Sane
<1>5. CASE Exists(Trap(f, s))
  <2>1. store[Trap(f, s)] \in Objects /\ store[Trap(f, s)].from = {s}
    BY <1>2, <1>5, ChildrenAre DEF MicroTypes, ChildInv, Exists
  <2>2. PICK i : i = store[Trap(f, s)].id
    OBVIOUS
  <2>3. i \in Identifiers /\ Backing(f, s, i) /\ Has(Trap(f, s), s, i)
    BY <1>5, <2>1, <2>2 DEF Objects, BackedInv, Has
  <2>4. PICK x : x = Config[j]
    OBVIOUS
  <2>5. x = [host |-> s, value |-> i, to |-> Copy(f, s)]
    BY <1>2, <1>3, <1>5, <2>2, <2>4 DEF ConfigOf, Trap, Copy
  <2>6. x.host = s /\ x.value = i /\ x.to = Copy(f, s) /\ x \in V!Specs
    BY <2>3, <2>5 DEF V!Specs, Copy
  <2> QED
    BY <1>2, <2>3, <2>4, <2>6 DEF Sane, ConfigValues
<1> QED
  BY <1>4, <1>5

\* What a VSConfig said stays backed.
LEMMA SaneStays ==
    ASSUME MicroTypes, ChildInv, AnyStep, NEW j \in DOMAIN ByName, NEW x, Sane(j, x)
    PROVE  Sane(j, x)'
<1> SUFFICES ASSUME x # Gone PROVE Sane(j, x)'
  BY DEF Sane
<1>1. PICK f \in Forks, s \in Services : ByName[j] = Trap(f, s) /\ f = ByName[j][2] /\ s = ByName[j][3]
  BY Names
<1>2. /\ x.host = s /\ x.value \in Identifiers /\ x.to = Copy(f, s)
      /\ Backing(f, s, x.value)
      /\ <<s, x.value>> \in Loss \/ Has(Trap(f, s), s, x.value)
  BY <1>1 DEF Sane
<1>3. PICK i : i = x.value
  OBVIOUS
<1>4. Backing(f, s, i)'
  BY <1>2, <1>3, BackingStays
<1>5. <<s, i>> \in Loss' \/ Has(Trap(f, s), s, i)'
  <2>1. PICK c : c = Trap(f, s)
    OBVIOUS
  <2>2. <<s, i>> \in Loss' \/ Has(c, s, i)'
    BY <1>2, <1>3, <2>1, ChildrenAre, ChildStays, LossStays
  <2> QED
    BY <2>1, <2>2 DEF Trap
<1> QED
  BY <1>1, <1>2, <1>3, <1>4, <1>5 DEF Sane, Backing, Has, Exists, Copy, Workload, Trap, RoutedBy

\* How a step changes the cached VSConfigs.
LEMMA HeardSteps ==
    ASSUME AnyStep
    PROVE  \/ seenConfig' = seenConfig
           \/ Config' = Config /\ seenConfig' = Config
           \/ Config' = Config /\ \E i \in DOMAIN ByName : seenConfig' = [seenConfig EXCEPT ![i] = Config[i]]
<1>1. UNCHANGED store => Config' = Config
  BY DEF Config, ConfigOf, Exists
<1>2. UNCHANGED Mesh \/ Finds \/ Unroutes \/ Installs => seenConfig' = seenConfig
  BY DEF Mesh, Finds, Unroutes, Installs
<1>3. Rests => seenConfig' = seenConfig \/ seenConfig' = Config
  BY DEF Rests
<1>4. ASSUME NEW s \in Services, Reads(s) PROVE seenConfig' = seenConfig
  BY <1>4 DEF Reads
<1>5. ASSUME NEW i \in DOMAIN ByName, Hears(i) PROVE seenConfig' = [seenConfig EXCEPT ![i] = Config[i]]
  BY <1>5 DEF Hears
<1> QED
  BY <1>1, <1>2, <1>3, <1>4, <1>5 DEF AnyStep, MeshStep

\* A cached VSConfig is as it was, or as stored.
LEMMA HeardOne ==
    ASSUME MeshTypes, AnyStep, NEW j \in DOMAIN ByName
    PROVE  seenConfig'[j] = seenConfig[j] \/ (seenConfig'[j] = Config[j] /\ Config' = Config)
BY HeardSteps DEF MeshTypes

\* The cache follows.
LEMMA CacheNext ==
    ASSUME MicroTypes, MeshTypes, ChildInv, BackedInv, CacheInv, AnyStep
    PROVE  CacheInv' /\ seenConfig' \in [DOMAIN ByName -> ConfigValues]
<1>1. ASSUME NEW j \in DOMAIN ByName
      PROVE  Sane(j, seenConfig[j])'
  <2>1. PICK x : x = seenConfig'[j]
    OBVIOUS
  <2>2. Sane(j, Config[j]) /\ Sane(j, seenConfig[j])
    BY ConfigIs DEF CacheInv
  <2>3. Sane(j, x)
    BY <2>1, <2>2, HeardOne
  <2>4. Sane(j, x)'
    BY <2>3, SaneStays
  <2> QED
    BY <2>1, <2>4 DEF Sane, Backing, Has, Exists, Copy, Workload, Trap, RoutedBy
<1>2. \A j \in DOMAIN ByName : Config[j] \in ConfigValues
  BY ConfigIs
<1>3. Config \in [DOMAIN ByName -> ConfigValues]
  BY <1>2 DEF Config
<1>4. seenConfig \in [DOMAIN ByName -> ConfigValues]
  BY DEF MeshTypes
<1>5. ASSUME NEW i \in DOMAIN ByName, seenConfig' = [seenConfig EXCEPT ![i] = Config[i]]
      PROVE  seenConfig' \in [DOMAIN ByName -> ConfigValues]
  BY <1>2, <1>4, <1>5
<1> QED
  BY <1>1, <1>3, <1>4, <1>5, HeardSteps DEF CacheInv

\* What the cache has heard of a request it has still, or it is lost.
LEMMA HeardStays ==
    ASSUME MicroTypes, MeshTypes, CacheInv, AnyStep, NEW s \in Services, NEW i,
           Heard(s, i), <<s, i>> \notin Loss'
    PROVE  Heard(s, i)'
<1>1. PICK j \in DOMAIN ByName : seenConfig[j] # Gone /\ seenConfig[j].host = s /\ seenConfig[j].value = i
  BY DEF Heard
<1>2. CASE seenConfig'[j] = seenConfig[j]
  BY <1>1, <1>2 DEF Heard
<1>3. CASE seenConfig'[j] = Config[j]
  <2>1. PICK f \in Forks, t \in Services : ByName[j] = Trap(f, t) /\ f = ByName[j][2] /\ t = ByName[j][3]
    BY Names
  <2>2. Sane(j, seenConfig[j])
    BY DEF CacheInv
  <2>3. t = s /\ (<<s, i>> \in Loss \/ Has(Trap(f, s), s, i))
    BY <1>1, <2>1, <2>2 DEF Sane
  <2>4. Exists(Trap(f, s)) /\ store[Trap(f, s)].id = i
    BY <2>3, LossStays DEF Has
  <2>5. PICK x : x = Config[j]
    OBVIOUS
  <2>6. x = [host |-> s, value |-> i, to |-> Copy(f, s)]
    BY <2>1, <2>3, <2>4, <2>5 DEF Config, ConfigOf, Trap, Copy
  <2>7. x.host = s /\ x.value = i /\ x # Gone
    <3>1. i \in Identifiers
      BY <1>1, <2>1, <2>2, <2>3 DEF Sane
    <3>2. x \in V!Specs /\ x.host = s /\ x.value = i
      BY <2>6, <3>1 DEF V!Specs, Copy
    <3> QED
      BY <3>2, SystemAssumption
  <2> QED
    BY <1>3, <2>5, <2>7 DEF Heard
<1> QED
  BY <1>2, <1>3, HeardOne

\* Sound routes stay sound.
LEMMA SoundStays ==
    ASSUME MicroTypes, MeshTypes, ChildInv, CacheInv, AnyStep, NEW s \in Services, NEW rs,
           Sound(rs, s)
    PROVE  Sound(rs, s)'
<1>1. ASSUME NEW k \in 1..Len(rs) - 1
      PROVE  /\ rs[k].value \in Identifiers
             /\ \E f \in Forks : rs[k].to = Copy(f, s) /\ Backing(f, s, rs[k].value)'
             /\ <<s, rs[k].value>> \in Loss' \/ Heard(s, rs[k].value)'
  <2>1. PICK i, to : i = rs[k].value /\ to = rs[k].to
    OBVIOUS
  <2>2. PICK f \in Forks : to = Copy(f, s) /\ Backing(f, s, i)
    BY <2>1 DEF Sound
  <2>3. Backing(f, s, i)'
    BY <2>2, BackingStays
  <2>4. <<s, i>> \in Loss' \/ Heard(s, i)'
    BY <2>1, HeardStays, LossStays DEF Sound
  <2>5. i \in Identifiers
    BY <2>1 DEF Sound
  <2> QED
    BY <2>1, <2>2, <2>3, <2>4, <2>5
<1>2. rs \in V!Routes /\ Len(rs) \in Nat \ {0} /\ rs[Len(rs)] = V!Default(s)
  BY DEF Sound
<1> QED
  BY <1>1, <1>2 DEF Sound, Copy

\* How a step changes one VirtualService.
LEMMA VSSteps ==
    ASSUME MeshTypes, AnyStep, NEW s \in Services
    PROVE  vs'[s] = vs[s] \/ (s = cs /\ (Unroutes \/ Installs))
<1>1. UNCHANGED Mesh \/ Finds \/ Rests => vs' = vs
  BY DEF Mesh, Finds, Rests
<1>2. ASSUME NEW t \in Services, Reads(t) PROVE vs' = vs
  BY <1>2 DEF Reads
<1>3. ASSUME NEW i \in DOMAIN ByName, Hears(i) PROVE vs' = vs
  BY <1>3 DEF Hears
<1>4. Unroutes \/ Installs => s = cs \/ vs'[s] = vs[s]
  BY DEF Unroutes, Installs, MeshTypes
<1> QED
  BY <1>1, <1>2, <1>3, <1>4 DEF AnyStep, MeshStep

\* What an update installs.
LEMMA InstalledIs ==
    ASSUME MeshTypes, Installs
    PROVE  /\ Updating /\ cs \in Services /\ vs'[cs] \in V!Objects /\ vs'[cs] # Gone
           /\ vs'[cs].routes = routes
           /\ vs' \in [Services -> V!Objects \cup {Gone}]
<1>1. Updating /\ cs \in Services /\ csUid = 1 /\ routes \in V!Routes
  BY DEF MeshTypes, Installs, Updating
<1>2. PICK x : x = [owner |-> csUid, routes |-> routes]
  OBVIOUS
<1>3. x \in V!Objects /\ x.routes = routes
  BY <1>1, <1>2 DEF V!Objects
<1>4. vs' = [vs EXCEPT ![cs] = x]
  BY <1>2 DEF Installs
<1> QED
  BY <1>1, <1>3, <1>4, SystemAssumption DEF MeshTypes

\* What an update reads.
LEMMA ReadIs ==
    ASSUME MeshTypes, CacheInv, NEW s \in Services
    PROVE  /\ Sound(V!HTTPRoutes(s, seenConfig), s)
           /\ \A i \in Identifiers : Heard(s, i) => Carries(V!HTTPRoutes(s, seenConfig), i)
<1>1. PICK h : h = V!HTTPRoutes(s, seenConfig)
  OBVIOUS
<1>2. /\ h \in V!Routes /\ Len(h) \in Nat \ {0} /\ h[Len(h)] = V!Default(s)
      /\ \A k \in 1..Len(h) - 1 : \E j \in Trapping(s, seenConfig) :
            h[k].value = seenConfig[j].value /\ h[k].to = seenConfig[j].to
      /\ \A j \in Trapping(s, seenConfig) : \E k \in 1..Len(h) - 1 : h[k].value = seenConfig[j].value
  BY <1>1, HTTPRoutesAre DEF MeshTypes
<1>3. ASSUME NEW j \in Trapping(s, seenConfig)
      PROVE  /\ seenConfig[j].value \in Identifiers
             /\ \E f \in Forks : seenConfig[j].to = Copy(f, s) /\ Backing(f, s, seenConfig[j].value)
             /\ Heard(s, seenConfig[j].value)
  <2>1. j \in DOMAIN ByName /\ seenConfig[j] # Gone /\ seenConfig[j].host = s
    BY DEF Trapping
  <2>2. PICK f \in Forks, t \in Services : f = ByName[j][2] /\ t = ByName[j][3]
    BY <2>1, Names
  <2>3. Sane(j, seenConfig[j])
    BY <2>1 DEF CacheInv
  <2>4. /\ t = s /\ seenConfig[j].value \in Identifiers /\ seenConfig[j].to = Copy(f, s)
        /\ Backing(f, s, seenConfig[j].value)
    BY <2>1, <2>2, <2>3 DEF Sane
  <2>5. Heard(s, seenConfig[j].value)
    BY <2>1 DEF Heard
  <2> QED
    BY <2>4, <2>5
<1>4. Sound(h, s)
  <2>1. ASSUME NEW k \in 1..Len(h) - 1
        PROVE  /\ h[k].value \in Identifiers
               /\ \E f \in Forks : h[k].to = Copy(f, s) /\ Backing(f, s, h[k].value)
               /\ <<s, h[k].value>> \in Loss \/ Heard(s, h[k].value)
    <3>1. PICK j \in Trapping(s, seenConfig) : h[k].value = seenConfig[j].value /\ h[k].to = seenConfig[j].to
      BY <1>2
    <3> QED
      BY <1>3, <3>1
  <2> QED
    BY <1>2, <2>1 DEF Sound
<1>5. ASSUME NEW i \in Identifiers, Heard(s, i)
      PROVE  Carries(h, i)
  <2>1. PICK j \in DOMAIN ByName : seenConfig[j] # Gone /\ seenConfig[j].host = s /\ seenConfig[j].value = i
    BY <1>5 DEF Heard
  <2>2. j \in Trapping(s, seenConfig)
    BY <2>1, SystemAssumption DEF Trapping
  <2> QED
    BY <1>2, <2>1, <2>2 DEF Carries
<1> QED
  BY <1>1, <1>4, <1>5

\* No step leaves the types of caches and VirtualServices.
LEMMA MeshTypesNext ==
    ASSUME MicroTypes, MeshTypes, ChildInv, BackedInv, CacheInv, AnyStep
    PROVE  MeshTypes'
<1>1. seenConfig' \in [DOMAIN ByName -> ConfigValues]
  BY CacheNext
<1>2. UNCHANGED Mesh => MeshTypes'
  BY <1>1 DEF Mesh, MeshTypes, Updating
<1>3. Finds \/ Rests => MeshTypes'
  BY <1>1 DEF Finds, Rests, MeshTypes, Updating
<1>4. Unroutes => MeshTypes'
  BY <1>1 DEF Unroutes, MeshTypes, Updating
<1>5. Installs => MeshTypes'
  BY <1>1, InstalledIs DEF Installs, MeshTypes, Updating
<1>6. ASSUME NEW s \in Services, Reads(s) PROVE MeshTypes'
  BY <1>1, <1>6, ReadIs DEF Reads, MeshTypes, Updating, Sound
<1>7. ASSUME NEW i \in DOMAIN ByName, Hears(i) PROVE MeshTypes'
  BY <1>1, <1>7 DEF Hears, MeshTypes, Updating
<1> QED
  BY <1>2, <1>3, <1>4, <1>5, <1>6, <1>7 DEF AnyStep, MeshStep

\* Routes stay sound.
LEMMA VSNext ==
    ASSUME MicroTypes, MeshTypes, ChildInv, CacheInv, VSInv, UpdatingInv, AnyStep
    PROVE  VSInv'
<1> SUFFICES ASSUME NEW s \in Services, vs'[s] # Gone
             PROVE  Sound(vs[s].routes, s)'
  BY DEF VSInv
<1>1. PICK rs : rs = vs'[s].routes
  OBVIOUS
<1>2. Sound(rs, s)
  <2>1. CASE vs'[s] = vs[s]
    BY <1>1, <2>1 DEF VSInv
  <2>2. CASE s = cs /\ Unroutes
    BY <2>2 DEF Unroutes, MeshTypes
  <2>3. CASE s = cs /\ Installs
    BY <1>1, <2>3, InstalledIs DEF UpdatingInv
  <2> QED
    BY <2>1, <2>2, <2>3, VSSteps
<1>3. Sound(rs, s)'
  BY <1>2, SoundStays
<1> QED
  BY <1>1, <1>3 DEF Sound, Heard, Backing, Has, Exists, Copy, Workload, RoutedBy

\* So do the routes an update is about to install.
LEMMA UpdatingNext ==
    ASSUME MicroTypes, MeshTypes, ChildInv, CacheInv, VSInv, UpdatingInv, AnyStep
    PROVE  UpdatingInv'
<1> SUFFICES ASSUME Updating'
             PROVE  /\ Sound(routes, cs)'
                    /\ \A i \in Identifiers : Carrying(cs, i)' => <<cs', i>> \in Loss' \/ Carries(routes', i)
                    /\ vrpc' = "write" /\ stale' => ~V!Wanted(routes')
  BY DEF UpdatingInv, Carries, V!Wanted
<1>1. ASSUME NEW s \in Services, NEW rs, Sound(rs, s), routes' = rs, cs' = s
      PROVE  Sound(routes, cs)'
  <2>1. Sound(rs, s)'
    BY <1>1, SoundStays
  <2> QED
    BY <1>1, <2>1 DEF Sound, Heard, Backing, Has, Exists, Copy, Workload, RoutedBy
<1>2. ASSUME Updating, routes' = routes, cs' = cs
      PROVE  Sound(routes, cs)'
  <2>1. cs \in Services /\ Sound(routes, cs)
    BY <1>2 DEF MeshTypes, UpdatingInv
  <2> QED
    BY <1>1, <1>2, <2>1
<1>3. ASSUME Updating, routes' = routes, cs' = cs, vs' = vs
      PROVE  \A i \in Identifiers : Carrying(cs, i)' => <<cs', i>> \in Loss' \/ Carries(routes', i)
  BY <1>3, LossStays DEF UpdatingInv, Carrying
<1>4. CASE UNCHANGED Mesh
  BY <1>2, <1>3, <1>4 DEF Mesh, Updating, UpdatingInv
<1>5. CASE Finds
  BY <1>2, <1>3, <1>5 DEF Finds, Updating, UpdatingInv
<1>6. CASE Unroutes
  <2>1. Updating /\ routes' = routes /\ cs' = cs /\ ~stale' /\ cs \in Services
    BY <1>6 DEF Unroutes, Updating, MeshTypes
  <2>2. vs'[cs'] = Gone
    BY <1>6, <2>1 DEF Unroutes, MeshTypes
  <2> QED
    BY <1>2, <2>1, <2>2 DEF Carrying
<1>7. CASE Installs
  <2>1. Updating /\ routes' = routes /\ cs' = cs /\ stale' = stale /\ vrpc' = vrpc
    BY <1>7 DEF Installs, Updating
  <2>2. vs'[cs'].routes = routes'
    BY <1>7, <2>1, InstalledIs
  <2> QED
    BY <1>2, <2>1, <2>2 DEF Carrying, UpdatingInv
<1>8. CASE Rests
  BY <1>8 DEF Rests, Updating
<1>9. ASSUME NEW s \in Services, Reads(s)
      PROVE  /\ Sound(routes, cs)'
             /\ \A i \in Identifiers : Carrying(cs, i)' => <<cs', i>> \in Loss' \/ Carries(routes', i)
             /\ vrpc' # "write"
  <2>1. PICK h : h = V!HTTPRoutes(s, seenConfig)
    OBVIOUS
  <2>2. routes' = h /\ cs' = s /\ vs' = vs /\ vrpc' = "list"
    BY <1>9, <2>1 DEF Reads
  <2>3. Sound(h, s) /\ \A i \in Identifiers : Heard(s, i) => Carries(h, i)
    BY <2>1, ReadIs
  <2>4. Sound(routes, cs)'
    BY <1>1, <2>2, <2>3
  <2>5. ASSUME NEW i \in Identifiers, Carrying(s, i)
        PROVE  <<s, i>> \in Loss \/ Heard(s, i)
    BY <2>5 DEF Carrying, Carries, VSInv, Sound
  <2>6. ASSUME NEW i \in Identifiers, Carrying(cs, i)' PROVE <<cs', i>> \in Loss' \/ Carries(routes', i)
    <3>1. Carrying(s, i)
      BY <2>2, <2>6 DEF Carrying
    <3> QED
      BY <2>2, <2>3, <2>5, <3>1, LossStays
  <2> QED
    BY <2>2, <2>4, <2>6
<1>10. ASSUME NEW i \in DOMAIN ByName, Hears(i)
       PROVE  Updating /\ routes' = routes /\ cs' = cs /\ vs' = vs /\ stale' = stale /\ vrpc' = vrpc
  BY <1>10 DEF Hears, Updating
<1>11. ASSUME NEW i \in DOMAIN ByName, Hears(i)
       PROVE  /\ Sound(routes, cs)'
              /\ \A x \in Identifiers : Carrying(cs, x)' => <<cs', x>> \in Loss' \/ Carries(routes', x)
              /\ vrpc' = "write" /\ stale' => ~V!Wanted(routes')
  BY <1>2, <1>3, <1>10, <1>11 DEF UpdatingInv
<1> QED
  BY <1>4, <1>5, <1>6, <1>7, <1>8, <1>9, <1>11 DEF AnyStep, MeshStep

-----------------------------------------------------------------------------
(* What a request meets *)

\* The first of some of a sequence's positions.
FirstOf(M) == CHOOSE k \in M : \A j \in M : k <= j

\* There is a first one.
LEMMA FirstIs ==
    ASSUME NEW n \in Nat, NEW M \in SUBSET (1..n), M # {}
    PROVE  FirstOf(M) \in M /\ \A j \in M : FirstOf(M) <= j
<1>1. IsFiniteSet(M) /\ M \in SUBSET Nat
  <2>1. IsFiniteSet(1..n)
    BY FS_Interval
  <2>2. IsFiniteSet(M)
    BY <2>1, FS_Subset
  <2> QED
    BY <2>2
<1>2. \E k \in M : \A j \in M : k <= j
  BY <1>1, Least
<1> QED
  BY <1>2 DEF FirstOf

\* Where a request goes: to a copy when the routes carry its identifier, and
\* else to the Service itself.
LEMMA ReachesIs ==
    ASSUME VSInv, NEW s \in Services, NEW i \in Identifiers \cup {V!NoValue}
    PROVE  IF i \in Identifiers /\ Carrying(s, i)
             THEN \E f \in Forks : V!Reaches(s, i) = Copy(f, s) /\ Backing(f, s, i)
             ELSE V!Reaches(s, i) = s
<1>1. CASE vs[s] = Gone
  BY <1>1 DEF Carrying, V!Reaches, V!Exists
<1>2. CASE vs[s] # Gone
  <2>1. PICK rs, n : rs = vs[s].routes /\ n = Len(rs)
    OBVIOUS
  <2>2. Sound(rs, s)
    BY <1>2, <2>1 DEF VSInv
  <2>3. n \in Nat \ {0} /\ DOMAIN rs = 1..n /\ rs[n].value = V!NoValue /\ rs[n].to = s
    <3>1. DOMAIN rs = 1..n
      BY <2>1, <2>2 DEF Sound, V!Routes
    <3> QED
      BY <2>1, <2>2, <3>1 DEF Sound, V!Default
  <2>4. \A k \in 1..n : k # n =>
           /\ k \in 1..n - 1 /\ rs[k].value \in Identifiers /\ rs[k].value # V!NoValue
           /\ \E f \in Forks : rs[k].to = Copy(f, s) /\ Backing(f, s, rs[k].value)
    <3> SUFFICES ASSUME NEW k \in 1..n, k # n
                 PROVE  /\ k \in 1..n - 1 /\ rs[k].value \in Identifiers /\ rs[k].value # V!NoValue
                        /\ \E f \in Forks : rs[k].to = Copy(f, s) /\ Backing(f, s, rs[k].value)
      OBVIOUS
    <3>1. k \in 1..n - 1
      BY <2>3
    <3> QED
      BY <2>1, <2>2, <3>1, SystemAssumption DEF Sound
  <2>5. PICK M : M = {k \in DOMAIN rs : rs[k].value \in {V!NoValue, i}}
    OBVIOUS
  <2>6. M \in SUBSET (1..n) /\ n \in M
    BY <2>3, <2>5
  <2>7. PICK m : m = FirstOf(M)
    OBVIOUS
  <2>8. m \in M /\ \A j \in M : m <= j
    BY <2>3, <2>6, <2>7, FirstIs
  <2>9. V!Reaches(s, i) = rs[m].to
    BY <1>2, <2>1, <2>5, <2>6, <2>7 DEF V!Reaches, V!Exists, FirstOf
  <2>10. CASE i \in Identifiers /\ Carrying(s, i)
    <3>1. PICK k \in 1..n - 1 : rs[k].value = i
      BY <2>1, <2>10 DEF Carrying, Carries
    <3>2. k \in M /\ k < n
      BY <2>3, <2>5, <3>1
    <3>3. m \in 1..n /\ m # n
      BY <2>3, <2>6, <2>8, <3>2
    <3>4. rs[m].value = i
      BY <2>4, <2>5, <2>8, <3>3
    <3> QED
      BY <2>4, <2>9, <2>10, <3>3, <3>4
  <2>11. CASE ~(i \in Identifiers /\ Carrying(s, i))
    <3>1. m = n
      <4> SUFFICES ASSUME m # n PROVE FALSE
        OBVIOUS
      <4>1. m \in 1..n - 1 /\ rs[m].value \in Identifiers /\ rs[m].value = i
        BY <2>4, <2>5, <2>6, <2>8
      <4> QED
        BY <1>2, <2>1, <2>11, <4>1 DEF Carrying, Carries
    <3> QED
      BY <2>3, <2>9, <2>11, <3>1
  <2> QED
    BY <2>10, <2>11
<1> QED
  BY <1>1, <1>2

\* Pods of some Fork serve it.
Ready(s, i) == \E w \in Workloads : Made(w, s, i)

Met(s, i) ==
    IF i \in Identifiers /\ Carrying(s, i) THEN (IF Ready(s, i) THEN "fork" ELSE "starting")
    ELSE "original"

\* What it meets there.
LEMMA ServesIs ==
    ASSUME VSInv, MicroTypes, ChildInv, PodsInv,
           NEW s \in Separable, NEW i \in Identifiers \cup {V!NoValue}, <<s, i>> \notin Loss
    PROVE  Serves(s, i) = Met(s, i)
<1>0. /\ s \in Services /\ \A f \in Forks : <<"Service", f, s>> \notin Cut
      /\ Selector[s] # {} => \A d \in Deployments : ~(Selector[s] \subseteq CopyLabels(d))
  BY DEF Separable
<1>1. CASE i \in Identifiers /\ Carrying(s, i)
  <2>1. PICK f \in Forks : V!Reaches(s, i) = Copy(f, s) /\ Backing(f, s, i)
    BY <1>0, <1>1, ReachesIs
  <2>2. PICK c : c = Copy(f, s)
    OBVIOUS
  <2>3. c \in Children /\ c[1] # "DeploymentCopy" /\ c[3] = s /\ c \notin Cut /\ c # s
    BY <1>0, <2>2, ChildrenAre, SystemAssumption DEF Copy
  <2>4. Has(c, s, i) /\ \E d \in RoutedBy(s) : Has(Workload(f, d), s, i)
    BY <2>1, <2>2 DEF Backing
  <2>5. Exists(c) /\ store[c].id = i /\ store[c].from = {s}
    BY <2>3, <2>4 DEF ChildInv, Has
  <2>6. Reachable(c, i)
    BY <2>3, <2>5 DEF Reachable
  <2>7. Backers(pods, c) # {} <=> Ready(s, i)
    BY <2>3, <2>5 DEF Backers, Ready, Made
  <2>8. Backers(store, c) # {}
    <3>1. PICK d \in RoutedBy(s) : Has(Workload(f, d), s, i)
      BY <2>4
    <3>2. PICK w : w = Workload(f, d)
      OBVIOUS
    <3>3. w \in Workloads /\ w[3] = d
      BY <3>1, <3>2 DEF Workload, Workloads, RoutedBy
    <3>4. store[w] # Gone /\ store[w].id = i /\ s \in store[w].from
      BY <3>1, <3>2 DEF Has, Exists
    <3>5. w \in Backers(store, c)
      BY <2>3, <2>5, <3>1, <3>3, <3>4 DEF Backers
    <3> QED
      BY <3>5
  <2> QED
    BY <1>1, <2>1, <2>2, <2>3, <2>6, <2>7, <2>8 DEF Serves, Met
<1>2. CASE ~(i \in Identifiers /\ Carrying(s, i))
  <2>1. V!Reaches(s, i) = s
    BY <1>0, <1>2, ReachesIs
  <2>2. Apart(s)
    BY <1>0, WorkloadType DEF Apart
  <2> QED
    BY <1>2, <2>1, <2>2 DEF Serves, Met
<1> QED
  BY <1>1, <1>2

\* A request that goes to a copy is asked for.
LEMMA CarriedWished ==
    ASSUME VSInv, CacheInv, MicroTypes, ChildInv,
           NEW s \in Services, NEW i \in Identifiers, Carrying(s, i), <<s, i>> \notin Loss
    PROVE  \E f \in Forks, d \in Deployments : <<f, s, i, d>> \in Wish
<1>1. Heard(s, i)
  BY DEF Carrying, Carries, VSInv, Sound
<1>2. PICK j \in DOMAIN ByName : seenConfig[j] # Gone /\ seenConfig[j].host = s /\ seenConfig[j].value = i
  BY <1>1 DEF Heard
<1>3. PICK f \in Forks, t \in Services : f = ByName[j][2] /\ t = ByName[j][3]
  BY Names
<1>4. Sane(j, seenConfig[j])
  BY DEF CacheInv
<1>5. Has(Trap(f, s), s, i)
  BY <1>2, <1>3, <1>4 DEF Sane
<1>6. PICK c, u : c = Trap(f, s) /\ u = store[c].owner
  OBVIOUS
<1>7. c \in Children /\ c[2] = f /\ Lasting(c, s) /\ Has(c, s, i)
  BY <1>5, <1>6, ChildrenAre
<1>8. PICK d : Kept(f, u, s, i, d)
  BY <1>6, <1>7 DEF ChildInv, Has
<1>9. Asks(fork[f], u, s, i, d)
  BY <1>8 DEF Kept
<1>10. d # V!NoValue
  BY <1>9, BareLost
<1>11. d \in Deployments
  BY <1>9, <1>10, BehindIs DEF Asks
<1> QED
  BY <1>9, <1>11, AskedWished

\* A request that goes to a copy goes on doing so, or is lost.
LEMMA CarryingStays ==
    ASSUME MeshTypes, UpdatingInv, AnyStep,
           NEW s \in Services, NEW i \in Identifiers, Carrying(s, i), <<s, i>> \notin Loss'
    PROVE  Carrying(s, i)'
<1>1. CASE vs'[s] = vs[s]
  BY <1>1 DEF Carrying
<1>2. CASE s = cs /\ (Unroutes \/ Installs)
  <2>1. Updating
    BY <1>2 DEF Unroutes, Installs, Updating
  <2>2. Carries(routes, i)
    BY <1>2, <2>1, LossStays DEF UpdatingInv
  <2>3. CASE Unroutes
    <3>1. Sound(routes, cs) /\ ~V!Wanted(routes)
      BY <2>1, <2>3 DEF UpdatingInv, Unroutes
    <3>2. Len(routes) \in Nat \ {0} /\ ~(Len(routes) > 1)
      BY <3>1 DEF Sound, V!Wanted
    <3>3. 1..Len(routes) - 1 = {}
      BY <3>2
    <3> QED
      BY <2>2, <3>3 DEF Carries
  <2>4. CASE Installs
    BY <1>2, <2>2, <2>4, InstalledIs DEF Carrying
  <2> QED
    BY <1>2, <2>3, <2>4
<1> QED
  BY <1>1, <1>2, VSSteps

-----------------------------------------------------------------------------
(* The invariant and the refinement *)

SystemInv ==
    /\ MicroTypes /\ SeenInv /\ ValInv /\ ChildInv /\ PodsInv /\ PassInv /\ BackedInv
    /\ MeshTypes /\ CacheInv /\ VSInv /\ UpdatingInv

\* The invariant holds at the start.
LEMMA SystemInvInit == SystemInit => SystemInv
<1> SUFFICES ASSUME SystemInit PROVE SystemInv
  OBVIOUS
<1>1. seen = fork /\ rpc = "idle" /\ store = [c \in Children |-> Gone]
  BY DEF SystemInit, Init
<1>2. MicroTypes
  BY MicroTypesInit
<1>3. SeenInv /\ ValInv /\ PassInv
  BY <1>1 DEF SeenInv, ValInv, PassInv
<1>4. \A c \in Children : ~Exists(c)
  BY <1>1 DEF Exists
<1>5. ChildInv /\ BackedInv
  BY <1>4, ChildrenAre DEF ChildInv, BackedInv
<1>6. PodsInv
  BY DEF SystemInit, PodsInv, Made
<1>7. /\ seenConfig = Config /\ vs = [s \in Services |-> Gone] /\ vrpc = "idle"
  BY DEF SystemInit, V!Init
<1>8. \A j \in DOMAIN ByName : Config[j] \in ConfigValues /\ Sane(j, Config[j])
  BY <1>2, <1>5, ConfigIs
<1>9. MeshTypes /\ CacheInv
  BY <1>7, <1>8 DEF MeshTypes, CacheInv, Updating, Config
<1>10. VSInv /\ UpdatingInv
  BY <1>7 DEF VSInv, UpdatingInv, Updating
<1> QED
  BY <1>2, <1>3, <1>5, <1>6, <1>9, <1>10 DEF SystemInv

\* Every step keeps it.
LEMMA SystemInvNext == SystemInv /\ [SystemNext]_systemVars => SystemInv'
<1> SUFFICES ASSUME SystemInv, AnyStep PROVE SystemInv'
  BY Steps
<1> USE DEF SystemInv
<1>1. MicroTypes'
  BY MicroTypesNext
<1>2. SeenInv' /\ ValInv'
  BY SeenNext, ValNext
<1>3. ChildInv' /\ PodsInv' /\ PassInv' /\ BackedInv'
  BY ChildNext, PodsNext, PassNext, BackedNext
<1>4. MeshTypes' /\ CacheInv'
  BY MeshTypesNext, CacheNext
<1>5. VSInv' /\ UpdatingInv'
  BY VSNext, UpdatingNext
<1> QED
  BY <1>1, <1>2, <1>3, <1>4, <1>5

\* Users ask for requests to Services with an identifier, and select Deployments.
LEMMA WishType ==
    ASSUME NEW g \in [Forks -> Values]
    PROVE  UNION {IF g[f] = Gone THEN {}
                  ELSE UNION {{<<f, s, g[f].spec.id, d>> : d \in Behind(g[f].spec, s)} : s \in g[f].spec.services}
                    : f \in Forks} \in SUBSET T!Wishes
<1> SUFFICES ASSUME NEW f \in Forks, g[f] # Gone, NEW s \in g[f].spec.services, NEW d \in Behind(g[f].spec, s)
             PROVE  <<f, s, g[f].spec.id, d>> \in T!Wishes
  OBVIOUS
<1>1. g[f].spec \in Specs
  BY DEF Values
<1>2. d \in Deployments \cup {V!NoValue}
  BY BehindIs
<1> QED
  BY <1>1, <1>2 DEF Specs, T!Wishes

\* A request that is not free is not lost.
LEMMA FreeOrKept ==
    ASSUME MicroTypes, NEW s \in Services, NEW i, ~T!Free(<<s, i>>)
    PROVE  s \in Separable /\ <<s, i>> \notin Loss
<1>1. /\ s \in Separable /\ <<s, i>> \notin dropped
      /\ \A f \in Forks : <<f, s, i, V!NoValue>> \notin Wish
  BY DEF T!Free, T!Bare
<1>2. Wish \subseteq T!Wishes
  BY WishType DEF MicroTypes, Wish, WishOf
<1>3. ASSUME NEW w \in Wish, w[4] = V!NoValue, <<w[2], w[3]>> = <<s, i>>
      PROVE  FALSE
  <2>1. w[1] \in Forks /\ w = <<w[1], w[2], w[3], w[4]>>
    BY <1>2 DEF T!Wishes
  <2> QED
    BY <1>1, <1>3, <2>1
<1> QED
  BY <1>1, <1>3 DEF Loss

\* Every request that is not lost meets a copy when it is carried to one, and
\* the original when it is not; and it is carried only when it is asked for.
ServedInv ==
    \A s \in Separable : \A i \in Identifiers \cup {V!NoValue} : <<s, i>> \notin Loss =>
        /\ Serves(s, i) = Met(s, i)
        /\ i \in Identifiers /\ Carrying(s, i) => T!Wished(Wish, <<s, i>>)

\* The invariant says what requests meet.
LEMMA Served == SystemInv => ServedInv
<1> SUFFICES ASSUME SystemInv,
                    NEW s \in Separable, NEW i \in Identifiers \cup {V!NoValue}, <<s, i>> \notin Loss
             PROVE  /\ Serves(s, i) = Met(s, i)
                    /\ i \in Identifiers /\ Carrying(s, i) => T!Wished(Wish, <<s, i>>)
  BY DEF ServedInv
<1>1. Serves(s, i) = Met(s, i)
  BY ServesIs DEF SystemInv
<1>2. ASSUME i \in Identifiers, Carrying(s, i) PROVE T!Wished(Wish, <<s, i>>)
  <2>1. s \in Services
    BY DEF Separable
  <2>2. \E f \in Forks, d \in Deployments : <<f, s, i, d>> \in Wish
    BY <1>2, <2>1, CarriedWished DEF SystemInv
  <2> QED
    BY <2>2 DEF T!Wished
<1> QED
  BY <1>1, <1>2

\* At the start every request meets the original.
LEMMA TrafficInit ==
    ASSUME SystemInit
    PROVE  T!Init
<1>1. SystemInv /\ dropped = {}
  BY SystemInvInit DEF SystemInit
<1>2. ASSUME NEW s \in Services, NEW i \in Identifiers \cup {V!NoValue}
      PROVE  Serves(s, i) = "original"
  <2>1. V!Reaches(s, i) = s
    BY DEF SystemInit, V!Init, V!Reaches, V!Exists
  <2>2. Apart(s)
    BY DEF SystemInit, Apart
  <2> QED
    BY <2>1, <2>2 DEF Serves
<1>3. \A r \in Services \X (Identifiers \cup {V!NoValue}) : Serves(r[1], r[2]) = "original"
  BY <1>2
<1>4. Wish \in SUBSET T!Wishes
  BY <1>1, WishType DEF SystemInv, MicroTypes, Wish, WishOf
<1> QED
  BY <1>1, <1>3, <1>4 DEF T!Init, T!Requests

\* A step of users that changes a Fork changes what is asked for, and nothing
\* of what is served.
LEMMA TrafficWish ==
    ASSUME SystemInv, SystemInv', AnyStep, fork' # fork
    PROVE  T!Wish
<1>1. PICK f \in Forks : Puts(f)
  <2>1. UNCHANGED Fleet \/ List \/ ListDone \/ Leaves => fork' = fork
    BY DEF Fleet, List, ListDone, Leaves
  <2>2. ASSUME NEW h \in Forks, Starts(h) \/ Sees(h) PROVE fork' = fork
    BY <2>2 DEF Starts, Sees
  <2>3. ASSUME NEW c \in Children, Deletes(c) \/ Writes(c) \/ Reaps(c) PROVE fork' = fork
    BY <2>3 DEF Deletes, Writes, Reaps
  <2> QED
    BY <2>1, <2>2, <2>3 DEF AnyStep, FleetStep
<1>2. store' = store /\ vs' = vs /\ pods' = pods
  BY <1>1 DEF Puts, AnyStep, MeshStep, Mesh, PodStep, Fleet
<1>3. ASSUME NEW s, NEW i
      PROVE  Serves(s, i)' = Serves(s, i)
  BY <1>2 DEF Serves, Apart, Reachable, Backers, Exists, V!Reaches, V!Exists
<1>4. Wish' \in SUBSET T!Wishes
  <2>1. fork' \in [Forks -> Values]
    BY DEF SystemInv, MicroTypes
  <2> QED
    BY <2>1, WishType DEF Wish, WishOf, Behind, RoutedBy
<1> QED
  BY <1>3, <1>4 DEF T!Wish, AnyStep, DropStep

\* Any other step leaves what is asked for, and takes a request at most from
\* the original to copies of a Fork that asks for it and on to their Pods.
LEMMA TrafficServe ==
    ASSUME SystemInv, ServedInv, ServedInv', AnyStep, fork' = fork
    PROVE  T!Serve
<1>1. Wish' = Wish /\ dropped' = dropped
  BY WishUnchanged DEF AnyStep, DropStep
<1>2. Loss' = Loss
  BY <1>1 DEF Loss
<1>3. ASSUME NEW s \in Services, NEW i \in Identifiers \cup {V!NoValue}, ~T!Free(<<s, i>>)
      PROVE  \/ Serves(s, i)' = Serves(s, i)
             \/ T!Wished(Wish, <<s, i>>) /\ <<Serves(s, i), Serves(s, i)'>> \in T!Onward
  <2>1. s \in Separable /\ <<s, i>> \notin Loss /\ <<s, i>> \notin Loss'
    BY <1>2, <1>3, FreeOrKept DEF SystemInv
  <2>2. Serves(s, i) = Met(s, i)
    BY <2>1 DEF ServedInv
  <2>3. /\ Serves(s, i)' = Met(s, i)'
        /\ i \in Identifiers /\ Carrying(s, i)' => T!Wished(Wish, <<s, i>>)
    BY <1>1, <2>1 DEF ServedInv, Separable, CopyLabels, T!Wished
  <2>4. i \in Identifiers /\ Carrying(s, i) => Carrying(s, i)'
    BY <2>1, CarryingStays DEF SystemInv
  <2>5. Ready(s, i) => Ready(s, i)'
    BY <2>1, MadeStays DEF SystemInv, Ready
  <2>6. CASE ~(i \in Identifiers /\ Carrying(s, i)')
    BY <2>2, <2>3, <2>4, <2>6 DEF Met
  <2>7. CASE i \in Identifiers /\ Carrying(s, i)'
    BY <2>2, <2>3, <2>5, <2>7 DEF Met, T!Onward
  <2> QED
    BY <2>6, <2>7
<1>4. ASSUME NEW r \in T!Requests, ~T!Free(r)
      PROVE  \/ Serves(r[1], r[2])' = Serves(r[1], r[2])
             \/ T!Wished(Wish, r) /\ <<Serves(r[1], r[2]), Serves(r[1], r[2])'>> \in T!Onward
  <2>1. PICK s \in Services, i \in Identifiers \cup {V!NoValue} : r = <<s, i>> /\ r[1] = s /\ r[2] = i
    BY DEF T!Requests
  <2> QED
    BY <1>3, <1>4, <2>1
<1>5. ASSUME NEW r \in T!Requests
      PROVE  Serves(r[1], r[2])' \in T!Meets
  BY DEF Serves, T!Meets
<1> QED
  BY <1>1, <1>4, <1>5 DEF T!Serve, T!Requests

\* The controller and deployment-duplicator together implement Traffic.  A
\* request to a Service that is told apart from its copies, of which nothing
\* was taken back, meets the original Pods while no Fork asks for it, is sent
\* to copies of it only when a Fork asks for it and they and their
\* DeploymentCopies are stored, and once Pods of them meet it, it meets Pods of
\* Forks from then on: through every create, relabel, delete, retry and restart.
THEOREM SystemImplementsTraffic == SystemSpec => ImplementsTraffic
<1>1. SystemInit => SystemInv /\ T!Init
  BY SystemInvInit, TrafficInit
<1>2. SystemInv /\ [SystemNext]_systemVars => SystemInv'
  BY SystemInvNext
<1>3. SystemInv => ServedInv
  BY Served
<1>4. SystemInv /\ SystemInv' /\ ServedInv /\ ServedInv' /\ [SystemNext]_systemVars => [T!Next]_(T!vars)
  BY Steps, TrafficWish, TrafficServe DEF T!Next
<1> QED
  BY <1>1, <1>2, <1>3, <1>4, PTL DEF SystemSpec, ImplementsTraffic, T!Spec
================================================================================
