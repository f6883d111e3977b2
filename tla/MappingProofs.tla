----------------------------- MODULE MappingProofs -----------------------------
(***************************************************************************)
(* What the update of a manager's mappings guarantees for any number of    *)
(* forks, managers, hosts and identifiers, edits and faults: its types,    *)
(* that an undisturbed update leaves exactly the mappings that are called  *)
(* for, with the options of all forks of an identifier merged, that it     *)
(* touches no mapping of another manager, and that it deletes none made by *)
(* hand.                                                                   *)
(***************************************************************************)
EXTENDS Mapping, FiniteSetTheorems, TLAPS

\* A spec, a mapping or a set of hosts cannot be mistaken for its absence.
LEMMA GoneIsNothing == Gone \notin Specs /\ Gone \notin Mappings /\ Gone \notin SUBSET Hosts
BY ConstantsAssumption

\* The bounds are numbers.
LEMMA NatBounds ==
    /\ MaxEdits \in Nat /\ MaxFaults \in Nat /\ MaxDisturbances \in Nat
    /\ 0 \in 0..MaxEdits /\ 0 \in 0..MaxFaults
BY ConstantsAssumption

ForkMaps == [Forks -> Specs \cup {Gone}]

\* What applyOptionsToMapping adds are headers, and upgrades.
LEMMA OptionsType ==
    ASSUME NEW m \in Managers, NEW id \in Identifiers, NEW f \in ForkMaps, NEW place
    PROVE  AddedHeaders(m, id, f, place) \subseteq Headers
           /\ AllowedUpgrades(id, f) \subseteq Upgrades \cup {Websocket}
<1>1. \A x \in Carrying(f, id) : x \in Forks /\ f[x] \in Specs
  BY DEF ForkMaps, Carrying
<1>2. \A x \in Carrying(f, id) : f[x].headers \subseteq Headers /\ f[x].ups \subseteq Upgrades
  BY <1>1 DEF Specs
<1>3. <<HeaderKey[m], id>> \in Headers
  BY ConstantsAssumption DEF Headers
<1>4. AddedHeaders(m, id, f, place) \subseteq Headers
  BY <1>2, <1>3 DEF AddedHeaders
<1>5. AllowedUpgrades(id, f) \subseteq Upgrades \cup {Websocket}
  BY <1>2 DEF AllowedUpgrades
<1> QED
  BY <1>4, <1>5

\* What an update plans are mappings under keys of its manager.
LEMMA PlannedType ==
    ASSUME NEW m \in Managers, NEW hs \in SUBSET Hosts, NEW f \in ForkMaps, NEW place
    PROVE  Planned(m, hs, f, place) \subseteq [key : Keys, obj : Mappings]
<1> SUFFICES ASSUME NEW h \in hs, NEW id \in Identifiers
             PROVE  [key |-> MapKey[m][h][id], obj |-> MappingFor(m, h, id, f, place)]
                      \in [key : Keys, obj : Mappings]
  BY DEF Planned
<1>1. MapKey[m][h][id] \in Keys
  BY ConstantsAssumption
<1>2. MappingFor(m, h, id, f, place) \in Mappings
  BY OptionsType DEF MappingFor, Mappings
<1> QED
  BY <1>1, <1>2

\* A mapping made by hand is a mapping.
ByHand == [owner |-> NoOwner, label |-> NoLabel, id |-> "", host |-> "", headers |-> {}, ups |-> {}]

LEMMA ByHandType == ByHand \in Mappings
BY DEF ByHand, Mappings

\* Writing one mapping keeps the types of store and lag.
LEMMA StoreType ==
    ASSUME TypeOK, NEW k \in Keys, NEW obj \in Mappings \cup {Gone},
           StoreMapping(k, obj), seenMap' = seenMap
    PROVE  /\ store' \in [Keys -> Mappings \cup {Gone}]
           /\ lag' \subseteq Keys /\ \A j \in Keys \ lag' : seenMap'[j] = store'[j]
BY DEF StoreMapping, TypeOK

\* An update that ends leaves its variables well typed.
LEMMA LeaveType ==
    ASSUME TypeOK, Leave
    PROVE  /\ rpc' = "idle" /\ rkey' \in Forks /\ cm' \in Managers /\ fresh' = FALSE
           /\ toUpdate' = {} /\ plan' = {} /\ doomed' = {}
BY DEF Leave, TypeOK

LEMMA FailType ==
    ASSUME TypeOK, Fail, UNCHANGED <<cluster, store, seenFork, seenManager, seenMap, lag>>,
           edits' \in 0..MaxEdits, faults' \in 0..MaxFaults
    PROVE  TypeOK'
<1>1. queue' \subseteq Forks
  BY DEF Fail, TypeOK
<1> QED
  BY <1>1, LeaveType DEF Fail, TypeOK, cluster

LEMMA InitType == Init => TypeOK
<1> SUFFICES ASSUME Init PROVE TypeOK
  OBVIOUS
<1>1. fork \in [Forks -> Specs \cup {Gone}]
  <2>1. \A f \in Forks : fork[f] \in Specs \cup {Gone}
    BY ConstantsAssumption DEF Init
  <2> QED
    BY <2>1 DEF Init
<1>2. manager \in [Managers -> {Gone} \cup SUBSET Hosts]
  <2>1. \A m \in Managers : manager[m] \in {Gone} \cup SUBSET Hosts
    BY ConstantsAssumption DEF Init
  <2> QED
    BY <2>1 DEF Init
<1> QED
  BY <1>1, <1>2, NatBounds DEF Init, TypeOK

-----------------------------------------------------------------------------
(* Types *)

\* One step of the update keeps the types.
LEMMA UpdateType == TypeOK /\ UpdateStep => TypeOK'
<1> SUFFICES ASSUME TypeOK, UpdateStep PROVE TypeOK'
  OBVIOUS
<1>1. CASE UpdateAllDone
  BY <1>1, LeaveType DEF UpdateAllDone, TypeOK, cluster, caches, budget
<1>2. CASE ManagerDone
  BY <1>2 DEF ManagerDone, TypeOK, cluster, caches, budget
<1>3. ASSUME NEW m \in Managers, ReadInputs(m)
      PROVE  TypeOK'
  <2>1. PICK place \in Lists : plan' = Planned(m, seenManager[m], seenFork, place)
    BY <1>3 DEF ReadInputs
  <2>2. seenManager[m] \in SUBSET Hosts /\ seenFork \in ForkMaps
    BY <1>3 DEF ReadInputs, TypeOK, ForkMaps
  <2>3. plan' \subseteq [key : Keys, obj : Mappings]
    BY <2>1, <2>2, PlannedType
  <2>4. doomed' \subseteq Keys
    BY <1>3 DEF ReadInputs, DeleteCandidates, Labelled
  <2> QED
    BY <1>3, <2>3, <2>4 DEF ReadInputs, TypeOK, cluster, caches, budget
<1>4. ASSUME NEW m \in Managers, ManagerMissing(m)
      PROVE  TypeOK'
  BY <1>4, FailType DEF ManagerMissing, TypeOK, caches, budget
<1>5. ASSUME NEW e \in plan, CreateMapping(e)
      PROVE  TypeOK'
  <2>1. e.key \in Keys /\ e.obj \in Mappings
    BY <1>5 DEF TypeOK
  <2>2. CASE Exists(e.key)
    BY <1>5, <2>2, FailType DEF CreateMapping, TypeOK, budget
  <2>3. CASE ~Exists(e.key)
    <3>1. StoreMapping(e.key, e.obj) /\ seenMap' = seenMap
      BY <1>5, <2>3 DEF CreateMapping
    <3>2. /\ store' \in [Keys -> Mappings \cup {Gone}]
          /\ lag' \subseteq Keys /\ \A j \in Keys \ lag' : seenMap'[j] = store'[j]
      BY <2>1, <3>1, StoreType
    <3> QED
      BY <1>5, <2>3, <3>2 DEF CreateMapping, TypeOK, cluster, budget
  <2> QED
    BY <2>2, <2>3
<1>6. ASSUME NEW e \in plan, UpdateMapping(e)
      PROVE  TypeOK'
  <2>1. e.key \in Keys /\ e.obj \in Mappings
    BY <1>6 DEF TypeOK
  <2>2. CASE seenMap[e.key] = e.obj
    BY <1>6, <2>2 DEF UpdateMapping, TypeOK, cluster, budget
  <2>3. CASE seenMap[e.key] # e.obj /\ e.key \notin lag
    <3>1. StoreMapping(e.key, e.obj) /\ seenMap' = seenMap
      BY <1>6, <2>3 DEF UpdateMapping
    <3>2. /\ store' \in [Keys -> Mappings \cup {Gone}]
          /\ lag' \subseteq Keys /\ \A j \in Keys \ lag' : seenMap'[j] = store'[j]
      BY <2>1, <3>1, StoreType
    <3> QED
      BY <1>6, <2>3, <3>2 DEF UpdateMapping, TypeOK, cluster, budget
  <2>4. CASE seenMap[e.key] # e.obj /\ e.key \in lag
    BY <1>6, <2>4, FailType DEF UpdateMapping, TypeOK, budget
  <2> QED
    BY <2>2, <2>3, <2>4
<1>7. ASSUME NEW e \in plan, MappingTaken(e)
      PROVE  TypeOK'
  BY <1>7, FailType DEF MappingTaken, TypeOK, caches, budget
<1>8. ASSUME NEW k \in Keys, DeleteMapping(k)
      PROVE  TypeOK'
  <2>1. CASE Exists(k)
    <3>1. StoreMapping(k, Gone) /\ seenMap' = seenMap
      BY <1>8, <2>1 DEF DeleteMapping
    <3>2. /\ store' \in [Keys -> Mappings \cup {Gone}]
          /\ lag' \subseteq Keys /\ \A j \in Keys \ lag' : seenMap'[j] = store'[j]
      BY <3>1, StoreType
    <3> QED
      BY <1>8, <2>1, <3>2 DEF DeleteMapping, TypeOK, cluster, budget
  <2>2. CASE ~Exists(k)
    BY <1>8, <2>2, FailType DEF DeleteMapping, TypeOK, budget
  <2> QED
    BY <2>1, <2>2
<1> QED
  BY <1>1, <1>2, <1>3, <1>4, <1>5, <1>6, <1>7, <1>8 DEF UpdateStep

\* One step of users, and of faults, keeps the types.
LEMMA EnvironmentType == TypeOK /\ Environment => TypeOK'
<1> SUFFICES ASSUME TypeOK, Environment PROVE TypeOK'
  OBVIOUS
<1>1. MayEdit /\ edits' = edits + 1 => edits' \in 0..MaxEdits
  BY NatBounds DEF MayEdit, TypeOK
<1>2. MayFail /\ faults' = faults + 1 => faults' \in 0..MaxFaults
  BY NatBounds DEF MayFail, TypeOK
<1>3. ASSUME NEW f \in Forks, DeadlinePasses(f)
      PROVE  TypeOK'
  BY <1>1, <1>3 DEF DeadlinePasses, TypeOK, caches, reconciler
<1>4. ASSUME NEW f \in Forks, UserPutFork(f)
      PROVE  TypeOK'
  <2>1. ForkSpecs[f] \subseteq Specs
    BY ConstantsAssumption
  <2>2. fork' \in [Forks -> Specs \cup {Gone}]
    BY <1>4, <2>1 DEF UserPutFork, TypeOK
  <2> QED
    BY <1>1, <1>4, <2>2 DEF UserPutFork, Disturb, TypeOK, caches
<1>5. ASSUME NEW m \in Managers, PutManager(m)
      PROVE  TypeOK'
  <2>1. HostSets[m] \subseteq SUBSET Hosts
    BY ConstantsAssumption
  <2>2. manager' \in [Managers -> {Gone} \cup SUBSET Hosts]
    BY <1>5, <2>1 DEF PutManager, TypeOK
  <2> QED
    BY <1>1, <1>5, <2>2 DEF PutManager, Disturb, TypeOK, caches
<1>6. ASSUME NEW k \in Keys, UserDeleteMapping(k)
      PROVE  TypeOK'
  <2>1. /\ store' \in [Keys -> Mappings \cup {Gone}]
        /\ lag' \subseteq Keys /\ \A j \in Keys \ lag' : seenMap'[j] = store'[j]
    BY <1>6, StoreType DEF UserDeleteMapping
  <2> QED
    BY <1>1, <1>6, <2>1 DEF UserDeleteMapping, Disturb, TypeOK, cluster
<1>7. ASSUME NEW k \in ManualKeys, UserMapping(k)
      PROVE  TypeOK'
  <2>1. k \in Keys /\ StoreMapping(k, ByHand) /\ seenMap' = seenMap
    BY <1>7, ConstantsAssumption DEF UserMapping, ByHand
  <2>2. /\ store' \in [Keys -> Mappings \cup {Gone}]
        /\ lag' \subseteq Keys /\ \A j \in Keys \ lag' : seenMap'[j] = store'[j]
    BY <2>1, StoreType, ByHandType
  <2> QED
    BY <1>1, <1>7, <2>2 DEF UserMapping, Disturb, TypeOK, cluster
<1>8. CASE ApiFault
  BY <1>2, <1>8, FailType DEF ApiFault, TypeOK, caches
<1>9. CASE Restart
  BY <1>2, <1>9, LeaveType DEF Restart, TypeOK, cluster
<1> QED
  BY <1>3, <1>4, <1>5, <1>6, <1>7, <1>8, <1>9 DEF Environment

\* Every step keeps the types.
LEMMA NextType == TypeOK /\ [Next]_vars => TypeOK'
<1> SUFFICES ASSUME TypeOK, [Next]_vars PROVE TypeOK'
  OBVIOUS
<1>1. CASE UNCHANGED vars
  BY <1>1 DEF TypeOK, vars, cluster, caches, reconciler, budget
<1>2. ASSUME NEW f \in Forks, ReconcileLive(f)
      PROVE  TypeOK'
  <2>1. seenFork[f].mgr \in Managers
    BY <1>2 DEF ReconcileLive, TypeOK, Specs
  <2> QED
    BY <1>2, <2>1 DEF ReconcileLive, Dequeue, TypeOK, cluster, caches, budget
<1>3. ASSUME NEW f \in Forks, ReconcileGone(f) \/ ReconcileOutdated(f) \/ SyncFork(f) \/ Resync(f)
      PROVE  TypeOK'
  BY <1>3 DEF ReconcileGone, ReconcileOutdated, Dequeue, SyncFork, Resync, TypeOK,
              cluster, caches, reconciler, budget
<1>4. ASSUME NEW m \in Managers, SyncManager(m)
      PROVE  TypeOK'
  BY <1>4 DEF SyncManager, TypeOK, cluster, reconciler, budget
<1>5. ASSUME NEW k \in Keys, SyncMap(k)
      PROVE  TypeOK'
  BY <1>5 DEF SyncMap, TypeOK, cluster, reconciler, budget
<1> QED
  BY <1>1, <1>2, <1>3, <1>4, <1>5, UpdateType, EnvironmentType DEF Next

\* Every reachable state is well typed, and a cached mapping differs from the
\* stored one only where the cache lags (every action of the reconciler and
\* of the cluster).
THEOREM TypeCorrect == Spec => []TypeOK
BY InitType, NextType, PTL DEF Spec

-----------------------------------------------------------------------------
(* The kinds of steps *)

\* The cache shows each mapping as before, or as it is stored.
CacheCatchesUp == \A k \in Keys : seenMap'[k] \in {seenMap[k], store[k]}

\* A step beside the update under way.
Outside ==
    /\ UNCHANGED <<store, rpc, cm, plan, doomed>> /\ CacheCatchesUp /\ lag' \subseteq lag
    /\ fresh' => fresh /\ UNCHANGED <<fork, manager>>

\* A step after which no update is under way.
Ends == rpc' # "apply" /\ UNCHANGED store /\ CacheCatchesUp

\* The variables that a step of an update on a mapping leaves alone.
Rest == UNCHANGED <<fork, manager, seenMap, rpc, cm, fresh>>

\* The steps of an update on one mapping: it is written, found as it should
\* be, or deleted.
Written(e) ==
    /\ rpc = "apply" /\ e \in plan /\ StoreMapping(e.key, e.obj)
    /\ store[e.key] = seenMap[e.key] /\ (seenMap[e.key] = Gone \/ MayControl(e))
    /\ plan' = plan \ {e} /\ doomed' = doomed /\ Rest

Found(e) ==
    /\ rpc = "apply" /\ e \in plan /\ seenMap[e.key] = e.obj
    /\ plan' = plan \ {e} /\ UNCHANGED <<store, lag, doomed>> /\ Rest

Deleted(k) ==
    /\ rpc = "apply" /\ plan = {} /\ k \in doomed /\ Exists(k) /\ StoreMapping(k, Gone)
    /\ doomed' = doomed \ {k} /\ plan' = plan /\ Rest

\* A user makes or deletes a mapping.
WrittenByUser(k, obj) ==
    /\ StoreMapping(k, obj) /\ fresh' = FALSE
    /\ UNCHANGED <<seenMap, rpc, cm, plan, doomed>>

\* There are no others.
LEMMA StepKinds ==
    ASSUME TypeOK, [Next]_vars
    PROVE  \/ Outside \/ Ends \/ \E m \in Managers : ReadInputs(m)
           \/ \E e \in plan : Written(e) \/ Found(e)
           \/ \E k \in Keys : Deleted(k)
           \/ \E k \in Keys, obj \in {Gone, ByHand} : WrittenByUser(k, obj)
<1> USE DEF CacheCatchesUp
<1>1. CASE UNCHANGED vars
  BY <1>1 DEF Outside, vars, cluster, caches, reconciler, budget
<1>2. CASE UpdateStep
  <2>1. CASE UpdateAllDone \/ ManagerDone \/ \E m \in Managers : ManagerMissing(m)
    BY <2>1 DEF UpdateAllDone, ManagerDone, ManagerMissing, Fail, Leave, Ends, caches
  <2>2. ASSUME NEW e \in plan, CreateMapping(e)
        PROVE  Ends \/ Written(e)
    <3>1. CASE Exists(e.key)
      BY <2>2, <3>1 DEF CreateMapping, Fail, Leave, Ends
    <3>2. CASE ~Exists(e.key)
      <4>1. store[e.key] = seenMap[e.key]
        BY <2>2, <3>2 DEF CreateMapping, Exists
      <4> QED
        BY <2>2, <3>2, <4>1 DEF CreateMapping, Written, Rest, cluster
    <3> QED
      BY <3>1, <3>2
  <2>3. ASSUME NEW e \in plan, UpdateMapping(e)
        PROVE  Ends \/ Written(e) \/ Found(e)
    <3>1. CASE seenMap[e.key] = e.obj
      BY <2>3, <3>1 DEF UpdateMapping, Found, Rest, cluster
    <3>2. CASE seenMap[e.key] # e.obj /\ e.key \notin lag
      <4>1. store[e.key] = seenMap[e.key]
        BY <2>3, <3>2 DEF TypeOK
      <4> QED
        BY <2>3, <3>2, <4>1 DEF UpdateMapping, Written, Rest, cluster
    <3>3. CASE seenMap[e.key] # e.obj /\ e.key \in lag
      BY <2>3, <3>3 DEF UpdateMapping, Fail, Leave, Ends
    <3> QED
      BY <3>1, <3>2, <3>3
  <2>4. ASSUME NEW e \in plan, MappingTaken(e)
        PROVE  Ends
    BY <2>4 DEF MappingTaken, Fail, Leave, Ends, caches
  <2>5. ASSUME NEW k \in Keys, DeleteMapping(k)
        PROVE  Ends \/ Deleted(k)
    <3>1. CASE Exists(k)
      BY <2>5, <3>1 DEF DeleteMapping, Deleted, Rest, cluster
    <3>2. CASE ~Exists(k)
      BY <2>5, <3>2 DEF DeleteMapping, Fail, Leave, Ends
    <3> QED
      BY <3>1, <3>2
  <2> QED
    BY <1>2, <2>1, <2>2, <2>3, <2>4, <2>5 DEF UpdateStep
<1>3. CASE Environment
  <2>1. ASSUME NEW f \in Forks, DeadlinePasses(f) \/ UserPutFork(f)
        PROVE  Outside
    BY <2>1 DEF DeadlinePasses, UserPutFork, Disturb, Outside, caches, reconciler
  <2>2. ASSUME NEW m \in Managers, PutManager(m)
        PROVE  Outside
    BY <2>2 DEF PutManager, Disturb, Outside, caches
  <2>3. ASSUME NEW k \in Keys, UserDeleteMapping(k)
        PROVE  WrittenByUser(k, Gone)
    BY <2>3 DEF UserDeleteMapping, Disturb, WrittenByUser
  <2>4. ASSUME NEW k \in ManualKeys, UserMapping(k)
        PROVE  k \in Keys /\ WrittenByUser(k, ByHand)
    BY <2>4, ConstantsAssumption DEF UserMapping, Disturb, WrittenByUser, ByHand
  <2>5. CASE ApiFault \/ Restart
    BY <2>5 DEF ApiFault, Restart, Fail, Leave, Ends, caches
  <2> QED
    BY <1>3, <2>1, <2>2, <2>3, <2>4, <2>5 DEF Environment
<1>4. ASSUME NEW f \in Forks, ReconcileLive(f) \/ ReconcileGone(f) \/ ReconcileOutdated(f)
      PROVE  Ends
  BY <1>4 DEF ReconcileLive, ReconcileGone, ReconcileOutdated, Dequeue, Ends, caches, reconciler
<1>5. ASSUME NEW f \in Forks, SyncFork(f) \/ Resync(f)
      PROVE  Outside
  BY <1>5 DEF SyncFork, Resync, Outside, cluster, caches, reconciler
<1>6. ASSUME NEW m \in Managers, SyncManager(m)
      PROVE  Outside
  BY <1>6 DEF SyncManager, Outside, cluster, reconciler
<1>7. ASSUME NEW k \in Keys, SyncMap(k)
      PROVE  Outside
  BY <1>7 DEF SyncMap, Outside, TypeOK, cluster, reconciler
<1> QED
  BY <1>1, <1>2, <1>3, <1>4, <1>5, <1>6, <1>7 DEF Next

-----------------------------------------------------------------------------
(* Who controls a mapping *)

\* The label of a mapping tells its controller.
Tagged(obj) ==
    obj # Gone => obj.label = IF obj.owner = NoOwner THEN NoLabel ELSE Label[obj.owner]

\* No manager controls a mapping that the cache shows under another one: a
\* mapping changes hands only when the cache has seen it without controller,
\* or gone.
CacheOwnerInv ==
    \A k \in Keys :
        /\ Tagged(store[k]) /\ Tagged(seenMap[k])
        /\ seenMap[k] # Gone /\ store[k] # Gone /\ seenMap[k].owner # NoOwner =>
              store[k].owner \in {seenMap[k].owner, NoOwner}

\* What an update plans is for its manager.
PlanOwnerInv ==
    rpc = "apply" => \A e \in plan : e.obj # Gone /\ e.obj.owner = cm /\ Tagged(e.obj)

\* What it is to delete is its manager's, or by now made by hand.
DoomedOwnerInv ==
    rpc = "apply" => \A k \in doomed : Exists(k) => store[k].owner \in {cm, NoOwner}

OwnerInv == TypeOK /\ CacheOwnerInv /\ PlanOwnerInv

\* No two managers have one label, that is, one name.
DistinctLabels == \A m, n \in Managers : Label[m] = Label[n] => m = n

(* An undisturbed update *)

\* Users give specs and upstreams of those they may give.
InputsInv ==
    /\ \A f \in Forks : fork[f] \in ForkSpecs[f] \cup {Gone}
    /\ \A m \in Managers : manager[m] \in HostSets[m] \cup {Gone}

\* No two mappings of one manager have one name.
DistinctNames ==
    \A m \in Managers : \A hs \in HostSets[m] : \A g, h \in hs : \A i, j \in Identifiers :
        MapKey[m][g][i] = MapKey[m][h][j] => g = h /\ i = j

\* Half way through an update towards the mappings p: those no longer in plan
\* are in place, those still in it have been written by no one since the list
\* was read, and any other mapping of the manager is to be deleted.
HalfWay(p) ==
    /\ plan \subseteq p
    /\ \A e \in p \ plan : store[e.key] = e.obj
    /\ KeysOf(plan) \cap lag = {}
    /\ KeysOf(p) \cap doomed = {}
    /\ \A k \in Keys : Exists(k) /\ store[k].owner = cm => k \in KeysOf(p) \cup doomed

\* What a fresh update works towards is what the stored inputs call for.
ProgressInv ==
    rpc = "apply" /\ fresh =>
        /\ manager[cm] # Gone
        /\ \E place \in Lists : HalfWay(Planned(cm, manager[cm], fork, place))

\* What a fresh update is to delete carries a label.
ManualInv ==
    rpc = "apply" /\ fresh => \A k \in doomed : Exists(k) => store[k].label # NoLabel

-----------------------------------------------------------------------------
(* Proof that updates keep to their manager's mappings *)

\* The label of a planned mapping tells its manager.
LEMMA PlannedOwner ==
    ASSUME NEW m \in Managers, NEW hs \in SUBSET Hosts, NEW f \in ForkMaps, NEW place,
           NEW e \in Planned(m, hs, f, place)
    PROVE  e.obj # Gone /\ e.obj.owner = m /\ Tagged(e.obj)
<1>1. e.obj \in Mappings
  BY PlannedType
<1>2. e.obj.owner = m /\ e.obj.label = Label[m]
  BY DEF Planned, MappingFor
<1> QED
  BY <1>1, <1>2, GoneIsNothing, ConstantsAssumption DEF Tagged

\* A write keeps CacheOwnerInv when its controller is the one the cache shows,
\* or there is none.
LEMMA WriteKeepsCacheOwner ==
    ASSUME OwnerInv, NEW k \in Keys, NEW obj, StoreMapping(k, obj), UNCHANGED seenMap,
           Tagged(obj),
           obj # Gone /\ seenMap[k] # Gone /\ seenMap[k].owner # NoOwner =>
               obj.owner \in {seenMap[k].owner, NoOwner}
    PROVE  CacheOwnerInv'
<1>1. store'[k] = obj /\ \A j \in Keys : j # k => store'[j] = store[j]
  BY DEF StoreMapping, OwnerInv, TypeOK
<1> QED
  BY <1>1 DEF OwnerInv, CacheOwnerInv, Tagged

\* Users make mappings without controller and without label.
LEMMA ByHandOwner ==
    ASSUME NEW obj \in {Gone, ByHand}
    PROVE  Tagged(obj) /\ (obj # Gone => obj.owner = NoOwner)
<1>1. CASE obj = Gone
  BY <1>1 DEF Tagged
<1>2. CASE obj = ByHand
  BY <1>2 DEF Tagged, ByHand
<1> QED
  BY <1>1, <1>2

LEMMA NextOwner == OwnerInv /\ [Next]_vars => OwnerInv'
<1> SUFFICES ASSUME OwnerInv, [Next]_vars PROVE OwnerInv'
  OBVIOUS
<1>1. TypeOK /\ TypeOK'
  BY NextType DEF OwnerInv
<1>2. CASE Outside \/ Ends
  <2>1. CacheOwnerInv'
    BY <1>2 DEF OwnerInv, CacheOwnerInv, Outside, Ends, CacheCatchesUp, Tagged
  <2>2. PlanOwnerInv'
    BY <1>2 DEF OwnerInv, PlanOwnerInv, Outside, Ends, Tagged
  <2> QED
    BY <1>1, <2>1, <2>2 DEF OwnerInv
<1>3. ASSUME NEW m \in Managers, ReadInputs(m)
      PROVE  OwnerInv'
  <2>1. PICK place \in Lists : plan' = Planned(m, seenManager[m], seenFork, place)
    BY <1>3 DEF ReadInputs
  <2>2. seenManager[m] \in SUBSET Hosts /\ seenFork \in ForkMaps
    BY <1>1, <1>3 DEF ReadInputs, TypeOK, ForkMaps
  <2>3. cm' = m /\ UNCHANGED <<store, seenMap>>
    BY <1>3 DEF ReadInputs, caches
  <2>4. PlanOwnerInv'
    BY <2>1, <2>2, <2>3, PlannedOwner DEF PlanOwnerInv, Tagged
  <2> QED
    BY <1>1, <2>3, <2>4 DEF OwnerInv, CacheOwnerInv, Tagged
<1>4. ASSUME NEW e \in plan, Written(e)
      PROVE  OwnerInv'
  <2>1. e.key \in Keys /\ e.obj.owner = cm /\ Tagged(e.obj)
    BY <1>1, <1>4 DEF Written, OwnerInv, PlanOwnerInv, TypeOK
  <2>2. seenMap[e.key] # Gone => seenMap[e.key].owner \in {NoOwner, cm}
    BY <1>4 DEF Written, MayControl
  <2>3. CacheOwnerInv'
    BY <1>4, <2>1, <2>2, WriteKeepsCacheOwner DEF Written, Rest
  <2>4. PlanOwnerInv'
    BY <1>4 DEF Written, Rest, OwnerInv, PlanOwnerInv, Tagged
  <2> QED
    BY <1>1, <2>3, <2>4 DEF OwnerInv
<1>5. ASSUME NEW e \in plan, Found(e)
      PROVE  OwnerInv'
  BY <1>1, <1>5 DEF Found, Rest, OwnerInv, CacheOwnerInv, PlanOwnerInv, Tagged
<1>6. ASSUME NEW k \in Keys, Deleted(k)
      PROVE  OwnerInv'
  <2>1. CacheOwnerInv'
    BY <1>6, WriteKeepsCacheOwner DEF Deleted, Rest, Tagged
  <2> QED
    BY <1>1, <1>6, <2>1 DEF Deleted, Rest, OwnerInv, PlanOwnerInv, Tagged
<1>7. ASSUME NEW k \in Keys, NEW obj \in {Gone, ByHand}, WrittenByUser(k, obj)
      PROVE  OwnerInv'
  <2>1. Tagged(obj) /\ (obj # Gone => obj.owner = NoOwner)
    BY ByHandOwner
  <2>2. CacheOwnerInv'
    BY <1>7, <2>1, WriteKeepsCacheOwner DEF WrittenByUser
  <2> QED
    BY <1>1, <1>7, <2>2 DEF WrittenByUser, OwnerInv, PlanOwnerInv, Tagged
<1> QED
  BY <1>1, <1>2, <1>3, <1>4, <1>5, <1>6, <1>7, StepKinds

LEMMA InitOwner == Init => OwnerInv
<1> SUFFICES ASSUME Init PROVE OwnerInv
  OBVIOUS
<1>1. CacheOwnerInv
  BY DEF Init, CacheOwnerInv, Tagged
<1>2. PlanOwnerInv
  BY DEF Init, PlanOwnerInv
<1> QED
  BY <1>1, <1>2, InitType DEF OwnerInv

\* With distinct labels the labelled mappings in the cache are the manager's.
LEMMA NextDoomedOwner ==
    ASSUME DistinctLabels, OwnerInv, OwnerInv', DoomedOwnerInv, [Next]_vars
    PROVE  DoomedOwnerInv'
<1>1. TypeOK
  BY DEF OwnerInv
<1>2. CASE Outside \/ Ends
  BY <1>2 DEF DoomedOwnerInv, Outside, Ends, Exists
<1>3. ASSUME NEW m \in Managers, ReadInputs(m)
      PROVE  DoomedOwnerInv'
  <2>1. cm' = m /\ UNCHANGED store /\ doomed' \subseteq Labelled(m)
    BY <1>3 DEF ReadInputs, DeleteCandidates
  <2>2. ASSUME NEW k \in Labelled(m), store[k] # Gone
        PROVE  store[k].owner \in {m, NoOwner}
    <3>1. k \in Keys /\ seenMap[k] # Gone /\ seenMap[k].label = Label[m] /\ seenMap[k] \in Mappings
      BY <1>1 DEF Labelled, TypeOK
    <3>2. seenMap[k].owner # NoOwner
      BY <3>1, ConstantsAssumption DEF OwnerInv, CacheOwnerInv, Tagged
    <3>3. Label[seenMap[k].owner] = Label[m] /\ seenMap[k].owner \in Managers
      BY <3>1, <3>2 DEF OwnerInv, CacheOwnerInv, Tagged, Mappings
    <3>4. seenMap[k].owner = m
      BY <3>3 DEF DistinctLabels
    <3> QED
      BY <2>2, <3>1, <3>2, <3>4 DEF OwnerInv, CacheOwnerInv
  <2> QED
    BY <2>1, <2>2 DEF DoomedOwnerInv, Exists
<1>4. ASSUME NEW e \in plan, Written(e)
      PROVE  DoomedOwnerInv'
  <2>1. store'[e.key] = e.obj /\ \A j \in Keys : j # e.key => store'[j] = store[j]
    BY <1>1, <1>4 DEF Written, StoreMapping, TypeOK
  <2>2. e.obj.owner = cm
    BY <1>4 DEF Written, OwnerInv, PlanOwnerInv
  <2> QED
    BY <1>1, <1>4, <2>1, <2>2 DEF Written, Rest, DoomedOwnerInv, Exists, TypeOK
<1>5. ASSUME NEW e \in plan, Found(e)
      PROVE  DoomedOwnerInv'
  BY <1>5 DEF Found, Rest, DoomedOwnerInv, Exists
<1>6. ASSUME NEW k \in Keys, Deleted(k)
      PROVE  DoomedOwnerInv'
  BY <1>1, <1>6 DEF Deleted, Rest, StoreMapping, DoomedOwnerInv, Exists, TypeOK
<1>7. ASSUME NEW k \in Keys, NEW obj \in {Gone, ByHand}, WrittenByUser(k, obj)
      PROVE  DoomedOwnerInv'
  <2>1. obj # Gone => obj.owner = NoOwner
    BY ByHandOwner
  <2> QED
    BY <1>1, <1>7, <2>1 DEF WrittenByUser, StoreMapping, DoomedOwnerInv, Exists, TypeOK
<1> QED
  BY <1>1, <1>2, <1>3, <1>4, <1>5, <1>6, <1>7, StepKinds

\* Only these steps of an update change a mapping.
LEMMA UpdateChangeKinds ==
    ASSUME TypeOK, [Next]_vars, NEW k \in Keys, UpdateChanges(k)
    PROVE  \/ \E e \in plan : Written(e) /\ k = e.key
           \/ Deleted(k)
<1> USE DEF UpdateChanges
<1>1. ~Outside /\ ~Ends /\ \A m \in Managers : ~ReadInputs(m)
  BY DEF Outside, Ends, ReadInputs
<1>2. \A e \in plan : ~Found(e)
  BY DEF Found
<1>3. ASSUME NEW e \in plan, Written(e)
      PROVE  k = e.key
  BY <1>3 DEF Written, StoreMapping, TypeOK
<1>4. ASSUME NEW j \in Keys, Deleted(j)
      PROVE  k = j
  BY <1>4 DEF Deleted, StoreMapping, TypeOK
<1>5. \A j \in Keys, obj \in {Gone, ByHand} : ~WrittenByUser(j, obj)
  BY DEF WrittenByUser
<1> QED
  BY <1>1, <1>2, <1>3, <1>4, <1>5, StepKinds

\* An update changes no mapping that another manager controls, provided no two
\* managers share a name: mappings are listed by a label that is the name
\* alone, and deleted by name (UpdateMapping, DeleteMapping).
THEOREM UpdatesIsolated ==
    ASSUME DistinctLabels
    PROVE  Spec => OthersUntouched
<1>1. Init => OwnerInv /\ DoomedOwnerInv
  BY InitOwner DEF Init, DoomedOwnerInv
<1>2. OwnerInv /\ DoomedOwnerInv /\ [Next]_vars => (OwnerInv /\ DoomedOwnerInv)'
  BY NextOwner, NextDoomedOwner
<1>3. ASSUME OwnerInv, DoomedOwnerInv, [Next]_vars
      PROVE  [\A k \in Keys : UpdateChanges(k) /\ Exists(k) => store[k].owner \in {cm, NoOwner}]_vars
  <2>1. SUFFICES ASSUME NEW k \in Keys, UpdateChanges(k), Exists(k)
                 PROVE  store[k].owner \in {cm, NoOwner}
    OBVIOUS
  <2>2. ASSUME NEW e \in plan, Written(e), k = e.key
        PROVE  store[k].owner \in {cm, NoOwner}
    BY <2>1, <2>2 DEF Written, MayControl, Exists
  <2>3. CASE Deleted(k)
    BY <1>3, <2>1, <2>3 DEF Deleted, DoomedOwnerInv
  <2> QED
    BY <1>3, <2>1, <2>2, <2>3, UpdateChangeKinds DEF OwnerInv
<1> QED
  BY <1>1, <1>2, <1>3, PTL DEF Spec, OthersUntouched

-----------------------------------------------------------------------------
(* Proof that updates keep what is made by hand *)

LEMMA NextManual ==
    ASSUME OwnerInv, ManualInv, [Next]_vars
    PROVE  ManualInv'
<1>1. TypeOK
  BY DEF OwnerInv
<1>2. CASE Outside \/ Ends
  BY <1>2 DEF ManualInv, Outside, Ends, Exists
<1>3. ASSUME NEW m \in Managers, ReadInputs(m)
      PROVE  ManualInv'
  <2>1. SUFFICES ASSUME fresh', NEW k \in doomed', store[k] # Gone
                 PROVE  store[k].label # NoLabel
    BY <1>3 DEF ReadInputs, ManualInv, Exists
  <2>2. k \in Keys /\ seenMap[k].label = Label[m] /\ lag = {}
    BY <1>3, <2>1 DEF ReadInputs, DeleteCandidates, Labelled
  <2>3. store[k] = seenMap[k]
    BY <1>1, <2>2 DEF TypeOK
  <2> QED
    BY <2>2, <2>3, ConstantsAssumption
<1>4. ASSUME NEW e \in plan, Written(e)
      PROVE  ManualInv'
  <2>1. store'[e.key] = e.obj /\ \A j \in Keys : j # e.key => store'[j] = store[j]
    BY <1>1, <1>4 DEF Written, StoreMapping, TypeOK
  <2>2. e.obj # Gone /\ e.obj.owner = cm /\ Tagged(e.obj)
    BY <1>4 DEF Written, OwnerInv, PlanOwnerInv
  <2>3. e.obj.label # NoLabel
    BY <1>1, <2>2, ConstantsAssumption DEF Tagged, TypeOK
  <2> QED
    BY <1>1, <1>4, <2>1, <2>3 DEF Written, Rest, ManualInv, Exists, TypeOK
<1>5. ASSUME NEW e \in plan, Found(e)
      PROVE  ManualInv'
  BY <1>5 DEF Found, Rest, ManualInv, Exists
<1>6. ASSUME NEW k \in Keys, Deleted(k)
      PROVE  ManualInv'
  BY <1>1, <1>6 DEF Deleted, Rest, StoreMapping, ManualInv, Exists, TypeOK
<1>7. ASSUME NEW k \in Keys, NEW obj \in {Gone, ByHand}, WrittenByUser(k, obj)
      PROVE  ManualInv'
  BY <1>7 DEF WrittenByUser, ManualInv
<1> QED
  BY <1>1, <1>2, <1>3, <1>4, <1>5, <1>6, <1>7, StepKinds

\* An undisturbed update of what is stored deletes no mapping made by hand,
\* whichever the managers' names (CreateMapping, UpdateMapping, DeleteMapping).
THEOREM ManualMappingsKept == Spec => ManualKept
<1>1. Init => OwnerInv /\ ManualInv
  BY InitOwner DEF Init, ManualInv
<1>2. OwnerInv /\ ManualInv /\ [Next]_vars => (OwnerInv /\ ManualInv)'
  BY NextOwner, NextManual
<1>3. ASSUME OwnerInv, ManualInv, [Next]_vars
      PROVE  [\A k \in Keys :
                 UpdateChanges(k) /\ fresh /\ Exists(k) /\ store[k].label = NoLabel =>
                     k \in KeysOf(plan) /\ store'[k] # Gone]_vars
  <2>1. SUFFICES ASSUME NEW k \in Keys, UpdateChanges(k), fresh, Exists(k), store[k].label = NoLabel
                 PROVE  k \in KeysOf(plan) /\ store'[k] # Gone
    OBVIOUS
  <2>2. ASSUME NEW e \in plan, Written(e), k = e.key
        PROVE  k \in KeysOf(plan) /\ store'[k] # Gone
    <3>1. store'[k] = e.obj
      BY <1>3, <2>2 DEF Written, StoreMapping, OwnerInv, TypeOK
    <3>2. e.obj # Gone
      BY <1>3, <2>2 DEF Written, OwnerInv, PlanOwnerInv
    <3> QED
      BY <2>2, <3>1, <3>2 DEF KeysOf
  <2>3. ~Deleted(k)
    BY <1>3, <2>1 DEF Deleted, ManualInv
  <2> QED
    BY <1>3, <2>1, <2>2, <2>3, UpdateChangeKinds DEF OwnerInv
<1> QED
  BY <1>1, <1>2, <1>3, PTL DEF Spec, ManualKept

-----------------------------------------------------------------------------
(* Proof that an undisturbed update leaves what is called for *)

LEMMA InitInputs == Init => InputsInv
BY DEF Init, InputsInv

LEMMA NextInputs == TypeOK /\ InputsInv /\ [Next]_vars => InputsInv'
<1> SUFFICES ASSUME TypeOK, InputsInv, [Next]_vars PROVE InputsInv'
  OBVIOUS
<1>1. CASE UNCHANGED <<fork, manager>>
  BY <1>1 DEF InputsInv
<1>2. ASSUME NEW f \in Forks, UserPutFork(f) \/ ReconcileOutdated(f)
      PROVE  InputsInv'
  BY <1>2 DEF UserPutFork, ReconcileOutdated, InputsInv, TypeOK
<1>3. ASSUME NEW m \in Managers, PutManager(m)
      PROVE  InputsInv'
  BY <1>3 DEF PutManager, InputsInv, TypeOK
<1>4. UpdateStep => UNCHANGED <<fork, manager>>
  BY DEF UpdateStep, UpdateAllDone, ManagerDone, ReadInputs, ManagerMissing, CreateMapping,
         UpdateMapping, MappingTaken, DeleteMapping, cluster
<1>5. Environment => \/ UNCHANGED <<fork, manager>>
                     \/ \E f \in Forks : UserPutFork(f)
                     \/ \E m \in Managers : PutManager(m)
  BY DEF Environment, DeadlinePasses, UserDeleteMapping, UserMapping, ApiFault, Restart, cluster
<1>6. \/ UNCHANGED <<fork, manager>>
      \/ \E f \in Forks : UserPutFork(f) \/ ReconcileOutdated(f)
      \/ \E m \in Managers : PutManager(m)
  BY <1>4, <1>5 DEF Next, vars, cluster, ReconcileLive, ReconcileGone, SyncFork, Resync,
                    SyncManager, SyncMap
<1> QED
  BY <1>1, <1>2, <1>3, <1>6

\* Planned mappings of distinct names are told apart by them.
LEMMA PlannedApart ==
    ASSUME DistinctNames, NEW m \in Managers, NEW hs \in HostSets[m], NEW f, NEW place,
           NEW d \in Planned(m, hs, f, place), NEW e \in Planned(m, hs, f, place),
           d.key = e.key
    PROVE  d = e
<1>1. PICK g \in hs, i \in Identifiers :
        d = [key |-> MapKey[m][g][i], obj |-> MappingFor(m, g, i, f, place)]
  BY DEF Planned
<1>2. PICK h \in hs, j \in Identifiers :
        e = [key |-> MapKey[m][h][j], obj |-> MappingFor(m, h, j, f, place)]
  BY DEF Planned
<1>3. MapKey[m][g][i] = MapKey[m][h][j]
  BY <1>1, <1>2
<1>4. g = h /\ i = j
  BY <1>3 DEF DistinctNames
<1> QED
  BY <1>1, <1>2, <1>4

\* An update begins half way: all is still in the plan, and every mapping of
\* the manager is planned or listed with its label.
LEMMA ReadProgress ==
    ASSUME OwnerInv, NEW m \in Managers, ReadInputs(m)
    PROVE  ProgressInv'
<1>1. TypeOK
  BY DEF OwnerInv
<1>2. SUFFICES ASSUME fresh'
               PROVE  /\ manager'[cm'] # Gone
                      /\ \E place \in Lists : HalfWay(Planned(cm, manager[cm], fork, place))'
  BY DEF ProgressInv
<1>3. /\ cm' = m /\ lag = {} /\ seenFork = fork /\ seenManager[m] = manager[m]
      /\ UNCHANGED <<fork, manager, store, lag>> /\ manager[m] # Gone
  BY <1>2 DEF ReadInputs, cluster, caches
<1>4. PICK place \in Lists : plan' = Planned(m, manager[m], fork, place)
  BY <1>3 DEF ReadInputs
<1>5. doomed' = Labelled(m) \ KeysOf(plan')
  BY DEF ReadInputs, DeleteCandidates
<1>6. ASSUME NEW k \in Keys, Exists(k), store[k].owner = m
      PROVE  k \in Labelled(m)
  <2>1. seenMap[k] = store[k]
    BY <1>1, <1>3 DEF TypeOK
  <2>2. store[k].label = Label[m]
    BY <1>6, ConstantsAssumption DEF OwnerInv, CacheOwnerInv, Tagged, Exists
  <2> QED
    BY <1>6, <2>1, <2>2 DEF Labelled, Exists
<1>7. Planned(cm, manager[cm], fork, place)' = plan'
  BY <1>3, <1>4
<1>8. HalfWay(Planned(cm, manager[cm], fork, place))'
  BY <1>3, <1>5, <1>6, <1>7 DEF HalfWay, KeysOf, Exists
<1> QED
  BY <1>3, <1>8

LEMMA NextProgress ==
    ASSUME DistinctNames, OwnerInv, InputsInv, ProgressInv, [Next]_vars
    PROVE  ProgressInv'
<1>1. TypeOK
  BY DEF OwnerInv
<1>2. CASE Ends
  BY <1>2 DEF ProgressInv, Ends
<1>3. ASSUME NEW m \in Managers, ReadInputs(m)
      PROVE  ProgressInv'
  BY <1>3, ReadProgress
<1>4. ASSUME NEW k \in Keys, NEW obj \in {Gone, ByHand}, WrittenByUser(k, obj)
      PROVE  ProgressInv'
  BY <1>4 DEF WrittenByUser, ProgressInv
<1>5. ASSUME Outside \/ (\E e \in plan : Written(e) \/ Found(e)) \/ (\E k \in Keys : Deleted(k))
      PROVE  ProgressInv'
  <2>1. SUFFICES ASSUME rpc' = "apply", fresh'
                 PROVE  ProgressInv'
    BY DEF ProgressInv
  <2>2. rpc = "apply" /\ fresh /\ UNCHANGED <<fork, manager, cm>>
    BY <1>5, <2>1 DEF Outside, Written, Found, Deleted, Rest
  <2>3. manager[cm] # Gone
    BY <2>2 DEF ProgressInv
  <2>4. PICK place \in Lists : HalfWay(Planned(cm, manager[cm], fork, place))
    BY <2>2 DEF ProgressInv
  <2> DEFINE p == Planned(cm, manager[cm], fork, place)
  <2>5. p' = p
    BY <2>2
  <2>6. \A d \in p, e \in p : d.key = e.key => d = e
    <3>1. cm \in Managers /\ manager[cm] \in HostSets[cm]
      BY <1>1, <2>3 DEF InputsInv, TypeOK
    <3> QED
      BY <3>1, PlannedApart
  <2> HIDE DEF p
  <2>7. /\ plan \subseteq p /\ \A e \in p \ plan : store[e.key] = e.obj
        /\ KeysOf(plan) \cap lag = {} /\ KeysOf(p) \cap doomed = {}
        /\ \A k \in Keys : Exists(k) /\ store[k].owner = cm => k \in KeysOf(p) \cup doomed
    BY <2>4 DEF HalfWay, p
  <2>8. \A e \in plan : e.key \in Keys
    BY <1>1 DEF TypeOK
  <2> DEFINE Half ==
        /\ plan' \subseteq p /\ \A e \in p \ plan' : store'[e.key] = e.obj
        /\ KeysOf(plan') \cap lag' = {} /\ KeysOf(p) \cap doomed' = {}
        /\ \A k \in Keys : store'[k] # Gone /\ store'[k].owner = cm => k \in KeysOf(p) \cup doomed'
  <2>9. Half
    <3>1. CASE Outside
      BY <2>7, <3>1 DEF Outside, Exists
    <3>2. ASSUME NEW e \in plan, Written(e)
          PROVE  Half
      <4>1. /\ store' = [store EXCEPT ![e.key] = e.obj] /\ lag' = lag \cup {e.key}
            /\ plan' = plan \ {e} /\ doomed' = doomed
        BY <3>2 DEF Written, StoreMapping
      <4>2. store'[e.key] = e.obj /\ \A k \in Keys : k # e.key => store'[k] = store[k]
        BY <1>1, <2>8, <4>1 DEF TypeOK
      <4>3. \A d \in p \ plan' : store'[d.key] = d.obj
        <5>1. ASSUME NEW d \in p \ plan', d # e
              PROVE  store'[d.key] = d.obj
          <6>1. d.key # e.key /\ store[d.key] = d.obj
            BY <2>6, <2>7, <4>1, <5>1
          <6> QED
            BY <4>1, <6>1
        <5> QED
          BY <4>2, <5>1
      <4>4. KeysOf(plan') \cap lag' = {}
        BY <2>6, <2>7, <4>1 DEF KeysOf
      <4>5. e.key \in KeysOf(p)
        BY <2>7 DEF KeysOf
      <4> QED
        BY <2>7, <4>1, <4>2, <4>3, <4>4, <4>5 DEF Exists
    <3>3. ASSUME NEW e \in plan, Found(e)
          PROVE  Half
      <4>1. store[e.key] = e.obj
        BY <1>1, <2>7, <2>8, <3>3 DEF Found, KeysOf, TypeOK
      <4> QED
        BY <2>7, <3>3, <4>1 DEF Found, KeysOf, Exists
    <3>4. ASSUME NEW k \in Keys, Deleted(k)
          PROVE  Half
      <4>1. /\ store' = [store EXCEPT ![k] = Gone] /\ plan = {} /\ plan' = {}
            /\ doomed' = doomed \ {k} /\ k \in doomed
        BY <3>4 DEF Deleted, StoreMapping
      <4>2. store'[k] = Gone /\ \A j \in Keys : j # k => store'[j] = store[j]
        BY <1>1, <4>1 DEF TypeOK
      <4>3. \A e \in p : e.key # k
        BY <2>7, <4>1 DEF KeysOf
      <4>4. \A e \in p \ plan' : store'[e.key] = e.obj
        BY <2>7, <4>1, <4>3
      <4> QED
        BY <2>7, <4>1, <4>2, <4>4 DEF KeysOf, Exists
    <3> QED
      BY <1>5, <3>1, <3>2, <3>3, <3>4
  <2>10. HalfWay(p)'
    BY <2>2, <2>5, <2>9 DEF HalfWay, Exists
  <2> QED
    BY <2>2, <2>3, <2>10 DEF ProgressInv, p
<1> QED
  BY <1>1, <1>2, <1>3, <1>4, <1>5, StepKinds

UpdateInv == OwnerInv /\ InputsInv /\ ProgressInv

LEMMA UpdateInvariant ==
    ASSUME DistinctNames
    PROVE  Spec => []UpdateInv
<1>1. Init => UpdateInv
  BY InitOwner, InitInputs DEF Init, UpdateInv, ProgressInv
<1>2. UpdateInv /\ [Next]_vars => UpdateInv'
  BY NextOwner, NextInputs, NextProgress DEF UpdateInv, OwnerInv
<1> QED
  BY <1>1, <1>2, PTL DEF Spec

\* An update that had the stored inputs and was not disturbed leaves, for its
\* manager, exactly the mappings that its upstreams and the forks call for,
\* provided these have names of their own (ReadInputs to ManagerDone).
THEOREM UpdateSettles ==
    ASSUME DistinctNames
    PROVE  Spec => []SettledWhenDone
<1>1. UpdateInv => SettledWhenDone
  <2> SUFFICES ASSUME UpdateInv, rpc = "apply", plan = {}, doomed = {}, fresh
               PROVE  Settled(cm)
    BY DEF SettledWhenDone
  <2>1. PICK place \in Lists : HalfWay(Planned(cm, manager[cm], fork, place))
    BY DEF UpdateInv, ProgressInv
  <2> QED
    BY <2>1 DEF HalfWay, Settled
<1> QED
  BY <1>1, UpdateInvariant, PTL

-----------------------------------------------------------------------------
(* Proof that options are merged *)

\* Of some forks in the list one is the last.
LEMMA LastOfForks ==
    ASSUME NEW place \in Lists, NEW G \in SUBSET Forks, G # {}
    PROVE  \E y \in G : \A z \in G : ~(place[z] > place[y])
<1> DEFINE Later(x) == {z \in G : place[z] > place[x]}
<1> DEFINE T == {Later(x) : x \in G}
<1>1. IsFiniteSet(Forks) /\ Cardinality(Forks) \in Nat
  BY ConstantsAssumption, FS_CardinalityType
<1>2. \A x \in Forks : place[x] \in Nat
  BY <1>1 DEF Lists
<1>3. T \subseteq FiniteSubsetsOf(Forks)
  BY <1>1, FS_FiniteSubsetsOfFinite
<1>4. PICK s \in T : \A t \in T : <<t, s>> \notin StrictSubsetOrdering(Forks)
  <2>1. T # {}
    OBVIOUS
  <2> HIDE DEF T
  <2> QED
    BY <1>3, <2>1, WFMin, FS_StrictSubsetOrderingWellFounded
<1>5. PICK y \in G : s = Later(y)
  OBVIOUS
<1>6. ASSUME NEW z \in G, place[z] > place[y]
      PROVE  FALSE
  <2>1. Later(z) \subseteq Later(y)
    BY <1>2, <1>6
  <2>2. z \in Later(y) /\ z \notin Later(z)
    BY <1>2, <1>6
  <2>3. <<Later(z), Later(y)>> \in StrictSubsetOrdering(Forks)
    <3>1. Later(z) \in SUBSET Forks /\ Later(y) \in SUBSET Forks /\ Later(z) # Later(y)
      BY <2>2
    <3> HIDE DEF Later
    <3> QED
      BY <2>1, <3>1 DEF StrictSubsetOrdering
  <2> QED
    BY <1>4, <1>5, <2>3
<1> QED
  BY <1>6

\* Of the values that the forks of an identifier give to a header, the one of
\* the last such fork is added, and no other.
LEMMA OneValueAdded ==
    ASSUME TypeOK, InputsInv, NEW m \in Managers, NEW place \in Lists,
           NEW x \in Forks, fork[x] # Gone, NEW a \in fork[x].headers
    PROVE  \E b \in UNION {fork[y].headers : y \in Carrying(fork, fork[x].id)} :
              {c \in AddedHeaders(m, fork[x].id, fork, place) : c[1] = a[1]} = {b}
<1> DEFINE id == fork[x].id
           forks == Carrying(fork, id)
           Gives(y) == \E h \in fork[y].headers : h[1] = a[1]
           givers == {y \in forks : Gives(y)}
           added == AddedHeaders(m, id, fork, place)
<1>1. x \in givers /\ givers \in SUBSET Forks
  BY DEF Carrying
<1>2. PICK y \in givers : \A z \in givers : ~(place[z] > place[y])
  <2> HIDE DEF givers
  <2> QED
    BY <1>1, LastOfForks
<1>3. PICK b \in fork[y].headers : b[1] = a[1]
  OBVIOUS
<1>4. b \in UNION {fork[z].headers : z \in forks}
  BY <1>2, <1>3
<1>5. b \in added
  BY <1>2, <1>3 DEF AddedHeaders
<1>6. ASSUME NEW c \in added, c[1] = a[1]
      PROVE  c = b
  <2>1. PICK z \in forks : /\ c \in fork[z].headers
                           /\ \A w \in forks : place[w] > place[z] => ~Gives(w)
    BY <1>1, <1>6 DEF AddedHeaders
  <2>2. ~(place[y] > place[z]) /\ ~(place[z] > place[y])
    BY <1>2, <1>6, <2>1
  <2>3. y \in Forks /\ z \in Forks /\ place[y] = place[z]
    <3>1. Cardinality(Forks) \in Nat
      BY ConstantsAssumption, FS_CardinalityType
    <3>2. y \in Forks /\ z \in Forks
      BY <1>1, <1>2, <2>1 DEF Carrying
    <3>3. place[y] \in Nat /\ place[z] \in Nat
      BY <3>1, <3>2 DEF Lists
    <3> QED
      BY <2>2, <3>2, <3>3
  <2>4. y = z
    BY <2>3 DEF Lists
  <2>5. fork[y] \in ForkSpecs[y]
    BY <1>2, <2>3 DEF Carrying, InputsInv
  <2> QED
    BY <1>3, <1>6, <2>1, <2>3, <2>4, <2>5, ConstantsAssumption
<1>7. {c \in added : c[1] = a[1]} = {b}
  BY <1>3, <1>5, <1>6
<1> QED
  BY <1>4, <1>7

\* Such an update leaves mappings that add every header the forks of their
\* identifier give, each once (applyOptionsToMapping).
THEOREM UpdateMerges ==
    ASSUME DistinctNames
    PROVE  Spec => []OptionsMerged
<1>1. UpdateInv => OptionsMerged
  <2> SUFFICES ASSUME UpdateInv, rpc = "apply", plan = {}, fresh,
                      NEW h \in manager[cm], NEW x \in Forks, fork[x] # Gone,
                      NEW a \in fork[x].headers
               PROVE  \E b \in UNION {fork[y].headers : y \in Carrying(fork, fork[x].id)} :
                         {c \in store[MapKey[cm][h][fork[x].id]].headers : c[1] = a[1]} = {b}
    BY DEF OptionsMerged
  <2>1. TypeOK /\ InputsInv /\ cm \in Managers
    BY DEF UpdateInv, OwnerInv, TypeOK
  <2>2. PICK place \in Lists : HalfWay(Planned(cm, manager[cm], fork, place))
    BY DEF UpdateInv, ProgressInv
  <2> DEFINE id == fork[x].id
             e == [key |-> MapKey[cm][h][id], obj |-> MappingFor(cm, h, id, fork, place)]
  <2>3. id \in Identifiers /\ x \in Carrying(fork, id)
    BY <2>1 DEF TypeOK, Specs, Carrying
  <2>4. e \in Planned(cm, manager[cm], fork, place)
    BY <2>3 DEF Planned
  <2>5. store[MapKey[cm][h][id]].headers = AddedHeaders(cm, id, fork, place)
    BY <2>2, <2>4 DEF HalfWay, MappingFor
  <2> QED
    BY <2>1, <2>5, OneValueAdded
<1> QED
  BY <1>1, UpdateInvariant, PTL
=============================================================================
