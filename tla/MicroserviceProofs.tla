--------------------------- MODULE MicroserviceProofs ---------------------------
(***************************************************************************)
(* What the microservice updater guarantees for any Forks, Services and    *)
(* Deployments, edits and faults: its types, that an undisturbed update    *)
(* leaves the whole application of its Fork in place across the three      *)
(* lists, and that it sends no request to a copy without DeploymentCopies. *)
(***************************************************************************)
EXTENDS Microservice, TLAPS

Values == [uid : 1..MaxUid, spec : Specs] \cup {Gone}

\* An object, a Fork or its value cannot be mistaken for its absence.
LEMMA GoneIsNothing == Gone \notin Objects /\ Gone \notin Forks /\ Gone \notin [uid : 1..MaxUid, spec : Specs]
BY ConstantsAssumption

\* The bounds are numbers.
LEMMA NatBounds ==
    /\ MaxUid \in Nat \ {0} /\ MaxEdits \in Nat /\ MaxFaults \in Nat
    /\ 1 \in 1..MaxUid /\ 0 \in 0..MaxEdits /\ 0 \in 0..MaxFaults
BY ConstantsAssumption

\* There are three lists.
LEMMA Lists ==
    /\ Len(GenerateLists) = 3 /\ DOMAIN GenerateLists = 1..3
    /\ GenerateLists[1] = "DeploymentCopy" /\ GenerateLists[2] = "Service"
    /\ GenerateLists[3] = "VSConfig"
BY DEF GenerateLists

\* The items of a list are children of its Fork and kind.
LEMMA ItemsType ==
    ASSUME NEW k \in Kinds, NEW f \in Forks, NEW spec \in Specs
    PROVE  /\ Items(k, f, spec) \subseteq Children
           /\ \A c \in Items(k, f, spec) : c[1] = k /\ c[2] = f
<1>1. spec.services \subseteq Services /\ spec.deployments \subseteq Deployments
  BY DEF Specs
<1>2. CASE k = "DeploymentCopy"
  BY <1>1, <1>2 DEF Items, Children
<1>3. CASE k \in {"Service", "VSConfig"}
  BY <1>1, <1>3 DEF Items, Children
<1> QED
  BY <1>2, <1>3 DEF Kinds

\* What is built is an object, of the Fork's incarnation and identifier.
LEMMA BuiltType ==
    ASSUME NEW c \in Children, NEW v \in Values, v # Gone
    PROVE  Built(c, v) \in Objects /\ Built(c, v) # Gone
<1>1. v.uid \in 1..MaxUid /\ v.spec \in Specs
  BY DEF Values
<1>2. v.spec.id \in Identifiers /\ v.spec.services \subseteq Services
  BY <1>1 DEF Specs
<1>3. (IF c[1] = "DeploymentCopy" THEN ServicesOf(c[3], v.spec) ELSE {c[3]}) \subseteq Services
  BY <1>2 DEF Children, ServicesOf
<1> QED
  BY <1>1, <1>2, <1>3, GoneIsNothing DEF Built, Objects

\* Writing one child keeps the types of store and view.
LEMMA StoreType ==
    ASSUME TypeOK, NEW c \in Children, NEW obj \in Objects \cup {Gone}, Store(c, obj)
    PROVE  /\ store' \in [Children -> Objects \cup {Gone}]
           /\ view' \in [Children -> {"absent", "current", "outdated"}]
           /\ \A d \in Children : view'[d] = "current" => store'[d] # Gone
<1>1. store' = [store EXCEPT ![c] = obj] /\ store' \in [Children -> Objects \cup {Gone}]
  BY DEF Store, TypeOK
<1>2. CASE store[c] # obj /\ view[c] = "current"
  BY <1>1, <1>2 DEF Store, TypeOK, Exists
<1>3. CASE ~(store[c] # obj /\ view[c] = "current")
  BY <1>1, <1>3 DEF Store, TypeOK, Exists
<1> QED
  BY <1>1, <1>2, <1>3

-----------------------------------------------------------------------------
(* Types *)

\* A list is refreshed only when there is one.
KindInv == rpc = "sync" => kind \in DOMAIN GenerateLists

TypeInv == TypeOK /\ KindInv

LEMMA InitType == Init => TypeInv
<1> SUFFICES ASSUME Init PROVE TypeInv
  OBVIOUS
<1>1. \A f \in Forks : fork[f] \in Values
  <2> SUFFICES ASSUME NEW f \in Forks, fork[f] # Gone PROVE fork[f] \in Values
    BY DEF Values
  <2>1. fork[f] \in [uid : {1}, spec : UNION {ForkSpecs[g] : g \in Forks}]
    BY DEF Init
  <2>2. UNION {ForkSpecs[g] : g \in Forks} \subseteq Specs
    BY ConstantsAssumption
  <2> QED
    BY <2>1, <2>2, NatBounds DEF Values
<1>2. fork \in [Forks -> Values]
  BY <1>1 DEF Init
<1>3. /\ seen \in [Forks -> Values] /\ queue \subseteq Forks
      /\ store \in [Children -> Objects \cup {Gone}]
      /\ view \in [Children -> {"absent", "current", "outdated"}]
      /\ \A c \in Children : view[c] # "current"
  BY <1>2 DEF Init
<1>4. /\ rpc = "idle" /\ cur = Gone /\ val = Gone /\ kind = 1 /\ doomed = {} /\ todo = {}
      /\ fresh = FALSE /\ edits = 0 /\ faults = 0
  BY DEF Init
<1>5. KindInv
  BY <1>4 DEF KindInv
<1>6. edits \in 0..MaxEdits /\ faults \in 0..MaxFaults /\ kind \in 1..4
  BY <1>4, NatBounds
<1> QED
  BY <1>2, <1>3, <1>4, <1>5, <1>6 DEF TypeInv, TypeOK, Values

\* An update that ends leaves its variables well typed.
LEMMA LeaveType ==
    ASSUME TypeInv, Leave, queue' \subseteq Forks \cup ({cur} \ {Gone}),
           fork' \in [Forks -> Values], seen' \in [Forks -> Values],
           store' \in [Children -> Objects \cup {Gone}],
           view' \in [Children -> {"absent", "current", "outdated"}],
           \A c \in Children : view'[c] = "current" => store'[c] # Gone,
           edits' \in 0..MaxEdits, faults' \in 0..MaxFaults, fresh' \in BOOLEAN
    PROVE  TypeInv'
<1>1. queue' \subseteq Forks
  BY DEF TypeInv, TypeOK
<1> QED
  BY <1>1 DEF TypeInv, TypeOK, KindInv, Leave, Values, Exists

\* One step of the updater keeps the types.
LEMMA UpdateType == TypeInv /\ UpdateStep /\ Watch => TypeInv'
<1> SUFFICES ASSUME TypeInv, UpdateStep, Watch PROVE TypeInv'
  OBVIOUS
<1> USE DEF objects, Values
<1>1. fresh' \in BOOLEAN /\ UNCHANGED <<fork, seen, edits, faults>>
  BY DEF Watch, UpdateStep, List, ListDone, UpdateDone, DeleteChild, SyncChild
<1>2. CASE List
  <2>1. cur \in Forks /\ val.spec \in Specs /\ GenerateLists[kind] \in Kinds
    BY <1>2, Lists DEF List, TypeInv, TypeOK, Kinds
  <2>2. Wanted \subseteq Children
    BY <2>1, ItemsType DEF Wanted
  <2> QED
    BY <1>1, <1>2, <2>2 DEF List, TypeInv, TypeOK, KindInv, Exists
<1>3. CASE ListDone
  <2>1. kind + 1 \in 1..4
    BY <1>3, Lists DEF ListDone, TypeInv, TypeOK, KindInv
  <2> QED
    BY <1>1, <1>3, <2>1 DEF ListDone, TypeInv, TypeOK, KindInv, Exists
<1>4. CASE UpdateDone
  BY <1>1, <1>4, LeaveType DEF UpdateDone, TypeInv, TypeOK, Exists
<1>5. ASSUME NEW c \in Children, DeleteChild(c)
      PROVE  TypeInv'
  <2>1. CASE Exists(c)
    <3>1. Store(c, Gone)
      BY <1>5, <2>1 DEF DeleteChild
    <3>2. /\ store' \in [Children -> Objects \cup {Gone}]
          /\ view' \in [Children -> {"absent", "current", "outdated"}]
          /\ \A d \in Children : view'[d] = "current" => store'[d] # Gone
      BY <3>1, StoreType DEF TypeInv
    <3> QED
      BY <1>1, <1>5, <2>1, <3>2 DEF DeleteChild, TypeInv, TypeOK, KindInv, Exists
  <2>2. CASE ~Exists(c)
    BY <1>1, <1>5, <2>2, LeaveType DEF DeleteChild, Fail, TypeInv, TypeOK, Exists
  <2> QED
    BY <2>1, <2>2
<1>6. ASSUME NEW c \in Children, SyncChild(c)
      PROVE  TypeInv'
  <2>1. CASE view[c] = "current" \/ (view[c] = "absent" /\ ~Exists(c))
    <3>1. Built(c, val) \in Objects
      BY <1>6, BuiltType DEF SyncChild, TypeInv, TypeOK
    <3>2. Store(c, Built(c, val))
      BY <1>6, <2>1 DEF SyncChild
    <3>3. /\ store' \in [Children -> Objects \cup {Gone}]
          /\ view' \in [Children -> {"absent", "current", "outdated"}]
          /\ \A d \in Children : view'[d] = "current" => store'[d] # Gone
      BY <3>1, <3>2, StoreType DEF TypeInv
    <3> QED
      BY <1>1, <1>6, <2>1, <3>3 DEF SyncChild, TypeInv, TypeOK, KindInv, Exists
  <2>2. CASE ~(view[c] = "current" \/ (view[c] = "absent" /\ ~Exists(c)))
    BY <1>1, <1>6, <2>2, LeaveType DEF SyncChild, Fail, TypeInv, TypeOK, Exists
  <2> QED
    BY <2>1, <2>2
<1> QED
  BY <1>2, <1>3, <1>4, <1>5, <1>6 DEF UpdateStep

\* One step of users, and of faults, keeps the types.
LEMMA EnvironmentType == TypeInv /\ Environment /\ Watch => TypeInv'
<1> SUFFICES ASSUME TypeInv, Environment, Watch PROVE TypeInv'
  OBVIOUS
<1> USE DEF objects, locals, Values
<1>1. fresh' \in BOOLEAN
  BY DEF Watch
<1>2. Edit => edits' \in 0..MaxEdits
  BY NatBounds DEF Edit, TypeInv, TypeOK
<1>3. faults < MaxFaults /\ faults' = faults + 1 => faults' \in 0..MaxFaults
  BY NatBounds DEF TypeInv, TypeOK
<1>4. ASSUME NEW f \in Forks, PutFork(f)
      PROVE  TypeInv'
  <2>1. PICK u \in 1..MaxUid, spec \in ForkSpecs[f] : fork' = [fork EXCEPT ![f] = [uid |-> u, spec |-> spec]]
    BY <1>4 DEF PutFork
  <2>2. spec \in Specs
    BY ConstantsAssumption
  <2>3. fork' \in [Forks -> Values]
    BY <2>1, <2>2 DEF TypeInv, TypeOK
  <2> QED
    BY <1>1, <1>2, <1>4, <2>3 DEF PutFork, TypeInv, TypeOK, KindInv, Exists
<1>5. ASSUME NEW f \in Forks, DeleteFork(f)
      PROVE  TypeInv'
  BY <1>1, <1>2, <1>5 DEF DeleteFork, TypeInv, TypeOK, KindInv, Exists
<1>6. ASSUME NEW c \in Children, UserDeleteChild(c)
      PROVE  TypeInv'
  <2>1. /\ store' \in [Children -> Objects \cup {Gone}]
        /\ view' \in [Children -> {"absent", "current", "outdated"}]
        /\ \A d \in Children : view'[d] = "current" => store'[d] # Gone
    BY <1>6, StoreType DEF UserDeleteChild, TypeInv
  <2> QED
    BY <1>1, <1>2, <1>6, <2>1 DEF UserDeleteChild, TypeInv, TypeOK, KindInv, Exists
<1>7. CASE ApiFault
  BY <1>1, <1>3, <1>7, LeaveType DEF ApiFault, Fail, TypeInv, TypeOK, Exists
<1>8. CASE Restart
  <2>1. view' \in [Children -> {"absent", "current", "outdated"}]
    BY <1>8 DEF Restart, Relist, Current
  <2>2. \A c \in Children : view'[c] = "current" => store'[c] # Gone
    BY <1>8 DEF Restart, Relist, Current, Exists
  <2>3. queue' \subseteq Forks
    BY <1>8 DEF Restart, Relist
  <2> QED
    BY <1>1, <1>3, <1>8, <2>1, <2>2, <2>3, LeaveType DEF Restart, Relist, TypeInv, TypeOK
<1> QED
  BY <1>4, <1>5, <1>6, <1>7, <1>8 DEF Environment

\* Every step keeps the types.
LEMMA NextType == TypeInv /\ [Next]_vars => TypeInv'
<1> SUFFICES ASSUME TypeInv, [Next]_vars PROVE TypeInv'
  OBVIOUS
<1> USE DEF objects, locals, Values
<1>1. CASE UNCHANGED vars
  BY <1>1 DEF TypeInv, TypeOK, KindInv, vars, Exists
<1>2. Watch => fresh' \in BOOLEAN
  BY DEF Watch
<1>3. ASSUME NEW f \in Forks, Build(f), Watch
      PROVE  TypeInv'
  BY <1>2, <1>3, GoneIsNothing DEF Build, TypeInv, TypeOK, KindInv, Exists
<1>4. ASSUME NEW f \in Forks, ForkGone(f) \/ Resync(f), Watch
      PROVE  TypeInv'
  BY <1>2, <1>4 DEF ForkGone, Resync, TypeInv, TypeOK, KindInv, Exists
<1>5. ASSUME NEW f \in Forks, SyncFork(f), Watch
      PROVE  TypeInv'
  <2>1. queue' \subseteq Forks /\ seen' \in [Forks -> Values]
    BY <1>5 DEF SyncFork, TypeInv, TypeOK
  <2> QED
    BY <1>2, <1>5, <2>1 DEF SyncFork, TypeInv, TypeOK, KindInv, Exists
<1>6. ASSUME NEW c \in Children, SyncView(c), Watch
      PROVE  TypeInv'
  BY <1>2, <1>6 DEF SyncView, Current, TypeInv, TypeOK, KindInv, Exists
<1>7. ASSUME NEW c \in Children, Collect(c), Watch
      PROVE  TypeInv'
  <2>1. /\ store' \in [Children -> Objects \cup {Gone}]
        /\ view' \in [Children -> {"absent", "current", "outdated"}]
        /\ \A d \in Children : view'[d] = "current" => store'[d] # Gone
    BY <1>7, StoreType DEF Collect, TypeInv
  <2> QED
    BY <1>2, <1>7, <2>1 DEF Collect, TypeInv, TypeOK, KindInv, Exists
<1> QED
  BY <1>1, <1>3, <1>4, <1>5, <1>6, <1>7, UpdateType, EnvironmentType DEF Next, Watched, Step

LEMMA TypeInvariant == Spec => []TypeInv
BY InitType, NextType, PTL DEF Spec

\* Every reachable state is well typed, and a child that is gone is nowhere
\* taken for current (every action of the updater and of the cluster).
THEOREM TypeCorrect == Spec => []TypeOK
<1>1. TypeInv => TypeOK
  BY DEF TypeInv
<1> QED
  BY <1>1, TypeInvariant, PTL

-----------------------------------------------------------------------------
(* An undisturbed update *)

\* Every Service has a selector.  One without is taken to route to every
\* Deployment, and its copies select no Pod.
AllSelect == \A s \in Services : Selector[s] # {}

\* The list of kind k has been brought about.
Refreshed(k) ==
    /\ \A c \in Items(k, cur, val.spec) : store[c] = Built(c, val)
    /\ \A c \in Children : c[1] = k /\ c[2] = cur /\ Exists(c) => c \in Items(k, cur, val.spec)

\* The lists before the current one have been.
EarlierInv == \A i \in DOMAIN GenerateLists : i < kind => Refreshed(GenerateLists[i])

\* Half way through the current one: items no longer in todo are as built,
\* and any other child of the kind is wanted or to be deleted.
HalfWay ==
    /\ todo \subseteq Wanted
    /\ \A c \in doomed : c[1] = GenerateLists[kind] /\ c[2] = cur /\ c \notin Wanted
    /\ \A c \in Wanted \ todo : store[c] = Built(c, val)
    /\ \A c \in Children : c[1] = GenerateLists[kind] /\ c[2] = cur /\ Exists(c) => c \in Wanted \cup doomed

\* While an update is fresh it works for the stored value of its Fork.
UpdateInv ==
    fresh =>
        /\ rpc # "idle" /\ fork[cur] = val
        /\ EarlierInv
        /\ rpc = "sync" => HalfWay

(* The steps that keep an update fresh *)

Begins ==
    /\ cur' \in Forks /\ val' # Gone /\ fork'[cur'] = val'
    /\ rpc' = "list" /\ kind' = 1

Aside == fresh /\ UNCHANGED <<fork, store, rpc, locals>>

Deleted(c) ==
    /\ fresh /\ rpc = "sync" /\ c \in doomed
    /\ store' = [store EXCEPT ![c] = Gone] /\ doomed' = doomed \ {c}
    /\ UNCHANGED <<fork, rpc, cur, val, kind, todo>>

Synced(c) ==
    /\ fresh /\ rpc = "sync" /\ doomed = {} /\ c \in todo
    /\ store' = [store EXCEPT ![c] = Built(c, val)] /\ todo' = todo \ {c}
    /\ UNCHANGED <<fork, rpc, cur, val, kind, doomed>>

\* There are no others: someone else's write changes the store, and neither
\* doomed nor todo.
LEMMA FreshSteps ==
    ASSUME TypeInv, UpdateInv, [Next]_vars, fresh'
    PROVE  \/ Begins \/ Aside
           \/ fresh /\ (List \/ ListDone) /\ UNCHANGED fork
           \/ \E c \in Children : Deleted(c) \/ Synced(c)
<1> USE DEF objects, locals
<1>1. CASE UNCHANGED vars
  BY <1>1 DEF Aside, vars
<1>2. CASE ~UNCHANGED vars
  <2>1. Step /\ Watch
    BY <1>2 DEF Next, Watched
  <2>2. /\ rpc' # "idle"
        /\ rpc = "idle" => val' = fork[cur']
        /\ rpc # "idle" => fresh /\ fork' = fork /\ (store' = store \/ <<doomed, todo>>' # <<doomed, todo>>)
    BY <2>1 DEF Watch
  <2>3. rpc = "idle" => ~fresh
    BY DEF UpdateInv
  <2>4. ~Leave
    BY <2>2 DEF Leave
  <2>5. ASSUME NEW f \in Forks, Build(f)
        PROVE  Begins
    BY <2>2, <2>5 DEF Build, Begins
  <2>6. ASSUME UNCHANGED locals, rpc' = rpc, rpc # "idle"
        PROVE  Aside
    BY <2>2, <2>6 DEF Aside
  <2>7. CASE List \/ ListDone \/ UpdateDone
    BY <2>2, <2>3, <2>4, <2>7 DEF List, ListDone, UpdateDone
  <2>8. ASSUME NEW c \in Children, DeleteChild(c) \/ SyncChild(c)
        PROVE  Deleted(c) \/ Synced(c)
    BY <2>2, <2>4, <2>8 DEF DeleteChild, SyncChild, Fail, Store, Deleted, Synced
  <2>9. CASE Environment
    BY <2>2, <2>4, <2>6, <2>9 DEF Environment, PutFork, DeleteFork, UserDeleteChild, ApiFault, Restart,
                                  Relist, Fail
  <2>10. ASSUME NEW f \in Forks, ForkGone(f) \/ SyncFork(f) \/ Resync(f)
         PROVE  Aside
    BY <2>2, <2>6, <2>10 DEF ForkGone, SyncFork, Resync
  <2>11. ASSUME NEW c \in Children, SyncView(c) \/ Collect(c)
         PROVE  Aside
    BY <2>2, <2>6, <2>11 DEF SyncView, Collect
  <2> QED
    BY <2>1, <2>5, <2>7, <2>8, <2>9, <2>10, <2>11 DEF Step, UpdateStep
<1> QED
  BY <1>1, <1>2

\* A write of a child that no earlier list concerns keeps what they brought
\* about.
LEMMA WriteKeepsEarlier ==
    ASSUME TypeInv, fresh, UpdateInv, rpc = "sync", NEW c \in Children, c[1] = GenerateLists[kind],
           NEW obj, store' = [store EXCEPT ![c] = obj], UNCHANGED <<cur, val, kind>>
    PROVE  EarlierInv'
<1>1. cur \in Forks /\ val.spec \in Specs
  BY DEF TypeInv, TypeOK
<1>2. SUFFICES ASSUME NEW i \in DOMAIN GenerateLists, i < kind
               PROVE  Refreshed(GenerateLists[i])'
  BY DEF EarlierInv
<1>3. GenerateLists[i] # c[1] /\ GenerateLists[i] \in Kinds
  BY <1>2, Lists DEF TypeInv, KindInv, Kinds
<1>4. Refreshed(GenerateLists[i])
  BY <1>2 DEF UpdateInv, EarlierInv
<1>5. \A d \in Children : d # c => store'[d] = store[d]
  BY DEF TypeInv, TypeOK
<1>6. \A d \in Items(GenerateLists[i], cur, val.spec) : d \in Children /\ d # c
  BY <1>1, <1>3, ItemsType
<1> QED
  BY <1>3, <1>4, <1>5, <1>6 DEF Refreshed, Exists

LEMMA NextUpdate ==
    ASSUME TypeInv, TypeInv', UpdateInv, [Next]_vars
    PROVE  UpdateInv'
<1>1. SUFFICES ASSUME fresh' PROVE UpdateInv'
  BY DEF UpdateInv
<1>2. fresh /\ rpc # "idle" => cur \in Forks /\ val # Gone /\ val \in Values /\ val.spec \in Specs
  BY DEF TypeInv, TypeOK, Values
<1>3. fresh /\ rpc = "sync" => GenerateLists[kind] \in Kinds /\ kind \in 1..3
  BY Lists DEF TypeInv, KindInv, Kinds
<1>4. CASE Begins
  BY <1>4, Lists DEF Begins, UpdateInv, EarlierInv
<1>5. CASE Aside
  BY <1>5 DEF Aside, UpdateInv, EarlierInv, Refreshed, HalfWay, Wanted, Exists, locals
<1>6. ASSUME fresh, List, UNCHANGED fork
      PROVE  UpdateInv'
  BY <1>6 DEF List, UpdateInv, EarlierInv, Refreshed, HalfWay, Wanted, Exists, objects
<1>7. ASSUME fresh, ListDone, UNCHANGED fork
      PROVE  UpdateInv'
  <2>1. Refreshed(GenerateLists[kind])
    BY <1>7 DEF ListDone, UpdateInv, HalfWay, Refreshed, Wanted
  <2>2. \A i \in DOMAIN GenerateLists : i < kind + 1 => Refreshed(GenerateLists[i])
    <3>1. \A i \in 1..3 : i < kind + 1 => i < kind \/ i = kind
      BY <1>3, <1>7 DEF ListDone
    <3> QED
      BY <1>7, <2>1, <3>1, Lists DEF UpdateInv, EarlierInv
  <2>3. EarlierInv'
    BY <1>7, <2>2 DEF ListDone, EarlierInv, Refreshed, Exists, objects
  <2> QED
    BY <1>7, <2>3 DEF ListDone, UpdateInv
<1>8. ASSUME NEW c \in Children, Deleted(c)
      PROVE  UpdateInv'
  <2>1. c[1] = GenerateLists[kind] /\ c \notin Wanted
    BY <1>8 DEF Deleted, UpdateInv, HalfWay
  <2>2. EarlierInv'
    BY <1>8, <2>1, WriteKeepsEarlier DEF Deleted
  <2>3. HalfWay'
    <3>1. store'[c] = Gone /\ \A d \in Children : d # c => store'[d] = store[d]
      BY <1>8 DEF Deleted, TypeInv, TypeOK
    <3>2. Wanted \subseteq Children /\ Wanted' = Wanted
      BY <1>2, <1>3, <1>8, ItemsType DEF Deleted, Wanted
    <3>3. HalfWay
      BY <1>8 DEF Deleted, UpdateInv
    <3> QED
      BY <1>8, <2>1, <3>1, <3>2, <3>3 DEF Deleted, HalfWay, Exists
  <2> QED
    BY <1>8, <2>2, <2>3 DEF Deleted, UpdateInv
<1>9. ASSUME NEW c \in Children, Synced(c)
      PROVE  UpdateInv'
  <2>1. c \in Wanted /\ Wanted \subseteq Children /\ Wanted' = Wanted
    BY <1>2, <1>3, <1>9, ItemsType DEF Synced, UpdateInv, HalfWay, Wanted
  <2>2. c[1] = GenerateLists[kind] /\ c[2] = cur
    BY <1>2, <1>3, <1>9, <2>1, ItemsType DEF Synced, Wanted
  <2>3. EarlierInv'
    BY <1>9, <2>2, WriteKeepsEarlier DEF Synced
  <2>4. HalfWay'
    <3>1. store'[c] = Built(c, val) /\ \A d \in Children : d # c => store'[d] = store[d]
      BY <1>9 DEF Synced, TypeInv, TypeOK
    <3>2. HalfWay
      BY <1>9 DEF Synced, UpdateInv
    <3>3. \A d \in Wanted \ todo' : store'[d] = Built(d, val)
      BY <1>9, <2>1, <3>1, <3>2 DEF Synced, HalfWay
    <3> QED
      BY <1>9, <2>1, <3>1, <3>2, <3>3 DEF Synced, HalfWay, Exists
  <2> QED
    BY <1>9, <2>3, <2>4 DEF Synced, UpdateInv
<1> QED
  BY <1>1, <1>4, <1>5, <1>6, <1>7, <1>8, <1>9, FreshSteps

LEMMA UpdateInvariant == Spec => [](TypeInv /\ UpdateInv)
<1>1. Init => TypeInv /\ UpdateInv
  BY InitType DEF Init, UpdateInv
<1>2. TypeInv /\ UpdateInv /\ [Next]_vars => (TypeInv /\ UpdateInv)'
  BY NextType, NextUpdate
<1> QED
  BY <1>1, <1>2, PTL DEF Spec

\* Once Deployments and Services are copied, each copied Service selects the
\* Pods of exactly the copies that it should.
LEMMA CopiesBack ==
    ASSUME AllSelect, TypeInv, cur \in Forks, val \in Values, val # Gone,
           Refreshed("DeploymentCopy"), Refreshed("Service"), NEW s \in val.spec.services
    PROVE  Backed(cur, s, val)
<1> DEFINE c == <<"Service", cur, s>>
           spec == val.spec
<1>1. spec \in Specs /\ s \in Services /\ spec.deployments \subseteq Deployments
  BY DEF Values, Specs
<1>2. c \in Children /\ c \in Items("Service", cur, spec)
  BY <1>1 DEF Children, Items
<1>3. store[c] = Built(c, val) /\ store[c] # Gone
  BY <1>2, BuiltType DEF Refreshed
<1>4. store[c].owner = val.uid /\ store[c].id = spec.id /\ store[c].from = {s}
  BY <1>3 DEF Built
<1>5. ASSUME NEW x \in Selects(c), x[2] = cur
      PROVE  x[3] \in spec.deployments \cap RoutedBy(s)
  <2>1. x \in Children /\ x[1] = "DeploymentCopy" /\ Exists(x) /\ s \in store[x].from
    BY <1>4 DEF Selects
  <2>2. x \in Items("DeploymentCopy", cur, spec) /\ store[x] = Built(x, val)
    BY <1>5, <2>1 DEF Refreshed
  <2>3. x[3] \in spec.deployments /\ s \in ServicesOf(x[3], spec)
    BY <2>1, <2>2 DEF Items, Built
  <2> QED
    BY <1>1, <2>3 DEF ServicesOf, Routable, RoutedBy, AllSelect
<1>6. ASSUME NEW d \in spec.deployments \cap RoutedBy(s)
      PROVE  \E x \in Selects(c) : x[2] = cur /\ x[3] = d
  <2> DEFINE x == <<"DeploymentCopy", cur, d>>
  <2>1. s \in ServicesOf(d, spec) /\ d \in Deployments
    BY <1>1 DEF ServicesOf, Routable, RoutedBy
  <2>2. x \in Children /\ x \in Items("DeploymentCopy", cur, spec)
    BY <1>1, <2>1 DEF Children, Items
  <2>3. store[x] = Built(x, val) /\ store[x] # Gone
    BY <2>2, BuiltType DEF Refreshed
  <2>4. store[x].id = spec.id /\ s \in store[x].from
    BY <2>1, <2>3 DEF Built
  <2>5. x \in Selects(c)
    BY <1>4, <2>2, <2>3, <2>4 DEF Selects, Exists
  <2> QED
    BY <2>5
<1>7. {d[3] : d \in {x \in Selects(c) : x[2] = cur}} = spec.deployments \cap RoutedBy(s)
  BY <1>5, <1>6
<1> QED
  BY <1>3, <1>4, <1>7 DEF Backed, Exists

\* An update of a Fork that had the stored inputs and was not disturbed leaves
\* its whole application in place across the three lists, provided Services
\* have selectors (Build, and List to ListDone for each kind).
THEOREM UpdateInstalls ==
    ASSUME AllSelect
    PROVE  Spec => []InPlaceWhenDone
<1>1. TypeInv /\ UpdateInv => InPlaceWhenDone
  <2> SUFFICES ASSUME TypeInv, UpdateInv, rpc = "list", kind = 4, fresh
               PROVE  InPlace(cur, val)
    BY Lists DEF InPlaceWhenDone
  <2>1. cur \in Forks /\ val \in Values /\ val # Gone /\ val.spec \in Specs
    BY DEF TypeInv, TypeOK, Values
  <2>2. Refreshed("DeploymentCopy") /\ Refreshed("Service") /\ Refreshed("VSConfig")
    <3>1. \A i \in 1..3 : i < kind
      OBVIOUS
    <3> QED
      BY <3>1, Lists DEF UpdateInv, EarlierInv
  <2>3. ASSUME NEW s \in val.spec.services
        PROVE  Trapped(cur, s, val) /\ Backed(cur, s, val)
    <3> DEFINE c == <<"VSConfig", cur, s>>
    <3>1. c \in Children /\ c \in Items("VSConfig", cur, val.spec)
      BY <2>1 DEF Children, Items, Specs
    <3>2. store[c] = Built(c, val) /\ store[c] # Gone
      BY <2>1, <2>2, <3>1, BuiltType DEF Refreshed
    <3>3. Trapped(cur, s, val)
      BY <3>2 DEF Trapped, Built, Exists
    <3> QED
      BY <2>1, <2>2, <3>3, CopiesBack
  <2>4. ASSUME NEW c \in Children, c[2] = cur, Exists(c)
        PROVE  c \in Items(c[1], cur, val.spec)
    BY <2>2, <2>4 DEF Refreshed, Children
  <2>5. ASSUME NEW c \in Children, c[2] = cur, Exists(c)
        PROVE  c[3] \in val.spec.services \cup val.spec.deployments
    BY <2>4, <2>5 DEF Items
  <2>6. ASSUME NEW d \in Deployments, Exists(<<"DeploymentCopy", cur, d>>)
        PROVE  \E s \in val.spec.services : d \in RoutedBy(s)
    <3>1. <<"DeploymentCopy", cur, d>> \in Items("DeploymentCopy", cur, val.spec)
      BY <2>1, <2>4, <2>6 DEF Children
    <3>2. PICK s \in val.spec.services : Routable(d, s)
      BY <3>1 DEF Items, ServicesOf
    <3> QED
      BY <2>1, <3>2 DEF Routable, RoutedBy, AllSelect, Specs
  <2> QED
    BY <2>3, <2>5, <2>6 DEF InPlace
<1> QED
  BY <1>1, UpdateInvariant, PTL

\* Such an update writes a VSConfig, which sends a Fork's requests to the copy of
\* a Service, only when the copy and the DeploymentCopies behind it are stored
\* (the order of GenerateLists, SyncChild).
THEOREM BacksBeforeTrapping ==
    ASSUME AllSelect
    PROVE  Spec => BackedBeforeTrapped
<1>1. ASSUME TypeInv, UpdateInv, NEW s \in Services, fresh, rpc = "sync", <<"VSConfig", cur, s>> \in todo
      PROVE  Backed(cur, s, val)
  <2>1. cur \in Forks /\ val \in Values /\ val # Gone /\ val.spec \in Specs
    BY <1>1 DEF TypeInv, TypeOK, Values
  <2>2. kind \in 1..3 /\ GenerateLists[kind] \in Kinds
    BY <1>1, Lists DEF TypeInv, KindInv, Kinds
  <2>3. <<"VSConfig", cur, s>> \in Items(GenerateLists[kind], cur, val.spec)
    BY <1>1 DEF UpdateInv, HalfWay, Wanted
  <2>4. GenerateLists[kind] = "VSConfig" /\ s \in val.spec.services
    BY <2>1, <2>2, <2>3, ItemsType DEF Items
  <2>5. kind = 3
    BY <2>2, <2>4, Lists
  <2>6. Refreshed("DeploymentCopy") /\ Refreshed("Service")
    <3>1. 1 < kind /\ 2 < kind /\ 1 \in 1..3 /\ 2 \in 1..3
      BY <2>5
    <3> QED
      BY <1>1, <3>1, Lists DEF UpdateInv, EarlierInv
  <2> QED
    BY <1>1, <2>1, <2>4, <2>6, CopiesBack
<1>2. TypeInv /\ UpdateInv =>
        [\A s \in Services :
           LET c == <<"VSConfig", cur, s>>
           IN  fresh /\ rpc = "sync" /\ c \in todo /\ c \notin todo' /\ rpc' = "sync"
                 => Backed(cur, s, val)]_vars
  BY <1>1
<1> QED
  BY <1>2, UpdateInvariant, PTL DEF BackedBeforeTrapped
=============================================================================
