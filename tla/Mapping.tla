-------------------------------- MODULE Mapping --------------------------------
(***************************************************************************)
(* The gateway half of the Fork reconciler (controllers/fork_controller.go *)
(* and domain/updater/mapping.go): for every upstream host of a            *)
(* ForkManager and every identifier some Fork carries there is to be one   *)
(* Ambassador Mapping, with the options of all forks of that identifier    *)
(* merged; mappings that carry the manager's label and are not among them  *)
(* are deleted.                                                            *)
(*                                                                         *)
(* A Fork that exists updates the mappings of its own manager; a Fork that *)
(* is gone, the mappings of every manager in turn, up to the first error.  *)
(* Forks, managers and mappings are read from caches that lag separately.  *)
(* The inputs of one update are read in one step: nothing else reads those *)
(* caches, so the time between the reads is more lag of the later ones.    *)
(* The cached read of CreateOrUpdate and its write are one step likewise.  *)
(*                                                                         *)
(* Of a mapping's spec the host, the identifier and the merged options are *)
(* kept; the rest is computed from the manager alone.  Managers are not    *)
(* deleted.                                                                *)
(***************************************************************************)
EXTENDS Naturals, FiniteSets

CONSTANTS
    Forks, Managers, Hosts, Identifiers, Upgrades,
    HeaderNames, HeaderValues,
    HeaderKey,   \* [Managers -> HeaderNames]: the header that holds the identifier
    Gone,        \* no such fork, manager or mapping
    NoOwner,     \* no controller reference
    NoLabel,     \* no manager label
    Keys,        \* <<namespace, name>> of mappings
    MapKey,      \* [Managers -> [Hosts -> [Identifiers -> Keys]]]
    Label,       \* [Managers -> label]: the manager's name, without namespace
    ForkSpecs,   \* [Forks -> set of specs its user may give it]
    HostSets,    \* [Managers -> set of upstream sets its admin may give it]
    ManualKeys,  \* mappings users make by hand
    MaxEdits,    \* bound: edits by users
    MaxFaults,   \* bound: failed requests and restarts
    MaxDisturbances  \* bound: edits and faults together

Headers == HeaderNames \X (HeaderValues \cup Identifiers)

Specs == [mgr : Managers, id : Identifiers, headers : SUBSET Headers, ups : SUBSET Upgrades]

Websocket == "websocket"

Mappings == [owner : Managers \cup {NoOwner}, label : {Label[m] : m \in Managers} \cup {NoLabel},
             id : Identifiers \cup {""}, host : Hosts \cup {""},
             headers : SUBSET Headers, ups : SUBSET (Upgrades \cup {Websocket})]

ASSUME ConstantsAssumption ==
    /\ NoOwner \notin Managers
    /\ NoLabel \notin {Label[m] : m \in Managers}
    /\ Gone \notin Specs /\ Gone \notin Mappings /\ \A hs \in SUBSET Hosts : hs # Gone
    /\ HeaderKey \in [Managers -> HeaderNames]
    /\ MapKey \in [Managers -> [Hosts -> [Identifiers -> Keys]]]
    /\ ForkSpecs \in [Forks -> SUBSET Specs]
    /\ HostSets \in [Managers -> SUBSET SUBSET Hosts]
    /\ ManualKeys \subseteq Keys
    /\ IsFiniteSet(Forks)
    /\ \A f \in Forks : \A s \in ForkSpecs[f] : \A a, b \in s.headers : a[1] = b[1] => a = b  \* a map
    /\ MaxEdits \in Nat /\ MaxFaults \in Nat /\ MaxDisturbances \in Nat

VARIABLES
    fork,       \* the API server's forks: spec or Gone
    outdated,   \* forks whose deadline has passed
    manager,    \* the API server's managers: upstream hosts or Gone
    store,      \* the API server's mappings
    seenFork, seenManager, seenMap,  \* the informer caches
    lag,        \* mappings whose cached copy is not the stored version
    queue,      \* the work queue, of forks
    rpc,        \* the reconciler: "idle", "read" or "apply"
    rkey,       \* the fork it was called for
    toUpdate,   \* managers still to be updated
    cm,         \* the manager being updated
    plan,       \* mappings still to be created or updated
    doomed,     \* mappingDeleteCandidate
    fresh,      \* history: the update read, and still has, the stored inputs
    edits, faults

cluster == <<fork, outdated, manager>>
caches == <<seenFork, seenManager, seenMap, lag>>
reconciler == <<rpc, rkey, toUpdate, cm, plan, doomed, fresh>>
budget == <<edits, faults>>
vars == <<cluster, store, caches, queue, reconciler, budget>>

Exists(k) == store[k] # Gone

MayEdit == edits < MaxEdits /\ edits + faults < MaxDisturbances

MayFail == faults < MaxFaults /\ edits + faults < MaxDisturbances

-----------------------------------------------------------------------------
(* What a manager's mappings are *)

\* The forks, of any manager and namespace, that carry id.
Carrying(f, id) == {x \in Forks : f[x] # Gone /\ f[x].id = id}

\* The orders in which the cache may list the forks: their places in it.
Lists == {place \in [Forks -> 1..Cardinality(Forks)] : \A x, y \in Forks : x # y => place[x] # place[y]}

\* Mutant: the headers of the mapping itself are kept out of the forks' reach,
\* and two values of one header are both added.
AddedHeadersAll(m, id, f, place) ==
    {<<HeaderKey[m], id>>} \cup UNION {f[x].headers : x \in Carrying(f, id)}

\* applyOptionsToMapping over the forks of an identifier, in the order of the
\* list: of two values of one header the later stays, and a fork's header
\* takes the place of the one that holds the identifier.
AddedHeaders(m, id, f, place) ==
    LET Gives(x, name) == \E h \in f[x].headers : h[1] = name
        forks == Carrying(f, id)
    IN  {h \in {<<HeaderKey[m], id>>} : \A x \in forks : ~Gives(x, h[1])}
        \cup UNION {{h \in f[x].headers : \A y \in forks : place[y] > place[x] => ~Gives(y, h[1])} :
                       x \in forks}

\* Upgrades are merged inside the loop over the fork's headers.
AllowedUpgrades(id, f) ==
    {Websocket} \cup UNION {f[x].ups : x \in {y \in Carrying(f, id) : f[y].headers # {}}}

\* Mutant: the manager's label is not set.
MappingWithoutLabel(m, h, id, f, place) ==
    [owner |-> m, label |-> NoLabel, id |-> id, host |-> h,
     headers |-> AddedHeaders(m, id, f, place), ups |-> AllowedUpgrades(id, f)]

MappingFor(m, h, id, f, place) ==
    [owner |-> m, label |-> Label[m], id |-> id, host |-> h,
     headers |-> AddedHeaders(m, id, f, place), ups |-> AllowedUpgrades(id, f)]

\* What Update creates or updates, for upstreams hs and forks f.
Planned(m, hs, f, place) ==
    {[key |-> MapKey[m][h][id], obj |-> MappingFor(m, h, id, f, place)] :
        h \in hs, id \in {x \in Identifiers : Carrying(f, x) # {}}}

KeysOf(p) == {e.key : e \in p}

\* Mutant: the label selector is not applied.
AllCached(m) == {k \in Keys : seenMap[k] # Gone}

\* The cached mappings that carry the manager's label, in any namespace.
Labelled(m) == {k \in Keys : seenMap[k] # Gone /\ seenMap[k].label = Label[m]}

\* Mutant: a planned mapping stays a candidate for deletion.
AllCandidates(m, p) == Labelled(m)

\* mappingDeleteCandidate once the planned mappings are taken out.
DeleteCandidates(m, p) == Labelled(m) \ KeysOf(p)

-----------------------------------------------------------------------------
\* The controller starts beside forks and managers that exist already.
Init ==
    /\ fork \in [Forks -> UNION {ForkSpecs[f] : f \in Forks} \cup {Gone}]
    /\ \A f \in Forks : fork[f] \in ForkSpecs[f] \cup {Gone}
    /\ outdated = {}
    /\ manager \in [Managers -> UNION {HostSets[m] : m \in Managers} \cup {Gone}]
    /\ \A m \in Managers : manager[m] \in HostSets[m] \cup {Gone}
    /\ store = [k \in Keys |-> Gone]
    /\ seenFork = fork /\ seenManager = manager /\ seenMap = store
    /\ lag = {}
    /\ queue = {f \in Forks : fork[f] # Gone}
    /\ rpc = "idle" /\ rkey \in Forks /\ cm \in Managers
    /\ toUpdate = {} /\ plan = {} /\ doomed = {} /\ fresh = FALSE
    /\ edits = 0 /\ faults = 0

(* Reconcile *)

Dequeue(f) ==
    /\ rpc = "idle" /\ f \in queue
    /\ queue' = queue \ {f}

\* A fork with time left: its manager's mappings are updated.
ReconcileLive(f) ==
    /\ Dequeue(f)
    /\ seenFork[f] # Gone /\ f \notin outdated
    /\ rpc' = "read" /\ rkey' = f
    /\ toUpdate' = {seenFork[f].mgr}
    /\ UNCHANGED <<cluster, store, caches, cm, plan, doomed, fresh, budget>>

\* A fork that is gone: UpdateAll lists the managers and updates each.
ReconcileGone(f) ==
    /\ Dequeue(f)
    /\ seenFork[f] = Gone
    /\ rpc' = "read" /\ rkey' = f
    /\ toUpdate' = {m \in Managers : seenManager[m] # Gone}
    /\ UNCHANGED <<cluster, store, caches, cm, plan, doomed, fresh, budget>>

\* An outdated fork is deleted and nothing else is done for it now.
ReconcileOutdated(f) ==
    /\ Dequeue(f)
    /\ seenFork[f] # Gone /\ f \in outdated /\ fork[f] # Gone
    /\ fork' = [fork EXCEPT ![f] = Gone]
    /\ outdated' = outdated \ {f}
    /\ UNCHANGED <<manager, store, caches, reconciler, budget>>

Leave ==
    /\ rpc' = "idle"
    /\ toUpdate' = {} /\ plan' = {} /\ doomed' = {} /\ fresh' = FALSE
    /\ UNCHANGED <<rkey, cm>>

\* Reconcile returns an error and the work queue retries the fork; managers
\* not yet reached are not updated.
Fail == Leave /\ queue' = queue \cup {rkey}

(* Update of one manager *)

\* Get the manager, list the forks, list the mappings that carry its label in
\* any namespace; those not planned are to be deleted.
ReadInputs(m) ==
    /\ rpc = "read" /\ m \in toUpdate /\ seenManager[m] # Gone
    /\ cm' = m
    /\ toUpdate' = toUpdate \ {m}
    /\ \E place \in Lists : plan' = Planned(m, seenManager[m], seenFork, place)
    /\ doomed' = DeleteCandidates(m, plan')
    /\ rpc' = "apply"
    /\ fresh' = (lag = {} /\ seenFork = fork /\ seenManager[m] = manager[m])
    /\ UNCHANGED <<cluster, store, caches, queue, rkey, budget>>

\* The fork names a manager the cache does not have.
ManagerMissing(m) ==
    /\ rpc = "read" /\ m \in toUpdate /\ seenManager[m] = Gone
    /\ Fail
    /\ UNCHANGED <<cluster, store, caches, budget>>

UpdateAllDone ==
    /\ rpc = "read" /\ toUpdate = {}
    /\ Leave
    /\ UNCHANGED <<cluster, store, caches, queue, budget>>

\* Mutant: a cached copy is taken for current although it was overwritten.
StoreMappingUnlagged(k, obj) ==
    /\ store' = [store EXCEPT ![k] = obj]
    /\ lag' = lag

StoreMapping(k, obj) ==
    /\ store' = [store EXCEPT ![k] = obj]
    /\ lag' = lag \cup {k}

\* Mutant: the controller reference is overwritten without being checked.
MayControlAny(e) == TRUE

\* Mutant: it refuses one that has a controller already, were it the same.
MayControlFree(e) == seenMap[e.key].owner = NoOwner

\* SetControllerReference refuses a mapping another manager controls.
MayControl(e) == seenMap[e.key].owner \in {NoOwner, cm}

\* CreateOrUpdate of a mapping the cache does not have.
CreateMapping(e) ==
    /\ rpc = "apply" /\ e \in plan /\ seenMap[e.key] = Gone
    /\ IF Exists(e.key)
         THEN Fail /\ UNCHANGED <<store, lag>>      \* AlreadyExists
         ELSE /\ StoreMapping(e.key, e.obj)
              /\ plan' = plan \ {e}
              /\ UNCHANGED <<queue, rpc, rkey, toUpdate, cm, doomed, fresh>>
    /\ UNCHANGED <<cluster, seenFork, seenManager, seenMap, budget>>

\* CreateOrUpdate of a mapping the cache has: nothing is sent when it is as
\* it should be, and an Update of an outdated version fails.
UpdateMapping(e) ==
    /\ rpc = "apply" /\ e \in plan /\ seenMap[e.key] # Gone /\ MayControl(e)
    /\ \/ /\ seenMap[e.key] = e.obj
          /\ plan' = plan \ {e}
          /\ UNCHANGED <<store, lag, queue, rpc, rkey, toUpdate, cm, doomed, fresh>>
       \/ /\ seenMap[e.key] # e.obj /\ e.key \notin lag
          /\ StoreMapping(e.key, e.obj)
          /\ plan' = plan \ {e}
          /\ UNCHANGED <<queue, rpc, rkey, toUpdate, cm, doomed, fresh>>
       \/ /\ seenMap[e.key] # e.obj /\ e.key \in lag
          /\ Fail /\ UNCHANGED <<store, lag>>
    /\ UNCHANGED <<cluster, seenFork, seenManager, seenMap, budget>>

\* AlreadyOwnedError.
MappingTaken(e) ==
    /\ rpc = "apply" /\ e \in plan /\ seenMap[e.key] # Gone /\ ~MayControl(e)
    /\ Fail
    /\ UNCHANGED <<cluster, store, caches, budget>>

\* The deletes come last, by name.
DeleteMapping(k) ==
    /\ rpc = "apply" /\ plan = {} /\ k \in doomed
    /\ IF Exists(k)
         THEN /\ StoreMapping(k, Gone)
              /\ doomed' = doomed \ {k}
              /\ UNCHANGED <<queue, rpc, rkey, toUpdate, cm, plan, fresh>>
         ELSE Fail /\ UNCHANGED <<store, lag>>      \* NotFound
    /\ UNCHANGED <<cluster, seenFork, seenManager, seenMap, budget>>

ManagerDone ==
    /\ rpc = "apply" /\ plan = {} /\ doomed = {}
    /\ rpc' = "read" /\ fresh' = FALSE
    /\ UNCHANGED <<cluster, store, caches, queue, rkey, toUpdate, cm, plan, doomed, budget>>

\* A request fails, or the microservice update that follows does.
ApiFault ==
    /\ rpc \in {"read", "apply"} /\ MayFail
    /\ faults' = faults + 1
    /\ Fail
    /\ UNCHANGED <<cluster, store, caches, edits>>

UpdateStep ==
    \/ UpdateAllDone \/ ManagerDone
    \/ \E m \in Managers : ReadInputs(m) \/ ManagerMissing(m)
    \/ \E e \in plan : CreateMapping(e) \/ UpdateMapping(e) \/ MappingTaken(e)
    \/ \E k \in Keys : DeleteMapping(k)

(* The cluster *)

SyncFork(f) ==
    /\ seenFork[f] # fork[f]
    /\ seenFork' = [seenFork EXCEPT ![f] = fork[f]]
    /\ queue' = queue \cup {f}
    /\ UNCHANGED <<cluster, store, seenManager, seenMap, lag, reconciler, budget>>

\* Nothing is queued when a manager changes.
SyncManager(m) ==
    /\ seenManager[m] # manager[m]
    /\ seenManager' = [seenManager EXCEPT ![m] = manager[m]]
    /\ UNCHANGED <<cluster, store, seenFork, seenMap, lag, queue, reconciler, budget>>

SyncMap(k) ==
    /\ k \in lag
    /\ seenMap' = [seenMap EXCEPT ![k] = store[k]]
    /\ lag' = lag \ {k}
    /\ UNCHANGED <<cluster, store, seenFork, seenManager, queue, reconciler, budget>>

Resync(f) ==
    /\ seenFork[f] # Gone /\ f \notin queue
    /\ queue' = queue \cup {f}
    /\ UNCHANGED <<cluster, store, caches, reconciler, budget>>

DeadlinePasses(f) ==
    /\ fork[f] # Gone /\ f \notin outdated /\ MayEdit
    /\ outdated' = outdated \cup {f}
    /\ edits' = edits + 1
    /\ UNCHANGED <<fork, manager, store, caches, queue, reconciler, faults>>

Disturb == edits' = edits + 1 /\ fresh' = FALSE

UserPutFork(f) ==
    /\ MayEdit
    /\ \E s \in (ForkSpecs[f] \cup {Gone}) \ {fork[f]} : fork' = [fork EXCEPT ![f] = s]
    /\ outdated' = outdated \ {f}
    /\ Disturb
    /\ UNCHANGED <<manager, store, caches, queue, rpc, rkey, toUpdate, cm, plan, doomed, faults>>

PutManager(m) ==
    /\ MayEdit
    /\ \E hs \in HostSets[m] \ {manager[m]} : manager' = [manager EXCEPT ![m] = hs]
    /\ Disturb
    /\ UNCHANGED <<fork, outdated, store, caches, queue, rpc, rkey, toUpdate, cm, plan, doomed, faults>>

\* A mapping made by hand, without owner or label.
UserMapping(k) ==
    /\ MayEdit /\ ~Exists(k)
    /\ StoreMapping(k, [owner |-> NoOwner, label |-> NoLabel, id |-> "", host |-> "",
                        headers |-> {}, ups |-> {}])
    /\ Disturb
    /\ UNCHANGED <<cluster, seenFork, seenManager, seenMap, queue, rpc, rkey, toUpdate, cm, plan, doomed, faults>>

UserDeleteMapping(k) ==
    /\ MayEdit /\ Exists(k)
    /\ StoreMapping(k, Gone)
    /\ Disturb
    /\ UNCHANGED <<cluster, seenFork, seenManager, seenMap, queue, rpc, rkey, toUpdate, cm, plan, doomed, faults>>

\* The controller stops and starts: it lists the cluster anew and reconciles
\* every fork that exists.  Of a fork that went meanwhile it hears nothing.
Restart ==
    /\ MayFail
    /\ faults' = faults + 1
    /\ seenFork' = fork /\ seenManager' = manager /\ seenMap' = store /\ lag' = {}
    /\ queue' = {f \in Forks : fork[f] # Gone}
    /\ Leave
    /\ UNCHANGED <<cluster, store, edits>>

Environment ==
    \/ \E f \in Forks : DeadlinePasses(f) \/ UserPutFork(f)
    \/ \E m \in Managers : PutManager(m)
    \/ \E k \in Keys : UserDeleteMapping(k)
    \/ \E k \in ManualKeys : UserMapping(k)
    \/ ApiFault \/ Restart

Next ==
    \/ UpdateStep \/ Environment
    \/ \E f \in Forks : \/ ReconcileLive(f) \/ ReconcileGone(f) \/ ReconcileOutdated(f)
                        \/ SyncFork(f) \/ Resync(f)
    \/ \E m \in Managers : SyncManager(m)
    \/ \E k \in Keys : SyncMap(k)

Spec == Init /\ [][Next]_vars

\* The reconciler runs, the queue is first in, first out, caches catch up,
\* and the periodic resync queues every fork again.
Fairness ==
    /\ WF_vars(UpdateStep)
    /\ \A f \in Forks :
         /\ SF_vars(ReconcileLive(f) \/ ReconcileGone(f) \/ ReconcileOutdated(f))
         /\ WF_vars(Resync(f))
    /\ WF_vars(\E f \in Forks : SyncFork(f))
    /\ WF_vars(\E m \in Managers : SyncManager(m))
    /\ \A k \in Keys : WF_vars(SyncMap(k))

FairSpec == Spec /\ Fairness

-----------------------------------------------------------------------------
(* Properties *)

\* Every variable has its type, and a cached mapping differs from the stored
\* one only where the cache lags.
TypeOK ==
    /\ fork \in [Forks -> Specs \cup {Gone}] /\ seenFork \in [Forks -> Specs \cup {Gone}]
    /\ outdated \subseteq Forks
    /\ manager \in [Managers -> {Gone} \cup SUBSET Hosts]
    /\ seenManager \in [Managers -> {Gone} \cup SUBSET Hosts]
    /\ store \in [Keys -> Mappings \cup {Gone}] /\ seenMap \in [Keys -> Mappings \cup {Gone}]
    /\ lag \subseteq Keys /\ \A k \in Keys \ lag : seenMap[k] = store[k]
    /\ queue \subseteq Forks
    /\ rpc \in {"idle", "read", "apply"} /\ rkey \in Forks /\ cm \in Managers
    /\ fresh \in BOOLEAN /\ toUpdate \subseteq Managers
    /\ plan \subseteq [key : Keys, obj : Mappings] /\ doomed \subseteq Keys
    /\ edits \in 0..MaxEdits /\ faults \in 0..MaxFaults

\* The reconciler changes mapping k in this step.
UpdateChanges(k) == rpc = "apply" /\ rpc' = "apply" /\ <<plan, doomed>>' # <<plan, doomed>>
                    /\ store'[k] # store[k]

\* The update of one manager changes no mapping that another manager controls
\* ("Mark ambassador mapping is managed by which ForkManager").
OthersUntouched ==
    [][\A k \in Keys : UpdateChanges(k) /\ Exists(k) =>
           store[k].owner \in {cm, NoOwner}]_vars

\* An update that had the stored inputs, and was not disturbed, deletes no
\* mapping made by hand: only one that sits at a planned name is taken over.
\* (One that took the place of a labelled mapping since the list was cached
\* is deleted: the deletes go by name.)
ManualKept ==
    [][\A k \in Keys :
           UpdateChanges(k) /\ fresh /\ Exists(k) /\ store[k].label = NoLabel =>
               k \in KeysOf(plan) /\ store'[k] # Gone]_vars

\* The mappings manager m controls are those its upstreams and the forks
\* call for, the options of each identifier's forks merged in some order.
Settled(m) ==
    \E place \in Lists : LET p == Planned(m, manager[m], fork, place) IN
        /\ \A e \in p : store[e.key] = e.obj
        /\ \A k \in Keys : Exists(k) /\ store[k].owner = m => k \in KeysOf(p)

\* The update of a manager that had the stored inputs, and was not disturbed,
\* leaves exactly the right mappings, whatever earlier updates left behind.
SettledWhenDone ==
    rpc = "apply" /\ plan = {} /\ doomed = {} /\ fresh => Settled(cm)

\* "when multiple resources found for an identifer, the options must be
\* merged": such an update leaves mappings that add every header the forks of
\* their identifier give, each once and with the value that one of them gives.
OptionsMerged ==
    rpc = "apply" /\ plan = {} /\ doomed = {} /\ fresh =>
        \A h \in manager[cm], x \in Forks : fork[x] # Gone =>
            LET id == fork[x].id
                added == store[MapKey[cm][h][id]].headers
            IN  \A a \in fork[x].headers :
                  \E b \in UNION {fork[y].headers : y \in Carrying(fork, id)} :
                      {c \in added : c[1] = a[1]} = {b}

\* The controller has something to hear of m by: a fork it keeps resyncing.
Heard(m) == manager[m] # Gone /\ \E f \in Forks : fork[f] # Gone /\ fork[f].mgr = m

\* No mapping m needs is in the hands of another manager.
Uncontested(m) ==
    \A h \in manager[m], id \in Identifiers :
        LET k == MapKey[m][h][id]
        IN  Carrying(fork, id) # {} /\ Exists(k) => store[k].owner \in {m, NoOwner}

\* Once edits and faults rest, restarts included, the mappings of every
\* manager some fork names are those its upstreams and the forks call for,
\* unless another manager got hold of one of their names.
EventuallySettled ==
    <>[](\A m \in Managers : Heard(m) /\ Uncontested(m) => Settled(m))

\* A fork's workload is updated after its manager's mappings, when all went
\* well: that happens again and again for a fork that stays, unless another
\* manager got hold of a mapping's name.
WorkloadReached ==
    \A f \in Forks :
        <>[](fork[f] # Gone /\ Heard(fork[f].mgr) /\ Uncontested(fork[f].mgr))
            => []<>(rpc = "read" /\ rkey = f /\ toUpdate = {})

\* Once users rest the mappings do: they are not rewritten for ever.  They are
\* when forks of an identifier give a header several values, since the cache
\* lists forks in any order.
EventuallyQuiet == <>[][UNCHANGED store]_vars

\* Every request that a mapping passes on carries the identifier it is for.
\* A fork's own headers may take that away.
Identified ==
    \A k \in Keys : Exists(k) /\ store[k].owner # NoOwner =>
        <<HeaderKey[store[k].owner], store[k].id>> \in store[k].headers

\* When the last fork is deleted its mappings go ("ForkReconciler detected
\* deletion event and it should delete the old mapping").
EventuallyCleaned ==
    <>[]((\A f \in Forks : fork[f] = Gone) =>
            \A k \in Keys : Exists(k) => store[k].label = NoLabel)

\* "the options must be merged": a mapping an update leaves in place allows the upgrades of every
\* fork of its identifier.
UpgradesMerged ==
    [][ManagerDone => \A m \in Managers, h \in Hosts, f \in Forks :
        LET k == MapKey[m][h][seenFork[f].id]
        IN  seenFork[f] # Gone /\ m = cm /\ store[k] # Gone /\ seenFork = fork
              => seenFork[f].ups \subseteq store[k].ups]_vars
=============================================================================
