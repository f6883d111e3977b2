----------------------------- MODULE VirtualServices ----------------------------
(***************************************************************************)
(* The VSConfig reconciler (controllers/vsconfig_controller.go), the       *)
(* VirtualService updater (domain/updater/virtualservice.go) and what it   *)
(* builds (domain/lister/virtualservice.go), in one namespace.  For every  *)
(* Service that VSConfigs name as their host there is to be one            *)
(* VirtualService that sends each header value some VSConfig gives to the  *)
(* copy it names, and every other request to the Service itself.           *)
(*                                                                         *)
(* A VSConfig that exists updates the Service it names; one that is gone,  *)
(* every Service of the namespace in turn, up to the first error.          *)
(* VSConfigs, Services and VirtualServices are read from caches that lag   *)
(* separately, but the list of what a Service owns is live.                *)
(*                                                                         *)
(* VirtualServices are created under their Service's name, so one name is  *)
(* kept for each Service; children of other names and identities are the   *)
(* subject of module Refresh.  The cached reads of Service and VSConfigs   *)
(* are one step: the time between them is more lag of the later one.       *)
(***************************************************************************)
EXTENDS Naturals, Sequences, FiniteSets

CONSTANTS
    Configs,     \* VSConfigs, each the rank of its name
    Services,    \* original Services
    Values,      \* header values that forks use
    Copies,      \* Services of forks, destinations of routes
    ConfigSpecs, \* [Configs -> set of specs its user may give it]
    Gone,        \* no such object
    MaxUid,      \* bound: incarnations of a Service
    MaxEdits,    \* bound: edits by users
    MaxFaults    \* bound: failed requests and restarts

\* The header value of a VSConfig that does not give one.
NoValue == ""

Specs == [host : Services, value : Values \cup {NoValue}, to : Copies]

\* The HTTP routes of a VirtualService, and VirtualServices by the incarnation
\* that owns them, 0 when the controller did not create them.
Routes == Seq([value : Values \cup {NoValue}, to : Services \cup Copies])
Objects == [owner : 0..MaxUid, routes : Routes]

ASSUME ConstantsAssumption ==
    /\ Configs \subseteq Nat /\ IsFiniteSet(Configs)
    /\ Services \cap Copies = {} /\ NoValue \notin Values
    /\ ConfigSpecs \in [Configs -> SUBSET Specs]
    /\ Gone \notin Specs \cup Services \cup Configs /\ Gone \notin Objects
    /\ MaxUid \in Nat \ {0} /\ MaxEdits \in Nat /\ MaxFaults \in Nat

VARIABLES
    config,    \* the API server's VSConfigs: spec or Gone
    service,   \* incarnation of each Service, 0 when it does not exist
    vs,        \* the API server's VirtualServices: owner's incarnation and routes
    seenConfig, seenService, seenVS,  \* the informer caches
    lag,       \* VirtualServices whose cached copy is not the stored version
    queue,     \* the work queue, of VSConfigs
    rpc,       \* the reconciler: "idle", "read", "list" or "write"
    rkey,      \* the VSConfig it was called for, or Gone
    toUpdate,  \* Services still to be updated
    cs, csUid, \* the Service being updated, as read, or Gone
    routes,    \* buildHTTPRoutes
    stale,     \* the listed VirtualService is to be deleted
    todo,      \* the VirtualService is to be created or updated
    fresh,     \* history: the update read, and still has, the stored inputs
    edits, faults, restarts

cluster == <<config, service>>
caches == <<seenConfig, seenService, seenVS, lag>>
locals == <<toUpdate, cs, csUid, routes, stale, todo>>
budget == <<edits, faults, restarts>>
vars == <<cluster, vs, caches, queue, rpc, rkey, locals, fresh, budget>>

Exists(s) == vs[s] # Gone

-----------------------------------------------------------------------------
(* What a Service's VirtualService is *)

\* A route without a value matches every request.
Default(s) == [value |-> NoValue, to |-> s]

\* VSConfigs ordered by name: each after those of smaller rank.
InOrder(S) ==
    [i \in 1..Cardinality(S) |-> CHOOSE x \in S : Cardinality({y \in S : y < x}) = i - 1]

\* Mutant: the VSConfig's host is not compared with the Service.
RoutingAnyHost(s, c) ==
    InOrder({x \in Configs : c[x] # Gone /\ c[x].value # NoValue})

\* The VSConfigs of c that make a route of s, ordered by name.
Routing(s, c) ==
    InOrder({x \in Configs : c[x] # Gone /\ c[x].host = s /\ c[x].value # NoValue})

\* Mutant: the default route comes first.
DefaultFirst(s, c) ==
    <<Default(s)>> \o [i \in DOMAIN Routing(s, c) |->
                          [value |-> c[Routing(s, c)[i]].value, to |-> c[Routing(s, c)[i]].to]]

\* buildHTTPRoutes: a route for each of them, and the default route last.
HTTPRoutes(s, c) ==
    [i \in DOMAIN Routing(s, c) |->
        [value |-> c[Routing(s, c)[i]].value, to |-> c[Routing(s, c)[i]].to]]
    \o <<Default(s)>>

\* A VirtualService is wanted when there is more than the default route.
Wanted(r) == Len(r) > 1

-----------------------------------------------------------------------------
\* The controller starts beside VSConfigs and Services that exist already.
Init ==
    /\ config \in [Configs -> Specs \cup {Gone}]
    /\ \A c \in Configs : config[c] \in ConfigSpecs[c] \cup {Gone}
    /\ service \in [Services -> {0, 1}]
    /\ vs = [s \in Services |-> Gone]
    /\ seenConfig = config /\ seenService = service /\ seenVS = vs /\ lag = {}
    /\ queue = {c \in Configs : config[c] # Gone}
    /\ rpc = "idle" /\ rkey = Gone
    /\ toUpdate = {} /\ cs = Gone /\ csUid = 0
    /\ routes = <<>> /\ stale = FALSE /\ todo = FALSE /\ fresh = FALSE
    /\ edits = 0 /\ faults = 0 /\ restarts = 0

(* Reconcile *)

\* Mutant: a VSConfig that is gone is dropped.
ReconcileDropsGone(c) ==
    /\ rpc = "idle" /\ c \in queue
    /\ queue' = queue \ {c}
    /\ rpc' = "read" /\ rkey' = c
    /\ toUpdate' = {s \in Services : seenConfig[c] # Gone /\ s = seenConfig[c].host}
    /\ UNCHANGED <<cluster, vs, caches, cs, csUid, routes, stale, todo, budget>>

\* The Service a VSConfig names is updated; for a VSConfig that is gone every
\* Service the cache has.
Reconcile(c) ==
    /\ rpc = "idle" /\ c \in queue
    /\ queue' = queue \ {c}
    /\ rpc' = "read" /\ rkey' = c
    /\ toUpdate' = IF seenConfig[c] # Gone THEN {seenConfig[c].host}
                   ELSE {s \in Services : seenService[s] # 0}
    /\ UNCHANGED <<cluster, vs, caches, cs, csUid, routes, stale, todo, budget>>

DropService ==
    /\ cs' = Gone /\ csUid' = 0 /\ routes' = <<>>
    /\ stale' = FALSE /\ todo' = FALSE

Leave == rpc' = "idle" /\ rkey' = Gone /\ toUpdate' = {} /\ DropService

\* Reconcile returns an error and the work queue retries the VSConfig.
Fail == Leave /\ queue' = queue \cup {rkey}

(* Update of one Service *)

\* Get the Service, list the VSConfigs and build the routes.
ReadInputs(s) ==
    /\ rpc = "read" /\ s \in toUpdate /\ seenService[s] # 0
    /\ toUpdate' = toUpdate \ {s}
    /\ cs' = s /\ csUid' = seenService[s]
    /\ routes' = HTTPRoutes(s, seenConfig)
    /\ rpc' = "list"
    /\ UNCHANGED <<cluster, vs, caches, queue, rkey, stale, todo, budget>>

\* The Service is not in the cache.
ServiceMissing(s) ==
    /\ rpc = "read" /\ s \in toUpdate /\ seenService[s] = 0
    /\ Fail
    /\ UNCHANGED <<cluster, vs, caches, budget>>

UpdateDone ==
    /\ rpc = "read" /\ toUpdate = {}
    /\ Leave
    /\ UNCHANGED <<cluster, vs, caches, queue, budget>>

\* handleExisting: the live list of what the Service owns, by its name.
ListOwned ==
    /\ rpc = "list"
    /\ stale' = (Exists(cs) /\ vs[cs].owner # 0 /\ ~Wanted(routes))
    /\ todo' = Wanted(routes)
    /\ rpc' = "write"
    /\ UNCHANGED <<cluster, vs, caches, queue, rkey, toUpdate, cs, csUid, routes, budget>>

\* Mutant: a cached copy is taken for current although it was overwritten.
StoreVSUnlagged(s, obj) ==
    /\ vs' = [vs EXCEPT ![s] = obj]
    /\ lag' = lag

StoreVS(s, obj) ==
    /\ vs' = [vs EXCEPT ![s] = obj]
    /\ lag' = IF obj = vs[s] THEN lag ELSE lag \cup {s}

DeleteStale ==
    /\ rpc = "write" /\ stale
    /\ IF Exists(cs)
         THEN /\ StoreVS(cs, Gone) /\ stale' = FALSE
              /\ UNCHANGED <<queue, rpc, rkey, toUpdate, cs, csUid, routes, todo>>
         ELSE Fail /\ UNCHANGED <<vs, lag>>      \* NotFound
    /\ UNCHANGED <<cluster, seenConfig, seenService, seenVS, budget>>

\* CreateOrUpdate: Create when the cache has no VirtualService, Update of the
\* cached version when it has one.
SyncVS ==
    /\ rpc = "write" /\ todo
    /\ IF cs \notin lag \/ (seenVS[cs] = Gone /\ ~Exists(cs))
         THEN /\ StoreVS(cs, [owner |-> csUid, routes |-> routes]) /\ todo' = FALSE
              /\ UNCHANGED <<queue, rpc, rkey, toUpdate, cs, csUid, routes, stale>>
         ELSE Fail /\ UNCHANGED <<vs, lag>>      \* AlreadyExists, Conflict, NotFound
    /\ UNCHANGED <<cluster, seenConfig, seenService, seenVS, budget>>

ServiceDone ==
    /\ rpc = "write" /\ ~stale /\ ~todo
    /\ rpc' = "read" /\ DropService
    /\ UNCHANGED <<cluster, vs, caches, queue, rkey, toUpdate, budget>>

ApiFault ==
    /\ rpc # "idle" /\ faults + restarts < MaxFaults
    /\ faults' = faults + 1
    /\ Fail
    /\ UNCHANGED <<cluster, vs, caches, edits, restarts>>

UpdateStep ==
    \/ \E s \in Services : ReadInputs(s) \/ ServiceMissing(s)
    \/ ListOwned \/ DeleteStale \/ SyncVS \/ ServiceDone \/ UpdateDone

(* The cluster *)

SyncConfig(c) ==
    /\ seenConfig[c] # config[c]
    /\ seenConfig' = [seenConfig EXCEPT ![c] = config[c]]
    /\ queue' = queue \cup {c}
    /\ UNCHANGED <<cluster, vs, seenService, seenVS, lag, rpc, rkey, locals, budget>>

\* Nothing is queued when a Service changes.
SyncService(s) ==
    /\ seenService[s] # service[s]
    /\ seenService' = [seenService EXCEPT ![s] = service[s]]
    /\ UNCHANGED <<cluster, vs, seenConfig, seenVS, lag, queue, rpc, rkey, locals, budget>>

SyncSeenVS(s) ==
    /\ s \in lag
    /\ seenVS' = [seenVS EXCEPT ![s] = vs[s]]
    /\ lag' = lag \ {s}
    /\ UNCHANGED <<cluster, vs, seenConfig, seenService, queue, rpc, rkey, locals, budget>>

Resync(c) ==
    /\ seenConfig[c] # Gone /\ c \notin queue
    /\ queue' = queue \cup {c}
    /\ UNCHANGED <<cluster, vs, caches, rpc, rkey, locals, budget>>

\* The garbage collector reaps the VirtualService of a Service that is gone.
Collect(s) ==
    /\ Exists(s) /\ vs[s].owner \notin {0, service[s]}
    /\ StoreVS(s, Gone)
    /\ UNCHANGED <<cluster, seenConfig, seenService, seenVS, queue, rpc, rkey, locals, budget>>

Edit == edits < MaxEdits /\ edits' = edits + 1

UserConfig(c) ==
    /\ Edit
    /\ \E x \in (ConfigSpecs[c] \cup {Gone}) \ {config[c]} : config' = [config EXCEPT ![c] = x]
    /\ UNCHANGED <<service, vs, caches, queue, rpc, rkey, locals, faults, restarts>>

\* A Service is deleted, or created, under an incarnation no trace of it has.
UserService(s) ==
    /\ Edit
    /\ \E u \in 0..MaxUid :
         /\ service[s] # 0 => u = 0
         /\ service[s] = 0 => u > seenService[s] /\ (cs = s => u > csUid)
                              /\ (Exists(s) => u > vs[s].owner)
         /\ service' = [service EXCEPT ![s] = u]
    /\ UNCHANGED <<config, vs, caches, queue, rpc, rkey, locals, faults, restarts>>

\* Someone deletes the VirtualService or puts one of their own in its place.
UserVS(s) ==
    /\ Edit
    /\ \E x \in {Gone, [owner |-> 0, routes |-> <<>>]} \ {vs[s]} : StoreVS(s, x)
    /\ UNCHANGED <<cluster, seenConfig, seenService, seenVS, queue, rpc, rkey, locals, faults, restarts>>

\* The controller stops and starts: it lists the cluster anew and reconciles
\* every VSConfig that exists.  Of one that went meanwhile it hears nothing.
Relist ==
    /\ seenConfig' = config /\ seenService' = service /\ seenVS' = vs /\ lag' = {}
    /\ queue' = {c \in Configs : config[c] # Gone}
    /\ Leave
    /\ UNCHANGED <<cluster, vs, edits, faults>>

Restart == faults + restarts < MaxFaults /\ restarts' = restarts + 1 /\ Relist

Environment ==
    \/ \E c \in Configs : UserConfig(c)
    \/ \E s \in Services : UserService(s) \/ UserVS(s)
    \/ ApiFault \/ Restart

Step ==
    \/ UpdateStep \/ Environment
    \/ \E c \in Configs : Reconcile(c) \/ SyncConfig(c) \/ Resync(c)
    \/ \E s \in Services : SyncService(s) \/ SyncSeenVS(s) \/ Collect(s)

\* The update of a Service is fresh while what it read is what is stored and
\* nobody else writes.
Watch ==
    fresh' = (/\ rpc' \in {"list", "write"}
              /\ IF rpc = "read" THEN seenConfig = config /\ csUid' = service[cs']
                 ELSE fresh /\ cluster' = cluster /\ (vs' = vs \/ <<stale, todo>>' # <<stale, todo>>))

Watched(A) == A /\ Watch

Next == Watched(Step)

Spec == Init /\ [][Next]_vars

\* The reconciler runs, the queue is first in, first out, caches catch up,
\* garbage is collected and the periodic resync queues every VSConfig again.
Fairness ==
    /\ WF_vars(Watched(UpdateStep))
    /\ \A c \in Configs :
          /\ SF_vars(Watched(Reconcile(c)))
          /\ WF_vars(Watched(SyncConfig(c))) /\ WF_vars(Watched(Resync(c)))
    /\ \A s \in Services :
          /\ WF_vars(Watched(SyncService(s))) /\ WF_vars(Watched(SyncSeenVS(s)))
          /\ WF_vars(Watched(Collect(s)))

FairSpec == Spec /\ Fairness

-----------------------------------------------------------------------------
(* Properties *)

\* Every variable has its type, and a cached VirtualService differs from the
\* stored one only where the cache lags.
TypeOK ==
    /\ config \in [Configs -> Specs \cup {Gone}] /\ seenConfig \in [Configs -> Specs \cup {Gone}]
    /\ service \in [Services -> 0..MaxUid] /\ seenService \in [Services -> 0..MaxUid]
    /\ vs \in [Services -> Objects \cup {Gone}] /\ seenVS \in [Services -> Objects \cup {Gone}]
    /\ lag \subseteq Services /\ \A s \in Services \ lag : seenVS[s] = vs[s]
    /\ queue \subseteq Configs /\ rpc \in {"idle", "read", "list", "write"}
    /\ rkey \in Configs \cup {Gone} /\ (rpc # "idle" => rkey # Gone)
    /\ toUpdate \subseteq Services /\ cs \in Services \cup {Gone} /\ csUid \in 0..MaxUid
    /\ routes \in Routes /\ stale \in BOOLEAN /\ todo \in BOOLEAN /\ fresh \in BOOLEAN
    /\ edits \in 0..MaxEdits /\ faults \in 0..MaxFaults /\ restarts \in 0..MaxFaults

\* Where a request to s with header value v (NoValue for none) goes: by the first
\* route that matches, and to the Service itself when there is none.
Reaches(s, v) ==
    LET matching == {i \in DOMAIN vs[s].routes : vs[s].routes[i].value \in {NoValue, v}}
    IN  IF ~Exists(s) \/ matching = {} THEN s
        ELSE vs[s].routes[CHOOSE i \in matching : \A j \in matching : i <= j].to

\* Where the VSConfigs mean it to go: to the copy of the first VSConfig by
\* name that traps v at s, and else to the original Service.
Meant(s, v) ==
    LET trapping == {c \in Configs : config[c] # Gone /\ config[c].host = s /\ config[c].value = v}
    IN  IF v = NoValue \/ trapping = {} THEN s
        ELSE config[CHOOSE c \in trapping : \A d \in trapping : c <= d].to

Routed(s) == \A v \in Values \cup {NoValue} : Reaches(s, v) = Meant(s, v)

\* An update that had the stored inputs, and was not disturbed, leaves every
\* request to its Service going where the VSConfigs mean it to go, whatever
\* earlier updates left behind, and under the Service's own incarnation.
RoutedWhenDone ==
    rpc = "write" /\ ~stale /\ ~todo /\ fresh =>
        Routed(cs) /\ (Wanted(routes) => vs[cs].owner = service[cs])

Named(s) == \E c \in Configs : config[c] # Gone /\ config[c].host = s

\* Once edits, faults and restarts rest, the requests to every Service that
\* exists and that some VSConfig still names go where they are meant to.
EventuallyRouted == <>[](\A s \in Services : service[s] # 0 /\ Named(s) => Routed(s))

\* When the last VSConfig is deleted all forks' routes go, also those to
\* Services that a VSConfig named before its host was changed; unless the
\* controller was restarted.
EventuallyUnrouted ==
    <>[](restarts = 0 /\ (\A c \in Configs : config[c] = Gone) =>
            \A s \in Services : service[s] # 0 => Routed(s))

\* "kubefork-controller creates a VirtualService resource corresponding to the
\* target Service resource based on all existing VSConfig resources", also for
\* a Service that no VSConfig names any more.
AlwaysFollows == <>[](\A s \in Services : service[s] # 0 => Routed(s))
=============================================================================
