--------------------------------- MODULE System --------------------------------
(***************************************************************************)
(* The controller manager that main.go starts: the Fork reconciler's       *)
(* workload half (Microservice) and the VSConfig reconciler                *)
(* (VirtualServices), each with its own worker, queue and caches, in one   *)
(* process.  They share nothing but the API server: the VSConfigs that one *)
(* writes are the inputs of the other, whose routes lead back to the       *)
(* Service copies of the first.  Beside them runs deployment-duplicator,   *)
(* which makes a Deployment of every DeploymentCopy in its own time;       *)
(* nobody waits for it.                                                    *)
(*                                                                         *)
(* Here original Services stay, what a Fork selects changes with the Fork  *)
(* only, and only the controller writes children.  Without the resync of   *)
(* every ten hours, what is served depends on the watches alone.  The      *)
(* components' own modules have the rest, and their histories.             *)
(***************************************************************************)
EXTENDS Microservice

CONSTANTS
    ByName,   \* the VSConfigs, a sequence in the order of their names
    Cut,      \* Service copies whose name is longer than 63 characters
    MaxDisturbances  \* bound: edits, failed requests and restarts together

VARIABLES
    vs, seenConfig, seenVS, lag,       \* VirtualServices and its caches
    vqueue, vrpc, rkey, toUpdate, cs, csUid, routes, stale, vtodo,
    restarts,
    pods,      \* of which DeploymentCopy the ready Pods of each Fork are made
    dropped    \* history: requests of which some Fork took back a wish

vsCaches == <<vs, seenConfig, seenVS, lag>>
vsLocals == <<vqueue, vrpc, rkey, toUpdate, cs, csUid, routes, stale, vtodo>>
microVars == <<fork, seen, objects, queue, rpc, locals, fresh, edits, dropped>>
systemVars == <<microVars, vsCaches, vsLocals, faults, restarts, pods>>

-----------------------------------------------------------------------------
(* The VSConfigs between the two *)

\* Mutant: a VSConfig names the original Service as its destination.
ConfigOfOriginal(c) ==
    IF ~Exists(c) THEN Gone
    ELSE [host |-> c[3], value |-> store[c].id, to |-> c[3]]

\* buildVSConfig: host, header value and destination.
ConfigOf(c) ==
    IF ~Exists(c) THEN Gone
    ELSE [host |-> c[3], value |-> store[c].id, to |-> <<"Service", c[2], c[3]>>]

Config == [i \in DOMAIN ByName |-> ConfigOf(ByName[i])]

V == INSTANCE VirtualServices WITH
    Configs <- DOMAIN ByName,
    Values <- Identifiers,
    Copies <- {"Service"} \X Forks \X Services,
    ConfigSpecs <- [i \in DOMAIN ByName |-> {}],
    MaxUid <- 1,
    config <- Config,
    service <- [s \in Services |-> 1],
    seenService <- [s \in Services |-> 1],
    queue <- vqueue, rpc <- vrpc, todo <- vtodo, fresh <- FALSE

ASSUME SystemAssumption ==
    /\ ByName \in Seq({"VSConfig"} \X Forks \X Services)
    /\ Services \cap ({"Service"} \X Forks \X Services) = {}
    /\ V!NoValue \notin Identifiers \cup Deployments /\ Gone \notin V!Specs \cup V!Objects
    /\ MaxDisturbances \in Nat

-----------------------------------------------------------------------------
\* The Deployments behind s that a Fork selects, or that there is none.
Behind(spec, s) ==
    LET routed == spec.deployments \cap RoutedBy(s)
    IN  IF routed = {} THEN {V!NoValue} ELSE routed

\* The requests a Fork asks to have sent to its copies, and the Deployments it
\* has copied for them.
WishOf(f) ==
    IF fork[f] = Gone THEN {}
    ELSE UNION {{<<f, s, fork[f].spec.id, d>> : d \in Behind(fork[f].spec, s)} : s \in fork[f].spec.services}

Wish == UNION {WishOf(f) : f \in Forks}

Workloads == {"DeploymentCopy"} \X Forks \X Deployments

SystemInit ==
    /\ Init /\ V!Init
    /\ pods = [w \in Workloads |-> Gone] /\ dropped = {}

\* A reconciler's step that touches nothing but its own locals.
MicroLocal == (rpc = "sync" /\ doomed = {} /\ todo = {}) \/ kind \notin DOMAIN GenerateLists
RouteLocal == (vrpc = "write" /\ ~stale /\ ~vtodo) \/ (vrpc = "read" /\ toUpdate = {})

\* Local steps come first here, and the caches of what the reconcilers write
\* are prompt: an update that meets an outdated copy fails, as one does that
\* meets a fault.
Prompt ==
    /\ ~MicroLocal /\ ~RouteLocal
    /\ lag = {} /\ \A c \in Children : view[c] = Current(c)

\* A step of the Fork reconciler, its caches or the users.
Micro(A) ==
    /\ A
    /\ dropped' = dropped \cup {<<w[2], w[3]>> : w \in Wish \ Wish'}
    /\ UNCHANGED <<vsCaches, vsLocals, restarts, fresh, pods>>

\* A step of the VSConfig reconciler or its caches.
Route(A) == UNCHANGED <<microVars, pods>> /\ A

\* Both reconcilers stop and start together.
SystemRestart ==
    /\ faults + restarts < MaxFaults
    /\ restarts' = restarts + 1
    /\ Relist /\ V!Relist
    /\ UNCHANGED <<dropped, fresh, pods>>

\* deployment-duplicator brings about what a DeploymentCopy says, or that it is
\* gone, and the Pods get ready or go.  A rolling update keeps the old ones until
\* the new ones are ready.
Duplicate(w) ==
    /\ pods[w] # store[w]
    /\ pods' = [pods EXCEPT ![w] = store[w]]
    /\ UNCHANGED <<microVars, vsCaches, vsLocals, faults, restarts>>

\* A Fork's event queues it.
SeeFork(f) == SyncFork(f) /\ f \in queue'

\* What goes on by itself.
Micros ==
    \/ UpdateStep
    \/ \E f \in Forks : Build(f) \/ ForkGone(f) \/ SeeFork(f)
    \/ \E c \in Children : Collect(c)

Routes ==
    \/ V!UpdateStep
    \/ \E i \in DOMAIN ByName : V!Reconcile(i) \/ V!SyncConfig(i)

Work ==
    \/ Prompt /\ (Micro(Micros) \/ Route(Routes) \/ \E w \in Workloads : Duplicate(w))
    \/ MicroLocal /\ Micro(UpdateStep)
    \/ RouteLocal /\ Route(V!UpdateStep)
    \/ Micro(\E c \in Children : SyncView(c))
    \/ Route(\E s \in Services : V!SyncSeenVS(s))

\* What users and faults do to it.
Disturbance ==
    /\ Prompt /\ edits + faults + restarts < MaxDisturbances
    /\ \/ Micro(\E f \in Forks : PutFork(f) \/ DeleteFork(f))
       \/ faults + restarts < MaxFaults /\ (Micro(ApiFault) \/ Route(V!ApiFault))
       \/ SystemRestart

SystemNext == Work \/ Disturbance

SystemSpec == SystemInit /\ [][SystemNext]_systemVars

\* The processes do not stop while they have something to do.  Nothing here
\* queues itself for ever, so that is enough, whichever goes first.
FairSystemSpec == SystemSpec /\ WF_systemVars(Work)

-----------------------------------------------------------------------------
(* Properties *)

\* Copies of the Deployments behind a Service that its copy c selects, of whatever
\* Fork, by what is known of them: that they are stored, or that Pods were made
\* of them.
Backers(known, c) ==
    {w \in Workloads : /\ known[w] # Gone /\ w[3] \in RoutedBy(c[3])
                       /\ known[w].id = store[c].id /\ store[c].from \subseteq known[w].from}

\* Routes can use the copied Service's name, and it has identifier i.
Reachable(c, i) == c \notin Cut /\ Exists(c) /\ store[c].id = i

\* The original Service s has no Pods of copies behind it.
Apart(s) ==
    Selector[s] # {} => \A w \in Workloads : pods[w] # Gone => ~(Selector[s] \subseteq CopyLabels(w[3]))

\* What a request to s with identifier i, or none, meets.
Serves(s, i) ==
    LET to == V!Reaches(s, i)
    IN  IF to = s THEN (IF Apart(s) THEN "original" ELSE "astray")
        ELSE IF ~Reachable(to, i) THEN "astray"
        ELSE IF Backers(pods, to) # {} THEN "fork"
        ELSE IF Backers(store, to) # {} THEN "starting" ELSE "astray"

\* Services whose copies have names of their own and whose selectors no copy's
\* Pods satisfy.
Separable ==
    {s \in Services :
        /\ \A f \in Forks : <<"Service", f, s>> \notin Cut
        /\ Selector[s] # {} => \A d \in Deployments : ~(Selector[s] \subseteq CopyLabels(d))}

T == INSTANCE Traffic WITH
    None <- V!NoValue, wish <- Wish,
    serves <- [r \in Services \X (Identifiers \cup {V!NoValue}) |-> Serves(r[1], r[2])]

\* The two reconcilers together keep the promise of Traffic: a request that a
\* Fork asks for is not sent away from the original before a copied Service and
\* DeploymentCopies are there for it, and keeps the Fork's Pods once it met
\* them; and every other request goes on meeting the original, whatever is
\* created, relabelled, deleted, retried or restarted.
ImplementsTraffic == T!Spec

\* Once users and faults rest, every request a Fork asks for meets Pods of its
\* copies, across both reconcilers, deployment-duplicator and a restart; and
\* every other request the original, unless a VSConfig may have gone while the
\* controller was down.
EventuallyServed ==
    <>[](\A r \in T!Requests :
            r[1] \in Separable /\ ~T!Bare(Wish, r) =>
                IF T!Wished(Wish, r) THEN Serves(r[1], r[2]) = "fork"
                ELSE restarts = 0 => Serves(r[1], r[2]) = "original")

Everywhere == INSTANCE Traffic WITH
    None <- V!NoValue, wish <- Wish, Separable <- Services,
    serves <- [r \in Services \X (Identifiers \cup {V!NoValue}) |-> Serves(r[1], r[2])]

\* The promise for all Services: names that are cut and templates that override
\* no label of a selector break it.
ImplementsTrafficEverywhere == Everywhere!Spec

\* A request sent to a Fork's copies is not left without any while the Fork goes
\* on asking for it, whichever Deployments it selects instead.
AskedStaysServed ==
    [][\A f \in Forks, s \in Services, i \in Identifiers :
          /\ \E d \in Deployments : <<f, s, i, d>> \in Wish
          /\ \E d \in Deployments : <<f, s, i, d>> \in Wish'
          /\ Serves(s, i) \in {"starting", "fork"}
          => Serves(s, i)' # "astray"]_systemVars

\* A request is sent to a Fork's copies only when Pods are ready there.
SentToReadyPods ==
    \A s \in Services, i \in Identifiers : Serves(s, i) # "starting"
=============================================================================
