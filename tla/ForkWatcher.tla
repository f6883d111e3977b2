------------------------------ MODULE ForkWatcher ------------------------------
(***************************************************************************)
(* The life and death of forks: controllers/fork_watcher.go, the channel   *)
(* it feeds, and the deadline half of the Fork reconciler.                 *)
(*                                                                         *)
(* Once a minute the watcher lists the cached forks and sends a pointer to *)
(* its loop variable for each one whose deadline is not in the future.  In *)
(* this version of Go the loop has one variable, so every event of a tick  *)
(* points at the same fork struct, which the loop goes on overwriting: an  *)
(* event may be read as the fork it was sent for or as any fork the loop   *)
(* has reached since, and its name and its namespace are read separately.  *)
(* The channel is drained into a bounded buffer, from which a handler      *)
(* fills the work queue; the reconciler reads the fork from the cache,     *)
(* compares the deadline itself, and deletes by name.                      *)
(*                                                                         *)
(* What the reconciler does to a fork that is not outdated (mappings,      *)
(* microservice) changes no fork and is only a step that may fail here.    *)
(***************************************************************************)
EXTENDS Naturals, Sequences, FiniteSets, SequencesExt

CONSTANTS Namespaces, Names,
          ForkKeys,    \* the keys under which users create forks
          Never, Gone,
          MaxTime,     \* bound: the last instant
          Cap,         \* events between the watcher and the handler
          MaxEdits,    \* bound: edits by users
          MaxFaults    \* bound: failed requests and restarts

Keys == Namespaces \X Names

Instants == 0..MaxTime
Deadlines == Instants \cup {Never}

ASSUME ConstantsAssumption ==
    /\ IsFiniteSet(Namespaces) /\ IsFiniteSet(Names)
    /\ ForkKeys \subseteq Keys
    /\ Never \notin Nat /\ Gone \notin Nat /\ Never # Gone
    /\ MaxTime \in Nat /\ MaxEdits \in Nat /\ MaxFaults \in Nat
    /\ Cap \in Nat \ {0}

VARIABLES
    now,       \* the clock
    fork,      \* the API server: the deadline of each fork, Never, or Gone
    carried,   \* history: every deadline a fork of that name had
    writer,    \* history: who wrote the fork last, "user" or "controller"
    seen,      \* the informer cache's forks
    wpc,       \* the watcher: "wait", "scan" or "send"
    tickNow,   \* the time it took at the tick
    items,     \* the forks of its list not yet done, in the cache's order
    buffer,    \* events sent and not yet handled
    queue,     \* the reconciler's work queue
    rpc,       \* the reconciler: "idle" or "delete"
    rkey,      \* the fork it works on
    fresh,     \* history: its cached fork was and is the stored one
    edits,     \* edits spent
    faults     \* faults spent

watcher == <<wpc, tickNow, items>>
reconciler == <<rpc, rkey, fresh>>
budget == <<edits, faults>>
vars == <<now, fork, carried, writer, seen, watcher, buffer, queue, reconciler, budget>>

Init ==
    /\ now = 0
    /\ fork \in [Keys -> Deadlines \cup {Gone}]
    /\ \A k \in Keys \ ForkKeys : fork[k] = Gone
    /\ carried = [k \in Keys |-> {fork[k]} \ {Never, Gone}]
    /\ writer = [k \in Keys |-> "user"]
    /\ seen = fork
    /\ wpc = "wait" /\ tickNow = 0 /\ items = <<>>
    /\ buffer = <<>>
    /\ queue = {k \in Keys : fork[k] # Gone}
    /\ rpc = "idle" /\ rkey \in Keys /\ fresh = FALSE
    /\ edits = 0 /\ faults = 0

-----------------------------------------------------------------------------
(* The watcher *)

\* Mutant: now is taken once, before the loop over ticks.
TickStaleClock ==
    /\ wpc = "wait"
    /\ LET listed == {[key |-> k, deadline |-> seen[k]] : k \in {x \in Keys : seen[x] # Gone}}
       IN  items' \in SetToSeqs(listed)
    /\ wpc' = "scan"
    /\ UNCHANGED <<now, fork, carried, writer, seen, tickNow, buffer, queue, reconciler, budget>>

\* A tick: take the time and list the cached forks, in no particular order.
Tick ==
    /\ wpc = "wait"
    /\ tickNow' = now
    /\ LET listed == {[key |-> k, deadline |-> seen[k]] : k \in {x \in Keys : seen[x] # Gone}}
       IN  items' \in SetToSeqs(listed)
    /\ wpc' = "scan"
    /\ UNCHANGED <<now, fork, carried, writer, seen, buffer, queue, reconciler, budget>>

\* skip a fork without a deadline, or whose deadline is after the tick.
Skipped(f) == f.deadline = Never \/ f.deadline > tickNow

\* The loop variable takes the next value, and so does whatever the events of
\* this tick still in flight point at.
NextItem ==
    /\ wpc = "scan" /\ items # <<>>
    /\ buffer' = [i \in DOMAIN buffer |->
                    IF buffer[i].live
                      THEN [buffer[i] EXCEPT !.may = @ \cup {Head(items).key}]
                      ELSE buffer[i]]
    /\ IF Skipped(Head(items))
         THEN items' = Tail(items) /\ UNCHANGED wpc
         ELSE wpc' = "send" /\ UNCHANGED items
    /\ UNCHANGED <<now, fork, carried, writer, seen, tickNow, queue, reconciler, budget>>

\* Mutant: the send does not wait for room.
SendUnbounded ==
    /\ wpc = "send"
    /\ buffer' = Append(buffer, [may |-> {Head(items).key}, live |-> TRUE])
    /\ items' = Tail(items)
    /\ wpc' = "scan"
    /\ UNCHANGED <<now, fork, carried, writer, seen, tickNow, queue, reconciler, budget>>

\* The send blocks until the event can be taken; nothing else ends it.
Send ==
    /\ wpc = "send" /\ Len(buffer) < Cap
    /\ buffer' = Append(buffer, [may |-> {Head(items).key}, live |-> TRUE])
    /\ items' = Tail(items)
    /\ wpc' = "scan"
    /\ UNCHANGED <<now, fork, carried, writer, seen, tickNow, queue, reconciler, budget>>

\* The loop ends and its variable keeps its last value.
EndScan ==
    /\ wpc = "scan" /\ items = <<>>
    /\ buffer' = [i \in DOMAIN buffer |-> [buffer[i] EXCEPT !.live = FALSE]]
    /\ wpc' = "wait"
    /\ UNCHANGED <<now, fork, carried, writer, seen, tickNow, items, queue, reconciler, budget>>

(* The event handler *)

\* EnqueueRequestForObject reads the name, then the namespace, of the struct
\* the event points at.
Requests(e) == {<<f[1], g[2]>> : f \in e.may, g \in e.may}

Handle ==
    /\ buffer # <<>>
    /\ \E k \in Requests(Head(buffer)) : queue' = queue \cup {k}
    /\ buffer' = Tail(buffer)
    /\ UNCHANGED <<now, fork, carried, writer, seen, watcher, reconciler, budget>>

(* The reconciler *)

\* Mutant: the deadline is compared as the watcher does, not with Before.
OutdatedOrDue(d) == d \in Instants /\ d <= now

\* Deadline != nil && Deadline.Before(now)
Outdated(d) == d \in Instants /\ d < now

Dequeue(k) == rpc = "idle" /\ k \in queue /\ queue' = queue \ {k}

\* Mutant: a notified fork is deleted without looking at its deadline again.
ReconcileNotified(k) ==
    /\ Dequeue(k)
    /\ seen[k] # Gone
    /\ rpc' = "delete" /\ rkey' = k
    /\ fresh' = (seen[k] = fork[k])
    /\ UNCHANGED <<now, fork, carried, writer, seen, watcher, buffer, budget>>

ReconcileOutdated(k) ==
    /\ Dequeue(k)
    /\ seen[k] # Gone /\ Outdated(seen[k])
    /\ rpc' = "delete" /\ rkey' = k
    /\ fresh' = (seen[k] = fork[k])
    /\ UNCHANGED <<now, fork, carried, writer, seen, watcher, buffer, budget>>

\* Any other fork, or none: mappings and microservice are updated.
ReconcileOther(k) ==
    /\ Dequeue(k)
    /\ seen[k] = Gone \/ ~Outdated(seen[k])
    /\ UNCHANGED <<now, fork, carried, writer, seen, watcher, buffer, reconciler, budget>>

\* ... or that fails, and the work queue retries.
ReconcileFails(k) ==
    /\ rpc = "idle" /\ k \in queue /\ (seen[k] = Gone \/ ~Outdated(seen[k]))
    /\ faults < MaxFaults
    /\ faults' = faults + 1
    /\ UNCHANGED <<now, fork, carried, writer, seen, watcher, buffer, queue, reconciler, edits>>

EndReconcile == rpc' = "idle" /\ fresh' = FALSE /\ UNCHANGED rkey

\* r.Delete(ctx, frk): by name, whatever is stored there now.
Delete ==
    /\ rpc = "delete" /\ fork[rkey] # Gone
    /\ fork' = [fork EXCEPT ![rkey] = Gone]
    /\ writer' = [writer EXCEPT ![rkey] = "controller"]
    /\ EndReconcile
    /\ UNCHANGED <<now, carried, seen, watcher, buffer, queue, budget>>

\* Someone else was first (NotFound), or the request fails: retried.
DeleteFails ==
    /\ rpc = "delete"
    /\ \/ fork[rkey] = Gone /\ UNCHANGED faults
       \/ faults < MaxFaults /\ faults' = faults + 1
    /\ queue' = queue \cup {rkey}
    /\ EndReconcile
    /\ UNCHANGED <<now, fork, carried, writer, seen, watcher, buffer, edits>>

(* The cluster *)

Clock ==
    /\ now < MaxTime
    /\ now' = now + 1
    /\ UNCHANGED <<fork, carried, writer, seen, watcher, buffer, queue, reconciler, budget>>

\* The cache catches up with a fork, and its watch event queues it.
SyncFork(k) ==
    /\ seen[k] # fork[k]
    /\ seen' = [seen EXCEPT ![k] = fork[k]]
    /\ queue' = queue \cup {k}
    /\ UNCHANGED <<now, fork, carried, writer, watcher, buffer, reconciler, budget>>

Resync(k) ==
    /\ seen[k] # Gone /\ k \notin queue
    /\ queue' = queue \cup {k}
    /\ UNCHANGED <<now, fork, carried, writer, seen, watcher, buffer, reconciler, budget>>

\* A user creates a fork (kubeforkctl sets a deadline, an applied manifest may
\* have none), extends or shortens its deadline, or deletes it.
UserPut(k, d) ==
    /\ edits < MaxEdits /\ fork[k] # d
    /\ fork' = [fork EXCEPT ![k] = d]
    /\ carried' = [carried EXCEPT ![k] = @ \cup ({d} \ {Never})]
    /\ writer' = [writer EXCEPT ![k] = "user"]
    /\ fresh' = (fresh /\ rkey # k)
    /\ edits' = edits + 1
    /\ UNCHANGED <<now, seen, watcher, buffer, queue, rpc, rkey, faults>>

UserDelete(k) ==
    /\ edits < MaxEdits /\ fork[k] # Gone
    /\ fork' = [fork EXCEPT ![k] = Gone]
    /\ writer' = [writer EXCEPT ![k] = "user"]
    /\ fresh' = (fresh /\ rkey # k)
    /\ edits' = edits + 1
    /\ UNCHANGED <<now, carried, seen, watcher, buffer, queue, rpc, rkey, faults>>

\* The process ends (a crash, or the watcher returned an error because List
\* failed, which stops the manager) and starts again: the watcher, the events
\* and the queue are lost, and every fork that exists is reconciled anew.
Restart ==
    /\ faults < MaxFaults
    /\ faults' = faults + 1
    /\ wpc' = "wait" /\ items' = <<>> /\ UNCHANGED tickNow
    /\ buffer' = <<>>
    /\ seen' = fork
    /\ queue' = {k \in Keys : fork[k] # Gone}
    /\ EndReconcile
    /\ UNCHANGED <<now, fork, carried, writer, edits>>

WatcherStep == Tick \/ NextItem \/ Send \/ EndScan

Next ==
    \/ WatcherStep \/ Handle \/ Delete \/ DeleteFails \/ Clock \/ Restart
    \/ \E k \in Keys : \/ ReconcileOutdated(k) \/ ReconcileOther(k)
                       \/ ReconcileFails(k) \/ SyncFork(k) \/ Resync(k)
    \/ \E k \in ForkKeys : UserDelete(k) \/ \E d \in Deadlines : UserPut(k, d)

Spec == Init /\ [][Next]_vars

\* The ticker keeps ticking, the channel source and the reconciler keep
\* working (the queue is first in, first out), time passes, caches catch up.
NoResyncFairness ==
    /\ WF_vars(WatcherStep) /\ WF_vars(Handle) /\ WF_vars(Clock)
    /\ WF_vars(Delete \/ DeleteFails)
    /\ \A k \in Keys : /\ SF_vars(ReconcileOutdated(k) \/ ReconcileOther(k))
                       /\ WF_vars(SyncFork(k))

FairSpec == Spec /\ NoResyncFairness
ResyncSpec == FairSpec /\ \A k \in Keys : WF_vars(Resync(k))

-----------------------------------------------------------------------------
(* Properties *)

\* Every variable has its type; the buffer is within its capacity, the
\* watcher has an item in hand while it sends.
TypeOK ==
    /\ now \in Instants /\ tickNow \in Instants
    /\ fork \in [Keys -> Deadlines \cup {Gone}] /\ seen \in [Keys -> Deadlines \cup {Gone}]
    /\ carried \in [Keys -> SUBSET Instants] /\ writer \in [Keys -> {"user", "controller"}]
    /\ wpc \in {"wait", "scan", "send"} /\ (wpc = "send" => items # <<>>)
    /\ items \in Seq([key : Keys, deadline : Deadlines])
    /\ buffer \in Seq([may : SUBSET Keys, live : BOOLEAN]) /\ Len(buffer) <= Cap
    /\ queue \subseteq Keys
    /\ rpc \in {"idle", "delete"} /\ rkey \in Keys /\ fresh \in BOOLEAN
    /\ edits \in 0..MaxEdits /\ faults \in 0..MaxFaults

Expired(k) == fork[k] \in Instants /\ fork[k] < now

\* The controller removes a fork only when a deadline written for a fork of
\* that name has passed, whatever the watcher notified, however stale the
\* cache: the specification of ForkExpiry.
Expiry == INSTANCE ForkExpiry
ImplementsExpiry == Expiry!Spec

\* Unless the fork was edited after the copy the reconciler read, the fork it
\* removes is outdated now: a fork whose deadline has not passed, or that has
\* none, is safe.
DeletesOnlyExpired ==
    [][Delete /\ fresh => Expired(rkey)]_vars

\* The same without the proviso: "Deadline is the time when fork will be
\* removed."
RemovedOnlyAtDeadline == [][Delete => Expired(rkey)]_vars

\* "notify Reconciler with outdated fork": what a watcher's event queues is a
\* fork whose deadline the watcher did not find in the future.
NotifiedForkIsOutdated ==
    [][Handle => \A k \in queue' \ queue :
           \E d \in carried[k] : d <= tickNow]_vars

\* A fork whose deadline has passed is removed in the end.
EventuallyRemoved == <>[](\A k \in Keys : ~Expired(k))
=============================================================================
