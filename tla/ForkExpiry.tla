------------------------------ MODULE ForkExpiry ------------------------------
(***************************************************************************)
(* What a fork's deadline promises, without watcher, queue or cache: users *)
(* create, change and delete forks; time passes; a fork is removed by the  *)
(* controller only when a deadline that was written for a fork of that     *)
(* name has passed.                                                        *)
(***************************************************************************)
EXTENDS Naturals

CONSTANTS Keys,     \* <<namespace, name>> of forks
          Never,    \* a fork without a deadline
          Gone,     \* no such fork
          MaxTime   \* bound: the last instant

Instants == 0..MaxTime
Deadlines == Instants \cup {Never}

VARIABLES now, fork, carried, writer
expiryVars == <<now, fork, carried, writer>>

\* fork[k] is the deadline of the fork named k, Never, or Gone; carried[k] is
\* every deadline a fork of that name ever had; writer[k] is who wrote it
\* last, which tells the controller's removals from the users'.
Init ==
    /\ now = 0
    /\ fork \in [Keys -> Deadlines \cup {Gone}]
    /\ carried = [k \in Keys |-> {fork[k]} \ {Never, Gone}]
    /\ writer = [k \in Keys |-> "user"]

Clock == now < MaxTime /\ now' = now + 1 /\ UNCHANGED <<fork, carried, writer>>

Put(k, d) ==
    /\ fork' = [fork EXCEPT ![k] = d]
    /\ carried' = [carried EXCEPT ![k] = @ \cup ({d} \ {Never})]
    /\ writer' = [writer EXCEPT ![k] = "user"]
    /\ UNCHANGED now

UserDelete(k) ==
    /\ fork' = [fork EXCEPT ![k] = Gone]
    /\ writer' = [writer EXCEPT ![k] = "user"]
    /\ UNCHANGED <<now, carried>>

\* deadline.Before(now): strictly before.
Expire(k) ==
    /\ fork[k] # Gone
    /\ \E d \in carried[k] : d < now
    /\ fork' = [fork EXCEPT ![k] = Gone]
    /\ writer' = [writer EXCEPT ![k] = "controller"]
    /\ UNCHANGED <<now, carried>>

Next ==
    \/ Clock
    \/ \E k \in Keys : UserDelete(k) \/ Expire(k) \/ \E d \in Deadlines : Put(k, d)

Spec == Init /\ [][Next]_expiryVars
=============================================================================
