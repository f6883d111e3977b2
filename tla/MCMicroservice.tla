---------------------------- MODULE MCMicroservice ----------------------------
(* Instances of Microservice for TLC. *)
EXTENDS Microservice

CONSTANTS f1, f2, s1, s2, d1, i1, i2

Fork(i, ss) == [id |-> i, services |-> ss, deployments |-> {d1}]

\* s1 asks for two labels, of which the Pods have one; s2 routes to them.
OwnSelectors == [s \in Services |-> IF s = s1 THEN {"app", "web"} ELSE {"app"}]

OwnPods == [d \in Deployments |-> {"app"}]

\* s1 has no selector, as a Service of external endpoints has none.
NoSelector == [s \in Services |-> IF s = s1 THEN {} ELSE {"app"}]

\* A Fork grows, shrinks and changes its identifier.
Changing == [f \in Forks |-> {Fork(i1, {s1, s2}), Fork(i2, {s2})}]

\* A Fork of the Service without selector.
Selectorless == [f \in Forks |-> {Fork(i1, {s1})}]
=============================================================================
