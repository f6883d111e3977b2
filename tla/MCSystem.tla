-------------------------------- MODULE MCSystem -------------------------------
(* Instances of System for TLC. *)
EXTENDS System

CONSTANTS f1, f2, s1, d1, d2, i1, i2

Fork(i, ss, ds) == [id |-> i, services |-> ss, deployments |-> ds]

\* Service and Pods; the Forks' templates give one of the labels another value.
OwnSelectors == [s \in Services |-> {"app"}]

OwnPods == [d \in Deployments |-> {"app", "web"}]

\* One Fork of one Service, with one Deployment or with two behind it.
OneService == [f \in Forks |-> {Fork(i1, {s1}, {d1}), Fork(i1, {s1}, {d1, d2})}]

OneName == << <<"VSConfig", f1, s1>> >>

\* Two Forks of one Service, of one identifier or of two.
TwoForks == [f \in Forks |-> {Fork(i, {s1}, {d1}) : i \in IF f = f1 THEN {i1} ELSE {i1, i2}}]

TwoForkNames == << <<"VSConfig", f1, s1>>, <<"VSConfig", f2, s1>> >>

\* One Fork that leaves the one Deployment behind a Service for the other.
Swapped == [f \in Forks |-> {Fork(i1, {s1}, {d1}), Fork(i1, {s1}, {d2})}]

\* The name of a copied Service is cut.
LongName == {<<"Service", f1, s1>>}
=============================================================================
