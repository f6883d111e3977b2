------------------------------ MODULE MCRefresh ------------------------------
(* Instances of Refresh for TLC. *)
EXTENDS Refresh

CONSTANTS p, q, a, b, n1, n2, n3

\* Two parents, three names: p may want a and b, q wants a; no two children
\* share a name.
MCWants == [x \in {p, q} |-> IF x = p THEN {a, b} ELSE {a}]
MCObjName == [x \in {p, q} |-> [i \in {a, b} |->
                 IF x = q THEN n3 ELSE IF i = a THEN n1 ELSE n2]]

\* One parent.
OneWants == [x \in {p} |-> {a, b}]
OneObjName == [x \in {p} |-> [i \in {a, b} |-> IF i = a THEN n1 ELSE n2]]

\* Kinds identified by a label or a field (Services, VSConfigs,
\* VirtualServices): the identity is read back as it was written.
IdByField == [n \in Names |-> [i \in Identities |-> i]]

\* DeploymentCopies are identified by their name.  The name wanted for a is
\* longer than 63 characters and n1 is what is left of it.
IdByTrimmedName == [n \in Names |-> [i \in Identities |-> IF n = n2 THEN b ELSE NoId]]

\* The names wanted for a and b agree on their first 63 characters.
CollidingObjName == [x \in {p} |-> [i \in {a, b} |-> n1]]
==============================================================================
