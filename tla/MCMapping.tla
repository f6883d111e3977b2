------------------------------- MODULE MCMapping -------------------------------
(* Instances of Mapping for TLC. *)
EXTENDS Mapping

CONSTANTS f1, f2, m1, m2, h1, h2, i1, i2, k1, k2, k3, k4

ForkSpec(m, i, hs, us) == [mgr |-> m, id |-> i, headers |-> hs, ups |-> us]

\* Two managers with a host each: four mappings of different names.
OwnKeys == [m \in Managers |-> [h \in Hosts |-> [i \in Identifiers |->
               IF m = m1 THEN IF i = i1 THEN k1 ELSE k2
                         ELSE IF i = i1 THEN k3 ELSE k4]]]

OwnHosts == [m \in Managers |-> IF m = m1 THEN {{h1}, {}} ELSE {{h2}}]

\* Both managers have the same upstream in one namespace: their mappings for
\* an identifier have one name.
SharedKeys == [m \in Managers |-> [h \in Hosts |-> [i \in Identifiers |->
                  IF i = i1 THEN k1 ELSE k2]]]

SharedHosts == [m \in Managers |-> IF m = m1 THEN {{h1}, {}} ELSE {{h1}}]

\* A manager's name is its label.
OwnLabel == [m \in Managers |-> m]

\* The two managers have one name, in different namespaces.
SameLabel == [m \in Managers |-> m1]

\* Both keep the identifier in the header "id".
IdHeader == [m \in Managers |-> "id"]

\* f1 belongs to m1; f2 belongs to m2, shares f1's identifier and adds a header
\* of its own, or belongs to m1 under an identifier of its own.
TwoForks == [f \in Forks |->
    IF f = f1 THEN {ForkSpec(m1, i1, {<<"x", "1">>}, {"spdy"})}
              ELSE {ForkSpec(m2, i1, {<<"y", "1">>}, {}), ForkSpec(m1, i2, {}, {})}]

\* The two forks of one identifier give one header two values.
TwoValues == [f \in Forks |->
    IF f = f1 THEN {ForkSpec(m1, i1, {<<"x", "1">>}, {"spdy"})}
              ELSE {ForkSpec(m2, i1, {<<"x", "2">>}, {}), ForkSpec(m1, i2, {}, {})}]

\* A fork adds the header that holds the identifier.
OtherIdentifier == [f \in Forks |-> {ForkSpec(m1, i1, {<<"id", i2>>}, {})}]

\* Two forks of one identifier; one allows an upgrade and adds no header.
OneIdentifier == [f \in Forks |->
    IF f = f1 THEN {ForkSpec(m1, i1, {<<"x", "1">>}, {})} ELSE {ForkSpec(m1, i1, {}, {"spdy"})}]
=============================================================================
