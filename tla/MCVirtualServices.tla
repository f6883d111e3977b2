--------------------------- MODULE MCVirtualServices ---------------------------
(* Instances of VirtualServices for TLC. *)
EXTENDS VirtualServices

CONSTANTS s1, s2, p1, p2

Trap(s, v, p) == [host |-> s, value |-> v, to |-> p]

\* Two VSConfigs that meet at s1, there under one header value; the second may
\* move to s2 instead, where it gives no value.
Meeting == [c \in Configs |->
    IF c = 1 THEN {Trap(s1, "x", p1)}
             ELSE {Trap(s1, "x", p2), Trap(s2, NoValue, p2)}]

\* Each keeps its host and its value.
OwnHost == [c \in Configs |-> IF c = 1 THEN {Trap(s1, "x", p1)} ELSE {Trap(s2, "y", p2)}]

\* A VSConfig may move from one Service to the other.
Moving == [c \in Configs |-> {Trap(s1, "x", p1), Trap(s2, "x", p1)}]
=============================================================================
