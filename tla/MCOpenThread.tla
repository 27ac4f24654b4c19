---------------------------- MODULE MCOpenThread ----------------------------
(* Instances of OpenThread for TLC: two other threads, and the thread's    *)
(* own callback.                                                           *)
EXTENDS OpenThread

CONSTANTS c1, c2, self

External == {c1, c2}
WithSelf == {c1, c2, self}

TwoCallsEach == [c \in External |-> 2]
OneMoreOfC1 == [c \in WithSelf |-> IF c = c1 THEN 2 ELSE 1]
=============================================================================
