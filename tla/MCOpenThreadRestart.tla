------------------------ MODULE MCOpenThreadRestart ------------------------
(* One other thread stops the thread and sends to it across a restart.     *)
EXTENDS OpenThreadRestart

CONSTANTS c1, self

OneCaller == {c1}
ThreeCalls == [c \in OneCaller |-> 3]
=============================================================================
