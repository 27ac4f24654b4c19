--------------------------- MODULE MCSocketServer ---------------------------
(* Instances of SocketServer for TLC.                                      *)
EXTENDS SocketServer, TLC

CONSTANTS t1, t2

TwoAndOne == (t1 :> 2) @@ (t2 :> 1)
ThreeAndTwo == (t1 :> 3) @@ (t2 :> 2)
=============================================================================
