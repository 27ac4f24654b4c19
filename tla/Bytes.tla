--------------------------------- MODULE Bytes ---------------------------------
(***************************************************************************)
(* What a buffer of bytes promises: what is put in at the back comes out   *)
(* as it was put in, at the front or again at the back, and a call that    *)
(* takes nothing changes nothing.  OpenBuffer implements this.             *)
(***************************************************************************)
EXTENDS Sequences

VARIABLES bytes, \* what is in it
          last   \* the last call: what it did, and to which bytes

Init == bytes = <<>> /\ last = [op |-> "none", data |-> <<>>]

Push  == last'.op = "push"  /\ bytes' = bytes \o last'.data
Front == last'.op = "front" /\ bytes = last'.data \o bytes'
Back  == last'.op = "back"  /\ bytes = bytes' \o last'.data
Renew == last'.op = "renew" /\ bytes' = last'.data
Look  == last'.op = "none"  /\ bytes' = bytes

Next == Push \/ Front \/ Back \/ Renew \/ Look
Spec == Init /\ [][Next]_<<bytes, last>>
=============================================================================
