----------------------------- MODULE ActorQueue -----------------------------
(***************************************************************************)
(* What an OpenThread promises the threads that send to it, with none of   *)
(* its machinery: a message that was accepted is handled exactly once, in  *)
(* the order of acceptance, one at a time, until a STOP message has been   *)
(* handled; what is still pending then is lost.                            *)
(***************************************************************************)
EXTENDS Sequences

CONSTANTS Message,     (* what a caller can send                           *)
          Stopping     (* those messages that end the actor                *)

VARIABLES pending,     (* accepted and not yet handled, oldest first       *)
          handled,     (* handled, in the order of handling                *)
          live         (* no STOP message has been handled yet             *)

vars == <<pending, handled, live>>

Init == /\ pending = <<>>
        /\ handled = <<>>
        /\ live = TRUE

Accept(m) == /\ live
             /\ pending' = Append(pending, m)
             /\ UNCHANGED <<handled, live>>

(* Handling a STOP message loses everything queued behind it.              *)
Handle == /\ live
          /\ pending # <<>>
          /\ handled' = Append(handled, Head(pending))
          /\ live' = (Head(pending) \notin Stopping)
          /\ pending' = IF live' THEN Tail(pending) ELSE <<>>

Next == Handle \/ \E m \in Message : Accept(m)

Spec == Init /\ [][Next]_vars

(* An actor that is alive and has a pending message handles it.            *)
FairSpec == Spec /\ WF_vars(Handle)
=============================================================================
