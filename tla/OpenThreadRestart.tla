------------------------- MODULE OpenThreadRestart -------------------------
(***************************************************************************)
(* start() called again on an OpenThread whose state_ is STOP, as it is    *)
(* after waitStop().  run() publishes STOP before it empties its queues,   *)
(* so the end of the old run() can overlap the new one: what is left of    *)
(* the old one is leftover.  Constructor values that start() does not      *)
(* assign again (msgCount_, isIdle_, queue_) are carried over.             *)
(***************************************************************************)
EXTENDS OpenThread

CONSTANT MaxStarts     (* bound: how often start() is called               *)

VARIABLES leftover,    (* where the old run() is: "none" when it has ended *)
          starts       (* how often start() has been called                *)

restartVars == <<leftover, starts>>

RInit == Init /\ leftover = "none" /\ starts = 1

StartAgain ==
  /\ Alive
  /\ starter = "returned"
  /\ state = "STOP"
  /\ rpc \in {"drop", "done"}
  /\ leftover = "none"
  /\ mutex = "none"
  /\ starts < MaxStarts
  /\ starts' = starts + 1
  /\ starter' = "polling"
  /\ mutex' = "start"
  /\ state' = "START"
  /\ readId' = 0
  /\ leftover' = IF rpc = "drop" THEN "drop" ELSE "none"
  /\ rpc' = "begin"
  /\ handled' = <<>>
  /\ UNCHANGED <<idleVars, queueVars, cache, node, msgCount, callerVars>>

LeftoverGoto(from, to) == leftover = from /\ leftover' = to

LeftoverDrops ==
  /\ LeftoverGoto("drop", "clear")
  /\ mutex = "none"
  /\ mutex' = "leftover"
  /\ cache' = <<>>
  /\ UNCHANGED <<state, idleVars, queueVars, node, readId, rpc, handled,
                 msgCount, starter, callerVars, starts>>

LeftoverClears ==
  /\ LeftoverGoto("clear", "reset")
  /\ queue' = <<>>
  /\ UNCHANGED <<state, idleVars, writeId, popId, runVars, msgCount, mutex,
                 starter, callerVars, starts>>

LeftoverResets ==
  /\ LeftoverGoto("reset", "none")
  /\ popId' = 0
  /\ writeId' = 0
  /\ mutex' = "none"
  /\ UNCHANGED <<state, idleVars, queue, runVars, msgCount, starter,
                 callerVars, starts>>

RNext == \/ Next /\ UNCHANGED restartVars
         \/ StartAgain
         \/ Alive /\ (LeftoverDrops \/ LeftoverClears \/ LeftoverResets)

RSpec == RInit /\ [][RNext]_<<vars, restartVars>>

(* The assertion run() makes of every node before its callback, for every  *)
(* run() of the object: the node has the next id.                          *)
NextIdHandled == rpc = "count" => node[1].id = readId
=============================================================================
