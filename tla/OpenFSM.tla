------------------------------- MODULE OpenFSM -------------------------------
(***************************************************************************)
(* OpenFSM (open/openfsm.h, open/openfsm.cpp): states made of a sequence   *)
(* of actions, registered by name in a pool, and a machine that goes       *)
(* through the actions of a state and from state to state.  What an action *)
(* does is up to the program; it may tell the machine where to go next.    *)
(*                                                                         *)
(* A name is a number, and the pool's map is in the order of names; 0 is   *)
(* no state.  Nothing rejects two states of one number eState_.  A failed  *)
(* assertion goes on as it does without assertions: the call returns.      *)
(***************************************************************************)
EXTENDS Integers, Sequences

CONSTANTS Names,    \* the names of states, a set of positive numbers
          Actions,  \* the names of actions
          Numbers,  \* the positive eState_ the program gives to a state
          MaxActs,  \* bound: on the actions of a state
          MaxUid    \* bound: on the numbers made up for states

(* Names and numbers of states are numbers, and 0 is no state.             *)
FsmConstants ==
  /\ Names \subseteq Nat \ {0} /\ Numbers \subseteq Int
  /\ MaxActs \in Nat /\ MaxUid \in Nat
ASSUME FsmAssumption == FsmConstants

VARIABLES
  mapNameAction, \* OpenFSMPool: the registered actions
  mapNameState,  \* OpenFSMPool: the registered states
  uid,           \* OpenFSMPool::uid_
  vectState,     \* the states this machine has met
  fsmState, actionIdx, eNextState, eLastState,
  pc,            \* where update() is
  doing          \* history: how often an action was entered, less its exits

poolVars == <<mapNameAction, mapNameState, uid>>
machineVars == <<vectState, fsmState, actionIdx, eNextState, eLastState, pc, doing>>
vars == <<poolVars, machineVars>>

Least(S) == CHOOSE x \in S : \A y \in S : x <= y
Lists == UNION {[1 .. n -> Actions] : n \in 0 .. MaxActs}
State == [id : Numbers \cup {-n : n \in 1 .. MaxUid}, acts : Lists, rel : Names \cup {0}]
Registered == DOMAIN mapNameState
Size(n) == Len(mapNameState[n].acts)
Id(n) == mapNameState[n].id

Init ==
  /\ mapNameAction = {} /\ mapNameState = <<>> /\ uid = 1
  /\ vectState = <<>> /\ fsmState = 0 /\ actionIdx = 0
  /\ eNextState = 0 /\ eLastState = 0 /\ pc = "idle"
  /\ doing = [p \in Names \X (0 .. MaxActs - 1) |-> 0]

-----------------------------------------------------------------------------
(* The pool.                                                               *)

RegisterAction(a) ==
  /\ a \notin mapNameAction
  /\ mapNameAction' = mapNameAction \cup {a}
  /\ UNCHANGED <<mapNameState, uid, machineVars>>

(* A state of an unknown action is deleted, but the number it was given is *)
(* used up.                                                                *)
RegisterState(n, acts, eState) ==
  /\ n \notin Registered
  /\ eState = -1 => uid <= MaxUid
  /\ uid' = IF eState = -1 THEN uid + 1 ELSE uid
  /\ IF \A i \in DOMAIN acts : acts[i] \in mapNameAction
     THEN mapNameState' =
            [m \in Registered \cup {n} |->
               IF m = n THEN [id |-> IF eState = -1 THEN -uid ELSE eState,
                              acts |-> acts, rel |-> 0]
               ELSE mapNameState[m]]
     ELSE UNCHANGED mapNameState
  /\ UNCHANGED <<mapNameAction, machineVars>>

(* Of the related states only the first is ever used.                      *)
RegisterRelation(n, m) ==
  /\ n \in Registered /\ m \in Registered
  /\ mapNameState[n].rel = 0
  /\ mapNameState' = [mapNameState EXCEPT ![n].rel = m]
  /\ UNCHANGED <<mapNameAction, uid, machineVars>>

Pool ==
  \/ \E a \in Actions : RegisterAction(a)
  \/ \E n \in Names, acts \in Lists, eState \in Numbers \cup {-1} :
       RegisterState(n, acts, eState)
  \/ \E n, m \in Names : RegisterRelation(n, m)

-----------------------------------------------------------------------------
(* getState() by number, of a machine that has met v: a number made up is  *)
(* found only among the states met.  By name any registered state is found.*)
PoolState(e) ==
  LET found == {n \in Registered : Id(n) >= 0 /\ Id(n) = e}
  IN  IF found = {} THEN 0 ELSE Least(found)
StateIn(v, e) ==
  LET met == {i \in DOMAIN v : Id(v[i]) = e}
  IN  IF met = {} THEN PoolState(e) ELSE v[Least(met)]
Met == {vectState[i] : i \in DOMAIN vectState}
Meeting(v, n) == IF n = 0 \/ \E i \in DOMAIN v : v[i] = n THEN v ELSE Append(v, n)

(* What a call finds that is given a name or a number: 0 if nothing.       *)
Found == {0} \cup Registered

(* nextState(): of a state that was found the number is kept.              *)
Asking(e, n) == IF n = 0 THEN e ELSE Id(n)
NextState(n) == /\ vectState' = Meeting(vectState, n)
                /\ eNextState' = Asking(eNextState, n)

(* What the enter() and exit() of the program's actions do to the machine: *)
(* bound, each calls nextState() at most once, and nothing else.  A call   *)
(* that finds nothing is the same as none.                                 *)
Callback(isCalled) == IF isCalled THEN Found ELSE {0}

Running == fsmState # 0 /\ actionIdx < Size(fsmState)
(* Mutant: the index is reset before the action is left.                   *)
ExitedFirst == IF Running THEN [doing EXCEPT ![<<fsmState, 0>>] = @ - 1] ELSE doing
Exited == IF Running THEN [doing EXCEPT ![<<fsmState, actionIdx>>] = @ - 1] ELSE doing
Entered(d, n, i) == IF i < Size(n) THEN [d EXCEPT ![<<n, i>>] = @ + 1] ELSE d

(* enterState(): the state in focus is left, whose action may ask for l,   *)
(* and then getState() finds n; the machine has none when nothing was      *)
(* found.  The first action of n may ask for m.  What is next is e, unless *)
(* one of the two asks.                                                    *)
EnterState(l, n, e) ==
  /\ l \in Callback(Running)
  /\ \E m \in Callback(n # 0 /\ Size(n) > 0) :
       /\ vectState' = Meeting(Meeting(Meeting(vectState, l), n), m)
       /\ eNextState' = Asking(Asking(e, l), m)
  /\ eLastState' = IF fsmState = 0 THEN eLastState ELSE Id(fsmState)
  /\ fsmState' = n
  /\ IF n = 0 THEN doing' = Exited /\ UNCHANGED actionIdx
     ELSE doing' = Entered(Exited, n, 0) /\ actionIdx' = 0

(* OpenFSMState::nextAction(): the action that is left may ask for l, and  *)
(* the one behind it for m; behind the last comes the state's relation, by *)
(* its number.  The index goes on behind the last action; bound: it does so*)
(* once.                                                                   *)
Related(v) ==
  LET rel == mapNameState[fsmState].rel IN IF rel = 0 THEN 0 ELSE StateIn(v, Id(rel))
NextIdx == actionIdx + 1
NextAction ==
  /\ actionIdx <= Size(fsmState)
  /\ actionIdx' = NextIdx
  /\ doing' = Entered(Exited, fsmState, NextIdx)
  /\ \E l \in Callback(Running) :
       LET v == Meeting(vectState, l) IN
       \E m \in IF NextIdx < Size(fsmState) THEN Found ELSE {Related(v)} :
         /\ vectState' = Meeting(v, m)
         /\ eNextState' = Asking(Asking(eNextState, l), m)
  /\ UNCHANGED <<fsmState, eLastState>>

(* OpenFSM::nextAction() of a machine without a state.                     *)
FirstState ==
  /\ NextState(IF vectState = <<>> THEN 0 ELSE StateIn(vectState, Id(vectState[1])))
  /\ UNCHANGED <<fsmState, actionIdx, eLastState, doing>>

(* What the program may ask for, from outside or in update() of an action. *)
Call ==
  \/ \E l, n \in Found : EnterState(l, n, eNextState)
  \/ \E n \in Found : NextState(n) /\ UNCHANGED <<fsmState, actionIdx, eLastState, doing>>
  \/ IF fsmState = 0 THEN FirstState ELSE NextAction

-----------------------------------------------------------------------------
(* OpenFSM::update(): what was asked for before is forgotten.              *)
Update ==
  /\ pc = "idle"
  /\ eNextState' = 0
  /\ pc' = IF fsmState = 0 THEN "loop" ELSE "update"
  /\ UNCHANGED <<poolVars, vectState, fsmState, actionIdx, eLastState, doing>>

(* OpenFSMState::update().                                                 *)
UpdateState ==
  /\ pc = "update"
  /\ pc' = "loop"
  /\ IF Running THEN Call
     ELSE /\ NextState(Related(vectState))
          /\ UNCHANGED <<fsmState, actionIdx, eLastState, doing>>
  /\ UNCHANGED poolVars

EnterNext ==
  /\ pc = "loop" /\ eNextState # 0
  /\ \E l \in Found : EnterState(l, StateIn(Meeting(vectState, l), eNextState), 0)
  /\ pc' = IF fsmState' = 0 THEN "loop" ELSE "update"
  /\ UNCHANGED poolVars

Return ==
  /\ pc = "loop" /\ eNextState = 0
  /\ pc' = "idle"
  /\ UNCHANGED <<poolVars, vectState, fsmState, actionIdx, eNextState, eLastState, doing>>

CallFromOutside == pc = "idle" /\ Call /\ UNCHANGED <<poolVars, pc>>
Register == pc = "idle" /\ Pool

Next == Register \/ CallFromOutside \/ Update \/ UpdateState \/ EnterNext \/ Return
Spec == Init /\ [][Next]_vars

-----------------------------------------------------------------------------
(* Of all actions exactly the one in focus has been entered and not been   *)
(* exited, through nextAction(), enterState() and the relations of states: *)
(* none is entered twice, exited twice or left behind.                     *)
OneActionOpen ==
  \A p \in DOMAIN doing :
    doing[p] = IF Running /\ p = <<fsmState, actionIdx>> THEN 1 ELSE 0

(* What the machine is to enter next it has met, so that getState() finds  *)
(* it by its number, made up or not, and update() does not end without a   *)
(* state.                                                                  *)
NextIsMet == eNextState # 0 => \E n \in Met : Id(n) = eNextState

MachineSound == OneActionOpen /\ NextIsMet
=============================================================================
