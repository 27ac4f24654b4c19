---------------------------- MODULE LibraryProofs ----------------------------
(***************************************************************************)
(* Theorems about the parts of the library that a single thread uses.      *)
(* OpenFSM, for any names, actions, numbers and bounds: of all actions the *)
(* one in focus is open, and the next state is found.  OpenBuffer, for any *)
(* bytes, sizes and minimal capacity: it implements Bytes, within its      *)
(* memory, and integers come back.  HttpFraming, for any messages and      *)
(* pieces: the parser finds the end and the body that was sent.            *)
(*                                                                         *)
(* What is a fact of all numbers is shown by the least for which it would  *)
(* fail: HasLeast.                                                         *)
(***************************************************************************)
EXTENDS OpenFSM, OpenBuffer, HttpFraming, SequenceTheorems, WellFoundedInduction, TLAPS

(* The pool and the machine are well formed: what the machine refers to is *)
(* registered.                                                             *)
PoolFormed ==
  /\ Registered \subseteq Names
  /\ mapNameState \in [Registered -> [id : Int, acts : Lists, rel : Registered \cup {0}]]
  /\ uid \in Int
MachineFormed ==
  /\ vectState \in Seq(Registered)
  /\ fsmState \in Registered \cup {0}
  /\ actionIdx \in Nat
  /\ doing \in [Names \X (0 .. MaxActs - 1) -> Int]
Formed == PoolFormed /\ MachineFormed

(* The inductive invariant.                                                *)
IInv == Formed /\ MachineSound

-----------------------------------------------------------------------------
(* A set of numbers that is not empty has a least one.                     *)
LEMMA HasLeast ==
  ASSUME NEW S, S \subseteq Nat, S # {}
  PROVE  \E x \in S : \A y \in S : x <= y
<1>1. PICK x \in S : \A y \in S : ~ (<<y, x>> \in OpToRel(<, Nat))
  BY NatLessThanWellFounded, WFMin
<1>2. \A y \in S : <<y, x>> \in Nat \X Nat => ~(y < x)
  BY <1>1, Zenon DEF OpToRel
<1>3. \A y \in S : ~(y < x)
  BY <1>2
<1> QED
  BY <1>3

(* So has Least() of it.                                                   *)
LEMMA LeastIn ==
  ASSUME NEW S, S \subseteq Nat, S # {}
  PROVE  Least(S) \in S
BY HasLeast DEF Least

(* What a machine has met is registered.                                   *)
LEMMA MetRegistered ==
  ASSUME MachineFormed
  PROVE  Met \subseteq Registered
BY DEF MachineFormed, Met

(* getState() finds a registered state or nothing.                         *)
LEMMA StateInFinds ==
  ASSUME FsmConstants, PoolFormed, NEW v \in Seq(Registered), NEW e
  PROVE  StateIn(v, e) \in Found
<1>1. PoolState(e) \in Registered \cup {0}
  <2> DEFINE found == {n \in Registered : Id(n) >= 0 /\ Id(n) = e}
  <2>1. CASE found = {}
    BY <2>1 DEF PoolState
  <2>2. CASE found # {}
    <3>1. found \subseteq Nat
      BY DEF FsmConstants, PoolFormed
    <3>2. Least(found) \in found
      BY <2>2, <3>1, LeastIn
    <3> QED
      BY <2>2, <3>2 DEF PoolState
  <2> QED
    BY <2>1, <2>2
<1> DEFINE met == {i \in DOMAIN v : Id(v[i]) = e}
<1>2. CASE met = {}
  BY <1>1, <1>2 DEF StateIn, Found
<1>3. CASE met # {}
  <2>1. met \subseteq Nat
    OBVIOUS
  <2>2. Least(met) \in DOMAIN v
    BY <1>3, <2>1, LeastIn
  <2>3. v[Least(met)] \in Registered
    BY <2>2
  <2> QED
    BY <1>3, <2>3 DEF StateIn, Found
<1> QED
  BY <1>2, <1>3

(* A list of met states stays one when a state is met, and then has it.    *)
LEMMA MeetingAdds ==
  ASSUME NEW v \in Seq(Registered), NEW n \in Found
  PROVE  /\ Meeting(v, n) \in Seq(Registered)
         /\ \A i \in DOMAIN v : \E j \in DOMAIN Meeting(v, n) : Meeting(v, n)[j] = v[i]
         /\ n # 0 => \E j \in DOMAIN Meeting(v, n) : Meeting(v, n)[j] = n
<1>1. CASE n = 0 \/ \E i \in DOMAIN v : v[i] = n
  BY <1>1 DEF Meeting
<1>2. CASE ~(n = 0 \/ \E i \in DOMAIN v : v[i] = n)
  <2>1. Meeting(v, n) = Append(v, n)
    BY <1>2 DEF Meeting
  <2>2. n \in Registered
    BY <1>2 DEF Found
  <2>3. /\ Append(v, n) \in Seq(Registered)
        /\ DOMAIN Append(v, n) = 1 .. Len(v) + 1
        /\ Append(v, n)[Len(v) + 1] = n
        /\ \A i \in DOMAIN v : Append(v, n)[i] = v[i]
    BY <2>2
  <2> QED
    BY <2>1, <2>3
<1> QED
  BY <1>1, <1>2

(* A state has at most MaxActs actions.                                    *)
LEMMA SizeBound ==
  ASSUME FsmConstants, PoolFormed, NEW n \in Registered
  PROVE  Size(n) \in 0 .. MaxActs
<1>1. mapNameState[n].acts \in Lists
  BY DEF PoolFormed
<1>2. PICK k \in 0 .. MaxActs : mapNameState[n].acts \in [1 .. k -> Actions]
  BY <1>1 DEF Lists
<1>3. Len(mapNameState[n].acts) = k
  BY <1>2 DEF FsmConstants
<1> QED
  BY <1>3 DEF Size

-----------------------------------------------------------------------------
Counts == [Names \X (0 .. MaxActs - 1) -> Int]

(* With the action in focus left, none is open.                            *)
LEMMA ExitedNone ==
  ASSUME FsmConstants, Formed, OneActionOpen
  PROVE  Exited \in Counts /\ \A p \in Names \X (0 .. MaxActs - 1) : Exited[p] = 0
<1>1. doing \in Counts
  BY DEF Formed, MachineFormed, Counts
<1>2. CASE ~Running
  BY <1>1, <1>2 DEF Exited, OneActionOpen, Counts
<1>3. CASE Running
  <2>1. fsmState \in Names /\ Size(fsmState) \in 0 .. MaxActs
    BY <1>3, SizeBound DEF Running, Formed, PoolFormed, MachineFormed
  <2>2. actionIdx \in 0 .. MaxActs - 1
    BY <1>3, <2>1 DEF Running, Formed, MachineFormed, FsmConstants
  <2>3. Exited = [doing EXCEPT ![<<fsmState, actionIdx>>] = @ - 1]
    BY <1>3 DEF Exited
  <2>4. \A p \in DOMAIN doing : doing[p] = IF p = <<fsmState, actionIdx>> THEN 1 ELSE 0
    BY <1>3 DEF OneActionOpen
  <2> QED
    BY <1>1, <2>1, <2>2, <2>3, <2>4 DEF Counts
<1> QED
  BY <1>2, <1>3

(* When an action is entered then, it alone is open.                       *)
LEMMA EnteredOne ==
  ASSUME FsmConstants, PoolFormed,
         NEW d \in Counts, \A p \in Names \X (0 .. MaxActs - 1) : d[p] = 0,
         NEW n \in Registered, NEW i \in Nat
  PROVE  /\ Entered(d, n, i) \in Counts
         /\ \A p \in Names \X (0 .. MaxActs - 1) :
              Entered(d, n, i)[p] = IF i < Size(n) /\ p = <<n, i>> THEN 1 ELSE 0
<1>1. CASE i < Size(n)
  <2>1. n \in Names /\ i \in 0 .. MaxActs - 1
    BY <1>1, SizeBound DEF PoolFormed, FsmConstants
  <2>2. Entered(d, n, i) = [d EXCEPT ![<<n, i>>] = @ + 1]
    BY <1>1 DEF Entered
  <2> QED
    BY <1>1, <2>1, <2>2 DEF Counts
<1>2. CASE ~(i < Size(n))
  BY <1>2 DEF Entered, Counts
<1> QED
  BY <1>1, <1>2

(* A state is next that is among those met: v has it.                      *)
IsMet(v, e) == e # 0 => \E i \in DOMAIN v : Id(v[i]) = e

LEMMA MeetingFinds ==
  ASSUME NEW v \in Seq(Registered), NEW e, IsMet(v, e), NEW n \in Found
  PROVE  /\ Meeting(v, n) \in Seq(Registered)
         /\ IsMet(Meeting(v, n), e)
         /\ IsMet(Meeting(v, n), Asking(e, n))
<1>1. IsMet(Meeting(v, n), e)
  BY MeetingAdds DEF IsMet
<1>2. IsMet(Meeting(v, n), Asking(e, n))
  BY <1>1, MeetingAdds DEF IsMet, Asking
<1> QED
  BY <1>1, <1>2, MeetingAdds

LEMMA NextIsMetAgain ==
  ASSUME UNCHANGED mapNameState
  PROVE  /\ NextIsMet <=> IsMet(vectState, eNextState)
         /\ NextIsMet' <=> IsMet(vectState', eNextState')
BY DEF NextIsMet, IsMet, Met, Id

LEMMA NextStateKeeps ==
  ASSUME Formed, NextIsMet, NEW n \in Found, NextState(n), UNCHANGED mapNameState
  PROVE  vectState' \in Seq(Registered) /\ NextIsMet'
BY MeetingFinds, NextIsMetAgain DEF NextState, Formed, MachineFormed

(* The relation of a state is followed to a registered one.                *)
LEMMA RelatedFinds ==
  ASSUME FsmConstants, PoolFormed, NEW v \in Seq(Registered)
  PROVE  Related(v) \in Found
BY StateInFinds DEF Related, Found

(* The pool at rest, what the steps of the machine leave to prove.         *)
LEMMA PoolRests ==
  ASSUME PoolFormed, UNCHANGED poolVars,
         vectState' \in Seq(Registered), fsmState' \in Registered \cup {0},
         actionIdx' \in Nat, doing' \in Counts
  PROVE  Formed'
<1>1. Registered' = Registered
  BY DEF Registered, poolVars
<1> QED
  BY <1>1 DEF Formed, PoolFormed, MachineFormed, Counts, poolVars

(* What does not touch the focus keeps the open action.                    *)
LEMMA FocusRests ==
  ASSUME OneActionOpen, UNCHANGED <<mapNameState, fsmState, actionIdx, doing>>
  PROVE  OneActionOpen'
BY DEF OneActionOpen, Running, Size

(* enterState() leaves the action in focus and enters the first of what it *)
(* found.                                                                  *)
LEMMA EnterStateKeeps ==
  ASSUME FsmConstants, IInv, UNCHANGED poolVars,
         NEW l \in Found, NEW n \in Found, NEW e, IsMet(vectState, e),
         EnterState(l, n, e)
  PROVE  IInv'
<1> USE DEF IInv, MachineSound
<1>1. PICK m \in Found :
        /\ vectState' = Meeting(Meeting(Meeting(vectState, l), n), m)
        /\ eNextState' = Asking(Asking(e, l), m)
  BY DEF EnterState, Callback, Found
<1>2. vectState \in Seq(Registered)
  BY DEF Formed, MachineFormed
<1> DEFINE v == Meeting(vectState, l)
           w == Meeting(v, n)
<1>3. v \in Seq(Registered) /\ IsMet(v, Asking(e, l))
  BY <1>2, MeetingFinds
<1>4. w \in Seq(Registered) /\ IsMet(w, Asking(e, l))
  BY <1>3, MeetingFinds
<1>5. vectState' \in Seq(Registered) /\ IsMet(vectState', eNextState')
  BY <1>1, <1>4, MeetingFinds
<1>7. NextIsMet'
  BY <1>5, NextIsMetAgain DEF poolVars
<1>8. Exited \in Counts /\ \A p \in Names \X (0 .. MaxActs - 1) : Exited[p] = 0
  BY ExitedNone
<1>9. CASE n = 0
  <2>1. doing' = Exited /\ actionIdx' = actionIdx /\ fsmState' = 0
    BY <1>9 DEF EnterState
  <2>2. Formed'
    BY <1>5, <1>8, <2>1, PoolRests DEF Formed, MachineFormed
  <2>3. OneActionOpen'
    BY <1>8, <2>1 DEF OneActionOpen, Running, Counts
  <2> QED
    BY <1>7, <2>2, <2>3
<1>10. CASE n # 0
  <2>1. doing' = Entered(Exited, n, 0) /\ actionIdx' = 0 /\ fsmState' = n
    BY <1>10 DEF EnterState
  <2>2. n \in Registered /\ n # 0
    BY <1>10 DEF Found
  <2>3. /\ doing' \in Counts
        /\ \A p \in Names \X (0 .. MaxActs - 1) :
             doing'[p] = IF 0 < Size(n) /\ p = <<n, 0>> THEN 1 ELSE 0
    BY <1>8, <2>1, <2>2, EnteredOne DEF Formed
  <2>4. Formed'
    BY <1>5, <2>1, <2>2, <2>3, PoolRests DEF Formed
  <2>5. Size(n)' = Size(n)
    BY DEF Size, poolVars
  <2>6. OneActionOpen'
    BY <2>1, <2>2, <2>3, <2>5 DEF OneActionOpen, Running, Counts
  <2> QED
    BY <1>7, <2>4, <2>6
<1> QED
  BY <1>9, <1>10

(* nextAction() leaves the action in focus and enters the one behind it.   *)
LEMMA NextActionKeeps ==
  ASSUME FsmConstants, IInv, UNCHANGED poolVars, fsmState # 0, NextAction
  PROVE  IInv'
<1> USE DEF IInv, MachineSound
<1>1. vectState' \in Seq(Registered) /\ NextIsMet'
  <2>1. PICK l \in Found :
          \E m \in IF NextIdx < Size(fsmState) THEN Found ELSE {Related(Meeting(vectState, l))} :
            /\ vectState' = Meeting(Meeting(vectState, l), m)
            /\ eNextState' = Asking(Asking(eNextState, l), m)
    BY DEF NextAction, Callback, Found
  <2> DEFINE v == Meeting(vectState, l)
             e == Asking(eNextState, l)
  <2>2. v \in Seq(Registered) /\ IsMet(v, e)
    BY MeetingFinds, NextIsMetAgain DEF poolVars, Formed, MachineFormed
  <2>3. Related(v) \in Found
    BY <2>2, RelatedFinds DEF Formed
  <2>4. PICK m \in Found : vectState' = Meeting(v, m) /\ eNextState' = Asking(e, m)
    BY <2>1, <2>3
  <2>5. vectState' \in Seq(Registered) /\ IsMet(vectState', eNextState')
    BY <2>2, <2>4, MeetingFinds
  <2> QED
    BY <2>5, NextIsMetAgain DEF poolVars
<1>2. fsmState \in Registered /\ actionIdx \in Nat /\ NextIdx \in Nat
  BY DEF Formed, MachineFormed, NextIdx
<1>3. Exited \in Counts /\ \A p \in Names \X (0 .. MaxActs - 1) : Exited[p] = 0
  BY ExitedNone
<1>4. doing' = Entered(Exited, fsmState, NextIdx) /\ actionIdx' = NextIdx /\ fsmState' = fsmState
  BY DEF NextAction
<1>5. /\ doing' \in Counts
      /\ \A p \in Names \X (0 .. MaxActs - 1) :
           doing'[p] = IF NextIdx < Size(fsmState) /\ p = <<fsmState, NextIdx>> THEN 1 ELSE 0
  BY <1>2, <1>3, <1>4, EnteredOne DEF Formed
<1>6. Formed'
  BY <1>1, <1>2, <1>4, <1>5, PoolRests DEF Formed
<1>7. Size(fsmState)' = Size(fsmState)
  BY <1>4 DEF Size, poolVars
<1>8. OneActionOpen'
  BY <1>4, <1>5, <1>7 DEF OneActionOpen, Running, Counts
<1> QED
  BY <1>1, <1>6, <1>8

(* nextAction() of a machine without a state asks for the first it has met.*)
LEMMA FirstStateKeeps ==
  ASSUME FsmConstants, IInv, UNCHANGED poolVars, FirstState
  PROVE  IInv'
<1> USE DEF IInv, MachineSound
<1>1. vectState' \in Seq(Registered) /\ NextIsMet'
  <2> DEFINE n == IF vectState = <<>> THEN 0 ELSE StateIn(vectState, Id(vectState[1]))
  <2>1. n \in Found
    BY StateInFinds DEF Found, Formed, MachineFormed
  <2>2. NextState(n)
    BY DEF FirstState
  <2> QED
    BY <2>1, <2>2, NextStateKeeps DEF poolVars
<1>2. UNCHANGED <<fsmState, actionIdx, doing>>
  BY DEF FirstState
<1>3. Formed'
  BY <1>1, <1>2, PoolRests DEF Formed, MachineFormed, Counts
<1> QED
  BY <1>1, <1>2, <1>3, FocusRests DEF poolVars

(* Steps of the machine that touch at most what is next.                   *)
LEMMA AskingKeeps ==
  ASSUME FsmConstants, IInv, UNCHANGED <<poolVars, fsmState, actionIdx, doing>>,
         vectState' \in Seq(Registered), NextIsMet'
  PROVE  IInv'
<1>1. Formed'
  BY PoolRests DEF IInv, Formed, MachineFormed, Counts
<1> QED
  BY <1>1, FocusRests DEF IInv, MachineSound, poolVars

LEMMA CallKeeps ==
  ASSUME FsmConstants, IInv, UNCHANGED poolVars, Call
  PROVE  IInv'
<1>1. CASE \E l, n \in Found : EnterState(l, n, eNextState)
  BY <1>1, EnterStateKeeps, NextIsMetAgain DEF IInv, MachineSound, poolVars
<1>2. CASE \E n \in Found : /\ NextState(n)
                          /\ UNCHANGED <<fsmState, actionIdx, eLastState, doing>>
  BY <1>2, NextStateKeeps, AskingKeeps DEF IInv, MachineSound, poolVars
<1>3. CASE IF fsmState = 0 THEN FirstState ELSE NextAction
  BY <1>3, FirstStateKeeps, NextActionKeeps
<1> QED
  BY <1>1, <1>2, <1>3 DEF Call

(* Registering a state gives it a name that was free.                      *)
LEMMA RegisterStateKeeps ==
  ASSUME FsmConstants, IInv,
         NEW n \in Names, NEW acts \in Lists, NEW eState \in Numbers \cup {-1},
         RegisterState(n, acts, eState)
  PROVE  IInv'
<1> USE DEF IInv, MachineSound
<1>1. n \notin Registered /\ UNCHANGED machineVars /\ uid' \in Int
  BY DEF RegisterState, Formed, PoolFormed
<1>2. CASE UNCHANGED mapNameState
  <2>1. Registered' = Registered /\ \A m : Size(m)' = Size(m) /\ Id(m)' = Id(m)
    BY <1>2 DEF Registered, Size, Id
  <2> QED
    BY <1>1, <1>2, <2>1 DEF Formed, PoolFormed, MachineFormed, machineVars,
       OneActionOpen, Running, NextIsMet, Met
<1>3. CASE mapNameState' =
             [m \in Registered \cup {n} |->
                IF m = n THEN [id |-> IF eState = -1 THEN -uid ELSE eState,
                               acts |-> acts, rel |-> 0]
                ELSE mapNameState[m]]
  <2>1. Registered' = Registered \cup {n}
    BY <1>3 DEF Registered
  <2>2. \A m \in Registered : mapNameState'[m] = mapNameState[m]
    BY <1>1, <1>3
  <2>3. (IF eState = -1 THEN -uid ELSE eState) \in Int
    BY DEF FsmConstants, Formed, PoolFormed
  <2>4. PoolFormed'
    BY <1>1, <1>3, <2>1, <2>3 DEF Formed, PoolFormed
  <2>5. MachineFormed'
    BY <1>1, <2>1 DEF Formed, MachineFormed, machineVars
  <2>6. OneActionOpen'
    BY <1>1, <2>2 DEF OneActionOpen, Running, Size, machineVars, Formed, MachineFormed
  <2>7. Met' = Met /\ \A m \in Met : Id(m)' = Id(m)
    BY <1>1, <2>2, MetRegistered DEF Met, Id, machineVars, Formed
  <2>8. NextIsMet'
    BY <1>1, <2>7 DEF NextIsMet, machineVars
  <2> QED
    BY <2>4, <2>5, <2>6, <2>8 DEF Formed
<1> QED
  BY <1>2, <1>3 DEF RegisterState

(* A relation changes no state's number and no state's actions.            *)
LEMMA RegisterRelationKeeps ==
  ASSUME FsmConstants, IInv, NEW n \in Names, NEW m \in Names,
         RegisterRelation(n, m)
  PROVE  IInv'
<1> USE DEF IInv, MachineSound
<1>1. /\ n \in Registered /\ m \in Registered
      /\ mapNameState' = [mapNameState EXCEPT ![n].rel = m]
      /\ UNCHANGED <<mapNameAction, uid, machineVars>>
  BY DEF RegisterRelation
<1>2. Registered' = Registered
  BY <1>1 DEF Registered
<1>3. \A k \in Registered : /\ mapNameState'[k].id = mapNameState[k].id
                            /\ mapNameState'[k].acts = mapNameState[k].acts
  BY <1>1 DEF Formed, PoolFormed
<1>4. PoolFormed'
  BY <1>1, <1>2 DEF Formed, PoolFormed
<1>5. MachineFormed'
  BY <1>1, <1>2 DEF Formed, MachineFormed, machineVars
<1>6. OneActionOpen'
  BY <1>1, <1>3 DEF OneActionOpen, Running, Size, machineVars, Formed, MachineFormed
<1>7. Met' = Met /\ \A k \in Met : Id(k)' = Id(k)
  BY <1>1, <1>3, MetRegistered DEF Met, Id, machineVars, Formed
<1>8. NextIsMet'
  BY <1>1, <1>7 DEF NextIsMet, machineVars
<1> QED
  BY <1>4, <1>5, <1>6, <1>8 DEF Formed

LEMMA PoolKeeps ==
  ASSUME FsmConstants, IInv, Pool
  PROVE  IInv'
<1>1. CASE \E a \in Actions : RegisterAction(a)
  BY <1>1 DEF RegisterAction, machineVars, IInv, Formed, PoolFormed, MachineFormed,
     MachineSound, OneActionOpen, Running, NextIsMet, Met, Registered, Size, Id
<1> QED
  BY <1>1, RegisterStateKeeps, RegisterRelationKeeps DEF Pool

-----------------------------------------------------------------------------
LEMMA InitSound == FsmConstants /\ Init => IInv
<1> SUFFICES ASSUME FsmConstants, Init PROVE IInv
  OBVIOUS
<1>1. Registered = {} /\ mapNameState = <<>>
  BY DEF Init, Registered
<1>2. PoolFormed
  BY <1>1 DEF PoolFormed, Init
<1>3. MachineFormed
  BY DEF MachineFormed, Init
<1>4. MachineSound
  BY DEF Init, MachineSound, OneActionOpen, NextIsMet, Running
<1> QED
  BY <1>2, <1>3, <1>4 DEF IInv, Formed

LEMMA NextSound ==
  ASSUME FsmConstants, IInv, [Next]_vars
  PROVE  IInv'
<1>1. CASE Register
  BY <1>1, PoolKeeps DEF Register
<1>2. CASE CallFromOutside
  BY <1>2, CallKeeps DEF CallFromOutside
<1>3. CASE Update
  <2>1. NextIsMet' /\ vectState' \in Seq(Registered)
    BY <1>3 DEF Update, NextIsMet, IInv, Formed, MachineFormed
  <2> QED
    BY <1>3, <2>1, AskingKeeps DEF Update
<1>4. CASE UpdateState
  <2>1. CASE Running
    BY <1>4, <2>1, CallKeeps DEF UpdateState
  <2>2. CASE ~Running
    <3>1. NextState(Related(vectState)) /\ UNCHANGED <<fsmState, actionIdx, eLastState, doing>>
      BY <1>4, <2>2 DEF UpdateState
    <3>2. Related(vectState) \in Found
      BY RelatedFinds DEF IInv, Formed, MachineFormed
    <3> QED
      BY <1>4, <3>1, <3>2, NextStateKeeps, AskingKeeps
      DEF UpdateState, IInv, MachineSound, poolVars
  <2> QED
    BY <2>1, <2>2
<1>5. CASE EnterNext
  <2>1. PICK l \in Found :
          EnterState(l, StateIn(Meeting(vectState, l), eNextState), 0) /\ UNCHANGED poolVars
    BY <1>5 DEF EnterNext
  <2>2. StateIn(Meeting(vectState, l), eNextState) \in Found
    BY MeetingAdds, StateInFinds DEF IInv, Formed, MachineFormed
  <2>3. IsMet(vectState, 0)
    BY DEF IsMet
  <2> QED
    BY <2>1, <2>2, <2>3, EnterStateKeeps
<1>6. CASE Return
  <2>1. NextIsMet' /\ vectState' \in Seq(Registered)
    BY <1>6 DEF Return, NextIsMet, Met, Id, poolVars, IInv, MachineSound, Formed, MachineFormed
  <2> QED
    BY <1>6, <2>1, AskingKeeps DEF Return
<1>7. CASE UNCHANGED vars
  BY <1>7 DEF vars, poolVars, machineVars, IInv, Formed, PoolFormed, MachineFormed,
     MachineSound, OneActionOpen, Running, NextIsMet, Met, Registered, Size, Id
<1> QED
  BY <1>1, <1>2, <1>3, <1>4, <1>5, <1>6, <1>7 DEF Next

(* In a machine of any states and actions, whatever the program calls from *)
(* outside, from update() of an action or from its callbacks, of all       *)
(* actions the one in focus is entered and not left, and the state that is *)
(* asked for next has been met (OpenFSM::enterState, nextAction, update).  *)
THEOREM FsmSound == Spec => []MachineSound
<1>1. Init => IInv
  BY FsmAssumption, InitSound
<1>2. IInv /\ [Next]_vars => IInv'
  BY FsmAssumption, NextSound
<1>3. IInv => MachineSound
  BY DEF IInv
<1> QED
  BY <1>1, <1>2, <1>3, PTL DEF Spec

-----------------------------------------------------------------------------
(* A recursion over the natural numbers whose values stay within a set S   *)
(* has a solution: each stretch of it does, and two of them agree.         *)
Stretch(S, x, F, n, g) ==
  g \in [0 .. n -> S] /\ g[0] = x /\ \A k \in 1 .. n : g[k] = F[k][g[k - 1]]

LEMMA StretchExists ==
  ASSUME NEW S, NEW x \in S, NEW F \in [Nat -> [S -> S]]
  PROVE  \A n \in Nat : \E g : Stretch(S, x, F, n, g)
<1> DEFINE T == {n \in Nat : ~\E g : Stretch(S, x, F, n, g)}
<1>1. SUFFICES ASSUME T # {} PROVE FALSE
  OBVIOUS
<1>2. PICK n \in T : \A m \in T : n <= m
  BY <1>1, HasLeast
<1>3. n \in Nat /\ ~\E g : Stretch(S, x, F, n, g)
  OBVIOUS
<1>4. n # 0
  <2>1. Stretch(S, x, F, 0, [k \in 0 .. 0 |-> x])
    BY DEF Stretch
  <2> QED
    BY <1>3, <2>1
<1>5. n - 1 \in Nat /\ n - 1 \notin T
  BY <1>2, <1>3, <1>4
<1>6. PICK g : Stretch(S, x, F, n - 1, g)
  BY <1>5
<1> DEFINE h == [k \in 0 .. n |-> IF k = n THEN F[n][g[n - 1]] ELSE g[k]]
<1>7. g[n - 1] \in S /\ F[n] \in [S -> S]
  BY <1>3, <1>5, <1>6 DEF Stretch
<1>8. h \in [0 .. n -> S] /\ h[0] = x
  BY <1>3, <1>4, <1>6, <1>7 DEF Stretch
<1>9. ASSUME NEW k \in 1 .. n PROVE h[k] = F[k][h[k - 1]]
  <2>1. k - 1 \in 0 .. n - 1 /\ h[k - 1] = g[k - 1]
    BY <1>3
  <2>2. CASE k = n
    BY <2>1, <2>2
  <2>3. CASE k # n
    <3>1. k \in 1 .. n - 1
      BY <1>3, <2>3
    <3>2. h[k] = g[k] /\ g[k] = F[k][g[k - 1]]
      BY <1>6, <2>3, <3>1 DEF Stretch
    <3> QED
      BY <2>1, <3>2
  <2> QED
    BY <2>2, <2>3
<1>10. Stretch(S, x, F, n, h)
  BY <1>8, <1>9 DEF Stretch
<1> QED
  BY <1>3, <1>10

LEMMA StretchesAgree ==
  ASSUME NEW S, NEW x, NEW F, NEW n \in Nat, NEW m \in Nat, NEW g, NEW h,
         Stretch(S, x, F, n, g), Stretch(S, x, F, m, h), NEW k \in 0 .. n, k <= m
  PROVE  g[k] = h[k]
<1> DEFINE T == {i \in 0 .. n : i <= m /\ g[i] # h[i]}
<1>1. SUFFICES ASSUME T # {} PROVE FALSE
  OBVIOUS
<1>2. PICK i \in T : \A j \in T : i <= j
  <2>1. T \subseteq Nat
    OBVIOUS
  <2> QED
    BY <1>1, <2>1, HasLeast
<1>3. i \in 0 .. n /\ i \in 0 .. m /\ g[i] # h[i]
  OBVIOUS
<1>4. i # 0
  BY <1>3 DEF Stretch
<1>5. i - 1 \in 0 .. n /\ i - 1 \in 0 .. m /\ ~(i <= i - 1)
  BY <1>3, <1>4
<1>6. i - 1 \notin T
  BY <1>2, <1>5
<1>7. g[i - 1] = h[i - 1]
  BY <1>5, <1>6
<1>8. i \in 1 .. n /\ i \in 1 .. m
  BY <1>3, <1>4
<1>9. g[i] = F[i][g[i - 1]] /\ h[i] = F[i][h[i - 1]]
  BY <1>8 DEF Stretch
<1> QED
  BY <1>3, <1>7, <1>9

Solved(S, x, F) ==
  \E f \in [Nat -> S] : \A n \in Nat : f[n] = IF n = 0 THEN x ELSE F[n][f[n - 1]]

(* So a function is defined by such a recursion.                           *)
LEMMA Recursion ==
  ASSUME NEW S, NEW x \in S, NEW F \in [Nat -> [S -> S]]
  PROVE  Solved(S, x, F)
<1> DEFINE one(n) == CHOOSE g : Stretch(S, x, F, n, g)
           f == [n \in Nat |-> one(n)[n]]
<1>1. \A n \in Nat : Stretch(S, x, F, n, one(n))
  BY StretchExists
<1> HIDE DEF one
<1>2. f \in [Nat -> S]
  BY <1>1 DEF Stretch
<1>3. ASSUME NEW n \in Nat PROVE f[n] = IF n = 0 THEN x ELSE F[n][f[n - 1]]
  <2>1. CASE n = 0
    BY <1>1, <2>1 DEF Stretch
  <2>2. CASE n # 0
    <3>1. n - 1 \in Nat /\ n - 1 \in 0 .. n /\ n - 1 <= n - 1 /\ n \in 1 .. n
      BY <2>2
    <3>2. one(n)[n] = F[n][one(n)[n - 1]]
      BY <1>1, <3>1 DEF Stretch
    <3>3. one(n)[n - 1] = one(n - 1)[n - 1]
      BY <1>1, <3>1, StretchesAgree
    <3> QED
      BY <2>2, <3>1, <3>2, <3>3
  <2> QED
    BY <2>1, <2>2
<1> QED
  BY <1>2, <1>3 DEF Solved

-----------------------------------------------------------------------------
(* OpenBuffer.                                                             *)

(* A byte that was put in, a length, or what new memory holds.             *)
Cell == Byte \cup Nat \cup {Junk}
(* The inductive invariant.                                                *)
BufferInv == mem \in Seq(Cell) /\ InMemory

(* The doubling of cap_ is what its recursion says.                        *)
LEMMA DoublingIs ==
  doubled = [k \in Nat |-> IF k = 0 THEN MiniCap ELSE 2 * doubled[k - 1]]
<1> DEFINE twice == [k \in Nat |-> [c \in Nat |-> 2 * c]]
<1>1. Solved(Nat, MiniCap, twice)
  <2>1. MiniCap \in Nat /\ twice \in [Nat -> [Nat -> Nat]]
    BY SizesNat
  <2> HIDE DEF twice
  <2> QED
    BY <2>1, Recursion
<1>2. PICK f \in [Nat -> Nat] :
        \A k \in Nat : f[k] = IF k = 0 THEN MiniCap ELSE twice[k][f[k - 1]]
  <2> HIDE DEF twice
  <2> QED
    BY <1>1 DEF Solved
<1>3. ASSUME NEW k \in Nat PROVE f[k] = IF k = 0 THEN MiniCap ELSE 2 * f[k - 1]
  <2>1. CASE k = 0
    BY <1>2, <2>1
  <2>2. CASE k # 0
    <3>1. k - 1 \in Nat /\ f[k - 1] \in Nat
      BY <1>2, <2>2
    <3> QED
      BY <1>2, <2>2, <3>1
  <2> QED
    BY <2>1, <2>2
<1>4. f = [k \in Nat |-> IF k = 0 THEN MiniCap ELSE 2 * f[k - 1]]
  BY <1>3
<1> HIDE DEF twice
<1> QED
  BY <1>4 DEF doubled

(* It passes every number,                                                 *)
LEMMA DoublingGrows == \A k \in Nat : doubled[k] \in Nat /\ doubled[k] > k
<1> DEFINE T == {k \in Nat : ~(doubled[k] \in Nat /\ doubled[k] > k)}
<1>1. SUFFICES ASSUME T # {} PROVE FALSE
  OBVIOUS
<1>2. PICK n \in T : \A k \in T : n <= k
  BY <1>1, HasLeast
<1>3. n \in Nat /\ doubled[n] = IF n = 0 THEN MiniCap ELSE 2 * doubled[n - 1]
  BY DoublingIs
<1>4. n # 0
  BY <1>3, SizesNat
<1>5. n - 1 \in Nat /\ n - 1 \notin T
  BY <1>2, <1>3, <1>4
<1>6. doubled[n - 1] \in Nat /\ doubled[n - 1] > n - 1
  BY <1>5
<1> QED
  BY <1>3, <1>4, <1>6

(* and so the loop of pushBack() ends, with a capacity that is enough.     *)
LEMMA DoubledEnough ==
  ASSUME NEW need \in Nat
  PROVE  Doubled(need) \in Nat /\ Doubled(need) >= need
<1> DEFINE T == {k \in Nat : doubled[k] >= need}
           P(k) == doubled[k] >= need /\ \A j \in 0 .. k - 1 : doubled[j] < need
<1>1. need \in T
  BY DoublingGrows
<1>2. PICK k \in T : \A j \in T : k <= j
  BY <1>1, HasLeast
<1>3. k \in 0 .. need
  BY <1>1, <1>2
<1>4. P(k)
  <2> SUFFICES ASSUME NEW j \in 0 .. k - 1 PROVE doubled[j] < need
    OBVIOUS
  <2>1. j \in Nat /\ j \notin T
    BY <1>2, <1>3
  <2> QED
    BY <2>1, DoublingGrows
<1> DEFINE c == CHOOSE i \in 0 .. need : P(i)
<1>5. c \in 0 .. need /\ P(c)
  BY <1>3, <1>4
<1>6. Doubled(need) = doubled[c]
  BY DEF Doubled
<1> HIDE DEF c
<1> QED
  BY <1>5, <1>6, DoublingGrows

-----------------------------------------------------------------------------
(* n times the same is a sequence.                                         *)
LEMMA FillIs ==
  ASSUME NEW n \in Nat, NEW x \in Cell
  PROVE  Fill(n, x) \in Seq(Cell) /\ Len(Fill(n, x)) = n
<1>1. Fill(n, x) \in [1 .. n -> Cell]
  BY DEF Fill
<1> QED
  BY <1>1

(* A part of the memory, from place i + 1, of n cells.                     *)
LEMMA PartIs ==
  ASSUME NEW m \in Seq(Cell), NEW i \in Nat, NEW n \in Nat, i + n <= Len(m)
  PROVE  LET p == SubSeq(m, i + 1, i + n) IN
         /\ p \in Seq(Cell) /\ Len(p) = n
         /\ \A k \in 1 .. n : p[k] = m[i + k]
<1>1. \A k \in i + 1 .. i + n : m[k] \in Cell
  <2>1. \A k \in i + 1 .. i + n : k \in 1 .. Len(m)
    OBVIOUS
  <2> QED
    BY <2>1
<1>2. i + 1 \in Int /\ i + n \in Int
  OBVIOUS
<1> DEFINE p == SubSeq(m, i + 1, i + n)
<1>3. /\ p \in Seq(Cell)
      /\ Len(p) = IF i + 1 <= i + n THEN i + n - (i + 1) + 1 ELSE 0
      /\ \A k \in 1 .. i + n - (i + 1) + 1 : p[k] = m[i + 1 + k - 1]
  BY <1>1, <1>2, SubSeqProperties
<1> HIDE DEF p
<1>4. i + n - (i + 1) + 1 = n /\ \A k \in 1 .. n : i + 1 + k - 1 = i + k
  OBVIOUS
<1>5. Len(p) = n
  BY <1>3
<1>6. \A k \in 1 .. n : p[k] = m[i + k]
  BY <1>3, <1>4
<1> QED
  BY <1>3, <1>5, <1>6 DEF p

(* What is in use, when the invariant holds.                               *)
LEMMA BytesAre ==
  ASSUME BufferInv
  PROVE  /\ bytes \in Seq(Cell) /\ Len(bytes) = size
         /\ \A k \in 1 .. size : bytes[k] = mem[offset + k]
<1>1. offset + size <= Len(mem)
  <2>1. CASE mem = <<>>
    BY <2>1 DEF BufferInv, InMemory
  <2>2. CASE mem # <<>>
    BY <2>2 DEF BufferInv, InMemory
  <2> QED
    BY <2>1, <2>2
<1>2. mem \in Seq(Cell) /\ size \in Nat /\ offset \in Nat
  BY DEF BufferInv, InMemory
<1> QED
  BY <1>1, <1>2, PartIs DEF bytes

(* memcpy() to place i + 1 changes no more than that many cells.           *)
LEMMA OverIs ==
  ASSUME NEW m \in Seq(Cell), NEW i \in Nat, NEW s \in Seq(Cell), i + Len(s) <= Len(m)
  PROVE  /\ Over(m, i, s) \in Seq(Cell) /\ Len(Over(m, i, s)) = Len(m)
         /\ \A k \in 1 .. i : Over(m, i, s)[k] = m[k]
         /\ \A k \in 1 .. Len(s) : Over(m, i, s)[i + k] = s[k]
<1>1. Len(s) \in Nat /\ Len(m) \in Nat
  OBVIOUS
<1> DEFINE p == SubSeq(m, 1, i)
           q == SubSeq(m, i + Len(s) + 1, Len(m))
<1>2. p \in Seq(Cell) /\ Len(p) = i /\ \A k \in 1 .. i : p[k] = m[k]
  <2>1. 0 \in Nat /\ 0 + i <= Len(m) /\ 0 + 1 = 1 /\ 0 + i = i /\ \A k \in 1 .. i : 0 + k = k
    BY <1>1
  <2> QED
    BY <2>1, PartIs
<1>3. q \in Seq(Cell) /\ Len(q) = Len(m) - i - Len(s)
  <2>1. /\ i + Len(s) \in Nat /\ Len(m) - i - Len(s) \in Nat
        /\ i + Len(s) + (Len(m) - i - Len(s)) = Len(m)
    BY <1>1
  <2> QED
    BY <2>1, PartIs
<1> HIDE DEF p, q
<1> DEFINE ps == p \o s
           r == ps \o q
<1>4. Over(m, i, s) = r
  BY DEF Over, p, q
<1>5. /\ ps \in Seq(Cell) /\ Len(ps) = i + Len(s)
      /\ \A k \in 1 .. i + Len(s) : ps[k] = IF k <= i THEN p[k] ELSE s[k - i]
  BY <1>2, ConcatProperties
<1>11. ps \in Seq(Cell)
  BY <1>5
<1> HIDE DEF ps
<1>6. /\ r \in Seq(Cell) /\ Len(r) = Len(ps) + Len(q)
      /\ \A k \in 1 .. Len(ps) + Len(q) : r[k] = IF k <= Len(ps) THEN ps[k] ELSE q[k - Len(ps)]
  <2>1. q \in Seq(Cell)
    BY <1>3
  <2> QED
    BY <1>11, <2>1, ConcatProperties
<1> HIDE DEF r
<1>7. Len(r) = Len(m)
  BY <1>1, <1>3, <1>5, <1>6
<1>8. \A k \in 1 .. i + Len(s) : r[k] = IF k <= i THEN p[k] ELSE s[k - i]
  <2>1. \A k \in 1 .. i + Len(s) : k \in 1 .. Len(ps) + Len(q) /\ k <= Len(ps)
    BY <1>1, <1>3, <1>5
  <2> QED
    BY <1>5, <1>6, <2>1
<1>9. \A k \in 1 .. i : r[k] = m[k]
  <2>1. \A k \in 1 .. i : k \in 1 .. i + Len(s) /\ k <= i
    BY <1>1
  <2> QED
    BY <1>2, <1>8, <2>1
<1>10. \A k \in 1 .. Len(s) : r[i + k] = s[k]
  <2>1. \A k \in 1 .. Len(s) : /\ i + k \in 1 .. i + Len(s) /\ ~(i + k <= i)
                               /\ (i + k) - i = k
    BY <1>1
  <2> QED
    BY <1>8, <2>1
<1> QED
  BY <1>4, <1>6, <1>7, <1>9, <1>10

(* Bytes that end up behind the others are appended.                       *)
LEMMA JoinedAt ==
  ASSUME NEW m \in Seq(Cell), NEW o \in Nat, NEW b \in Seq(Cell), NEW s \in Seq(Cell),
         o + (Len(b) + Len(s)) <= Len(m),
         \A k \in 1 .. Len(b) : m[o + k] = b[k],
         \A k \in 1 .. Len(s) : m[o + Len(b) + k] = s[k]
  PROVE  SubSeq(m, o + 1, o + (Len(b) + Len(s))) = b \o s
<1>1. Len(b) \in Nat /\ Len(s) \in Nat
  OBVIOUS
<1> DEFINE n == Len(b) + Len(s)
           p == SubSeq(m, o + 1, o + n)
<1>0. n \in Nat /\ o + n <= Len(m)
  BY <1>1
<1> HIDE DEF n
<1>2. p \in Seq(Cell) /\ Len(p) = n /\ \A k \in 1 .. n : p[k] = m[o + k]
  BY <1>0, PartIs
<1>3. /\ b \o s \in Seq(Cell) /\ Len(b \o s) = n
      /\ \A k \in 1 .. n : (b \o s)[k] = IF k <= Len(b) THEN b[k] ELSE s[k - Len(b)]
  BY ConcatProperties DEF n
<1> HIDE DEF p
<1>4. ASSUME NEW k \in 1 .. n PROVE p[k] = (b \o s)[k]
  <2>1. CASE k <= Len(b)
    <3>1. k \in 1 .. Len(b)
      BY <1>0, <1>1, <2>1
    <3> QED
      BY <1>2, <1>3, <2>1, <3>1
  <2>2. CASE k > Len(b)
    <3>1. k - Len(b) \in 1 .. Len(s) /\ o + Len(b) + (k - Len(b)) = o + k
      BY <1>1, <2>2 DEF n
    <3>2. m[o + k] = s[k - Len(b)]
      BY <3>1
    <3> QED
      BY <1>1, <1>2, <1>3, <2>2, <3>2
  <2>3. k <= Len(b) \/ k > Len(b)
    BY <1>0, <1>1
  <2> QED
    BY <2>1, <2>2, <2>3
<1>5. \A k \in 1 .. Len(p) : p[k] = (b \o s)[k]
  BY <1>2, <1>4
<1>6. p = b \o s
  BY <1>2, <1>3, <1>5, SeqEqual
<1> QED
  BY <1>6 DEF p, n

-----------------------------------------------------------------------------
(* pushBack() into memory that holds the bytes from offset_ on, and has    *)
(* room for what comes behind them, appends to the bytes.                  *)
LEMMA PushedInto ==
  ASSUME BufferInv, NEW s \in Seq(Cell), NEW m \in Seq(Cell), NEW o \in Nat, NEW c \in Nat,
         o + size + Len(s) <= c, Len(m) = c + 2, \A k \in 1 .. size : m[o + k] = bytes[k],
         mem' = Over(m, o + size, s), offset' = o, cap' = c, size' = size + Len(s),
         Did("push", s)
  PROVE  BufferInv' /\ B!Push
<1>1. size \in Nat /\ Len(s) \in Nat
  BY DEF BufferInv, InMemory
<1>2. bytes \in Seq(Cell) /\ Len(bytes) = size
  BY BytesAre
<1> DEFINE r == Over(m, o + size, s)
<1>3. /\ r \in Seq(Cell) /\ Len(r) = c + 2
      /\ \A k \in 1 .. o + size : r[k] = m[k]
      /\ \A k \in 1 .. Len(s) : r[o + size + k] = s[k]
  BY <1>1, OverIs
<1> HIDE DEF r
<1>4. \A k \in 1 .. size : r[o + k] = bytes[k]
  <2>1. \A k \in 1 .. size : o + k \in 1 .. o + size
    BY <1>1
  <2> QED
    BY <1>3, <2>1
<1>5. SubSeq(r, o + 1, o + (Len(bytes) + Len(s))) = bytes \o s
  <2>1. o + (Len(bytes) + Len(s)) <= Len(r)
    BY <1>1, <1>2, <1>3
  <2>2. \A k \in 1 .. Len(bytes) : r[o + k] = bytes[k]
    BY <1>2, <1>4
  <2>3. \A k \in 1 .. Len(s) : r[o + Len(bytes) + k] = s[k]
    BY <1>2, <1>3
  <2> QED
    BY <1>2, <1>3, <2>1, <2>2, <2>3, JoinedAt
<1>6. mem' = r
  BY DEF r
<1>7. bytes' = SubSeq(r, o + 1, o + (size + Len(s)))
  BY <1>6 DEF bytes
<1>8. bytes' = bytes \o s
  BY <1>2, <1>5, <1>7
<1>9. BufferInv'
  <2>1. mem' # <<>>
    BY <1>3, <1>6
  <2>2. o + (size + Len(s)) <= c
    BY <1>1
  <2> QED
    BY <1>1, <1>3, <1>6, <2>1, <2>2 DEF BufferInv, InMemory, Did
<1> QED
  BY <1>8, <1>9 DEF B!Push, Did

(* What is moved or copied to new memory is there in front.                *)
LEMMA MovedThere ==
  ASSUME NEW b \in Seq(Cell), NEW t \in Seq(Cell)
  PROVE  /\ b \o t \in Seq(Cell) /\ Len(b \o t) = Len(b) + Len(t)
         /\ \A k \in 1 .. Len(b) : (b \o t)[0 + k] = b[k]
<1>1. Len(b) \in Nat /\ Len(t) \in Nat
  OBVIOUS
<1>2. /\ b \o t \in Seq(Cell) /\ Len(b \o t) = Len(b) + Len(t)
      /\ \A k \in 1 .. Len(b) + Len(t) : (b \o t)[k] = IF k <= Len(b) THEN b[k] ELSE t[k - Len(b)]
  BY ConcatProperties
<1>3. \A k \in 1 .. Len(b) : k \in 1 .. Len(b) + Len(t) /\ k <= Len(b) /\ 0 + k = k
  BY <1>1
<1> QED
  BY <1>2, <1>3

(* pushBack() of anything, whether it fits, moves the bytes or grows.      *)
LEMMA PushStep ==
  ASSUME BufferInv, NEW s \in Seq(Cell), PushBack(s), Did("push", s)
  PROVE  BufferInv' /\ B!Push
<1>1. /\ mem \in Seq(Cell) /\ size \in Nat /\ offset \in Nat /\ cap \in Nat
      /\ Len(s) \in Nat /\ offset + size <= cap
  BY DEF BufferInv, InMemory
<1>2. /\ bytes \in Seq(Cell) /\ Len(bytes) = size
      /\ \A k \in 1 .. size : bytes[k] = mem[offset + k]
  BY BytesAre
<1>3. mem # <<>> => Len(mem) = cap + 2
  BY DEF BufferInv, InMemory
<1>4. CASE s = <<>>
  <2>1. UNCHANGED <<mem, size, offset, cap>>
    BY <1>4 DEF PushBack
  <2>2. bytes' = bytes /\ bytes \o s = bytes
    BY <1>2, <1>4, <2>1, ConcatEmptySeq DEF bytes
  <2>3. BufferInv'
    BY <2>1 DEF BufferInv, InMemory, Did
  <2> QED
    BY <2>2, <2>3 DEF B!Push, Did
<1>5. CASE s # <<>>
  <2>1. size' = size + Len(s) /\ Len(s) > 0
    BY <1>1, <1>5 DEF PushBack
  <2>2. CASE PushFits(s)
    <3>1. /\ cap - offset >= size + Len(s)
          /\ mem' = Over(mem, offset + size, s) /\ offset' = offset /\ cap' = cap
      BY <2>2 DEF PushFits, Room
    <3>2. cap # 0 /\ offset + size + Len(s) <= cap
      BY <1>1, <2>1, <3>1
    <3>3. mem # <<>>
      BY <3>2 DEF BufferInv, InMemory
    <3> QED
      BY <1>1, <1>2, <1>3, <2>1, <3>1, <3>2, <3>3, PushedInto
  <2>3. CASE PushMoves(s)
    <3> DEFINE z == Fill(cap + 1 - size, 0)
               e == <<mem[cap + 2]>>
               m == bytes \o z \o e
    <3>1. /\ mem # <<>> /\ size + Len(s) < cap
          /\ mem' = Over(m, size, s) /\ offset' = 0 /\ cap' = cap
      BY <2>3 DEF PushMoves
    <3>2. z \in Seq(Cell) /\ Len(z) = cap + 1 - size
      <4>1. cap + 1 - size \in Nat /\ 0 \in Cell
        BY <1>1 DEF Cell
      <4> QED
        BY <4>1, FillIs
    <3>3. e \in Seq(Cell) /\ Len(e) = 1
      <4>1. mem[cap + 2] \in Cell
        BY <1>1, <1>3, <3>1
      <4> QED
        BY <4>1
    <3> HIDE DEF z, e
    <3>4. /\ bytes \o z \in Seq(Cell) /\ Len(bytes \o z) = cap + 1
          /\ \A k \in 1 .. size : (bytes \o z)[0 + k] = bytes[k]
      <4>1. Len(bytes \o z) = Len(bytes) + Len(z)
        BY <1>2, <3>2, MovedThere
      <4> QED
        BY <1>1, <1>2, <3>2, <4>1, MovedThere
    <3> DEFINE y == bytes \o z
    <3> HIDE DEF y
    <3>5. /\ y \in Seq(Cell) /\ Len(y) = cap + 1 /\ \A k \in 1 .. size : y[0 + k] = bytes[k]
      BY <3>4 DEF y
    <3>6. m = y \o e
      BY DEF y
    <3>7. /\ y \o e \in Seq(Cell) /\ Len(y \o e) = Len(y) + Len(e)
          /\ \A k \in 1 .. Len(y) : (y \o e)[0 + k] = y[k]
      BY <3>3, <3>5, MovedThere
    <3> HIDE DEF m
    <3>8. m \in Seq(Cell) /\ Len(m) = cap + 2
      BY <1>1, <3>3, <3>5, <3>6, <3>7
    <3>9. \A k \in 1 .. size : m[0 + k] = bytes[k]
      <4>1. \A k \in 1 .. size : k \in 1 .. Len(y) /\ 0 + k = k
        BY <1>1, <3>5
      <4> QED
        BY <3>5, <3>6, <3>7, <4>1
    <3>10. 0 + size = size /\ 0 \in Nat /\ 0 + size + Len(s) <= cap
      BY <1>1, <3>1
    <3> QED
      BY <1>1, <2>1, <3>1, <3>8, <3>9, <3>10, PushedInto
  <2>4. CASE PushGrows(s)
    <3> DEFINE c == Doubled(size + Len(s))
               z == Fill(c + 2 - size, 0)
               m == bytes \o z
    <3>1. c \in Nat /\ c >= size + Len(s)
      BY <1>1, DoubledEnough
    <3>2. mem' = Over(m, size, s) /\ offset' = 0 /\ cap' = c
      BY <2>4 DEF PushGrows
    <3> HIDE DEF c
    <3>3. z \in Seq(Cell) /\ Len(z) = c + 2 - size
      <4>1. c + 2 - size \in Nat /\ 0 \in Cell
        BY <1>1, <3>1 DEF Cell
      <4> QED
        BY <4>1, FillIs
    <3> HIDE DEF z
    <3>4. /\ m \in Seq(Cell) /\ Len(m) = Len(bytes) + Len(z)
          /\ \A k \in 1 .. size : m[0 + k] = bytes[k]
      BY <1>2, <3>3, MovedThere
    <3> HIDE DEF m
    <3>5. Len(m) = c + 2 /\ 0 + size = size /\ 0 \in Nat /\ 0 + size + Len(s) <= c
      BY <1>1, <1>2, <3>1, <3>3, <3>4
    <3> QED
      BY <1>1, <2>1, <3>1, <3>2, <3>4, <3>5, PushedInto
  <2> QED
    BY <1>5, <2>2, <2>3, <2>4 DEF PushBack
<1> QED
  BY <1>4, <1>5

-----------------------------------------------------------------------------
(* What is put in is a sequence of cells,                                  *)
LEMMA StringsAre ==
  ASSUME NEW s \in Strings
  PROVE  s \in Seq(Cell) /\ Len(s) \in Nat
<1>1. PICK n \in 0 .. MaxPush : s \in [1 .. n -> Byte]
  BY DEF Strings
<1>2. n \in Nat /\ s \in [1 .. n -> Cell]
  BY <1>1, SizesNat DEF Cell
<1> QED
  BY <1>2

(* and comes behind the bytes: as it is, without data, behind its length.  *)
LEMMA PushesStep ==
  ASSUME BufferInv, Push \/ PushNull \/ PushString
  PROVE  BufferInv' /\ B!Push
<1>1. CASE Push
  <2>1. PICK s \in Strings : PushBack(s) /\ Did("push", s)
    BY <1>1 DEF Push
  <2> QED
    BY <2>1, StringsAre, PushStep
<1>2. CASE PushNull
  <2>1. PICK n \in 1 .. MaxPush : PushRoom(n)
    BY <1>2 DEF PushNull
  <2> DEFINE old == SubSeq(mem, offset + size + 1, offset + size + n)
             zeros == Fill(n, 0)
             s == IF Room(zeros) THEN old ELSE zeros
  <2>2. PushBack(s) /\ Did("push", s)
    BY <2>1 DEF PushRoom
  <2>3. n \in Nat /\ n # 0 /\ 0 \in Cell
    BY SizesNat DEF Cell
  <2>4. zeros \in Seq(Cell) /\ Len(zeros) = n
    BY <2>3, FillIs
  <2>5. ASSUME Room(zeros) PROVE old \in Seq(Cell)
    <3>1. mem \in Seq(Cell) /\ size \in Nat /\ offset \in Nat /\ cap \in Nat
      BY DEF BufferInv, InMemory
    <3>2. cap - offset >= size + n
      BY <2>4, <2>5 DEF Room
    <3>3. cap # 0
      BY <2>3, <3>1, <3>2
    <3>4. Len(mem) = cap + 2
      BY <3>3 DEF BufferInv, InMemory
    <3>5. offset + size \in Nat /\ offset + size + n <= Len(mem)
      BY <2>3, <3>1, <3>2, <3>4
    <3> QED
      BY <2>3, <3>1, <3>5, PartIs
  <2>6. s \in Seq(Cell)
    BY <2>4, <2>5
  <2> HIDE DEF s
  <2> QED
    BY <2>2, <2>6, PushStep
<1>3. CASE PushString
  <2>1. PICK s \in Strings : PushBack(<<Len(s)>> \o s) /\ Did("push", <<Len(s)>> \o s)
    BY <1>3 DEF PushString
  <2>2. s \in Seq(Cell) /\ Len(s) \in Nat
    BY StringsAre
  <2>3. <<Len(s)>> \in Seq(Cell)
    BY <2>2 DEF Cell
  <2>4. <<Len(s)>> \o s \in Seq(Cell)
    BY <2>2, <2>3, ConcatProperties
  <2> QED
    BY <2>1, <2>4, PushStep
<1> QED
  BY <1>1, <1>2, <1>3

(* What is taken from the front was in front,                              *)
LEMMA TakeFrontStep ==
  ASSUME BufferInv, mem # <<>>, NEW n \in 0 .. size, TakeFront(n)
  PROVE  BufferInv' /\ B!Front
<1>1. /\ mem \in Seq(Cell) /\ size \in Nat /\ offset \in Nat /\ cap \in Nat
      /\ offset + size <= cap /\ Len(mem) = cap + 2
  BY DEF BufferInv, InMemory
<1>2. n \in Nat /\ size - n \in Nat
  BY <1>1
<1>3. /\ bytes \in Seq(Cell) /\ Len(bytes) = size
      /\ \A k \in 1 .. size : bytes[k] = mem[offset + k]
  BY BytesAre
<1> DEFINE b == bytes
           p == SubSeq(b, 1, n)
           q == SubSeq(mem, (offset + n) + 1, (offset + n) + (size - n))
<1>4. last' = [op |-> "front", data |-> p] /\ bytes' = q
  BY DEF TakeFront, Did, bytes
<1> HIDE DEF b
<1>5. b \in Seq(Cell) /\ Len(b) = size /\ \A k \in 1 .. size : b[k] = mem[offset + k]
  BY <1>3 DEF b
<1>6. p \in Seq(Cell) /\ Len(p) = n /\ \A k \in 1 .. n : p[k] = b[k]
  <2>1. 0 \in Nat /\ 0 + n <= Len(b) /\ 0 + 1 = 1 /\ 0 + n = n /\ \A k \in 1 .. n : 0 + k = k
    BY <1>2, <1>5
  <2> QED
    BY <1>2, <1>5, <2>1, PartIs
<1>7. /\ q \in Seq(Cell) /\ Len(q) = size - n
      /\ \A k \in 1 .. size - n : q[k] = mem[(offset + n) + k]
  <2>1. offset + n \in Nat /\ (offset + n) + (size - n) <= Len(mem)
    BY <1>1, <1>2
  <2> QED
    BY <1>1, <1>2, <2>1, PartIs
<1> HIDE DEF p, q
<1>8. SubSeq(b, 0 + 1, 0 + (Len(p) + Len(q))) = p \o q
  <2>1. \A k \in 1 .. Len(p) : b[0 + k] = p[k]
    <3>1. \A k \in 1 .. Len(p) : k \in 1 .. n /\ 0 + k = k
      BY <1>2, <1>6
    <3> QED
      BY <1>6, <3>1
  <2>2. \A k \in 1 .. Len(q) : b[0 + Len(p) + k] = q[k]
    <3>1. \A k \in 1 .. Len(q) : /\ k \in 1 .. size - n /\ 0 + Len(p) + k \in 1 .. size
                                 /\ offset + (0 + Len(p) + k) = (offset + n) + k
      BY <1>1, <1>2, <1>6, <1>7
    <3> QED
      BY <1>5, <1>7, <3>1
  <2>3. 0 + (Len(p) + Len(q)) <= Len(b) /\ 0 \in Nat
    BY <1>1, <1>2, <1>5, <1>6, <1>7
  <2> QED
    BY <1>5, <1>6, <1>7, <2>1, <2>2, <2>3, JoinedAt
<1>9. b = p \o q
  <2>1. 0 + 1 = 1 /\ 0 + (Len(p) + Len(q)) = Len(b)
    BY <1>1, <1>2, <1>5, <1>6, <1>7
  <2> QED
    BY <1>5, <1>8, <2>1, SubSeqFull
<1>10. BufferInv'
  <2>1. /\ UNCHANGED <<mem, cap>> /\ offset' = offset + n /\ size' = size - n
        /\ offset' \in Nat /\ size' \in Nat /\ offset' + size' <= cap
    BY <1>1, <1>2 DEF TakeFront
  <2> QED
    BY <1>4, <2>1 DEF BufferInv, InMemory
<1> QED
  BY <1>4, <1>9, <1>10 DEF B!Front, b

(* and a call that fails takes nothing.                                    *)
LEMMA FailsStep ==
  ASSUME BufferInv, Fails
  PROVE  BufferInv' /\ B!Look
<1>1. UNCHANGED <<mem, size, offset, cap>> /\ last'.op = "none"
  BY DEF Fails, Did
<1>2. bytes' = bytes
  BY <1>1 DEF bytes
<1> QED
  BY <1>1, <1>2 DEF BufferInv, InMemory, B!Look

(* popFront() and popString() do one or the other.                         *)
LEMMA PopFrontStep ==
  ASSUME BufferInv, PopFront \/ PopString
  PROVE  BufferInv' /\ (B!Front \/ B!Look)
<1>1. size \in Nat
  BY DEF BufferInv, InMemory
<1>2. CASE PopFront
  <2>1. PICK n \in 0 .. MaxPush : IF n > size THEN Fails ELSE mem # <<>> /\ TakeFront(n)
    BY <1>2 DEF PopFront
  <2>2. CASE n > size
    BY <2>1, <2>2, FailsStep
  <2>3. CASE ~(n > size)
    <3>1. n \in 0 .. size /\ mem # <<>> /\ TakeFront(n)
      BY <1>1, <2>1, <2>3, SizesNat
    <3> QED
      BY <3>1, TakeFrontStep
  <2> QED
    BY <2>2, <2>3
<1>3. CASE PopString
  <2>1. CASE size < 1
    BY <1>3, <2>1, FailsStep DEF PopString
  <2>2. CASE ~(size < 1)
    <3> DEFINE n == IF bytes[1] \in 1 .. size - 1 THEN bytes[1] + 1 ELSE 1
    <3>1. TakeFront(n)
      BY <1>3, <2>2 DEF PopString
    <3>2. n \in 0 .. size
      BY <1>1, <2>2
    <3>3. mem # <<>>
      BY <1>3 DEF PopString
    <3> HIDE DEF n
    <3> QED
      BY <3>1, <3>2, <3>3, TakeFrontStep
  <2> QED
    BY <2>1, <2>2
<1> QED
  BY <1>2, <1>3

(* What is taken from the back was at the back.                            *)
LEMMA PopBackStep ==
  ASSUME BufferInv, PopBack
  PROVE  BufferInv' /\ (B!Back \/ B!Look)
<1>1. PICK n \in 0 .. MaxPush :
        IF n > size THEN Fails
        ELSE /\ mem # <<>>
             /\ Did("back", SubSeq(bytes, size - n + 1, size))
             /\ size' = size - n
             /\ UNCHANGED <<mem, offset, cap>>
  BY DEF PopBack
<1>2. CASE n > size
  BY <1>1, <1>2, FailsStep
<1>3. CASE ~(n > size)
  <2>1. /\ mem \in Seq(Cell) /\ size \in Nat /\ offset \in Nat /\ cap \in Nat
        /\ offset + size <= cap /\ Len(mem) = cap + 2
    BY <1>1, <1>3 DEF BufferInv, InMemory
  <2>2. n \in Nat /\ size - n \in Nat /\ (size - n) + n = size
    BY <1>3, <2>1, SizesNat
  <2>3. /\ bytes \in Seq(Cell) /\ Len(bytes) = size
        /\ \A k \in 1 .. size : bytes[k] = mem[offset + k]
    BY BytesAre
  <2> DEFINE b == bytes
             p == SubSeq(mem, offset + 1, offset + (size - n))
             q == SubSeq(b, size - n + 1, size)
  <2>4. last' = [op |-> "back", data |-> q] /\ bytes' = p
    BY <1>1, <1>3 DEF Did, bytes
  <2> HIDE DEF b
  <2>5. b \in Seq(Cell) /\ Len(b) = size /\ \A k \in 1 .. size : b[k] = mem[offset + k]
    BY <2>3 DEF b
  <2>6. p \in Seq(Cell) /\ Len(p) = size - n /\ \A k \in 1 .. size - n : p[k] = mem[offset + k]
    <3>1. offset + (size - n) <= Len(mem)
      BY <2>1, <2>2
    <3> QED
      BY <2>1, <2>2, <3>1, PartIs
  <2>7. q \in Seq(Cell) /\ Len(q) = n /\ \A k \in 1 .. n : q[k] = b[(size - n) + k]
    <3> DEFINE i == size - n
    <3>1. i \in Nat /\ i + n <= Len(b) /\ i + n = size
      BY <2>2, <2>5
    <3> HIDE DEF i
    <3>2. LET t == SubSeq(b, i + 1, i + n) IN
          t \in Seq(Cell) /\ Len(t) = n /\ \A k \in 1 .. n : t[k] = b[i + k]
      BY <2>2, <2>5, <3>1, PartIs
    <3> QED
      BY <3>1, <3>2 DEF i
  <2> HIDE DEF p, q
  <2>8. SubSeq(b, 0 + 1, 0 + (Len(p) + Len(q))) = p \o q
    <3>1. \A k \in 1 .. Len(p) : b[0 + k] = p[k]
      <4>1. \A k \in 1 .. Len(p) : k \in 1 .. size - n /\ k \in 1 .. size /\ 0 + k = k
        BY <2>2, <2>1, <2>6
      <4> QED
        BY <2>5, <2>6, <4>1
    <3>2. \A k \in 1 .. Len(q) : b[0 + Len(p) + k] = q[k]
      <4>1. \A k \in 1 .. Len(q) : k \in 1 .. n /\ 0 + Len(p) + k = (size - n) + k
        BY <2>1, <2>2, <2>6, <2>7
      <4> QED
        BY <2>7, <4>1
    <3>3. 0 + (Len(p) + Len(q)) <= Len(b) /\ 0 \in Nat
      BY <2>1, <2>2, <2>5, <2>6, <2>7
    <3> QED
      BY <2>5, <2>6, <2>7, <3>1, <3>2, <3>3, JoinedAt
  <2>9. b = p \o q
    <3>1. 0 + 1 = 1 /\ 0 + (Len(p) + Len(q)) = Len(b)
      BY <2>1, <2>2, <2>5, <2>6, <2>7
    <3> QED
      BY <2>5, <2>8, <3>1, SubSeqFull
  <2>10. BufferInv'
    <3>1. /\ UNCHANGED <<mem, offset, cap>> /\ size' = size - n
          /\ size' \in Nat /\ offset + size' <= cap
      BY <1>1, <1>3, <2>1, <2>2
    <3> QED
      BY <2>4, <3>1 DEF BufferInv, InMemory
  <2> QED
    BY <2>4, <2>9, <2>10 DEF B!Back, b
<1> QED
  BY <1>2, <1>3

(* data() makes the memory or sets the byte behind the bytes to zero.      *)
LEMMA DataStep ==
  ASSUME BufferInv, Data
  PROVE  BufferInv' /\ B!Look
<1>1. /\ mem \in Seq(Cell) /\ size \in Nat /\ offset \in Nat /\ cap \in Nat
      /\ offset + size <= cap
  BY DEF BufferInv, InMemory
<1>2. UNCHANGED <<size, offset>> /\ last'.op = "none"
  BY DEF Data, Did
<1>3. /\ bytes \in Seq(Cell) /\ Len(bytes) = size
      /\ \A k \in 1 .. size : bytes[k] = mem[offset + k]
  BY BytesAre
<1>4. CASE mem = <<>>
  <2> DEFINE z == Fill(MiniCap + 1, Junk)
  <2>1. cap' = MiniCap /\ mem' = <<0>> \o z
    BY <1>4 DEF Data
  <2>2. z \in Seq(Cell) /\ Len(z) = MiniCap + 1
    <3>1. MiniCap + 1 \in Nat /\ Junk \in Cell
      BY SizesNat DEF Cell
    <3> QED
      BY <3>1, FillIs
  <2> HIDE DEF z
  <2>3. <<0>> \in Seq(Cell) /\ Len(<<0>>) = 1
    BY DEF Cell
  <2>4. mem' \in Seq(Cell) /\ Len(mem') = MiniCap + 2
    BY <2>1, <2>2, <2>3, ConcatProperties, SizesNat
  <2>5. size = 0 /\ offset = 0
    BY <1>1, <1>4 DEF BufferInv, InMemory
  <2>6. bytes = <<>> /\ bytes' = <<>>
    <3>1. offset + size < offset + 1 /\ offset + 1 \in Int /\ offset + size \in Int
      BY <1>1, <2>5
    <3> QED
      BY <1>2, <3>1, SubSeqEmpty DEF bytes
  <2>7. mem' # <<>>
    BY <2>4, SizesNat
  <2>8. BufferInv'
    BY <1>2, <2>1, <2>4, <2>5, <2>7, SizesNat DEF BufferInv, InMemory
  <2> QED
    BY <1>2, <2>6, <2>8 DEF B!Look
<1>5. CASE mem # <<>>
  <2> DEFINE i == offset + size + 1
             r == [mem EXCEPT ![i] = 0]
  <2>1. mem' = r /\ cap' = cap
    BY <1>5 DEF Data
  <2>2. Len(mem) = cap + 2
    BY <1>5 DEF BufferInv, InMemory
  <2>3. i \in 1 .. Len(mem) /\ 0 \in Cell
    BY <1>1, <2>2 DEF Cell
  <2> HIDE DEF i
  <2>4. /\ r \in Seq(Cell) /\ Len(r) = Len(mem)
        /\ \A j \in 1 .. Len(mem) : r[j] = IF j = i THEN 0 ELSE mem[j]
    BY <1>1, <2>3, ExceptSeq
  <2> HIDE DEF r
  <2>5. \A k \in 1 .. size : r[offset + k] = bytes[k]
    <3>1. \A k \in 1 .. size : offset + k \in 1 .. Len(mem) /\ offset + k # i
      BY <1>1, <2>2 DEF i
    <3> QED
      BY <1>3, <2>4, <3>1
  <2>6. bytes' = bytes
    <3> DEFINE p == SubSeq(r, offset + 1, offset + size)
    <3>1. offset + size <= Len(r)
      BY <1>1, <2>2, <2>4
    <3>2. p \in Seq(Cell) /\ Len(p) = size /\ \A k \in 1 .. size : p[k] = r[offset + k]
      BY <1>1, <2>4, <3>1, PartIs
    <3>3. bytes' = p
      BY <1>2, <2>1 DEF bytes
    <3> HIDE DEF p
    <3>4. \A k \in 1 .. Len(p) : p[k] = bytes[k]
      BY <2>5, <3>2
    <3>5. p = bytes
      BY <1>3, <3>2, <3>4, SeqEqual
    <3> QED
      BY <3>3, <3>5
  <2>7. mem' # <<>>
    BY <1>1, <2>1, <2>2, <2>4
  <2>8. BufferInv'
    BY <1>1, <1>2, <2>1, <2>2, <2>4, <2>7 DEF BufferInv, InMemory
  <2> QED
    BY <1>2, <2>6, <2>8 DEF B!Look
<1> QED
  BY <1>4, <1>5

(* clearResize() and clear() start again, with what the memory has.        *)
LEMMA RenewStep ==
  ASSUME BufferInv, Clear \/ \E n \in 0 .. MaxSize : ClearResize(n)
  PROVE  BufferInv' /\ B!Renew
<1>1. /\ mem \in Seq(Cell) /\ size \in Nat /\ offset \in Nat /\ cap \in Nat
      /\ offset + size <= cap
  BY DEF BufferInv, InMemory
<1>2. CASE Clear
  <2>1. /\ size' = 0 /\ offset' = 0 /\ UNCHANGED <<mem, cap>>
        /\ last' = [op |-> "renew", data |-> <<>>]
    BY <1>2 DEF Clear, Did
  <2>2. bytes' = <<>>
    <3>1. 0 + 0 < 0 + 1 /\ 0 + 1 \in Int /\ 0 + 0 \in Int
      OBVIOUS
    <3> QED
      BY <2>1, <3>1, SubSeqEmpty DEF bytes
  <2>3. BufferInv'
    BY <1>1, <2>1 DEF BufferInv, InMemory
  <2> QED
    BY <2>1, <2>2, <2>3 DEF B!Renew
<1>3. ASSUME NEW n \in 0 .. MaxSize, ClearResize(n)
      PROVE  BufferInv' /\ B!Renew
  <2>1. n \in Nat /\ offset' = 0 /\ size' = n
        /\ last' = [op |-> "renew", data |-> SubSeq(mem', 1, n)]
    BY <1>3, SizesNat DEF ClearResize, Did
  <2>2. bytes' = SubSeq(mem', 1, n)
    <3>1. 0 + 1 = 1 /\ 0 + n = n
      BY <2>1
    <3> QED
      BY <2>1, <3>1 DEF bytes
  <2>3. Junk \in Cell /\ 0 \in Cell
    BY DEF Cell
  <2>4. mem' \in Seq(Cell) /\ cap' \in Nat /\ n <= cap' /\ Len(mem') = cap' + 2
    <3>1. CASE cap >= n
      <4> DEFINE m == IF mem = <<>> THEN Fill(cap + 2, Junk) ELSE mem
                 r == [m EXCEPT ![cap + 1] = 0]
      <4>1. mem' = r /\ cap' = cap
        BY <1>3, <3>1 DEF ClearResize
      <4>2. m \in Seq(Cell) /\ Len(m) = cap + 2
        <5>1. CASE mem = <<>>
          BY <1>1, <2>3, <5>1, FillIs
        <5>2. CASE mem # <<>>
          BY <1>1, <5>2 DEF BufferInv, InMemory
        <5> QED
          BY <5>1, <5>2
      <4> HIDE DEF m
      <4>3. cap + 1 \in 1 .. Len(m)
        BY <1>1, <4>2
      <4>4. r \in Seq(Cell) /\ Len(r) = Len(m)
        BY <2>3, <4>2, <4>3, ExceptSeq
      <4> QED
        BY <1>1, <3>1, <4>1, <4>2, <4>4
    <3>2. CASE ~(cap >= n)
      <4> DEFINE z == Fill(n, Junk)
                 e == <<0, Junk>>
      <4>1. cap' = n /\ mem' = z \o e
        BY <1>3, <3>2 DEF ClearResize
      <4>2. z \in Seq(Cell) /\ Len(z) = n
        BY <2>1, <2>3, FillIs
      <4>3. e \in Seq(Cell) /\ Len(e) = 2
        BY <2>3
      <4> HIDE DEF z, e
      <4>4. z \o e \in Seq(Cell) /\ Len(z \o e) = Len(z) + Len(e)
        BY <4>2, <4>3, MovedThere
      <4> QED
        BY <2>1, <4>1, <4>2, <4>3, <4>4
    <3> QED
      BY <3>1, <3>2
  <2>5. mem' # <<>>
    BY <2>4
  <2>6. BufferInv'
    BY <2>1, <2>4, <2>5 DEF BufferInv, InMemory
  <2> QED
    BY <2>1, <2>2, <2>6 DEF B!Renew
<1> QED
  BY <1>2, <1>3

-----------------------------------------------------------------------------
(* Every step keeps the invariant and is one of Bytes.                     *)
LEMMA BufferStep ==
  ASSUME BufferInv, [BufferNext]_bufferVars
  PROVE  BufferInv' /\ [B!Next]_<<bytes, last>>
<1>1. CASE Push \/ PushNull \/ PushString
  BY <1>1, PushesStep DEF B!Next
<1>2. CASE PopFront \/ PopString
  BY <1>2, PopFrontStep DEF B!Next
<1>3. CASE PopBack
  BY <1>3, PopBackStep DEF B!Next
<1>4. CASE Data
  BY <1>4, DataStep DEF B!Next
<1>5. CASE Clear \/ \E n \in 0 .. MaxSize : ClearResize(n)
  BY <1>5, RenewStep DEF B!Next
<1>6. CASE UNCHANGED bufferVars
  <2>1. UNCHANGED <<mem, size, offset, cap, last>>
    BY <1>6 DEF bufferVars
  <2>2. bytes' = bytes
    BY <2>1 DEF bytes
  <2> QED
    BY <2>1, <2>2 DEF BufferInv, InMemory
<1> QED
  BY <1>1, <1>2, <1>3, <1>4, <1>5, <1>6 DEF BufferNext

(* A new buffer is empty, and has no memory.                               *)
LEMMA BufferStart ==
  ASSUME BufferInit
  PROVE  BufferInv /\ B!Init
<1>1. mem = <<>> /\ size = 0 /\ offset = 0 /\ cap = 0 /\ last = [op |-> "none", data |-> <<>>]
  BY DEF BufferInit
<1>2. bytes = <<>>
  <2>1. 0 + 0 < 0 + 1 /\ 0 + 1 \in Int /\ 0 + 0 \in Int
    OBVIOUS
  <2> QED
    BY <1>1, <2>1, SubSeqEmpty DEF bytes
<1>3. BufferInv
  BY <1>1 DEF BufferInv, InMemory
<1> QED
  BY <1>1, <1>2, <1>3 DEF B!Init

-----------------------------------------------------------------------------
(* What division by 2^7 leaves.                                            *)
LEMMA DivMod ==
  ASSUME NEW x \in Nat
  PROVE  /\ x \div Base \in Nat /\ x % Base \in 0 .. Base - 1
         /\ x = Base * (x \div Base) + (x % Base)
<1>1. x % Base \in 0 .. Base - 1
  BY WordFits
<1>2. x \div Base \in Nat
  BY WordFits
<1>3. x = Base * (x \div Base) + (x % Base)
  BY WordFits
<1> QED
  BY <1>1, <1>2, <1>3

(* What is a remainder already stays, with the bit and without.            *)
LEMMA ModSame ==
  /\ \A x \in 0 .. Base - 1 : x % Base = x /\ (x + Base) % Base = x
  /\ \A x \in 0 .. Word - 1 : x % Word = x
BY WordFits

(* A shift to the right divides the bound of a number, too.                *)
LEMMA DivBelow ==
  ASSUME NEW x \in Nat, NEW y \in Nat, x < Base * y
  PROVE  x \div Base < y
<1> DEFINE q == x \div Base
           r == x % Base
<1>1. q \in Nat /\ r \in Nat /\ x = Base * q + r
  BY DivMod
<1> HIDE DEF q, r
<1>2. Base * q + r < Base * y
  BY <1>1
<1>3. q < y
  BY <1>1, <1>2, WordFits
<1> QED
  BY <1>3 DEF q

(* n >> 7 * i, for the five groups of 32 bits.                             *)
LEMMA ShiftedIs ==
  ASSUME NEW n \in Nat
  PROVE  /\ Shifted(n, 0) = n
         /\ \A i \in 1 .. 5 : Shifted(n, i) = Shifted(n, i - 1) \div Base
         /\ \A i \in 0 .. 5 : Shifted(n, i) \in Nat
<1> DEFINE d(x) == x \div Base
           f == [j \in 0 .. 5 |-> IF j = 0 THEN n ELSE IF j = 1 THEN d(n)
                                  ELSE IF j = 2 THEN d(d(n)) ELSE IF j = 3 THEN d(d(d(n)))
                                  ELSE IF j = 4 THEN d(d(d(d(n)))) ELSE d(d(d(d(d(n)))))]
           Is(s) == s = [j \in 0 .. 5 |-> IF j = 0 THEN n ELSE s[j - 1] \div Base]
           g == CHOOSE s : Is(s)
<1>1. Is(f)
  <2> HIDE DEF d
  <2>1. \A j \in 0 .. 5 : f[j] = IF j = 0 THEN n ELSE d(f[j - 1])
    OBVIOUS
  <2>2. f = [j \in 0 .. 5 |-> IF j = 0 THEN n ELSE d(f[j - 1])]
    BY <2>1
  <2> HIDE DEF f
  <2> QED
    BY <2>2 DEF d
<1>2. Is(g)
  BY <1>1
<1>3. \A i \in 0 .. 5 : Shifted(n, i) = g[i]
  BY DEF Shifted
<1>4. g[0] = n /\ \A i \in 1 .. 5 : g[i] = g[i - 1] \div Base
  <2>1. \A i \in 0 .. 5 : g[i] = IF i = 0 THEN n ELSE g[i - 1] \div Base
    BY <1>2
  <2> HIDE DEF g
  <2>2. \A i \in 1 .. 5 : i \in 0 .. 5 /\ i # 0
    OBVIOUS
  <2> QED
    BY <2>1, <2>2
<1> HIDE DEF g
<1>5. \A i \in 1 .. 5 : i \in 0 .. 5 /\ i - 1 \in 0 .. 5
  OBVIOUS
<1>6. g[0] \in Nat /\ g[1] \in Nat /\ g[2] \in Nat /\ g[3] \in Nat /\ g[4] \in Nat /\ g[5] \in Nat
  <2>1. g[0] \in Nat
    BY <1>4
  <2>2. g[1] \in Nat
    BY <1>4, <2>1, DivMod
  <2>3. g[2] \in Nat
    BY <1>4, <2>2, DivMod
  <2>4. g[3] \in Nat
    BY <1>4, <2>3, DivMod
  <2>5. g[4] \in Nat
    BY <1>4, <2>4, DivMod
  <2>6. g[5] \in Nat
    BY <1>4, <2>5, DivMod
  <2> QED
    BY <2>1, <2>2, <2>3, <2>4, <2>5, <2>6
<1>7. \A i \in 0 .. 5 : g[i] \in Nat
  <2>1. \A i \in 0 .. 5 : i = 0 \/ i = 1 \/ i = 2 \/ i = 3 \/ i = 4 \/ i = 5
    OBVIOUS
  <2> QED
    BY <1>6, <2>1
<1> QED
  BY <1>3, <1>4, <1>5, <1>7

(* The fifth group of 32 bits is the last.                                 *)
LEMMA FifthLast ==
  ASSUME NEW n \in 0 .. Word - 1
  PROVE  Shifted(n, 4) < Base
<1>1. n \in Nat /\ n < Base * (Base * (Base * (Base * Base)))
  BY WordFits
<1>2. /\ Base \in Nat /\ Base * Base \in Nat /\ Base * (Base * Base) \in Nat
      /\ Base * (Base * (Base * Base)) \in Nat
  BY WordFits
<1> DEFINE s(i) == Shifted(n, i)
<1>3. /\ s(0) = n /\ s(1) = s(0) \div Base /\ s(2) = s(1) \div Base
      /\ s(3) = s(2) \div Base /\ s(4) = s(3) \div Base
      /\ s(0) \in Nat /\ s(1) \in Nat /\ s(2) \in Nat /\ s(3) \in Nat
  BY <1>1, ShiftedIs
<1> HIDE DEF s
<1>4. s(1) < Base * (Base * (Base * Base))
  BY <1>1, <1>2, <1>3, DivBelow
<1>5. s(2) < Base * (Base * Base)
  BY <1>2, <1>3, <1>4, DivBelow
<1>6. s(3) < Base * Base
  BY <1>2, <1>3, <1>5, DivBelow
<1>7. s(4) < Base
  BY <1>2, <1>3, <1>6, DivBelow
<1> QED
  BY <1>7 DEF s

(* The groups up to the last that is not 0.                                *)
LEMMA GroupsAre ==
  ASSUME NEW n \in Nat
  PROVE  /\ Groups(n) \in 1 .. 5
         /\ Groups(n) = 5 \/ Shifted(n, Groups(n)) = 0
<1> DEFINE P(k) == /\ k = 5 \/ Shifted(n, k) = 0
                   /\ \A j \in 1 .. k - 1 : Shifted(n, j) > 0
           T == {k \in 1 .. 5 : k = 5 \/ Shifted(n, k) = 0}
<1>1. PICK k \in T : \A j \in T : k <= j
  <2>1. 5 \in T /\ T \subseteq Nat
    OBVIOUS
  <2> QED
    BY <2>1, HasLeast
<1>2. P(k)
  <2> SUFFICES ASSUME NEW j \in 1 .. k - 1 PROVE Shifted(n, j) > 0
    OBVIOUS
  <2>1. j \in 1 .. 5 /\ j \in 0 .. 5 /\ j \notin T
    BY <1>1
  <2>2. Shifted(n, j) \in Nat /\ Shifted(n, j) # 0
    BY <2>1, ShiftedIs
  <2> QED
    BY <2>2
<1> HIDE DEF T
<1>3. \E i \in 1 .. 5 : P(i)
  BY <1>1, <1>2 DEF T
<1>4. Groups(n) = CHOOSE i \in 1 .. 5 : P(i)
  BY DEF Groups
<1>5. Groups(n) \in 1 .. 5 /\ P(Groups(n))
  BY <1>3, <1>4
<1> QED
  BY <1>5

(* pushVInt32(): every byte but the last has the bit, and without the bit  *)
(* they are the groups.                                                    *)
LEMMA VIntIs ==
  ASSUME NEW n \in 1 .. Word - 1
  PROVE  LET k == Groups(n)  p == VInt(n) IN
         /\ k \in Nat \ {0} /\ p \in Seq(Nat) /\ Len(p) = k
         /\ \A i \in 1 .. k - 1 : p[i] >= Base
         /\ p[k] < Base
         /\ \A i \in 1 .. k : /\ Shifted(n, i - 1) \in Nat
                              /\ p[i] % Base = Shifted(n, i - 1) % Base
         /\ \A i \in 1 .. k - 1 :
               Shifted(n, i - 1) = (Shifted(n, i - 1) % Base) + Base * Shifted(n, i)
         /\ Shifted(n, k - 1) = Shifted(n, k - 1) % Base
<1> DEFINE s(i) == Shifted(n, i)
           k == Groups(n)
           p == [i \in 1 .. k |-> (s(i - 1) % Base) + IF i < k THEN Base ELSE 0]
<1>1. n \in Nat /\ n # 0
  OBVIOUS
<1>2. VInt(n) = p
  BY <1>1 DEF VInt, Group
<1>3. k \in 1 .. 5 /\ (k = 5 \/ s(k) = 0)
  BY <1>1, GroupsAre
<1>4. /\ \A i \in 1 .. 5 : s(i) = s(i - 1) \div Base
      /\ \A i \in 0 .. 5 : s(i) \in Nat
  BY <1>1, ShiftedIs
<1>5. s(4) < Base
  <2>1. n \in 0 .. Word - 1
    OBVIOUS
  <2> QED
    BY <2>1, FifthLast
<1> HIDE DEF s, k
<1>6. \A i \in 1 .. k : i - 1 \in 0 .. 5 /\ s(i - 1) \in Nat /\ s(i - 1) % Base \in 0 .. Base - 1
  <2> SUFFICES ASSUME NEW i \in 1 .. k
               PROVE  i - 1 \in 0 .. 5 /\ s(i - 1) \in Nat /\ s(i - 1) % Base \in 0 .. Base - 1
    OBVIOUS
  <2>1. i - 1 \in 0 .. 5
    BY <1>3
  <2> QED
    BY <1>4, <2>1, DivMod
<1>7. p \in Seq(Nat) /\ Len(p) = k
  <2>1. p \in [1 .. k -> Nat]
    BY <1>6, WordFits
  <2>2. k \in Nat
    BY <1>3
  <2> QED
    BY <2>1, <2>2
<1>8. /\ \A i \in 1 .. k - 1 : p[i] = (s(i - 1) % Base) + Base
      /\ p[k] = s(k - 1) % Base
  <2>1. \A i \in 1 .. k - 1 : i \in 1 .. k /\ i < k
    BY <1>3
  <2>2. k \in 1 .. k /\ ~(k < k)
    BY <1>3
  <2>3. p[k] = (s(k - 1) % Base) + 0
    BY <2>2
  <2> QED
    BY <1>6, <2>1, <2>2, <2>3
<1> HIDE DEF p
<1>9. \A i \in 1 .. k - 1 : i \in 1 .. k
  BY <1>3
<1>10. \A i \in 1 .. k - 1 : p[i] >= Base
  BY <1>6, <1>8, <1>9, WordFits
<1>11. k \in 1 .. k
  BY <1>3
<1>12. p[k] < Base
  BY <1>6, <1>8, <1>11, WordFits
<1>13. \A i \in 1 .. k : p[i] % Base = s(i - 1) % Base
  <2> SUFFICES ASSUME NEW i \in 1 .. k PROVE p[i] % Base = s(i - 1) % Base
    OBVIOUS
  <2>1. s(i - 1) % Base \in 0 .. Base - 1
    BY <1>6
  <2>2. CASE i = k
    BY <1>8, <2>1, <2>2, ModSame
  <2>3. CASE i # k
    <3>1. i \in 1 .. k - 1
      BY <1>3, <2>3
    <3> QED
      BY <1>8, <2>1, <3>1, ModSame
  <2> QED
    BY <2>2, <2>3
<1>14. \A i \in 1 .. k - 1 : s(i - 1) = (s(i - 1) % Base) + Base * s(i)
  <2> SUFFICES ASSUME NEW i \in 1 .. k - 1 PROVE s(i - 1) = (s(i - 1) % Base) + Base * s(i)
    OBVIOUS
  <2>1. i \in 1 .. 5 /\ s(i - 1) \in Nat
    BY <1>3, <1>6, <1>9
  <2>2. s(i) = s(i - 1) \div Base
    BY <1>4, <2>1
  <2> DEFINE x == s(i - 1)
  <2>3. x \in Nat
    BY <2>1
  <2> HIDE DEF x
  <2>4. x \div Base \in Nat /\ x % Base \in Nat /\ x = Base * (x \div Base) + (x % Base)
    BY <2>3, DivMod
  <2>5. x = (x % Base) + Base * (x \div Base)
    BY <2>3, <2>4, WordFits
  <2> QED
    BY <2>2, <2>5 DEF x
<1>15. s(k - 1) = s(k - 1) % Base
  <2> DEFINE x == s(k - 1)
  <2>1. x \in Nat
    BY <1>6, <1>11
  <2>2. x < Base
    <3>1. CASE k = 5
      BY <1>5, <3>1
    <3>2. CASE s(k) = 0
      <4>1. x \div Base = 0
        BY <1>3, <1>4, <3>2
      <4> HIDE DEF x
      <4>2. x % Base \in 0 .. Base - 1 /\ x = Base * (x \div Base) + (x % Base)
        BY <2>1, DivMod
      <4> QED
        BY <4>1, <4>2, WordFits
    <3> QED
      BY <1>3, <3>1, <3>2
  <2> HIDE DEF x
  <2>3. x \in 0 .. Base - 1
    BY <2>1, <2>2, WordFits
  <2>4. x % Base = x
    BY <2>3, ModSame
  <2> QED
    BY <2>4 DEF x
<1>16. k \in Nat \ {0}
  BY <1>3
<1> QED
  BY <1>2, <1>6, <1>7, <1>10, <1>12, <1>13, <1>14, <1>15, <1>16 DEF s, k

(* popVInt64() stops at the first byte without the bit, and collects the   *)
(* groups up to it.                                                        *)
LEMMA PopVIntIs ==
  ASSUME NEW n \in 1 .. Word - 1, NEW b \in Nat
  PROVE  PopVInt(VInt(n) \o <<b>>) = <<n, Len(VInt(n))>>
<1> DEFINE s(i) == Shifted(n, i)
           k == Groups(n)
           p == VInt(n)
           q == p \o <<b>>
<1>1. /\ k \in Nat \ {0} /\ p \in Seq(Nat) /\ Len(p) = k
      /\ \A i \in 1 .. k - 1 : p[i] >= Base
      /\ p[k] < Base
      /\ \A i \in 1 .. k : s(i - 1) \in Nat /\ p[i] % Base = s(i - 1) % Base
      /\ \A i \in 1 .. k - 1 : s(i - 1) = (s(i - 1) % Base) + Base * s(i)
      /\ s(k - 1) = s(k - 1) % Base
  BY VIntIs
<1>2. s(0) = n
  BY ShiftedIs
<1> HIDE DEF s, k, p
<1>3. q \in Seq(Nat) /\ Len(q) = k + 1 /\ \A i \in 1 .. k : q[i] = p[i]
  <2>1. <<b>> \in Seq(Nat) /\ Len(<<b>>) = 1
    OBVIOUS
  <2>2. /\ q \in Seq(Nat) /\ Len(q) = Len(p) + Len(<<b>>)
        /\ \A i \in 1 .. Len(p) + Len(<<b>>) : q[i] = IF i <= Len(p) THEN p[i] ELSE <<b>>[i - Len(p)]
    BY <1>1, <2>1, ConcatProperties
  <2> HIDE DEF q
  <2>3. \A i \in 1 .. k : i \in 1 .. Len(p) + Len(<<b>>) /\ i <= Len(p)
    BY <1>1, <2>1
  <2> QED
    BY <1>1, <2>1, <2>2, <2>3
<1> HIDE DEF q
<1> DEFINE Last(j) == q[j] < Base /\ \A i \in 1 .. j - 1 : q[i] >= Base
           stop == CHOOSE j \in 1 .. Len(q) : Last(j)
<1>4. stop = k
  <2>1. k \in 1 .. Len(q) /\ Last(k)
    <3>1. k \in 1 .. Len(q) /\ k \in 1 .. k /\ \A i \in 1 .. k - 1 : i \in 1 .. k
      BY <1>1, <1>3
    <3> QED
      BY <1>1, <1>3, <3>1
  <2>2. stop \in 1 .. Len(q) /\ Last(stop)
    BY <2>1
  <2> HIDE DEF stop
  <2>3. q[k] < Base /\ \A i \in 1 .. k - 1 : q[i] >= Base
    BY <2>1
  <2>4. q[stop] < Base /\ \A i \in 1 .. stop - 1 : q[i] >= Base
    BY <2>2
  <2>5. ~(stop < k) /\ ~(k < stop)
    <3>1. q[k] \in Nat /\ q[stop] \in Nat
      BY <1>3, <2>1, <2>2
    <3>2. stop < k => stop \in 1 .. k - 1
      BY <1>1, <2>2
    <3>3. k < stop => k \in 1 .. stop - 1
      BY <1>1, <2>2
    <3> QED
      BY <2>3, <2>4, <3>1, <3>2, <3>3, WordFits
  <2> QED
    BY <1>1, <2>2, <2>5
<1> DEFINE Is(f) == f = [i \in 1 .. k + 1 |->
                           IF i = k + 1 THEN 0 ELSE (q[i] % Base) + Base * f[i + 1]]
           sum == CHOOSE f : Is(f)
           g == [i \in 1 .. k + 1 |-> IF i = k + 1 THEN 0 ELSE s(i - 1)]
<1>5. PopVInt(q) = <<sum[1] % Word, k>>
  BY <1>4 DEF PopVInt
<1> HIDE DEF stop, Last
<1>6. \A i \in 1 .. k : g[i] = (q[i] % Base) + Base * g[i + 1]
  <2> SUFFICES ASSUME NEW i \in 1 .. k PROVE g[i] = (q[i] % Base) + Base * g[i + 1]
    OBVIOUS
  <2>1. q[i] % Base = s(i - 1) % Base
    BY <1>1, <1>3
  <2>2. g[i] = s(i - 1) /\ s(i - 1) \in Nat
    <3>1. i \in 1 .. k + 1 /\ i # k + 1
      BY <1>1
    <3>2. g[i] = s(i - 1)
      BY <3>1
    <3>3. s(i - 1) \in Nat
      BY <1>1
    <3> QED
      BY <3>2, <3>3
  <2>3. CASE i = k
    <3>1. g[i + 1] = 0
      BY <1>1, <2>3
    <3> HIDE DEF g
    <3>2. s(i - 1) = (s(i - 1) % Base) + Base * 0
      <4>1. s(i - 1) = s(i - 1) % Base
        BY <1>1, <2>3
      <4>2. \A x \in Nat : x = x + Base * 0
        BY WordFits
      <4> QED
        BY <2>2, <4>1, <4>2
    <3> QED
      BY <2>1, <2>2, <3>1, <3>2
  <2>4. CASE i # k
    <3>1. i \in 1 .. k - 1 /\ i + 1 \in 1 .. k + 1 /\ i + 1 # k + 1 /\ (i + 1) - 1 = i
      BY <1>1, <2>4
    <3>2. g[i + 1] = s(i)
      BY <3>1
    <3> HIDE DEF g
    <3> QED
      BY <1>1, <2>1, <2>2, <3>1, <3>2
  <2> QED
    BY <2>3, <2>4
<1>7. Is(g)
  <2>1. g[k + 1] = 0
    BY <1>1
  <2>2. \A i \in 1 .. k + 1 : i # k + 1 => i \in 1 .. k
    BY <1>1
  <2>3. \A i \in 1 .. k + 1 : g[i] = IF i = k + 1 THEN 0 ELSE (q[i] % Base) + Base * g[i + 1]
    BY <1>6, <2>1, <2>2
  <2>4. g = [i \in 1 .. k + 1 |-> g[i]]
    OBVIOUS
  <2> HIDE DEF g
  <2> QED
    BY <2>3, <2>4
<1>8. Is(sum)
  BY <1>7
<1> HIDE DEF sum, g
<1>9. sum[k + 1] = 0 /\ \A i \in 1 .. k : sum[i] = (q[i] % Base) + Base * sum[i + 1]
  <2>1. \A i \in 1 .. k + 1 :
          sum[i] = IF i = k + 1 THEN 0 ELSE (q[i] % Base) + Base * sum[i + 1]
    BY <1>8
  <2>2. k + 1 \in 1 .. k + 1 /\ \A i \in 1 .. k : i \in 1 .. k + 1 /\ i # k + 1
    BY <1>1
  <2> QED
    BY <2>1, <2>2
<1>10. \A j \in 0 .. k : sum[k + 1 - j] = g[k + 1 - j]
  <2> DEFINE T == {j \in 0 .. k : sum[k + 1 - j] # g[k + 1 - j]}
  <2>1. SUFFICES ASSUME T # {} PROVE FALSE
    OBVIOUS
  <2>2. PICK j \in T : \A i \in T : j <= i
    <3>1. T \subseteq Nat
      OBVIOUS
    <3> QED
      BY <2>1, <3>1, HasLeast
  <2>3. j \in 0 .. k /\ sum[k + 1 - j] # g[k + 1 - j]
    OBVIOUS
  <2>4. g[k + 1] = 0
    BY <1>1 DEF g
  <2>5. j # 0
    <3>1. k + 1 - 0 = k + 1
      BY <1>1
    <3> QED
      BY <1>9, <2>3, <2>4, <3>1
  <2>6. j - 1 \in 0 .. k /\ ~(j <= j - 1) /\ k + 1 - j \in 1 .. k
        /\ k + 1 - (j - 1) = (k + 1 - j) + 1
    BY <1>1, <2>3, <2>5
  <2>7. j - 1 \notin T
    BY <2>2, <2>6
  <2>8. sum[k + 1 - (j - 1)] = g[k + 1 - (j - 1)]
    BY <2>6, <2>7
  <2> QED
    BY <1>6, <1>9, <2>3, <2>6, <2>8
<1>11. sum[1] = n
  <2>1. k \in 0 .. k /\ k + 1 - k = 1
    BY <1>1
  <2>2. g[1] = s(0)
    <3>1. 1 \in 1 .. k + 1 /\ 1 # k + 1 /\ 1 - 1 = 0
      BY <1>1
    <3> QED
      BY <3>1 DEF g
  <2> QED
    BY <1>2, <1>10, <2>1, <2>2
<1>12. n % Word = n
  <2>1. n \in 0 .. Word - 1
    OBVIOUS
  <2> QED
    BY <2>1, ModSame
<1>13. PopVInt(q) = <<n, Len(p)>>
  BY <1>1, <1>5, <1>11, <1>12
<1> QED
  BY <1>13 DEF p, q

(* A buffer is a queue of bytes, open at both ends: what comes out is what *)
(* went in, wherever pushBack() put it, and no call steps over the memory; *)
(* and every number but 0 that is put in as an integer comes back.         *)
THEOREM BufferTheorem == BufferSpec => BufferSound
<1>1. BufferInit => BufferInv /\ B!Init
  BY BufferStart
<1>2. BufferInv /\ [BufferNext]_bufferVars => BufferInv' /\ [B!Next]_<<bytes, last>>
  BY BufferStep
<1>3. VIntsReturn
  <2> SUFFICES ASSUME NEW n \in Values \ {0}, NEW b \in 0 .. 2 * Base - 1
               PROVE  PopVInt(VInt(n) \o <<b>>) = <<n, Len(VInt(n))>>
    BY DEF VIntsReturn
  <2>1. n \in 1 .. Word - 1 /\ b \in Nat
    BY ValuesFit, WordFits
  <2> QED
    BY <2>1, PopVIntIs
<1>4. BufferInv => InMemory
  BY DEF BufferInv
<1> QED
  BY <1>1, <1>2, <1>3, <1>4, PTL DEF BufferSpec, BufferSound, B!Spec

-----------------------------------------------------------------------------
(* HttpFraming.                                                            *)

(* What some sequences are, one behind the other.                          *)
AreJoined(T, ss) ==
  /\ Joined(ss, 0) = <<>>
  /\ \A n \in 1 .. Len(ss) : Joined(ss, n) = Joined(ss, n - 1) \o ss[n]
  /\ \A n \in 0 .. Len(ss) : Joined(ss, n) \in Seq(T)

LEMMA JoinedIs ==
  ASSUME NEW T, NEW ss \in Seq(Seq(T))
  PROVE  AreJoined(T, ss)
<1> DEFINE L == Len(ss)
           S == Seq(T)
           F == [n \in Nat |-> [v \in S |-> IF n \in 1 .. L THEN v \o ss[n] ELSE v]]
           Goal(g) == g = [i \in 0 .. L |-> IF i = 0 THEN <<>> ELSE g[i - 1] \o ss[i]]
           g == CHOOSE g : Goal(g)
<1>1. L \in Nat /\ \A n \in 1 .. L : ss[n] \in S
  OBVIOUS
<1>2. F \in [Nat -> [S -> S]] /\ <<>> \in S
  BY <1>1
<1> HIDE DEF F, S
<1>3. PICK f \in [Nat -> S] : \A n \in Nat : f[n] = IF n = 0 THEN <<>> ELSE F[n][f[n - 1]]
  <2>1. Solved(S, <<>>, F)
    BY <1>2, Recursion
  <2> QED
    BY <2>1 DEF Solved
<1> DEFINE h == [i \in 0 .. L |-> f[i]]
<1>4. ASSUME NEW i \in 0 .. L
      PROVE  h[i] = IF i = 0 THEN <<>> ELSE h[i - 1] \o ss[i]
  <2>1. CASE i = 0
    BY <1>1, <1>3, <2>1
  <2>2. CASE i # 0
    <3>1. i \in Nat /\ i \in 1 .. L /\ i - 1 \in 0 .. L /\ i - 1 \in Nat
      BY <1>1, <2>2
    <3>2. f[i] = F[i][f[i - 1]] /\ f[i - 1] \in S
      BY <1>3, <2>2, <3>1
    <3>3. F[i][f[i - 1]] = f[i - 1] \o ss[i]
      BY <3>1, <3>2 DEF F, S
    <3> QED
      BY <2>2, <3>1, <3>2, <3>3
  <2> QED
    BY <2>1, <2>2
<1>5. Goal(h)
  BY <1>4
<1>6. Goal(g)
  BY <1>5
<1>7. \A n : Joined(ss, n) = g[n]
  BY DEF Joined
<1> HIDE DEF g
<1>8. g[0] = <<>> /\ \A n \in 1 .. L : g[n] = g[n - 1] \o ss[n]
  <2>1. 0 \in 0 .. L /\ \A n \in 1 .. L : n \in 0 .. L /\ n # 0
    BY <1>1
  <2> QED
    BY <1>6, <2>1
<1>9. \A n \in 0 .. L : g[n] \in S
  <2> DEFINE Q == {n \in 0 .. L : g[n] \notin S}
  <2>1. SUFFICES ASSUME Q # {} PROVE FALSE
    OBVIOUS
  <2>2. Q \subseteq Nat
    OBVIOUS
  <2>3. PICK n \in Q : \A m \in Q : n <= m
    BY <2>1, <2>2, HasLeast
  <2>4. n # 0
    BY <1>2, <1>8
  <2>5. n \in 1 .. L /\ n - 1 \in 0 .. L /\ ~(n <= n - 1)
    BY <1>1, <2>4
  <2>6. g[n - 1] \in S
    BY <2>3, <2>5
  <2> QED
    <3>1. g[n] = g[n - 1] \o ss[n] /\ ss[n] \in S /\ g[n] \notin S
      BY <1>1, <1>8, <2>5
    <3> QED
      BY <2>6, <3>1 DEF S
<1> QED
  BY <1>7, <1>8, <1>9 DEF S, AreJoined

(* Digits make a number.                                                   *)
LEMMA NumberNat ==
  ASSUME NEW d \in Seq(Nat)
  PROVE  Number(d) \in Nat
<1> DEFINE L == Len(d)
           F == [n \in Nat |-> [v \in Nat |-> IF n \in 1 .. L THEN 16 * v + d[n] ELSE v]]
           Goal(g) == g = [i \in 0 .. L |-> IF i = 0 THEN 0 ELSE 16 * g[i - 1] + d[i]]
           g == CHOOSE g : Goal(g)
<1>1. L \in Nat /\ \A n \in 1 .. L : d[n] \in Nat
  OBVIOUS
<1>2. F \in [Nat -> [Nat -> Nat]] /\ 0 \in Nat
  BY <1>1
<1> HIDE DEF F
<1>3. PICK f \in [Nat -> Nat] : \A n \in Nat : f[n] = IF n = 0 THEN 0 ELSE F[n][f[n - 1]]
  <2>1. Solved(Nat, 0, F)
    BY <1>2, Recursion
  <2> QED
    BY <2>1 DEF Solved
<1> DEFINE h == [i \in 0 .. L |-> f[i]]
<1>4. ASSUME NEW i \in 0 .. L
      PROVE  h[i] = IF i = 0 THEN 0 ELSE 16 * h[i - 1] + d[i]
  <2>1. CASE i = 0
    BY <1>1, <1>3, <2>1
  <2>2. CASE i # 0
    <3>1. i \in Nat /\ i \in 1 .. L /\ i - 1 \in 0 .. L /\ i - 1 \in Nat
      BY <1>1, <2>2
    <3>2. f[i] = F[i][f[i - 1]] /\ f[i - 1] \in Nat
      BY <1>3, <2>2, <3>1
    <3>3. F[i][f[i - 1]] = 16 * f[i - 1] + d[i]
      BY <3>1, <3>2 DEF F
    <3> QED
      BY <2>2, <3>1, <3>2, <3>3
  <2> QED
    BY <2>1, <2>2
<1>5. Goal(h)
  BY <1>4
<1>6. Goal(g)
  BY <1>5
<1>7. Number(d) = g[L]
  BY DEF Number
<1> HIDE DEF g
<1> DEFINE Q == {n \in 0 .. L : g[n] \notin Nat}
<1>8. Q # {} => FALSE
  <2>1. SUFFICES ASSUME Q # {} PROVE FALSE
    OBVIOUS
  <2>2. Q \subseteq Nat
    OBVIOUS
  <2>3. PICK n \in Q : \A m \in Q : n <= m
    BY <2>1, <2>2, HasLeast
  <2>4. n # 0
    BY <1>1, <1>6
  <2>5. n \in 1 .. L /\ n - 1 \in 0 .. L /\ ~(n <= n - 1)
    BY <1>1, <2>4
  <2>6. g[n - 1] \in Nat /\ g[n] = 16 * g[n - 1] + d[n]
    BY <1>6, <2>3, <2>4, <2>5
  <2> QED
    <3>1. d[n] \in Nat /\ g[n] \notin Nat
      BY <1>1, <2>5
    <3>2. \A a, b \in Nat : 16 * a + b \in Nat
      OBVIOUS
    <3>3. 16 * g[n - 1] + d[n] \in Nat
      BY <2>6, <3>1, <3>2
    <3> QED
      BY <2>6, <3>1, <3>3
<1>9. L \in 0 .. L
  BY <1>1
<1> QED
  BY <1>7, <1>8, <1>9

(* What is left of a sequence when n of it are dropped.                    *)
LEMMA DropIs ==
  ASSUME NEW T, NEW s \in Seq(T), NEW n \in 0 .. Len(s)
  PROVE  /\ Drop(s, n) \in Seq(T) /\ Len(Drop(s, n)) = Len(s) - n
         /\ \A i \in 1 .. Len(s) - n : Drop(s, n)[i] = s[n + i]
<1>1. Len(s) \in Nat /\ n + 1 \in Int /\ \A i \in n + 1 .. Len(s) : s[i] \in T
  OBVIOUS
<1>2. /\ SubSeq(s, n + 1, Len(s)) \in Seq(T)
      /\ Len(SubSeq(s, n + 1, Len(s))) = IF n + 1 <= Len(s) THEN Len(s) - (n + 1) + 1 ELSE 0
      /\ \A i \in 1 .. Len(s) - (n + 1) + 1 : SubSeq(s, n + 1, Len(s))[i] = s[n + 1 + i - 1]
  BY <1>1, SubSeqProperties
<1> DEFINE r == SubSeq(s, n + 1, Len(s))
           L == Len(s)
<1> HIDE DEF r, L
<1>3. L \in Nat /\ n \in 0 .. L
  BY <1>1 DEF L
<1>4. r \in Seq(T) /\ Len(r) = L - n /\ \A i \in 1 .. L - n : r[i] = s[n + i]
  BY <1>2, <1>3 DEF r, L
<1> QED
  BY <1>4 DEF Drop, r, L

(* Sequences that are as long and have the same at each place are one.     *)
LEMMA SameSeq ==
  ASSUME NEW T, NEW s \in Seq(T), NEW t \in Seq(T), Len(s) = Len(t),
         \A i \in 1 .. Len(s) : s[i] = t[i]
  PROVE  s = t
BY SeqEqual

(* The least of the places that EndOfLine() and EndOfHead() look for.      *)
LEMMA FirstIs ==
  ASSUME NEW E, E \subseteq Nat, NEW k \in E, \A j \in E : k <= j
  PROVE  (CHOOSE i \in E : \A j \in E : i <= j) = k
<1>1. \E i \in E : \A j \in E : i <= j
  OBVIOUS
<1> DEFINE c == CHOOSE i \in E : \A j \in E : i <= j
<1>2. c \in E /\ \A j \in E : c <= j
  BY <1>1
<1> HIDE DEF c
<1>3. c <= k /\ k <= c /\ c \in Nat /\ k \in Nat
  BY <1>2
<1>4. c = k
  BY <1>3
<1> QED
  BY <1>4 DEF c

(* It is one of the places.                                                *)
LEMMA FirstIn ==
  ASSUME NEW E, E \subseteq Nat, E # {}
  PROVE  (CHOOSE i \in E : \A j \in E : i <= j) \in E
BY HasLeast

(* The search for a line break stays within what is there,                 *)
LEMMA EndOfLineIn ==
  ASSUME NEW s \in Seq(Nat), Len(s) >= 2
  PROVE  EndOfLine(s) \in 0 .. Len(s) - 2
<1> DEFINE E == {i \in 0 .. Len(s) - 3 : SubSeq(s, i + 1, i + 2) = LineBreak}
<1>1. EndOfLine(s) = IF E = {} THEN Len(s) - 2 ELSE CHOOSE i \in E : \A j \in E : i <= j
  BY DEF EndOfLine
<1>2. E \subseteq Nat /\ E \subseteq 0 .. Len(s) - 2 /\ Len(s) \in Nat
  OBVIOUS
<1> HIDE DEF E
<1>3. E # {} => (CHOOSE i \in E : \A j \in E : i <= j) \in E
  BY <1>2, FirstIn
<1> DEFINE c == CHOOSE i \in E : \A j \in E : i <= j
<1> HIDE DEF c
<1>4. Len(s) - 2 \in 0 .. Len(s) - 2
  BY <1>2
<1>5. CASE E = {}
  BY <1>1, <1>4, <1>5
<1>6. CASE E # {}
  <2>1. c \in E /\ EndOfLine(s) = c
    BY <1>1, <1>3, <1>6 DEF c
  <2> QED
    BY <1>2, <2>1
<1> QED
  BY <1>5, <1>6

\* s begins with a size line, whose digits are d.
(* and finds the end of the digits d, when s begins with their size line.  *)
Begins(s, d) ==
  /\ d \in Seq(Digits) /\ Len(s) >= Len(d) + 2
  /\ \A i \in 1 .. Len(d) : s[i] = d[i]
  /\ s[Len(d) + 1] = CR /\ s[Len(d) + 2] = LF

(* Two places of a sequence.                                               *)
LEMMA TwoOf ==
  ASSUME NEW s \in Seq(Nat), NEW i \in Nat, i + 2 <= Len(s)
  PROVE  SubSeq(s, i + 1, i + 2) = <<s[i + 1], s[i + 2]>>
<1>1. Len(s) \in Nat /\ i + 1 \in Int /\ i + 2 \in Int /\ \A j \in i + 1 .. i + 2 : s[j] \in Nat
  OBVIOUS
<1> DEFINE r == SubSeq(s, i + 1, i + 2)
           t == <<s[i + 1], s[i + 2]>>
<1>2. r \in Seq(Nat) /\ Len(r) = (IF i + 1 <= i + 2 THEN i + 2 - (i + 1) + 1 ELSE 0)
      /\ \A j \in 1 .. i + 2 - (i + 1) + 1 : r[j] = s[i + 1 + j - 1]
  BY <1>1, SubSeqProperties
<1>3. t \in Seq(Nat) /\ Len(t) = 2 /\ t[1] = s[i + 1] /\ t[2] = s[i + 2]
  BY <1>1
<1> HIDE DEF r, t
<1>4. Len(r) = 2 /\ 1 \in 1 .. i + 2 - (i + 1) + 1 /\ 2 \in 1 .. i + 2 - (i + 1) + 1
  BY <1>2
<1>5. r[1] = s[i + 1 + 1 - 1] /\ r[2] = s[i + 1 + 2 - 1]
  BY <1>2, <1>4
<1>6. r[1] = s[i + 1] /\ r[2] = s[i + 2]
  BY <1>5
<1>7. \A j \in 1 .. Len(r) : r[j] = t[j]
  BY <1>3, <1>4, <1>6
<1>8. r = t
  BY <1>2, <1>3, <1>4, <1>7, SameSeq
<1> QED
  BY <1>8 DEF r, t

(* The first line break of such an s is behind the digits.                 *)
LEMMA EndOfLineIs ==
  ASSUME NEW s \in Seq(Nat), NEW d, Begins(s, d)
  PROVE  EndOfLine(s) = Len(d)
<1> DEFINE n == Len(d)
           E == {i \in 0 .. Len(s) - 3 : SubSeq(s, i + 1, i + 2) = LineBreak}
<1>1. /\ n \in Nat /\ Len(s) \in Nat /\ Len(s) >= n + 2
      /\ \A i \in 1 .. n : s[i] \in Digits
      /\ s[n + 1] = CR /\ s[n + 2] = LF
  BY DEF Begins
<1>2. ASSUME NEW i \in 0 .. Len(s) - 2
      PROVE  SubSeq(s, i + 1, i + 2) = <<s[i + 1], s[i + 2]>>
  BY <1>1, TwoOf
<1>3. \A i \in E : i >= n
  <2> SUFFICES ASSUME NEW i \in E, ~(i >= n) PROVE FALSE
    OBVIOUS
  <2>1. i \in 0 .. Len(s) - 2 /\ i + 1 \in 1 .. n
    BY <1>1
  <2>2. s[i + 1] = CR
    <3>1. <<s[i + 1], s[i + 2]>> = <<CR, LF>>
      BY <1>2, <2>1 DEF LineBreak
    <3> QED
      BY <3>1
  <2>3. s[i + 1] \in Digits
    BY <1>1, <2>1
  <2>4. CR \notin Digits
    BY DEF Digits, CR
  <2> QED
    BY <2>2, <2>3, <2>4
<1>4. n <= Len(s) - 3 => n \in E
  BY <1>1, <1>2 DEF LineBreak
<1>5. EndOfLine(s) = IF E = {} THEN Len(s) - 2 ELSE CHOOSE i \in E : \A j \in E : i <= j
  BY DEF EndOfLine
<1>6. E \subseteq Nat /\ \A i \in E : i <= Len(s) - 3
  BY <1>1
<1> HIDE DEF E, n
<1>7. CASE n <= Len(s) - 3
  <2>1. (CHOOSE i \in E : \A j \in E : i <= j) = n
    BY <1>3, <1>4, <1>6, <1>7, <1>1, FirstIs
  <2> QED
    BY <1>4, <1>5, <1>7, <2>1 DEF n
<1>8. CASE ~(n <= Len(s) - 3)
  <2>1. E = {}
    <3> SUFFICES ASSUME NEW i \in E PROVE FALSE
      OBVIOUS
    <3> QED
      BY <1>1, <1>3, <1>6, <1>8
  <2>2. Len(s) - 2 = n
    BY <1>1, <1>8
  <2> QED
    BY <1>5, <2>1, <2>2 DEF n
<1> QED
  BY <1>7, <1>8

(* strtol() reads such a line's digits, and a number whatever it reads.    *)
LEMMA SizeOfIs ==
  ASSUME NEW s \in Seq(Nat), NEW d, Begins(s, d)
  PROVE  SizeOf(s) = Number(d)
<1> DEFINE n == Len(d)
           E == {k \in 0 .. Len(s) : k < Len(s) => s[k + 1] \notin Digits}
<1>1. /\ n \in Nat /\ Len(s) \in Nat /\ Len(s) >= n + 2 /\ d \in Seq(Digits)
      /\ \A i \in 1 .. n : s[i] = d[i] /\ s[i] \in Digits
      /\ s[n + 1] = CR
  BY DEF Begins
<1>2. n \in E
  <2>1. CR \notin Digits
    BY DEF Digits, CR
  <2> QED
    BY <1>1, <2>1
<1>3. \A k \in E : n <= k
  <2> SUFFICES ASSUME NEW k \in E, ~(n <= k) PROVE FALSE
    OBVIOUS
  <2>1. k + 1 \in 1 .. n /\ k < Len(s)
    BY <1>1
  <2> QED
    BY <1>1, <2>1
<1>4. SizeOf(s) = Number(SubSeq(s, 1, CHOOSE k \in E : \A j \in E : k <= j))
  BY DEF SizeOf
<1>5. E \subseteq Nat
  OBVIOUS
<1> HIDE DEF E
<1>6. (CHOOSE k \in E : \A j \in E : k <= j) = n
  BY <1>2, <1>3, <1>5, FirstIs
<1>7. SubSeq(s, 1, n) = d
  <2>1. \A i \in 1 .. n : s[i] \in Digits
    BY <1>1
  <2>2. /\ SubSeq(s, 1, n) \in Seq(Digits)
        /\ Len(SubSeq(s, 1, n)) = IF 1 <= n THEN n - 1 + 1 ELSE 0
        /\ \A i \in 1 .. n - 1 + 1 : SubSeq(s, 1, n)[i] = s[1 + i - 1]
    BY <1>1, <2>1, SubSeqProperties
  <2> DEFINE r == SubSeq(s, 1, n)
  <2> HIDE DEF r
  <2>3. r \in Seq(Digits) /\ Len(r) = n /\ \A i \in 1 .. n : r[i] = s[i]
    BY <1>1, <2>2 DEF r
  <2>4. r = d
    <3>1. Len(r) = Len(d) /\ \A i \in 1 .. Len(r) : r[i] = d[i]
      BY <1>1, <2>3
    <3> QED
      BY <1>1, <2>3, <3>1, SameSeq
  <2> QED
    BY <2>4 DEF r
<1> QED
  BY <1>4, <1>6, <1>7

LEMMA SizeOfNat ==
  ASSUME NEW s \in Seq(Nat)
  PROVE  SizeOf(s) \in Nat
<1> DEFINE E == {k \in 0 .. Len(s) : k < Len(s) => s[k + 1] \notin Digits}
<1>1. Len(s) \in Nat /\ Len(s) \in E /\ E \subseteq Nat /\ E \subseteq 0 .. Len(s)
  OBVIOUS
<1>2. SizeOf(s) = Number(SubSeq(s, 1, CHOOSE k \in E : \A j \in E : k <= j))
  BY DEF SizeOf
<1> HIDE DEF E
<1>3. (CHOOSE k \in E : \A j \in E : k <= j) \in E
  BY <1>1, FirstIn
<1>4. PICK k \in E : k = CHOOSE i \in E : \A j \in E : i <= j
  BY <1>3
<1>5. \A i \in 1 .. k : s[i] \in Nat
  BY <1>1
<1>6. SubSeq(s, 1, k) \in Seq(Nat)
  BY <1>1, <1>5, SubSeqProperties
<1> QED
  BY <1>2, <1>4, <1>6, NumberNat

(* What stands in s from b to c, and that t stands in s behind b bytes.    *)
Piece(s, b, c) == SubSeq(s, b + 1, c)
Stands(s, b, t) == b + Len(t) <= Len(s) /\ \A i \in 1 .. Len(t) : s[b + i] = t[i]

(* A piece r of s, place by place.                                         *)
IsPiece(T, s, b, c, r) ==
  r \in Seq(T) /\ Len(r) = c - b /\ \A i \in 1 .. c - b : r[i] = s[b + i]

LEMMA PieceIs ==
  ASSUME NEW T, NEW s \in Seq(T), NEW b \in Nat, NEW c \in Nat, b <= c, c <= Len(s)
  PROVE  IsPiece(T, s, b, c, Piece(s, b, c))
<1> DEFINE r == SubSeq(s, b + 1, c)
           L == Len(s)
<1>1. L \in Nat /\ b + 1 \in Int /\ c \in Int /\ \A i \in b + 1 .. c : s[i] \in T
  OBVIOUS
<1>2. /\ r \in Seq(T) /\ Len(r) = (IF b + 1 <= c THEN c - (b + 1) + 1 ELSE 0)
      /\ \A i \in 1 .. c - (b + 1) + 1 : r[i] = s[b + 1 + i - 1]
  BY <1>1, SubSeqProperties
<1> HIDE DEF r, L
<1>3. r \in Seq(T) /\ Len(r) = c - b /\ \A i \in 1 .. c - b : r[i] = s[b + i]
  BY <1>1, <1>2
<1> QED
  BY <1>3 DEF Piece, IsPiece, r

(* The piece from the first to the last place is all there is.             *)
LEMMA WholePiece ==
  ASSUME NEW T, NEW s \in Seq(T)
  PROVE  Piece(s, 0, Len(s)) = s /\ \A b \in 0 .. Len(s) : Piece(s, b, b) = <<>>
<1>1. Len(s) \in Nat /\ 0 \in Nat /\ 0 <= Len(s)
  OBVIOUS
<1>2. Piece(s, 0, Len(s)) = s
  <2> DEFINE p == Piece(s, 0, Len(s))
  <2>1. IsPiece(T, s, 0, Len(s), p)
    BY <1>1, PieceIs
  <2> HIDE DEF p
  <2>2. p \in Seq(T) /\ Len(p) = Len(s) /\ \A i \in 1 .. Len(p) : p[i] = s[i]
    BY <1>1, <2>1 DEF IsPiece
  <2>3. p = s
    BY <2>2, SameSeq
  <2> QED
    BY <2>3 DEF p
<1>3. ASSUME NEW b \in 0 .. Len(s) PROVE Piece(s, b, b) = <<>>
  <2>1. IsPiece(T, s, b, b, Piece(s, b, b))
    BY <1>1, PieceIs
  <2>2. Piece(s, b, b) \in Seq(T) /\ Len(Piece(s, b, b)) = 0
    BY <2>1 DEF IsPiece
  <2> QED
    BY <2>2
<1> QED
  BY <1>2, <1>3

(* A piece of a piece is one, as is what is left when some is dropped,     *)
LEMMA PieceOfPiece ==
  ASSUME NEW T, NEW s \in Seq(T), NEW b \in Nat, NEW c \in Nat, b <= c, c <= Len(s),
         NEW x \in Nat, NEW y \in Nat, x <= y, y <= c - b
  PROVE  Piece(Piece(s, b, c), x, y) = Piece(s, b + x, b + y)
<1> DEFINE p == Piece(s, b, c)
           q == Piece(p, x, y)
           r == Piece(s, b + x, b + y)
<1>1. IsPiece(T, s, b, c, p)
  BY PieceIs
<1>2. p \in Seq(T) /\ Len(p) = c - b /\ \A i \in 1 .. c - b : p[i] = s[b + i]
  BY <1>1 DEF IsPiece
<1>3. b + x \in Nat /\ b + y \in Nat /\ b + x <= b + y /\ b + y <= Len(s) /\ Len(s) \in Nat
  OBVIOUS
<1> HIDE DEF p
<1>4. IsPiece(T, p, x, y, q)
  BY <1>2, PieceIs
<1>5. IsPiece(T, s, b + x, b + y, r)
  BY <1>3, PieceIs
<1> HIDE DEF q, r
<1>6. q \in Seq(T) /\ Len(q) = y - x /\ \A i \in 1 .. y - x : q[i] = p[x + i]
  BY <1>4 DEF IsPiece
<1>7. /\ r \in Seq(T) /\ Len(r) = b + y - (b + x)
      /\ \A i \in 1 .. b + y - (b + x) : r[i] = s[b + x + i]
  BY <1>5 DEF IsPiece
<1>8. Len(q) = Len(r)
  BY <1>6, <1>7
<1>9. ASSUME NEW i \in 1 .. Len(q) PROVE q[i] = r[i]
  <2>1. i \in 1 .. y - x /\ i \in 1 .. b + y - (b + x) /\ x + i \in 1 .. c - b
    BY <1>6
  <2>2. q[i] = s[b + (x + i)] /\ r[i] = s[b + x + i]
    BY <1>2, <1>6, <1>7, <2>1
  <2> QED
    BY <2>1, <2>2
<1>10. q = r
  BY <1>6, <1>7, <1>8, <1>9, SameSeq
<1> QED
  BY <1>10 DEF q, r, p

LEMMA DropPiece ==
  ASSUME NEW T, NEW s \in Seq(T), NEW b \in Nat, NEW c \in Nat, b <= c, c <= Len(s),
         NEW x \in Nat, x <= c - b
  PROVE  Drop(Piece(s, b, c), x) = Piece(s, b + x, c)
<1> DEFINE p == Piece(s, b, c)
<1>1. IsPiece(T, s, b, c, p)
  BY PieceIs
<1>2. p \in Seq(T) /\ Len(p) = c - b /\ \A i \in 1 .. c - b : p[i] = s[b + i]
  BY <1>1 DEF IsPiece
<1>3. Drop(p, x) = Piece(p, x, c - b)
  BY <1>2 DEF Drop, Piece
<1>4. c - b \in Nat /\ b + (c - b) = c /\ c - b <= c - b
  OBVIOUS
<1>5. Piece(p, x, c - b) = Piece(s, b + x, b + (c - b))
  BY <1>4, PieceOfPiece
<1> QED
  BY <1>3, <1>4, <1>5

(* and two pieces that meet are one.                                       *)
LEMMA PiecesJoin ==
  ASSUME NEW T, NEW s \in Seq(T), NEW b \in Nat, NEW c \in Nat, NEW d \in Nat,
         b <= c, c <= d, d <= Len(s)
  PROVE  Piece(s, b, c) \o Piece(s, c, d) = Piece(s, b, d)
<1> DEFINE p == Piece(s, b, c)
           q == Piece(s, c, d)
           r == Piece(s, b, d)
<1>1. Len(s) \in Nat /\ b <= d /\ c <= Len(s)
  OBVIOUS
<1>2. IsPiece(T, s, b, c, p) /\ IsPiece(T, s, c, d, q) /\ IsPiece(T, s, b, d, r)
  BY <1>1, PieceIs
<1> HIDE DEF p, q, r
<1>3. /\ p \in Seq(T) /\ Len(p) = c - b /\ \A i \in 1 .. c - b : p[i] = s[b + i]
      /\ q \in Seq(T) /\ Len(q) = d - c /\ \A i \in 1 .. d - c : q[i] = s[c + i]
      /\ r \in Seq(T) /\ Len(r) = d - b /\ \A i \in 1 .. d - b : r[i] = s[b + i]
  BY <1>2 DEF IsPiece
<1>4. p \o q \in Seq(T) /\ Len(p \o q) = Len(p) + Len(q)
      /\ \A i \in 1 .. Len(p) + Len(q) : (p \o q)[i] = IF i <= Len(p) THEN p[i] ELSE q[i - Len(p)]
  BY <1>3, ConcatProperties
<1>5. Len(p \o q) = Len(r)
  BY <1>3, <1>4
<1>6. ASSUME NEW i \in 1 .. Len(p \o q) PROVE (p \o q)[i] = r[i]
  <2>1. i \in 1 .. Len(p) + Len(q) /\ i \in 1 .. d - b /\ r[i] = s[b + i]
    BY <1>3, <1>4
  <2>2. CASE i <= Len(p)
    <3>1. (p \o q)[i] = p[i] /\ i \in 1 .. c - b
      BY <1>3, <1>4, <2>1, <2>2
    <3> QED
      BY <1>3, <2>1, <3>1
  <2>3. CASE ~(i <= Len(p))
    <3>1. (p \o q)[i] = q[i - Len(p)]
      BY <1>4, <2>1, <2>3
    <3>2. Len(p) = c - b /\ i \in 1 .. d - b /\ ~(i <= c - b)
      BY <1>3, <2>1, <2>3
    <3>3. i - (c - b) \in 1 .. d - c /\ c + (i - (c - b)) = b + i
      BY <1>1, <3>2
    <3>4. q[i - (c - b)] = s[c + (i - (c - b))]
      BY <1>3, <3>3
    <3> QED
      BY <2>1, <3>1, <3>2, <3>3, <3>4
  <2> QED
    BY <2>2, <2>3
<1>7. p \o q = r
  BY <1>3, <1>4, <1>5, <1>6, SameSeq
<1> QED
  BY <1>7 DEF p, q, r

(* What stands there is the piece.                                         *)
LEMMA StandsIs ==
  ASSUME NEW T, NEW s \in Seq(T), NEW b \in Nat, NEW t \in Seq(T), Stands(s, b, t)
  PROVE  Piece(s, b, b + Len(t)) = t
<1>1. Len(t) \in Nat /\ b + Len(t) \in Nat /\ b <= b + Len(t) /\ b + Len(t) <= Len(s)
      /\ b + Len(t) - b = Len(t) /\ \A i \in 1 .. Len(t) : s[b + i] = t[i]
  BY DEF Stands
<1> DEFINE p == Piece(s, b, b + Len(t))
<1>2. IsPiece(T, s, b, b + Len(t), p)
  BY <1>1, PieceIs
<1> HIDE DEF p
<1>3. p \in Seq(T) /\ Len(p) = Len(t) /\ \A i \in 1 .. Len(p) : p[i] = t[i]
  BY <1>1, <1>2 DEF IsPiece
<1>4. p = t
  BY <1>3, SameSeq
<1> QED
  BY <1>4 DEF p

(* A sequence stands in itself, and with it what it is made of.            *)
LEMMA SelfStands ==
  ASSUME NEW T, NEW s \in Seq(T)
  PROVE  Stands(s, 0, s)
BY DEF Stands

(* What is made of two stands as one behind the other.                     *)
LEMMA StandsSplit ==
  ASSUME NEW T, NEW s \in Seq(T), NEW b \in Nat, NEW p \in Seq(T), NEW q \in Seq(T),
         Stands(s, b, p \o q)
  PROVE  Stands(s, b, p) /\ Stands(s, b + Len(p), q)
<1>1. Len(p \o q) = Len(p) + Len(q)
      /\ \A i \in 1 .. Len(p) + Len(q) : (p \o q)[i] = IF i <= Len(p) THEN p[i] ELSE q[i - Len(p)]
  BY ConcatProperties
<1>2. b + (Len(p) + Len(q)) <= Len(s)
      /\ \A i \in 1 .. Len(p) + Len(q) : s[b + i] = (p \o q)[i]
  BY <1>1 DEF Stands
<1>3. Len(p) \in Nat /\ Len(q) \in Nat /\ Len(s) \in Nat
  OBVIOUS
<1>4. ASSUME NEW i \in 1 .. Len(p) PROVE s[b + i] = p[i]
  <2>1. i \in 1 .. Len(p) + Len(q) /\ i <= Len(p)
    BY <1>3
  <2> QED
    BY <1>1, <1>2, <2>1
<1>5. ASSUME NEW i \in 1 .. Len(q) PROVE s[b + Len(p) + i] = q[i]
  <2>1. Len(p) + i \in 1 .. Len(p) + Len(q) /\ ~(Len(p) + i <= Len(p)) /\ Len(p) + i - Len(p) = i
        /\ b + (Len(p) + i) = b + Len(p) + i
    BY <1>3
  <2>2. (p \o q)[Len(p) + i] = q[i]
    BY <1>1, <2>1
  <2>3. s[b + (Len(p) + i)] = (p \o q)[Len(p) + i]
    BY <1>2, <2>1
  <2> QED
    BY <2>1, <2>2, <2>3
<1>6. b + Len(p) <= Len(s) /\ b + Len(p) + Len(q) <= Len(s)
  BY <1>2, <1>3
<1> QED
  BY <1>4, <1>5, <1>6 DEF Stands

(* The first of some sequences stand in all of them.                       *)
Grows(T, ss, p, n) ==
  /\ p \o Joined(ss, n) = (p \o Joined(ss, n - 1)) \o ss[n]
  /\ p \o Joined(ss, n - 1) \in Seq(T) /\ ss[n] \in Seq(T)

LEMMA JoinedGrows ==
  ASSUME NEW T, NEW ss \in Seq(Seq(T)), NEW p \in Seq(T), NEW n \in 1 .. Len(ss)
  PROVE  Grows(T, ss, p, n)
<1>1. AreJoined(T, ss)
  BY JoinedIs
<1>2. n \in 1 .. Len(ss) /\ n - 1 \in 0 .. Len(ss)
  OBVIOUS
<1>3. Joined(ss, n) = Joined(ss, n - 1) \o ss[n] /\ Joined(ss, n - 1) \in Seq(T)
  BY <1>1, <1>2 DEF AreJoined
<1>4. ss[n] \in Seq(T)
  OBVIOUS
<1> DEFINE j == Joined(ss, n - 1)
           t == ss[n]
<1>5. j \in Seq(T) /\ t \in Seq(T)
  BY <1>3, <1>4
<1> HIDE DEF j, t
<1>6. (p \o j) \o t = p \o (j \o t)
  BY <1>5, ConcatAssociative
<1>7. p \o j \in Seq(T)
  BY <1>5, ConcatProperties
<1> QED
  BY <1>3, <1>5, <1>6, <1>7 DEF Grows, j, t

(* So where all of them stand, the first n do, by a greatest n that did    *)
(* not.                                                                    *)
LEMMA FirstStand ==
  ASSUME NEW T, NEW ss \in Seq(Seq(T)), NEW s \in Seq(T), NEW b \in Nat, NEW p \in Seq(T),
         Stands(s, b, p \o Joined(ss, Len(ss)))
  PROVE  \A n \in 0 .. Len(ss) : Stands(s, b, p \o Joined(ss, n))
<1> DEFINE L == Len(ss)
           Q == {k \in 0 .. L : ~Stands(s, b, p \o Joined(ss, L - k))}
<1>1. SUFFICES Q = {}
  <2> SUFFICES ASSUME NEW n \in 0 .. L PROVE Stands(s, b, p \o Joined(ss, n))
    OBVIOUS
  <2>1. L \in Nat
    OBVIOUS
  <2> HIDE DEF L
  <2>2. L - n \in 0 .. L /\ L - (L - n) = n /\ L - n \notin Q
    <3>1. L - n \in 0 .. L /\ L - (L - n) = n
      BY <2>1
    <3> QED
      BY <1>1, <3>1
  <2> QED
    BY <2>2
<1>2. SUFFICES ASSUME Q # {} PROVE FALSE
  OBVIOUS
<1>3. Q \subseteq Nat
  OBVIOUS
<1>4. PICK k \in Q : \A j \in Q : k <= j
  BY <1>2, <1>3, HasLeast
<1>5. k # 0
  BY <1>4
<1>6. L \in Nat /\ k \in 0 .. L
  OBVIOUS
<1> DEFINE n == L - (k - 1)
<1>7. k - 1 \in 0 .. L /\ k - 1 \notin Q
  <2>1. k - 1 \in 0 .. L /\ ~(k <= k - 1)
    BY <1>5, <1>6
  <2> QED
    BY <1>4, <2>1
<1>8. Stands(s, b, p \o Joined(ss, n)) /\ ~Stands(s, b, p \o Joined(ss, L - k))
  BY <1>7
<1>9. n \in 1 .. L /\ n - 1 = L - k /\ n - 1 \in 0 .. L
  BY <1>5, <1>6
<1> HIDE DEF n, L
<1>10. n \in 1 .. Len(ss)
  BY <1>9 DEF L
<1>11. Grows(T, ss, p, n)
  BY <1>10, JoinedGrows
<1>12. Stands(s, b, p \o Joined(ss, n - 1))
  <2> DEFINE q == p \o Joined(ss, n - 1)
             t == ss[n]
  <2>1. p \o Joined(ss, n) = q \o t /\ q \in Seq(T) /\ t \in Seq(T)
    BY <1>11 DEF Grows
  <2>2. Stands(s, b, q \o t)
    BY <1>8, <2>1
  <2> HIDE DEF q, t
  <2>3. Stands(s, b, q)
    BY <2>1, <2>2, StandsSplit
  <2> QED
    BY <2>3 DEF q
<1> QED
  BY <1>8, <1>9, <1>12

(* What a message is made of.                                              *)
LEMMA SeqWithin ==
  ASSUME NEW A, NEW Y, A \subseteq Y, NEW s \in Seq(A)
  PROVE  s \in Seq(Y)
<1>1. Len(s) \in Nat /\ s = [i \in 1 .. Len(s) |-> s[i]] /\ \A i \in 1 .. Len(s) : s[i] \in Y
  OBVIOUS
<1> QED
  BY <1>1

(* What the assumptions on the constants say of a message.                 *)
Made(m) ==
  /\ m.isReq \in BOOLEAN
  /\ m.lines \in Seq({PlainLine, NamelessLine}) /\ m.lines \in Seq(Nat)
  /\ m.framing \in {"encoded", "bare", "chunked"}
  /\ m.parts \in Seq(Seq(Nat))
  /\ \A i \in 1 .. Len(m.parts) : m.parts[i] \in Seq(Nat) /\ Len(m.parts[i]) \in Nat \ {0}
  /\ Len(m.parts) \in Nat /\ Len(m.sizes) = Len(m.parts) + 1
  /\ \A i \in 1 .. Len(m.sizes) :
       /\ m.sizes[i] \in Seq(Digits) /\ m.sizes[i] \in Seq(Nat)
       /\ Len(m.sizes[i]) \in Nat \ {0}
       /\ Number(m.sizes[i]) = IF i <= Len(m.parts) THEN Len(m.parts[i]) ELSE 0
  /\ Body(m) \in Seq(Nat)

LEMMA MessageMade ==
  ASSUME NEW m \in Messages
  PROVE  Made(m)
<1>1. /\ m.isReq \in BOOLEAN
      /\ m.lines \in Seq({PlainLine, NamelessLine})
      /\ m.framing \in {"encoded", "bare", "chunked"}
      /\ m.parts \in Seq(Seq(Bytes) \ {<<>>})
      /\ m.sizes \in Seq(Seq(Digits) \ {<<>>})
  BY MessagesType
<1>2. /\ Len(m.sizes) = Len(m.parts) + 1
      /\ \A i \in 1 .. Len(m.sizes) :
           Number(m.sizes[i]) = IF i <= Len(m.parts) THEN Len(m.parts[i]) ELSE 0
  BY SizesTell
<1>3. Bytes \subseteq Nat /\ Digits \subseteq Nat /\ {PlainLine, NamelessLine} \subseteq Nat
  BY DEF Bytes, Digits, CR, LF, Other, PlainLine, NamelessLine
<1>4. m.lines \in Seq(Nat)
  BY <1>1, <1>3, SeqWithin
<1>5. \A s : s \in Seq(Bytes) \ {<<>>} => s \in Seq(Nat) /\ Len(s) \in Nat \ {0}
  <2> TAKE s
  <2> HAVE s \in Seq(Bytes) \ {<<>>}
  <2>1. s \in Seq(Bytes) /\ s # <<>>
    OBVIOUS
  <2>2. s \in Seq(Nat)
    BY <1>3, <2>1, SeqWithin
  <2>3. Len(s) \in Nat /\ Len(s) # 0
    BY <2>1
  <2> QED
    BY <2>2, <2>3
<1>6. \A s : s \in Seq(Digits) \ {<<>>} => s \in Seq(Nat) /\ Len(s) \in Nat \ {0}
  <2> TAKE s
  <2> HAVE s \in Seq(Digits) \ {<<>>}
  <2>1. s \in Seq(Digits) /\ s # <<>>
    OBVIOUS
  <2>2. s \in Seq(Nat)
    BY <1>3, <2>1, SeqWithin
  <2>3. Len(s) \in Nat /\ Len(s) # 0
    BY <2>1
  <2> QED
    BY <2>2, <2>3
<1>7. Seq(Bytes) \ {<<>>} \subseteq Seq(Nat)
  BY <1>5
<1>8. m.parts \in Seq(Seq(Nat))
  BY <1>1, <1>7, SeqWithin
<1>9. \A i \in 1 .. Len(m.parts) : m.parts[i] \in Seq(Bytes) \ {<<>>}
  BY <1>1
<1>10. \A i \in 1 .. Len(m.sizes) : m.sizes[i] \in Seq(Digits) \ {<<>>}
  BY <1>1
<1>11. Len(m.parts) \in Nat
  BY <1>1
<1>12. Body(m) \in Seq(Nat)
  <2>1. AreJoined(Nat, m.parts)
    BY <1>8, JoinedIs
  <2>2. Len(m.parts) \in 0 .. Len(m.parts)
    BY <1>11
  <2> QED
    BY <2>1, <2>2 DEF AreJoined, Body
<1>13. \A i \in 1 .. Len(m.parts) : m.parts[i] \in Seq(Nat) /\ Len(m.parts[i]) \in Nat \ {0}
  BY <1>5, <1>9
<1>14. \A i \in 1 .. Len(m.sizes) :
         m.sizes[i] \in Seq(Digits) /\ m.sizes[i] \in Seq(Nat) /\ Len(m.sizes[i]) \in Nat \ {0}
  BY <1>6, <1>10
<1> QED
  BY <1>1, <1>2, <1>4, <1>8, <1>11, <1>12, <1>13, <1>14 DEF Made

(* The chunks of a message.                                                *)
Chunks(m) == [i \in DOMAIN m.parts |-> Chunk(m, i)]
AreChunks(m) ==
  /\ LineBreak \in Seq(Nat) /\ Len(LineBreak) = 2
  /\ Chunks(m) \in Seq(Seq(Nat)) /\ Len(Chunks(m)) = Len(m.parts)
  /\ \A i \in 1 .. Len(m.parts) + 1 :
       SizeLine(m, i) \in Seq(Nat) /\ Len(SizeLine(m, i)) = Len(m.sizes[i]) + 2
  /\ \A i \in 1 .. Len(m.parts) :
       /\ Chunks(m)[i] = Chunk(m, i) /\ Chunk(m, i) \in Seq(Nat)
       /\ Len(Chunk(m, i)) = Len(SizeLine(m, i)) + Len(m.parts[i]) + 2
  /\ \A i \in 0 .. Len(m.parts) : Joined(Chunks(m), i) \in Seq(Nat)

(* Two sequences make one that is as long as both.                         *)
LEMMA JoinTwo ==
  ASSUME NEW s \in Seq(Nat), NEW t \in Seq(Nat)
  PROVE  s \o t \in Seq(Nat) /\ Len(s \o t) = Len(s) + Len(t)
BY ConcatProperties

LEMMA ChunksAre ==
  ASSUME NEW m, Made(m)
  PROVE  AreChunks(m)
<1> DEFINE L == Len(m.parts)
<1>1. LineBreak \in Seq(Nat) /\ Len(LineBreak) = 2
  BY DEF LineBreak, CR, LF
<1>2. L \in Nat /\ Len(m.sizes) = L + 1 /\ \A i \in 1 .. L + 1 : m.sizes[i] \in Seq(Nat)
  BY DEF Made
<1>3. ASSUME NEW i \in 1 .. L + 1
      PROVE  SizeLine(m, i) \in Seq(Nat) /\ Len(SizeLine(m, i)) = Len(m.sizes[i]) + 2
  BY <1>1, <1>2, JoinTwo DEF SizeLine
<1>4. ASSUME NEW i \in 1 .. L
      PROVE  /\ Chunk(m, i) \in Seq(Nat)
             /\ Len(Chunk(m, i)) = Len(SizeLine(m, i)) + Len(m.parts[i]) + 2
  <2>1. SizeLine(m, i) \in Seq(Nat)
    BY <1>2, <1>3
  <2>2. m.parts[i] \in Seq(Nat)
    BY DEF Made
  <2>3. /\ SizeLine(m, i) \o m.parts[i] \in Seq(Nat)
        /\ Len(SizeLine(m, i) \o m.parts[i]) = Len(SizeLine(m, i)) + Len(m.parts[i])
    BY <2>1, <2>2, JoinTwo
  <2> QED
    BY <1>1, <2>3, JoinTwo DEF Chunk
<1>5. DOMAIN m.parts = 1 .. L
  BY DEF Made
<1>6. /\ Chunks(m) \in Seq(Seq(Nat)) /\ Len(Chunks(m)) = L
      /\ \A i \in 1 .. L : Chunks(m)[i] = Chunk(m, i)
  BY <1>2, <1>4, <1>5 DEF Chunks
<1>7. AreJoined(Nat, Chunks(m))
  BY <1>6, JoinedIs
<1> QED
  BY <1>1, <1>2, <1>3, <1>4, <1>6, <1>7 DEF AreChunks, AreJoined

(* The line of its head that tells the body, and where the head ends.      *)
Told(m) ==
  CASE m.framing = "chunked" -> <<ChunkedLine>>
    [] m.framing = "encoded" /\ Body(m) # <<>> -> <<LengthLine>>
    [] OTHER -> <<>>
HeadLines(m) == m.lines \o Told(m)
HeadLength(m) == Len(m.lines) + Len(Told(m)) + 4

(* The wire begins with the head, and without chunks the body is the rest. *)
Headed(m) ==
  /\ Wire(m) \in Seq(Nat) /\ Len(Wire(m)) \in Nat
  /\ Told(m) \in Seq(Nat) /\ HeadLines(m) \in Seq(Nat)
  /\ Len(HeadLines(m)) \in Nat /\ HeadLength(m) = Len(HeadLines(m)) + 4
  /\ Stands(Wire(m), 0, HeadLines(m))
  /\ Stands(Wire(m), Len(HeadLines(m)), HeadEnd)
  /\ HeadLength(m) <= Len(Wire(m))
  /\ m.framing # "chunked" =>
       Stands(Wire(m), HeadLength(m), Body(m)) /\ Len(Wire(m)) = HeadLength(m) + Len(Body(m))

(* The end of a head is two line breaks.                                   *)
LEMMA HeadEndIs ==
  HeadEnd = <<CR, LF, CR, LF>> /\ HeadEnd \in Seq(Nat) /\ Len(HeadEnd) = 4
<1> DEFINE e == <<16, 17, 16, 17>>
<1>1. LineBreak = <<16, 17>>
  BY DEF LineBreak, CR, LF
<1>2. <<16, 17>> \o <<16, 17>> = e
  <2> DEFINE d == <<16, 17>>
  <2>1. d \in Seq(Nat) /\ Len(d) = 2 /\ d[1] = 16 /\ d[2] = 17
    OBVIOUS
  <2>2. e \in Seq(Nat) /\ Len(e) = 4 /\ e[1] = 16 /\ e[2] = 17 /\ e[3] = 16 /\ e[4] = 17
    OBVIOUS
  <2> HIDE DEF d, e
  <2>3. d \o d \in Seq(Nat) /\ Len(d \o d) = Len(d) + Len(d)
        /\ \A i \in 1 .. Len(d) + Len(d) : (d \o d)[i] = IF i <= Len(d) THEN d[i] ELSE d[i - Len(d)]
    BY <2>1, ConcatProperties
  <2>4. Len(d \o d) = 4 /\ \A i \in 1 .. 4 : (d \o d)[i] = IF i <= 2 THEN d[i] ELSE d[i - 2]
    BY <2>1, <2>3
  <2>5. (d \o d)[1] = 16 /\ (d \o d)[2] = 17 /\ (d \o d)[3] = 16 /\ (d \o d)[4] = 17
    BY <2>1, <2>4
  <2>6. \A i \in 1 .. Len(d \o d) : (d \o d)[i] = e[i]
    BY <2>2, <2>4, <2>5
  <2>7. d \o d = e
    BY <2>2, <2>3, <2>4, <2>6, SameSeq
  <2> QED
    BY <2>7 DEF d
<1>3. HeadEnd = e
  BY <1>1, <1>2 DEF HeadEnd
<1> QED
  BY <1>3 DEF CR, LF

(* What is made of three.                                                  *)
InThree(w, a, b, c) ==
  /\ w \in Seq(Nat) /\ Len(w) = Len(a) + Len(b) + Len(c)
  /\ Stands(w, 0, a) /\ Stands(w, Len(a), b) /\ Stands(w, Len(a) + Len(b), c)

LEMMA Split3 ==
  ASSUME NEW a \in Seq(Nat), NEW b \in Seq(Nat), NEW c \in Seq(Nat), NEW w,
         w = (a \o b) \o c
  PROVE  InThree(w, a, b, c)
<1>1. a \o b \in Seq(Nat) /\ Len(a \o b) = Len(a) + Len(b)
  BY ConcatProperties
<1> DEFINE ab == a \o b
<1> HIDE DEF ab
<1>2. ab \in Seq(Nat) /\ Len(ab) = Len(a) + Len(b) /\ w = ab \o c
  BY <1>1 DEF ab
<1>3. w \in Seq(Nat) /\ Len(w) = Len(ab) + Len(c)
  BY <1>2, ConcatProperties
<1>4. Stands(w, 0, ab \o c)
  BY <1>2, <1>3, SelfStands
<1>5. Stands(w, 0, ab) /\ Stands(w, 0 + Len(ab), c)
  BY <1>2, <1>3, <1>4, StandsSplit
<1>6. Stands(w, 0, a) /\ Stands(w, 0 + Len(a), b)
  BY <1>3, <1>5, StandsSplit DEF ab
<1>7. Len(a) \in Nat /\ Len(b) \in Nat /\ 0 + Len(ab) = Len(a) + Len(b) /\ 0 + Len(a) = Len(a)
  BY <1>2
<1> QED
  BY <1>2, <1>3, <1>5, <1>6, <1>7 DEF InThree

(* The three ways to send a message all give such a wire.                  *)
LEMMA MessageHeaded ==
  ASSUME NEW m \in Messages
  PROVE  Headed(m)
<1> DEFINE W == Wire(m)
           h == HeadLines(m)
           b == Body(m)
<1>1. Made(m)
  BY MessageMade
<1>2. Told(m) \in Seq(Nat)
  BY DEF Told, ChunkedLine, LengthLine
<1>3. m.lines \in Seq(Nat) /\ b \in Seq(Nat)
  BY <1>1 DEF Made
<1>4. h \in Seq(Nat) /\ Len(h) = Len(m.lines) + Len(Told(m))
  BY <1>2, <1>3, ConcatProperties DEF HeadLines
<1>5. Len(h) \in Nat /\ HeadLength(m) = Len(h) + 4 /\ Len(b) \in Nat
  BY <1>2, <1>3, <1>4 DEF HeadLength
<1>6. CASE m.framing # "chunked"
  <2>1. W = (h \o HeadEnd) \o b
    <3>1. CASE m.framing = "encoded" /\ b # <<>>
      BY <3>1 DEF Wire, Encode, HeadLines, Told
    <3>2. CASE m.framing = "encoded" /\ b = <<>>
      BY <3>2 DEF Wire, Encode, HeadLines, Told
    <3>3. CASE m.framing = "bare"
      <4>1. m.lines \o <<>> = m.lines
        BY <1>3, ConcatEmptySeq
      <4>2. Told(m) = <<>>
        BY <3>3 DEF Told
      <4>3. h = m.lines
        BY <4>1, <4>2 DEF HeadLines
      <4>4. W = m.lines \o HeadEnd \o b
        BY <3>3 DEF Wire
      <4> QED
        BY <4>3, <4>4
    <3> QED
      BY <1>1, <1>6, <3>1, <3>2, <3>3 DEF Made
  <2> HIDE DEF W, h, b
  <2>2. InThree(W, h, HeadEnd, b)
    BY <1>3, <1>4, <2>1, HeadEndIs, Split3
  <2>3. /\ W \in Seq(Nat) /\ Len(W) = Len(h) + 4 + Len(b)
        /\ Stands(W, 0, h) /\ Stands(W, Len(h), HeadEnd) /\ Stands(W, Len(h) + 4, b)
    BY <2>2, HeadEndIs DEF InThree
  <2>4. Len(W) = HeadLength(m) + Len(b) /\ HeadLength(m) <= Len(W) /\ Len(W) \in Nat
    BY <1>5, <2>3
  <2>5. Stands(W, HeadLength(m), b)
    BY <1>5, <2>3
  <2> QED
    BY <1>2, <1>4, <1>5, <2>3, <2>4, <2>5 DEF Headed, W, h, b
<1>7. CASE m.framing = "chunked"
  <2> DEFINE j == Joined(Chunks(m), Len(m.parts))
             t == SizeLine(m, Len(m.sizes))
             x == (h \o HeadEnd) \o j
  <2>1. W = (x \o t) \o LineBreak
    BY <1>7 DEF Wire, Sent, ChunkedHead, HeadLines, Told, Chunks
  <2>2. AreChunks(m)
    BY <1>1, ChunksAre
  <2>3. j \in Seq(Nat) /\ t \in Seq(Nat) /\ LineBreak \in Seq(Nat)
    BY <1>1, <2>2 DEF AreChunks, Made
  <2> HIDE DEF W, h, j, t
  <2>4. InThree(x, h, HeadEnd, j)
    BY <1>4, <2>3, HeadEndIs, Split3
  <2>5. x \in Seq(Nat)
    BY <2>4 DEF InThree
  <2> HIDE DEF x
  <2>6. InThree(W, x, t, LineBreak)
    BY <2>1, <2>3, <2>5, Split3
  <2>7. W \in Seq(Nat) /\ Stands(W, 0, x)
    BY <2>6 DEF InThree
  <2>8. h \o HeadEnd \in Seq(Nat)
    BY <1>4, HeadEndIs, JoinTwo
  <2>9. Stands(W, 0, h \o HeadEnd)
    BY <2>3, <2>7, <2>8, StandsSplit DEF x
  <2>10. Stands(W, 0, h) /\ Stands(W, 0 + Len(h), HeadEnd)
    BY <1>4, <2>7, <2>9, HeadEndIs, StandsSplit
  <2>11. Stands(W, Len(h), HeadEnd) /\ Len(W) \in Nat
    BY <1>5, <2>7, <2>10
  <2>12. HeadLength(m) <= Len(W)
    BY <1>5, <2>11, HeadEndIs DEF Stands
  <2> QED
    BY <1>2, <1>4, <1>5, <1>7, <2>7, <2>10, <2>11, <2>12 DEF Headed, W, h
<1> QED
  BY <1>6, <1>7
(* The next of some sequences stands where those before it end.            *)
LEMMA NextStands ==
  ASSUME NEW T, NEW ss \in Seq(Seq(T)), NEW s \in Seq(T), NEW p \in Seq(T),
         NEW n \in 1 .. Len(ss), Stands(s, 0, p \o Joined(ss, n))
  PROVE  /\ Stands(s, Len(p \o Joined(ss, n - 1)), ss[n])
         /\ Len(p \o Joined(ss, n)) = Len(p \o Joined(ss, n - 1)) + Len(ss[n])
<1> DEFINE t == ss[n]
           q == p \o Joined(ss, n - 1)
<1>1. Grows(T, ss, p, n)
  BY JoinedGrows
<1>2. p \o Joined(ss, n) = q \o t /\ t \in Seq(T) /\ q \in Seq(T)
  BY <1>1 DEF Grows
<1> HIDE DEF q, t
<1>3. Len(q \o t) = Len(q) + Len(t)
  BY <1>2, ConcatProperties
<1>4. Stands(s, 0, q \o t)
  BY <1>2
<1>5. Stands(s, 0 + Len(q), t)
  BY <1>2, <1>4, StandsSplit
<1>6. 0 + Len(q) = Len(q)
  BY <1>2
<1> QED
  BY <1>2, <1>3, <1>5, <1>6 DEF q, t

(* Where the chunks of a message are.                                      *)
At(m, i) == Len(Sent(m, i))
Line(m, i) == Len(m.sizes[i + 1]) + 2
Placed(m) ==
  LET W == Wire(m)
      L == Len(m.parts)
  IN  /\ At(m, 0) = HeadLength(m)
      /\ \A i \in 0 .. L :
           /\ At(m, i) \in Nat /\ Line(m, i) \in Nat /\ Line(m, i) > 2
           /\ Stands(W, At(m, i), SizeLine(m, i + 1))
           /\ At(m, i) + Line(m, i) <= Len(W)
      /\ \A i \in 0 .. L - 1 :
           /\ Stands(W, At(m, i) + Line(m, i), m.parts[i + 1])
           /\ Stands(W, At(m, i) + Line(m, i) + Len(m.parts[i + 1]), LineBreak)
           /\ At(m, i + 1) = At(m, i) + Line(m, i) + Len(m.parts[i + 1]) + 2
           /\ At(m, i + 1) <= Len(W)
      /\ Stands(W, At(m, L) + Line(m, L), LineBreak)
      /\ Len(W) = At(m, L) + Line(m, L) + 2

(* They are there, one behind the other.                                   *)
LEMMA ChunksPlaced ==
  ASSUME NEW m \in Messages, m.framing = "chunked"
  PROVE  Placed(m)
<1> DEFINE W == Wire(m)
           L == Len(m.parts)
           p == ChunkedHead(m)
           cs == Chunks(m)
           sent(i) == Sent(m, i)
<1>1. Made(m) /\ Headed(m)
  BY MessageMade, MessageHeaded
<1>2. AreChunks(m)
  BY <1>1, ChunksAre
<1>3. L \in Nat /\ Len(cs) = L /\ cs \in Seq(Seq(Nat))
  BY <1>1, <1>2 DEF Made, AreChunks
<1>4. W \in Seq(Nat) /\ Len(W) \in Nat
  BY <1>1 DEF Headed
<1>5. p = HeadLines(m) \o HeadEnd
  BY DEF ChunkedHead, HeadLines, Told
<1>6. p \in Seq(Nat) /\ Len(p) = HeadLength(m)
  <2>1. HeadLines(m) \in Seq(Nat) /\ HeadLength(m) = Len(HeadLines(m)) + 4
    BY <1>1 DEF Headed
  <2> QED
    BY <1>5, <2>1, HeadEndIs, JoinTwo
<1>7. \A i : sent(i) = p \o Joined(cs, i)
  BY DEF Sent, Chunks
<1>8. \A i \in 0 .. L : sent(i) \in Seq(Nat) /\ Len(sent(i)) \in Nat
  <2> TAKE i \in 0 .. L
  <2>1. Joined(cs, i) \in Seq(Nat)
    BY <1>2 DEF AreChunks
  <2> HIDE DEF p, cs
  <2>2. p \o Joined(cs, i) \in Seq(Nat)
    BY <1>6, <2>1, JoinTwo
  <2>3. sent(i) = p \o Joined(cs, i)
    BY <1>7
  <2> HIDE DEF sent
  <2>4. sent(i) \in Seq(Nat)
    BY <2>2, <2>3
  <2> QED
    BY <2>4
<1>9. \A i \in 0 .. L : Len(m.sizes[i + 1]) \in Nat \ {0}
  <2> TAKE i \in 0 .. L
  <2>1. i + 1 \in 1 .. Len(m.sizes)
    BY <1>1, <1>3 DEF Made
  <2> QED
    BY <1>1, <2>1 DEF Made
<1>10. \A i \in 0 .. L : Line(m, i) \in Nat /\ Line(m, i) > 2
  BY <1>9 DEF Line
<1>11. \A i \in 0 .. L : SizeLine(m, i + 1) \in Seq(Nat) /\ Len(SizeLine(m, i + 1)) = Line(m, i)
  <2> TAKE i \in 0 .. L
  <2>1. i + 1 \in 1 .. L + 1
    BY <1>3
  <2> QED
    BY <1>2, <2>1 DEF AreChunks, Line
<1>12. LineBreak \in Seq(Nat) /\ Len(LineBreak) = 2
  BY <1>2 DEF AreChunks
<1>13. Len(m.sizes) = L + 1
  BY <1>1 DEF Made
<1>14. W = (sent(L) \o SizeLine(m, L + 1)) \o LineBreak
  BY <1>13 DEF Wire
<1>15. L \in 0 .. L
  BY <1>3
<1> HIDE DEF W, L, p, cs, sent
<1>16. InThree(W, sent(L), SizeLine(m, L + 1), LineBreak)
  BY <1>8, <1>11, <1>12, <1>14, <1>15, Split3
<1>17. /\ Len(W) = Len(sent(L)) + Line(m, L) + 2
       /\ Stands(W, 0, sent(L)) /\ Stands(W, Len(sent(L)), SizeLine(m, L + 1))
       /\ Stands(W, Len(sent(L)) + Line(m, L), LineBreak)
  BY <1>11, <1>12, <1>15, <1>16 DEF InThree
<1>18. \A i \in 0 .. L : Stands(W, 0, sent(i))
  <2>1. Stands(W, 0, p \o Joined(cs, Len(cs)))
    BY <1>3, <1>7, <1>17
  <2>2. \A n \in 0 .. Len(cs) : Stands(W, 0, p \o Joined(cs, n))
    BY <1>3, <1>4, <1>6, <2>1, FirstStand
  <2> QED
    BY <1>3, <1>7, <2>2
<1>19. ASSUME NEW i \in 0 .. L - 1
       PROVE  /\ Stands(W, Len(sent(i)), SizeLine(m, i + 1))
              /\ Stands(W, Len(sent(i)) + Line(m, i), m.parts[i + 1])
              /\ Stands(W, Len(sent(i)) + Line(m, i) + Len(m.parts[i + 1]), LineBreak)
              /\ Len(sent(i + 1)) = Len(sent(i)) + Line(m, i) + Len(m.parts[i + 1]) + 2
              /\ Len(m.parts[i + 1]) \in Nat
  <2> DEFINE n == i + 1
             c == Chunk(m, n)
             b == Len(sent(i))
             t == m.parts[n]
             l == SizeLine(m, n)
  <2>1. n \in 1 .. L /\ n - 1 = i /\ n \in 0 .. L /\ i \in 0 .. L
    BY <1>3
  <2>2. cs[n] = c /\ c \in Seq(Nat) /\ Len(c) = Len(l) + Len(t) + 2
    BY <1>2, <2>1 DEF AreChunks, cs, L
  <2>3. t \in Seq(Nat) /\ Len(t) \in Nat
    BY <1>1, <2>1 DEF Made, L
  <2>4. l \in Seq(Nat) /\ Len(l) = Line(m, i) /\ Line(m, i) \in Nat
    BY <1>10, <1>11, <2>1
  <2>5. b \in Nat
    BY <1>8, <2>1
  <2> HIDE DEF n
  <2>6. Stands(W, 0, p \o Joined(cs, n)) /\ n \in 1 .. Len(cs)
    BY <1>3, <1>7, <1>18, <2>1
  <2>7. /\ Stands(W, Len(p \o Joined(cs, n - 1)), cs[n])
        /\ Len(p \o Joined(cs, n)) = Len(p \o Joined(cs, n - 1)) + Len(cs[n])
    BY <1>3, <1>4, <1>6, <2>6, NextStands
  <2>8. Stands(W, b, c) /\ Len(sent(n)) = b + Len(c)
    BY <1>7, <2>1, <2>2, <2>7
  <2>9. c = (l \o t) \o LineBreak
    BY DEF Chunk
  <2> HIDE DEF c, b, t, l
  <2>10. l \o t \in Seq(Nat) /\ Len(l \o t) = Len(l) + Len(t)
    BY <2>3, <2>4, JoinTwo
  <2>11. Stands(W, b, l \o t) /\ Stands(W, b + Len(l \o t), LineBreak)
    BY <1>4, <1>12, <2>5, <2>8, <2>9, <2>10, StandsSplit
  <2>12. Stands(W, b, l) /\ Stands(W, b + Len(l), t)
    BY <1>4, <2>3, <2>4, <2>5, <2>11, StandsSplit
  <2>13. b + Len(l \o t) = b + Line(m, i) + Len(t) /\ b + Len(c) = b + Line(m, i) + Len(t) + 2
    BY <2>2, <2>3, <2>4, <2>5, <2>10
  <2>14. Stands(W, b + Line(m, i) + Len(t), LineBreak) /\ Len(sent(n)) = b + Line(m, i) + Len(t) + 2
    BY <2>8, <2>11, <2>13
  <2>15. Stands(W, b + Line(m, i), t)
    BY <2>4, <2>12
  <2> QED
    BY <2>3, <2>12, <2>14, <2>15 DEF b, t, l, n
<1>20. ASSUME NEW i \in 0 .. L
       PROVE  Stands(W, Len(sent(i)), SizeLine(m, i + 1)) /\ Len(sent(i)) + Line(m, i) <= Len(W)
  <2>1. CASE i = L
    BY <1>8, <1>10, <1>17, <2>1
  <2>2. CASE i # L
    <3>1. i \in 0 .. L - 1
      BY <1>3, <2>2
    <3>2. Stands(W, Len(sent(i)), SizeLine(m, i + 1))
      BY <1>19, <3>1
    <3> QED
      BY <1>11, <3>2 DEF Stands
  <2> QED
    BY <2>1, <2>2
<1>21. ASSUME NEW i \in 0 .. L - 1 PROVE Len(sent(i + 1)) <= Len(W)
  <2>1. Stands(W, Len(sent(i)) + Line(m, i) + Len(m.parts[i + 1]), LineBreak)
    BY <1>19
  <2>2. Len(sent(i)) + Line(m, i) + Len(m.parts[i + 1]) + 2 <= Len(W)
    BY <1>12, <2>1 DEF Stands
  <2> QED
    BY <1>19, <2>2
<1>22. Len(sent(0)) = HeadLength(m)
  <2>1. Joined(cs, 0) = <<>>
    <3>1. AreJoined(Nat, cs)
      BY <1>3, JoinedIs
    <3> QED
      BY <3>1 DEF AreJoined
  <2>2. p \o <<>> = p
    BY <1>6, ConcatEmptySeq
  <2> QED
    BY <1>6, <1>7, <2>1, <2>2
<1> QED
  BY <1>8, <1>10, <1>17, <1>19, <1>20, <1>21, <1>22 DEF Placed, At, W, L, sent

(* The search finds the end of the head as soon as it is there.            *)
LEMMA HeadLinesAre ==
  ASSUME NEW m \in Messages, NEW i \in 1 .. Len(HeadLines(m))
  PROVE  /\ Wire(m)[i] = HeadLines(m)[i]
         /\ \/ i \in 1 .. Len(m.lines) /\ HeadLines(m)[i] = m.lines[i]
            \/ /\ i = Len(m.lines) + 1 /\ Len(Told(m)) = 1
               /\ HeadLines(m)[i] = Told(m)[1]
<1>1. Made(m) /\ Headed(m)
  BY MessageMade, MessageHeaded
<1>2. m.lines \in Seq(Nat) /\ Told(m) \in Seq(Nat)
  BY <1>1 DEF Made, Headed
<1>3. Len(HeadLines(m)) = Len(m.lines) + Len(Told(m))
      /\ \A k \in 1 .. Len(m.lines) + Len(Told(m)) :
           HeadLines(m)[k] = IF k <= Len(m.lines) THEN m.lines[k] ELSE Told(m)[k - Len(m.lines)]
  BY <1>2, ConcatProperties DEF HeadLines
<1>4. Len(Told(m)) \in {0, 1}
  BY DEF Told
<1>5. Wire(m)[0 + i] = HeadLines(m)[i]
  BY <1>1 DEF Headed, Stands
<1> DEFINE l == Len(m.lines)
           t == Len(Told(m))
           h == HeadLines(m)
<1>6. l \in Nat /\ t \in {0, 1} /\ i \in 1 .. l + t /\ 0 + i = i
  BY <1>2, <1>3, <1>4
<1>7. h[i] = IF i <= l THEN m.lines[i] ELSE Told(m)[i - l]
  BY <1>3, <1>6
<1> HIDE DEF l, t, h
<1>8. CASE i <= l
  <2>1. i \in 1 .. l /\ h[i] = m.lines[i]
    BY <1>6, <1>7, <1>8
  <2> QED
    BY <1>5, <1>6, <2>1 DEF l, h
<1>9. CASE ~(i <= l)
  <2>1. i = l + 1 /\ t = 1 /\ i - l = 1
    BY <1>6, <1>9
  <2>2. h[i] = Told(m)[1]
    BY <1>7, <1>9, <2>1
  <2> QED
    BY <1>5, <1>6, <2>1, <2>2 DEF l, t, h
<1> QED
  BY <1>8, <1>9

(* No line of the head has a line break in it.                             *)
LEMMA NoBreakInHead ==
  ASSUME NEW m \in Messages, NEW i \in 1 .. Len(HeadLines(m))
  PROVE  Wire(m)[i] # CR
<1>1. Wire(m)[i] = HeadLines(m)[i]
      /\ \/ i \in 1 .. Len(m.lines) /\ HeadLines(m)[i] = m.lines[i]
         \/ /\ i = Len(m.lines) + 1 /\ Len(Told(m)) = 1
            /\ HeadLines(m)[i] = Told(m)[1]
  BY HeadLinesAre
<1>2. m.lines \in Seq({PlainLine, NamelessLine})
  BY MessageMade DEF Made
<1>3. CASE i \in 1 .. Len(m.lines) /\ HeadLines(m)[i] = m.lines[i]
  <2>1. m.lines[i] \in {PlainLine, NamelessLine}
    BY <1>2, <1>3
  <2> QED
    BY <1>1, <1>3, <2>1 DEF PlainLine, NamelessLine, CR
<1>4. CASE Len(Told(m)) = 1 /\ HeadLines(m)[i] = Told(m)[1]
  <2>1. Told(m)[1] \in {ChunkedLine, LengthLine}
    BY <1>4 DEF Told
  <2> QED
    BY <1>1, <1>4, <2>1 DEF ChunkedLine, LengthLine, CR
<1> QED
  BY <1>1, <1>3, <1>4

(* So it is found with its last byte; before that, the search goes to the  *)
(* end.                                                                    *)
LEMMA EndOfHeadIs ==
  ASSUME NEW m \in Messages, NEW c \in 0 .. Len(Wire(m)), c >= 3
  PROVE  EndOfHead(Piece(Wire(m), 0, c)) =
           IF c >= HeadLength(m) THEN HeadLength(m) - 4 ELSE c - 3
<1> DEFINE W == Wire(m)
           h == Len(HeadLines(m))
           s == Piece(W, 0, c)
           E == {i \in 0 .. Len(s) - 4 : SubSeq(s, i + 1, i + 4) = HeadEnd}
<1>1. Headed(m)
  BY MessageHeaded
<1>2. /\ W \in Seq(Nat) /\ Len(W) \in Nat /\ h \in Nat /\ HeadLength(m) = h + 4
      /\ h + 4 <= Len(W) /\ Stands(W, h, HeadEnd)
  BY <1>1 DEF Headed
<1>3. c \in Nat /\ c <= Len(W) /\ 0 \in Nat
  BY <1>2
<1>4. IsPiece(Nat, W, 0, c, s)
  BY <1>2, <1>3, PieceIs
<1>5. s \in Seq(Nat) /\ Len(s) = c /\ \A i \in 1 .. c : s[i] = W[i]
  BY <1>3, <1>4 DEF IsPiece
<1>6. EndOfHead(s) = IF E = {} THEN Len(s) - 3 ELSE CHOOSE i \in E : \A j \in E : i <= j
  BY DEF EndOfHead
<1>7. \A i \in 1 .. h : W[i] # CR
  BY NoBreakInHead
<1> HIDE DEF W, h, s
<1>8. ASSUME NEW i \in E PROVE i >= h /\ i \in Nat /\ i <= c - 4
  <2>1. i \in 0 .. c - 4 /\ SubSeq(s, i + 1, i + 4) = HeadEnd
    BY <1>5
  <2>2. i \in Nat /\ i + 4 \in Nat /\ i <= i + 4 /\ i + 4 <= Len(s) /\ 1 \in 1 .. i + 4 - i
    BY <1>3, <1>5, <2>1
  <2>3. IsPiece(Nat, s, i, i + 4, Piece(s, i, i + 4))
    BY <1>5, <2>2, PieceIs
  <2>4. Piece(s, i, i + 4)[1] = s[i + 1]
    BY <2>2, <2>3 DEF IsPiece
  <2>5. Piece(s, i, i + 4)[1] = CR
    <3>1. Piece(s, i, i + 4) = <<CR, LF, CR, LF>>
      BY <2>1, HeadEndIs DEF Piece
    <3> QED
      BY <3>1
  <2>6. i + 1 \in 1 .. c
    BY <1>3, <2>1
  <2>7. W[i + 1] = CR
    BY <1>5, <2>4, <2>5, <2>6
  <2>8. i + 1 \notin 1 .. h
    BY <1>7, <2>7
  <2> QED
    BY <1>2, <2>1, <2>8
<1>9. CASE c >= h + 4
  <2>1. Stands(s, h, HeadEnd)
    <3>1. \A i \in 1 .. 4 : W[h + i] = HeadEnd[i]
      BY <1>2, HeadEndIs DEF Stands
    <3>2. \A i \in 1 .. 4 : h + i \in 1 .. c
      BY <1>2, <1>3, <1>9
    <3>3. \A i \in 1 .. 4 : s[h + i] = HeadEnd[i]
      BY <1>5, <3>1, <3>2
    <3> QED
      BY <1>2, <1>3, <1>5, <1>9, <3>3, HeadEndIs DEF Stands
  <2>2. Piece(s, h, h + Len(HeadEnd)) = HeadEnd
    BY <1>2, <1>5, <2>1, HeadEndIs, StandsIs
  <2>3. SubSeq(s, h + 1, h + 4) = HeadEnd
    BY <2>2, HeadEndIs DEF Piece
  <2>4. h \in 0 .. Len(s) - 4
    BY <1>2, <1>3, <1>5, <1>9
  <2>5. h \in E /\ E \subseteq Nat /\ \A j \in E : h <= j
    <3>1. h \in E
      BY <2>3, <2>4
    <3>2. \A j \in E : j \in Nat /\ j >= h
      BY <1>8
    <3> HIDE DEF E
    <3> QED
      BY <1>2, <3>1, <3>2
  <2> HIDE DEF E
  <2>6. (CHOOSE i \in E : \A j \in E : i <= j) = h
    BY <2>5, FirstIs
  <2>7. EndOfHead(s) = h
    BY <1>6, <2>5, <2>6
  <2> QED
    BY <1>2, <1>9, <2>7 DEF s, W
<1>10. CASE ~(c >= h + 4)
  <2>1. E = {}
    <3> SUFFICES ASSUME NEW i \in E PROVE FALSE
      OBVIOUS
    <3>1. i >= h /\ i \in Nat /\ i <= c - 4
      BY <1>8
    <3> QED
      BY <1>2, <1>3, <1>10, <3>1
  <2> HIDE DEF E
  <2>2. EndOfHead(s) = c - 3
    BY <1>5, <1>6, <2>1
  <2> QED
    BY <1>2, <1>10, <2>2 DEF s, W
<1> QED
  BY <1>9, <1>10

(* In all that is sent the search finds the same place.                    *)
LEMMA EndOfWire ==
  ASSUME NEW m \in Messages
  PROVE  EndOfHead(Wire(m)) = HeadLength(m) - 4 /\ HeadLength(m) \in Nat /\ HeadLength(m) >= 4
<1>1. Headed(m)
  BY MessageHeaded
<1>2. /\ Wire(m) \in Seq(Nat) /\ Len(Wire(m)) \in Nat /\ HeadLength(m) <= Len(Wire(m))
      /\ HeadLength(m) \in Nat /\ HeadLength(m) >= 4
  BY <1>1 DEF Headed
<1>3. Piece(Wire(m), 0, Len(Wire(m))) = Wire(m)
  BY <1>2, WholePiece
<1>4. Len(Wire(m)) \in 0 .. Len(Wire(m)) /\ Len(Wire(m)) >= 3
  BY <1>2
<1>5. EndOfHead(Piece(Wire(m), 0, Len(Wire(m)))) =
        IF Len(Wire(m)) >= HeadLength(m) THEN HeadLength(m) - 4 ELSE Len(Wire(m)) - 3
  BY <1>4, EndOfHeadIs
<1> QED
  BY <1>2, <1>3, <1>5

(* What the head tells when it is whole.                                   *)
ToldBody(m) == m.framing = "encoded" /\ Body(m) # <<>>
ToldLength(m) == IF ToldBody(m) THEN Len(Body(m)) ELSE -1
InChunks(m) == m.framing = "chunked"
HeadOf(m) == Piece(Wire(m), 0, HeadLength(m))
Named(m) == m.isReq => \A i \in DOMAIN m.lines : m.lines[i] # NamelessLine

(* The bytes of the head are the first of the wire.                        *)
LEMMA HeadOfIs ==
  ASSUME NEW m \in Messages
  PROVE  /\ HeadOf(m) \in Seq(Nat) /\ Len(HeadOf(m)) = HeadLength(m)
         /\ \A i \in 1 .. HeadLength(m) : HeadOf(m)[i] = Wire(m)[i]
<1> DEFINE W == Wire(m)
           H == HeadLength(m)
<1>1. W \in Seq(Nat) /\ H \in Nat /\ H <= Len(W) /\ 0 \in Nat /\ 0 <= H
  BY MessageHeaded, EndOfWire DEF Headed
<1>2. IsPiece(Nat, W, 0, H, HeadOf(m))
  BY <1>1, PieceIs DEF HeadOf
<1> HIDE DEF W, H
<1>3. HeadOf(m) \in Seq(Nat) /\ Len(HeadOf(m)) = H /\ \A i \in 1 .. H : HeadOf(m)[i] = W[i]
  BY <1>1, <1>2 DEF IsPiece
<1> QED
  BY <1>3 DEF W, H

(* Its lines tell what the message is: no line hides another.              *)
LEMMA HeadTells ==
  ASSUME NEW m \in Messages, Named(m)
  PROVE  LET X == {HeadOf(m)[i] : i \in 1 .. HeadLength(m)}
         IN  /\ ChunkedLine \in X <=> m.framing = "chunked"
             /\ LengthLine \in X <=> ToldBody(m)
             /\ m.isReq => NamelessLine \notin X
<1> DEFINE W == Wire(m)
           H == HeadLength(m)
           h == Len(HeadLines(m))
           l == Len(m.lines)
           X == {HeadOf(m)[i] : i \in 1 .. H}
<1>1. Made(m) /\ Headed(m)
  BY MessageMade, MessageHeaded
<1>2. /\ h \in Nat /\ H = h + 4 /\ Stands(W, h, HeadEnd) /\ Stands(W, 0, HeadLines(m))
      /\ m.lines \in Seq({PlainLine, NamelessLine}) /\ l \in Nat
  BY <1>1 DEF Made, Headed
<1>3. \A i \in 1 .. H : HeadOf(m)[i] = W[i]
  BY HeadOfIs
<1>4. ASSUME NEW i \in 1 .. H
      PROVE  \/ W[i] \in {CR, LF}
             \/ i \in 1 .. l /\ W[i] = m.lines[i]
             \/ Len(Told(m)) = 1 /\ W[i] = Told(m)[1]
  <2>1. CASE i <= h
    <3>1. i \in 1 .. h
      BY <1>2, <2>1
    <3> QED
      BY <3>1, HeadLinesAre
  <2>2. CASE ~(i <= h)
    <3>1. i - h \in 1 .. 4 /\ h + (i - h) = i
      BY <1>2, <2>2
    <3>2. W[h + (i - h)] = HeadEnd[i - h]
      BY <1>2, <3>1, HeadEndIs DEF Stands
    <3>3. \A k \in 1 .. 4 : HeadEnd[k] \in {CR, LF}
      BY HeadEndIs
    <3> QED
      BY <3>1, <3>2, <3>3
  <2> QED
    BY <2>1, <2>2
<1>5. \A i \in 1 .. l : m.lines[i] \in {PlainLine, NamelessLine}
  BY <1>2
<1>6. Len(Told(m)) = 1 =>
        \/ Told(m)[1] = ChunkedLine /\ m.framing = "chunked"
        \/ Told(m)[1] = LengthLine /\ ToldBody(m)
  BY DEF Told, ToldBody
<1>7. m.framing = "chunked" \/ ToldBody(m) => Len(Told(m)) = 1 /\ l + 1 \in 1 .. h
  <2>1. m.framing = "chunked" \/ ToldBody(m) => Len(Told(m)) = 1
    BY DEF Told, ToldBody
  <2>2. h = l + Len(Told(m))
    <3>1. HeadLength(m) = l + Len(Told(m)) + 4 /\ Len(Told(m)) \in Nat
      BY <1>1 DEF HeadLength, Headed
    <3> QED
      BY <1>2, <3>1
  <2>3. ASSUME Len(Told(m)) = 1 PROVE l + 1 \in 1 .. h
    BY <1>2, <2>2, <2>3
  <2> QED
    BY <2>1, <2>3
<1>8. Len(Told(m)) = 1 /\ l + 1 \in 1 .. h => Told(m)[1] \in X
  <2> HAVE Len(Told(m)) = 1 /\ l + 1 \in 1 .. h
  <2>1. l + 1 \in 1 .. H /\ l + 1 \notin 1 .. l
    BY <1>2
  <2>2. W[l + 1] = Told(m)[1]
    BY <2>1, HeadLinesAre
  <2> QED
    BY <1>3, <2>1, <2>2
<1>9. m.framing = "chunked" => Told(m)[1] = ChunkedLine
  BY DEF Told
<1>10. ToldBody(m) => Told(m)[1] = LengthLine
  BY DEF Told, ToldBody
<1>11. m.isReq => \A i \in 1 .. l : m.lines[i] # NamelessLine
  BY <1>2 DEF Named
<1>12. \A x \in X : \/ x \in {CR, LF}
                    \/ x \in {PlainLine, NamelessLine} /\ (m.isReq => x # NamelessLine)
                    \/ Len(Told(m)) = 1 /\ x = Told(m)[1]
  <2> TAKE x \in X
  <2>1. PICK i \in 1 .. H : x = W[i]
    BY <1>3
  <2> QED
    BY <1>4, <1>5, <1>11, <2>1
<1> HIDE DEF X
<1>13. /\ ChunkedLine \notin {CR, LF, PlainLine, NamelessLine, LengthLine}
       /\ LengthLine \notin {CR, LF, PlainLine, NamelessLine}
       /\ NamelessLine \notin {CR, LF, ChunkedLine, LengthLine}
  BY DEF ChunkedLine, LengthLine, PlainLine, NamelessLine, CR, LF
<1>14. ChunkedLine \in X <=> m.framing = "chunked"
  BY <1>6, <1>7, <1>8, <1>9, <1>12, <1>13
<1>15. LengthLine \in X <=> ToldBody(m)
  BY <1>6, <1>7, <1>8, <1>10, <1>12, <1>13
<1>16. m.isReq => NamelessLine \notin X
  BY <1>6, <1>12, <1>13
<1> QED
  BY <1>14, <1>15, <1>16 DEF X

(* A parser that looks for the end of the head, and one that has it.       *)
Parsers ==
  [isReq : BOOLEAN, code : Int, clen : Nat \cup {-1}, chunked : BOOLEAN, head : Seq(Nat),
   body : Seq(Nat), buffer : Seq(Nat), done : BOOLEAN, faults : SUBSET STRING]
Searching(p, m, head) ==
  /\ p \in Parsers
  /\ p.isReq = m.isReq /\ p.code = -1 /\ p.head = head /\ p.body = <<>> /\ p.buffer = <<>>
  /\ ~p.done /\ p.faults = {}
Reading(p, m, clen, body, buffer) ==
  /\ p \in Parsers
  /\ p.isReq = m.isReq /\ p.code = 200 /\ p.clen = clen /\ p.chunked = InChunks(m)
  /\ p.head = HeadOf(m) /\ p.body = body /\ p.buffer = buffer
  /\ p.faults = {}

(* What the parser is when one of its fields is set.                       *)
LEMMA SetCode ==
  ASSUME NEW p \in Parsers, NEW r \in Int
  PROVE  [p EXCEPT !.code = r] \in Parsers
BY DEF Parsers

LEMMA SetBuffer ==
  ASSUME NEW m, NEW c, NEW b, NEW u, NEW r \in Seq(Nat), NEW p, Reading(p, m, c, b, u)
  PROVE  Reading([p EXCEPT !.buffer = r], m, c, b, r) /\ [p EXCEPT !.buffer = r].done = p.done
BY DEF Parsers, Reading

LEMMA SetClen ==
  ASSUME NEW m, NEW c, NEW b, NEW u, NEW r \in Nat \cup {-1}, NEW p, Reading(p, m, c, b, u)
  PROVE  Reading([p EXCEPT !.clen = r], m, r, b, u) /\ [p EXCEPT !.clen = r].done = p.done
BY DEF Parsers, Reading

LEMMA SetBody ==
  ASSUME NEW m, NEW c, NEW b, NEW u, NEW r \in Seq(Nat), NEW p, Reading(p, m, c, b, u)
  PROVE  Reading([p EXCEPT !.body = r], m, c, r, u) /\ [p EXCEPT !.body = r].done = p.done
BY DEF Parsers, Reading

LEMMA SetDone ==
  ASSUME NEW m, NEW c, NEW b, NEW u, NEW p, Reading(p, m, c, b, u)
  PROVE  Reading(Done(p), m, c, b, u) /\ Done(p).done
BY DEF Parsers, Reading, Done

(* decodeReqHeader() and decodeRespHeader() learn it from a head that is   *)
(* whole,                                                                  *)
LEMMA HeadDecoded ==
  ASSUME msg \in Messages, Named(msg), HeadLength(msg) >= MinHead,
         NEW p \in Parsers, p.isReq = msg.isReq, p.head = HeadOf(msg),
         p.body = <<>>, p.buffer = <<>>, ~p.done, p.faults = {}
  PROVE  /\ Reading(DecodeHeader(p), msg, ToldLength(msg), <<>>, <<>>)
         /\ ~DecodeHeader(p).done
<1> DEFINE X == {HeadOf(msg)[i] : i \in 1 .. HeadLength(msg)}
           q == DecodeHeader(p)
<1>1. HeadOf(msg) \in Seq(Nat) /\ Len(HeadOf(msg)) = HeadLength(msg) /\ HeadLength(msg) \in Nat
  BY HeadOfIs, EndOfWire
<1>2. DOMAIN p.head = 1 .. HeadLength(msg) /\ Len(p.head) = HeadLength(msg)
  BY <1>1
<1>3. /\ ChunkedLine \in X <=> msg.framing = "chunked"
      /\ LengthLine \in X <=> ToldBody(msg)
      /\ msg.isReq => NamelessLine \notin X
  BY HeadTells
<1>4. LinesOf(p) = X
  <2>1. {i \in DOMAIN p.head : p.isReq /\ p.head[i] = NamelessLine} = {}
    BY <1>2, <1>3
  <2>2. {j \in DOMAIN p.head : \A k \in {} : j < k} = 1 .. HeadLength(msg)
    BY <1>2
  <2> QED
    BY <2>1, <2>2 DEF LinesOf
<1>5. ~(Len(p.head) < MinHead)
  BY <1>1, <1>2, LimitsNat
<1> HIDE DEF X
<1>6. q = [p EXCEPT !.code = 200, !.chunked = ChunkedLine \in X,
                    !.clen = IF ChunkedLine \in X \/ LengthLine \notin X
                             THEN -1 ELSE Len(Body(msg))]
  BY <1>4, <1>5 DEF DecodeHeader
<1>7. (ChunkedLine \in X) = InChunks(msg)
  BY <1>3 DEF InChunks
<1>8. (IF ChunkedLine \in X \/ LengthLine \notin X THEN -1 ELSE Len(Body(msg))) = ToldLength(msg)
  BY <1>3 DEF ToldLength, ToldBody
<1> DEFINE p1 == [p EXCEPT !.code = 200]
           p2 == [p1 EXCEPT !.chunked = InChunks(msg)]
           p3 == [p2 EXCEPT !.clen = ToldLength(msg)]
<1>9. q = p3
  BY <1>6, <1>7, <1>8
<1>10. InChunks(msg) \in BOOLEAN /\ ToldLength(msg) \in Nat \cup {-1}
  <2>1. Body(msg) \in Seq(Nat)
    BY MessageMade DEF Made
  <2> QED
    BY <2>1 DEF InChunks, ToldLength
<1> HIDE DEF q
<1>11. /\ p1 \in Parsers /\ p1.isReq = msg.isReq /\ p1.code = 200 /\ p1.head = HeadOf(msg)
       /\ p1.body = <<>> /\ p1.buffer = <<>> /\ ~p1.done /\ p1.faults = {}
  <2>1. p \in Parsers
    OBVIOUS
  <2>2. p1 \in Parsers
    BY <2>1, 200 \in Int, SetCode
  <2>3. /\ p1.isReq = p.isReq /\ p1.code = 200 /\ p1.head = p.head /\ p1.body = p.body
        /\ p1.buffer = p.buffer /\ p1.done = p.done /\ p1.faults = p.faults
    BY <2>1 DEF Parsers
  <2> QED
    BY <2>2, <2>3
<1> HIDE DEF p1
<1>12. /\ p2 \in Parsers /\ p2.isReq = msg.isReq /\ p2.code = 200 /\ p2.head = HeadOf(msg)
       /\ p2.body = <<>> /\ p2.buffer = <<>> /\ ~p2.done /\ p2.faults = {}
       /\ p2.chunked = InChunks(msg)
  BY <1>10, <1>11 DEF Parsers
<1> HIDE DEF p2
<1>13. /\ p3 \in Parsers /\ p3.isReq = msg.isReq /\ p3.code = 200 /\ p3.head = HeadOf(msg)
       /\ p3.body = <<>> /\ p3.buffer = <<>> /\ ~p3.done /\ p3.faults = {}
       /\ p3.chunked = InChunks(msg) /\ p3.clen = ToldLength(msg)
  BY <1>10, <1>12 DEF Parsers
<1> HIDE DEF p3
<1> QED
  BY <1>9, <1>13 DEF Reading, q

(* and what has come behind the head goes to the chunks or to the body.    *)
LEMMA HeadSplit ==
  ASSUME msg \in Messages, Named(msg), HeadLength(msg) >= MinHead,
         NEW c \in HeadLength(msg) .. Len(Wire(msg)),
         NEW p, Searching(p, msg, Piece(Wire(msg), 0, c))
  PROVE  LET rest == Piece(Wire(msg), HeadLength(msg), c)
             r == SplitHead(p, HeadLength(msg) - 4)
         IN  /\ ~r.done
             /\ IF InChunks(msg) THEN Reading(r, msg, -1, <<>>, rest)
                ELSE Reading(r, msg, ToldLength(msg), rest, <<>>)
<1> DEFINE W == Wire(msg)
           H == HeadLength(msg)
           s == Piece(W, 0, c)
           rest == Piece(W, H, c)
           p1 == [p EXCEPT !.head = HeadOf(msg)]
           p2 == [p1 EXCEPT !.code = 0]
           q == DecodeHeader(p2)
<1>1. W \in Seq(Nat) /\ H \in Nat /\ Len(W) \in Nat /\ H <= Len(W)
  BY MessageHeaded, EndOfWire DEF Headed
<1>2. c \in Nat /\ c <= Len(W) /\ H <= c /\ 0 \in Nat /\ 0 <= c /\ 0 + 0 = 0 /\ 0 + H = H
      /\ 0 <= H /\ H <= c - 0 /\ H - 4 + 4 = H /\ 0 + 1 = 1
  BY <1>1
<1>3. p.head = s /\ p \in Parsers
  BY DEF Searching
<1>4. Piece(s, 0, H) = HeadOf(msg)
  <2>1. Piece(Piece(W, 0, c), 0, H) = Piece(W, 0 + 0, 0 + H)
    BY <1>1, <1>2, PieceOfPiece
  <2> QED
    BY <1>2, <2>1 DEF HeadOf
<1>5. SubSeq(p.head, 1, H - 4 + 4) = HeadOf(msg)
  BY <1>2, <1>3, <1>4 DEF Piece
<1>6. Drop(p.head, H - 4 + 4) = rest
  <2>1. Drop(Piece(W, 0, c), H) = Piece(W, 0 + H, c)
    BY <1>1, <1>2, DropPiece
  <2> QED
    BY <1>2, <1>3, <2>1
<1>7. SplitHead(p, H - 4) =
        IF q.chunked THEN [q EXCEPT !.buffer = rest] ELSE [q EXCEPT !.body = rest]
  BY <1>5, <1>6 DEF SplitHead
<1>8. HeadOf(msg) \in Seq(Nat)
  BY HeadOfIs
<1>9. rest \in Seq(Nat)
  <2>1. IsPiece(Nat, W, H, c, rest)
    BY <1>1, <1>2, PieceIs
  <2> QED
    BY <2>1 DEF IsPiece
<1>10. /\ p1 \in Parsers /\ p1.isReq = msg.isReq /\ p1.head = HeadOf(msg)
       /\ p1.body = <<>> /\ p1.buffer = <<>> /\ ~p1.done /\ p1.faults = {}
  BY <1>8 DEF Searching, Parsers
<1> HIDE DEF p1
<1>11. /\ p2 \in Parsers /\ p2.isReq = msg.isReq /\ p2.head = HeadOf(msg)
       /\ p2.body = <<>> /\ p2.buffer = <<>> /\ ~p2.done /\ p2.faults = {}
  <2>1. p1 \in Parsers
    BY <1>10
  <2>2. p2 \in Parsers
    BY <2>1, 0 \in Int, SetCode
  <2>3. /\ p2.isReq = p1.isReq /\ p2.head = p1.head /\ p2.body = p1.body
        /\ p2.buffer = p1.buffer /\ p2.done = p1.done /\ p2.faults = p1.faults
    BY <2>1 DEF Parsers
  <2> QED
    BY <1>10, <2>2, <2>3
<1> HIDE DEF p2
<1>12. Reading(q, msg, ToldLength(msg), <<>>, <<>>) /\ ~q.done
  BY <1>11, HeadDecoded
<1> HIDE DEF q, rest, H, W
<1>13. q.chunked = InChunks(msg)
  BY <1>12 DEF Reading
<1>14. CASE InChunks(msg)
  <2>1. ToldLength(msg) = -1
    BY <1>14 DEF ToldLength, ToldBody, InChunks
  <2>2. Reading(q, msg, -1, <<>>, <<>>)
    BY <1>12, <2>1
  <2>3. Reading([q EXCEPT !.buffer = rest], msg, -1, <<>>, rest)
        /\ [q EXCEPT !.buffer = rest].done = q.done
    BY <1>9, <2>2, SetBuffer
  <2>4. SplitHead(p, H - 4) = [q EXCEPT !.buffer = rest]
    BY <1>7, <1>13, <1>14
  <2> QED
    BY <1>12, <1>14, <2>3, <2>4 DEF rest, H, W
<1>15. CASE ~InChunks(msg)
  <2>1. Reading([q EXCEPT !.body = rest], msg, ToldLength(msg), rest, <<>>)
        /\ [q EXCEPT !.body = rest].done = q.done
    BY <1>9, <1>12, SetBody
  <2>2. SplitHead(p, H - 4) = [q EXCEPT !.body = rest]
    BY <1>7, <1>13, <1>15
  <2> QED
    BY <1>12, <1>15, <2>1, <2>2 DEF rest, H, W
<1> QED
  BY <1>14, <1>15

(* The turns of the loop over chunks: where the parser can be, and where   *)
(* it stays until the next piece arrives.                                  *)
BodyTo(m, i) == Joined(m.parts, i)
(* It is at a size line, at a chunk, or at the end.                        *)
AtSize(p, m, i, c) ==
  /\ At(m, i) <= c /\ ~p.done
  /\ Reading(p, m, -1, BodyTo(m, i), Piece(Wire(m), At(m, i), c))
AtChunk(p, m, i, c) ==
  /\ At(m, i) + Line(m, i) <= c /\ ~p.done
  /\ Reading(p, m, Len(m.parts[i + 1]), BodyTo(m, i), Piece(Wire(m), At(m, i) + Line(m, i), c))
AtEnd(p, m, c) ==
  /\ c = Len(Wire(m)) /\ p.done
  /\ Reading(p, m, 0, Body(m), <<>>)
Rests(p, m, c) ==
  \/ \E i \in 0 .. Len(m.parts) : AtSize(p, m, i, c) /\ c <= At(m, i) + 1
  \/ \E i \in 0 .. Len(m.parts) - 1 : AtChunk(p, m, i, c) /\ c < At(m, i + 1)
  \/ AtEnd(p, m, c)
Within(p, m, c) ==
  \/ \E i \in 0 .. Len(m.parts) : AtSize(p, m, i, c)
  \/ \E i \in 0 .. Len(m.parts) - 1 : AtChunk(p, m, i, c)

(* A place where a message in chunks may be cut.                           *)
GoodCut(m, c) ==
  /\ c \in Nat /\ c <= Len(Wire(m))
  /\ \A i \in 0 .. Len(m.parts) : c <= At(m, i) + 1 \/ c >= At(m, i) + Line(m, i)
  /\ c >= At(m, Len(m.parts)) + Line(m, Len(m.parts)) => c = Len(Wire(m))

(* BadCuts leaves only such places.                                        *)
LEMMA CutGood ==
  ASSUME NEW m \in Messages, m.framing = "chunked", NEW c \in 0 .. Len(Wire(m)), c \notin BadCuts(m)
  PROVE  GoodCut(m, c)
<1> DEFINE L == Len(m.parts)
           lines(i) == At(m, i) + 2 .. At(m, i) + Line(m, i) - 1
<1>1. Made(m) /\ Headed(m) /\ Placed(m)
  BY MessageMade, MessageHeaded, ChunksPlaced
<1>2. L \in Nat /\ Len(Wire(m)) \in Nat
  BY <1>1 DEF Made, Headed
<1>3. AreChunks(m)
  BY <1>1, ChunksAre
<1>4. \A i \in 0 .. L : Len(SizeLine(m, i + 1)) = Line(m, i)
  <2> TAKE i \in 0 .. L
  <2>1. i + 1 \in 1 .. L + 1
    BY <1>2
  <2> QED
    BY <1>3, <2>1 DEF AreChunks, Line
<1>5. UNION {At(m, i) + 2 .. At(m, i) + Len(SizeLine(m, i + 1)) - 1 : i \in 0 .. L} =
        UNION {lines(i) : i \in 0 .. L}
  BY <1>4
<1>6. L \in 0 .. L
  BY <1>2
<1>7. BadCuts(m) = {1, 2} \cup ((UNION {lines(i) : i \in 0 .. L})
                                  \cup (At(m, L) + Line(m, L) .. At(m, L) + Line(m, L) + 1))
  BY <1>4, <1>5, <1>6 DEF BadCuts, At
<1>8. \A i \in 0 .. L : At(m, i) \in Nat /\ Line(m, i) \in Nat
  BY <1>1 DEF Placed
<1>9. \A i \in 0 .. L : c \notin lines(i)
  BY <1>7
<1>10. c \notin At(m, L) + Line(m, L) .. At(m, L) + Line(m, L) + 1
  BY <1>7
<1>11. Len(Wire(m)) = At(m, L) + Line(m, L) + 2
  BY <1>1 DEF Placed
<1>12. \A i \in 0 .. L : c <= At(m, i) + 1 \/ c >= At(m, i) + Line(m, i)
  <2> TAKE i \in 0 .. L
  <2>1. At(m, i) \in Nat /\ Line(m, i) \in Nat /\ c \notin lines(i)
    BY <1>8, <1>9
  <2> QED
    BY <1>2, <2>1
<1>13. c >= At(m, L) + Line(m, L) => c = Len(Wire(m))
  <2>1. At(m, L) \in Nat /\ Line(m, L) \in Nat
    BY <1>6, <1>8
  <2> QED
    BY <1>2, <1>10, <1>11, <2>1
<1> QED
  BY <1>2, <1>12, <1>13 DEF GoodCut

(* At a size line the line is whole or has at most begun.                  *)
LEMMA TurnAtSize ==
  ASSUME NEW m \in Messages, m.framing = "chunked", NEW c, GoodCut(m, c),
         NEW i \in 0 .. Len(m.parts), NEW p, AtSize(p, m, i, c)
  PROVE  IF NoLine(p.buffer) THEN Rests(p, m, c)
         ELSE LET u == TakeSize(p)
              IN  \/ u.on /\ Within(u.parser, m, c) /\ Len(u.parser.buffer) <= Len(p.buffer) - 2
                  \/ ~u.on /\ Rests(u.parser, m, c)
<1> DEFINE W == Wire(m)
           L == Len(m.parts)
           d == m.sizes[i + 1]
           a == At(m, i)
           l == Line(m, i)
           b == Piece(W, a, c)
           rest == Piece(W, a + l, c)
<1>1. Made(m) /\ Headed(m) /\ Placed(m)
  BY MessageMade, MessageHeaded, ChunksPlaced
<1>2. W \in Seq(Nat) /\ Len(W) \in Nat /\ c \in Nat /\ c <= Len(W) /\ L \in Nat
  BY <1>1 DEF Headed, GoodCut, Made
<1>3. a \in Nat /\ l \in Nat /\ l > 2 /\ a + l <= Len(W) /\ Stands(W, a, SizeLine(m, i + 1))
  BY <1>1 DEF Placed
<1>4. a <= c /\ ~p.done /\ Reading(p, m, -1, BodyTo(m, i), b)
  BY DEF AtSize
<1>5. IsPiece(Nat, W, a, c, b)
  BY <1>2, <1>3, <1>4, PieceIs
<1>6. b \in Seq(Nat) /\ Len(b) = c - a /\ \A k \in 1 .. c - a : b[k] = W[a + k]
  BY <1>5 DEF IsPiece
<1>7. p.buffer = b /\ p \in Parsers /\ p.isReq = m.isReq /\ m.isReq \in BOOLEAN
  BY <1>1, <1>4 DEF Reading, Made
<1>8. i + 1 \in 1 .. Len(m.sizes)
  BY <1>1, <1>2 DEF Made
<1>9. d \in Seq(Digits) /\ d \in Seq(Nat) /\ Len(d) \in Nat /\ l = Len(d) + 2
      /\ Number(d) = IF i + 1 <= L THEN Len(m.parts[i + 1]) ELSE 0
  BY <1>1, <1>8 DEF Made, Line
<1>10. c <= a + 1 \/ c >= a + l
  BY DEF GoodCut
<1>11. CASE NoLine(b)
  <2>1. c <= a + 1
    BY <1>2, <1>3, <1>4, <1>6, <1>11 DEF NoLine
  <2>2. Rests(p, m, c)
    BY <2>1 DEF Rests
  <2> QED
    BY <1>7, <1>11, <2>2
<1>12. CASE ~NoLine(b)
  <2>1. c >= a + l
    BY <1>2, <1>3, <1>6, <1>10, <1>12 DEF NoLine
  <2>2. LineBreak \in Seq(Nat) /\ SizeLine(m, i + 1) = d \o LineBreak
        /\ Len(LineBreak) = 2 /\ LineBreak[1] = CR /\ LineBreak[2] = LF
    BY DEF SizeLine, LineBreak, CR, LF
  <2>3. Stands(W, a, d) /\ Stands(W, a + Len(d), LineBreak)
    BY <1>2, <1>3, <1>9, <2>2, StandsSplit
  <2>4. Begins(b, d)
    <3> HIDE DEF a, b, d, l
    <3>1. Len(b) >= Len(d) + 2
      BY <1>2, <1>3, <1>6, <1>9, <2>1
    <3>2. \A k \in 1 .. Len(d) + 2 : b[k] = W[a + k]
      BY <1>2, <1>3, <1>6, <1>9, <2>1
    <3>3. \A k \in 1 .. Len(d) : W[a + k] = d[k]
      BY <2>3 DEF Stands
    <3>4. W[a + Len(d) + 1] = CR /\ W[a + Len(d) + 2] = LF
      BY <2>2, <2>3 DEF Stands
    <3>5. b[Len(d) + 1] = CR /\ b[Len(d) + 2] = LF
      <4>1. a + (Len(d) + 1) = a + Len(d) + 1 /\ a + (Len(d) + 2) = a + Len(d) + 2
            /\ Len(d) + 1 \in 1 .. Len(d) + 2 /\ Len(d) + 2 \in 1 .. Len(d) + 2
        BY <1>3, <1>9
      <4> QED
        BY <3>2, <3>4, <4>1
    <3>6. \A k \in 1 .. Len(d) : b[k] = d[k]
      BY <1>9, <3>2, <3>3
    <3> QED
      BY <1>9, <3>1, <3>5, <3>6 DEF Begins
  <2>5. EndOfLine(b) = Len(d) /\ SizeOf(b) = Number(d)
    BY <1>6, <2>4, EndOfLineIs, SizeOfIs
  <2>6. Drop(b, EndOfLine(b) + 2) = rest
    <3>1. l <= c - a
      BY <1>2, <1>3, <2>1
    <3>2. Drop(b, l) = rest
      BY <1>2, <1>3, <1>4, <3>1, DropPiece
    <3> QED
      BY <1>9, <2>5, <3>2
  <2>7. a + l \in Nat /\ a + l <= c
    BY <1>3, <2>1
  <2>8. IsPiece(Nat, W, a + l, c, rest)
    BY <1>2, <2>7, PieceIs
  <2>9. rest \in Seq(Nat) /\ Len(rest) = c - (a + l)
    BY <2>8 DEF IsPiece
  <2> DEFINE n == Number(d)
             p1 == [p EXCEPT !.clen = n]
             p2 == [p1 EXCEPT !.buffer = rest]
             q1 == [p EXCEPT !.clen = 0]
             q2 == [q1 EXCEPT !.buffer = <<>>]
  <2>10. TakeSize(p) =
           IF n # 0 THEN GoesOn(p2)
           ELSE IF rest = LineBreak \/ (~p.isReq /\ ~BreakFirst(rest))
           THEN Returns(Done(q2))
           ELSE Returns(Fault(Done(q2), "last chunk"))
    BY <1>7, <2>5, <2>6 DEF TakeSize
  <2>11. CASE i < L
    <3>1. i + 1 <= L /\ i + 1 \in 1 .. L /\ i \in 0 .. L - 1
      BY <1>2, <2>11
    <3>2. n = Len(m.parts[i + 1]) /\ n \in Nat \ {0}
      BY <1>1, <1>9, <3>1 DEF Made
    <3>3. Reading(p1, m, n, BodyTo(m, i), b) /\ p1.done = p.done
      BY <1>4, <3>2, SetClen
    <3> HIDE DEF p1, n
    <3>4. Reading(p2, m, n, BodyTo(m, i), rest) /\ p2.done = p1.done
      BY <2>9, <3>3, SetBuffer
    <3> HIDE DEF p2
    <3>5. AtChunk(p2, m, i, c)
      BY <1>4, <2>7, <3>2, <3>3, <3>4 DEF AtChunk
    <3>6. TakeSize(p) = GoesOn(p2)
      BY <2>10, <3>2
    <3>7. Len(p2.buffer) <= Len(p.buffer) - 2
      <4>1. p2.buffer = rest
        BY <3>4 DEF Reading
      <4>2. c - (a + l) <= c - a - 2
        BY <1>2, <1>3
      <4> QED
        BY <1>6, <1>7, <2>9, <4>1, <4>2
    <3>8. Within(p2, m, c)
      BY <3>1, <3>5 DEF Within
    <3> QED
      BY <1>7, <1>12, <3>6, <3>7, <3>8 DEF GoesOn
  <2>12. CASE i = L
    <3>1. n = 0
      BY <1>2, <1>9, <2>12
    <3>2. c = Len(W) /\ Len(W) = a + l + 2 /\ Stands(W, a + l, LineBreak)
      BY <1>1, <2>1, <2>12 DEF GoodCut, Placed
    <3>3. rest = LineBreak
      <4>1. Piece(W, a + l, a + l + Len(LineBreak)) = LineBreak
        BY <1>2, <2>2, <2>7, <3>2, StandsIs
      <4> QED
        BY <2>2, <3>2, <4>1
    <3>4. Reading(q1, m, 0, BodyTo(m, i), b)
      BY <1>4, SetClen
    <3> HIDE DEF q1, n
    <3>5. Reading(q2, m, 0, BodyTo(m, i), <<>>)
      <4>1. <<>> \in Seq(Nat)
        OBVIOUS
      <4> QED
        BY <3>4, <4>1, SetBuffer
    <3> HIDE DEF q2
    <3>6. Reading(Done(q2), m, 0, BodyTo(m, i), <<>>) /\ Done(q2).done
      BY <3>5, SetDone
    <3>7. TakeSize(p) = Returns(Done(q2))
      BY <2>10, <3>1, <3>3
    <3>8. BodyTo(m, i) = Body(m)
      BY <2>12 DEF BodyTo, Body
    <3>9. Rests(Done(q2), m, c)
      BY <3>2, <3>6, <3>8 DEF Rests, AtEnd
    <3> QED
      BY <1>7, <1>12, <3>7, <3>9 DEF Returns
  <2> QED
    BY <1>2, <2>11, <2>12
<1> QED
  BY <1>7, <1>11, <1>12

(* A chunk is taken when it and its line break are there.                  *)
LEMMA TurnAtChunk ==
  ASSUME NEW m \in Messages, m.framing = "chunked", NEW c, GoodCut(m, c),
         NEW i \in 0 .. Len(m.parts) - 1, NEW p, AtChunk(p, m, i, c)
  PROVE  IF p.clen + 2 > Len(p.buffer) THEN Rests(p, m, c)
         ELSE LET u == TakeChunk(p)
              IN  u.on /\ Within(u.parser, m, c) /\ Len(u.parser.buffer) <= Len(p.buffer) - 2
<1> DEFINE W == Wire(m)
           L == Len(m.parts)
           t == m.parts[i + 1]
           n == Len(t)
           a == At(m, i) + Line(m, i)
           b == Piece(W, a, c)
           rest == Piece(W, a + n, c)
           left == Piece(W, a + n + 2, c)
<1>1. Made(m) /\ Headed(m) /\ Placed(m)
  BY MessageMade, MessageHeaded, ChunksPlaced
<1>2. W \in Seq(Nat) /\ Len(W) \in Nat /\ c \in Nat /\ c <= Len(W) /\ L \in Nat
  BY <1>1 DEF Headed, GoodCut, Made
<1>3. i \in 0 .. L /\ i + 1 \in 1 .. L /\ i + 1 \in 0 .. L /\ i + 1 - 1 = i
  BY <1>2
<1>4. t \in Seq(Nat) /\ n \in Nat \ {0}
  BY <1>1, <1>3 DEF Made
<1>5. a \in Nat /\ Stands(W, a, t) /\ Stands(W, a + n, LineBreak) /\ At(m, i + 1) = a + n + 2
  <2>1. At(m, i) \in Nat /\ Line(m, i) \in Nat
    BY <1>1, <1>3 DEF Placed
  <2>2. /\ Stands(Wire(m), At(m, i) + Line(m, i), m.parts[i + 1])
        /\ Stands(Wire(m), At(m, i) + Line(m, i) + Len(m.parts[i + 1]), LineBreak)
        /\ At(m, i + 1) = At(m, i) + Line(m, i) + Len(m.parts[i + 1]) + 2
    BY <1>1 DEF Placed
  <2> QED
    BY <2>1, <2>2
<1>6. a <= c /\ ~p.done /\ Reading(p, m, n, BodyTo(m, i), b)
  BY DEF AtChunk
<1>7. p.buffer = b /\ p.clen = n /\ p.body = BodyTo(m, i)
  BY <1>6 DEF Reading
<1>8. BodyTo(m, i) \o t = BodyTo(m, i + 1) /\ BodyTo(m, i + 1) \in Seq(Nat)
  <2>1. AreJoined(Nat, m.parts)
    BY <1>1, JoinedIs DEF Made
  <2>2. \A k \in 1 .. Len(m.parts) : Joined(m.parts, k) = Joined(m.parts, k - 1) \o m.parts[k]
    BY <2>1 DEF AreJoined
  <2>3. PICK k \in 1 .. Len(m.parts) : k = i + 1 /\ k - 1 = i
    BY <1>3
  <2>4. Joined(m.parts, k) = Joined(m.parts, k - 1) \o m.parts[k]
    BY <2>2
  <2>5. Joined(m.parts, i + 1) = Joined(m.parts, i) \o m.parts[i + 1]
    BY <2>3, <2>4
  <2>6. Joined(m.parts, i + 1) \in Seq(Nat)
    BY <1>3, <2>1 DEF AreJoined
  <2> QED
    BY <2>6, <2>5 DEF BodyTo
<1> HIDE DEF W, L, t, n, a
<1>9. IsPiece(Nat, W, a, c, b)
  BY <1>2, <1>5, <1>6, PieceIs
<1>10. b \in Seq(Nat) /\ Len(b) = c - a
  BY <1>9 DEF IsPiece
<1>11. CASE p.clen + 2 > Len(p.buffer)
  <2>1. c < At(m, i + 1)
    BY <1>2, <1>4, <1>5, <1>7, <1>10, <1>11
  <2>2. AtChunk(p, m, i, c)
    OBVIOUS
  <2> QED
    BY <1>11, <2>1, <2>2 DEF Rests
<1>12. CASE ~(p.clen + 2 > Len(p.buffer))
  <2>1. /\ a + n + 2 <= c /\ a + n \in Nat /\ a + n + 2 \in Nat /\ a + n <= c /\ n <= c - a
        /\ 0 \in Nat /\ 0 <= n /\ a + 0 = a /\ 0 + 1 = 1
        /\ 0 <= 2 /\ 2 <= c - (a + n) /\ a + n + 0 = a + n
    BY <1>2, <1>4, <1>5, <1>6, <1>7, <1>10, <1>12
  <2>2. Drop(b, n) = rest
    BY <1>2, <1>4, <1>5, <1>6, <2>1, DropPiece
  <2>3. SubSeq(b, 1, n) = t
    <3>1. Piece(b, 0, n) = Piece(W, a + 0, a + n)
      BY <1>2, <1>4, <1>5, <1>6, <2>1, PieceOfPiece
    <3>2. Piece(W, a, a + n) = t
      BY <1>2, <1>4, <1>5, StandsIs DEF n
    <3> QED
      BY <2>1, <3>1, <3>2 DEF Piece
  <2>4. LineBreak \in Seq(Nat) /\ Len(LineBreak) = 2
    BY DEF LineBreak, CR, LF
  <2>5. SubSeq(rest, 1, 2) = LineBreak
    <3>1. Piece(rest, 0, 2) = Piece(W, a + n + 0, a + n + 2)
      BY <1>2, <2>1, PieceOfPiece
    <3>2. Piece(W, a + n, a + n + Len(LineBreak)) = LineBreak
      BY <1>2, <1>5, <2>1, <2>4, StandsIs
    <3> QED
      BY <2>1, <2>4, <3>1, <3>2 DEF Piece
  <2>6. Drop(rest, 2) = left
    BY <1>2, <2>1, DropPiece
  <2>7. IsPiece(Nat, W, a + n, c, rest) /\ IsPiece(Nat, W, a + n + 2, c, left)
    BY <1>2, <2>1, PieceIs
  <2>8. /\ rest \in Seq(Nat) /\ Len(rest) = c - (a + n)
        /\ left \in Seq(Nat) /\ Len(left) = c - (a + n + 2)
    BY <2>7 DEF IsPiece
  <2>9. BreakFirst(rest)
    BY <1>2, <2>1, <2>5, <2>8 DEF BreakFirst
  <2> DEFINE e == BodyTo(m, i + 1)
             p1 == [p EXCEPT !.body = e]
             p2 == [p1 EXCEPT !.buffer = rest]
             p3 == [p2 EXCEPT !.buffer = left]
             p4 == [p3 EXCEPT !.clen = -1]
  <2>10. [p EXCEPT !.body = @ \o SubSeq(p.buffer, 1, p.clen), !.buffer = rest] = p2
    BY <1>7, <1>8, <2>3
  <2>11. /\ p2.buffer = rest
         /\ TakeChunk(p) = GoesOn([p2 EXCEPT !.buffer = Drop(rest, 2), !.clen = -1])
    <3>1. Drop(p.buffer, p.clen) = rest
      BY <1>7, <2>2
    <3>2. Reading(p1, m, n, e, b) /\ p1.done = p.done
      BY <1>6, <1>8, SetBody
    <3> HIDE DEF p1
    <3>3. Reading(p2, m, n, e, rest)
      BY <2>8, <3>2, SetBuffer
    <3> HIDE DEF p2
    <3>4. p2.buffer = rest
      BY <3>3 DEF Reading
    <3> QED
      BY <2>9, <2>10, <3>1, <3>4 DEF TakeChunk
  <2>12. TakeChunk(p) = GoesOn(p4)
    BY <2>6, <2>11
  <2>13. Reading(p1, m, n, e, b) /\ p1.done = p.done
    BY <1>6, <1>8, SetBody
  <2> HIDE DEF p1
  <2>14. Reading(p2, m, n, e, rest) /\ p2.done = p1.done
    BY <2>8, <2>13, SetBuffer
  <2> HIDE DEF p2
  <2>15. Reading(p3, m, n, e, left) /\ p3.done = p2.done
    BY <2>8, <2>14, SetBuffer
  <2> HIDE DEF p3
  <2>16. Reading(p4, m, -1, e, left) /\ p4.done = p3.done
    <3>1. -1 \in Nat \cup {-1}
      OBVIOUS
    <3> QED
      BY <2>15, <3>1, SetClen
  <2> HIDE DEF p4
  <2>17. AtSize(p4, m, i + 1, c)
    BY <1>5, <1>6, <2>1, <2>13, <2>14, <2>15, <2>16 DEF AtSize, W
  <2>18. Within(p4, m, c)
    BY <1>3, <2>17 DEF Within, L
  <2>19. Len(p4.buffer) <= Len(p.buffer) - 2
    <3>1. p4.buffer = left
      BY <2>16 DEF Reading
    <3>2. c - (a + n + 2) <= c - a - 2
      BY <1>2, <1>4, <1>5
    <3> QED
      BY <1>7, <1>10, <2>8, <3>1, <3>2
  <2> QED
    BY <1>12, <2>12, <2>18, <2>19 DEF GoesOn
<1> QED
  BY <1>11, <1>12

(* Whatever turn the loop is at, it is within the chunks or has come to    *)
(* rest, and a turn after which it goes on has taken two bytes or more.    *)
LoopStates(m, c) ==
  {t \in [parser : Parsers, on : BOOLEAN] :
     IF t.on THEN Within(t.parser, m, c) ELSE Rests(t.parser, m, c)}

LEMMA TurnStays ==
  ASSUME NEW m \in Messages, m.framing = "chunked", NEW c, GoodCut(m, c),
         NEW t \in LoopStates(m, c)
  PROVE  /\ Turn(t) \in LoopStates(m, c)
         /\ Turn(t).on => t.on /\ Len(Turn(t).parser.buffer) <= Len(t.parser.buffer) - 2
<1> DEFINE p == t.parser
           u == Turn(t)
<1>1. t \in [parser : Parsers, on : BOOLEAN] /\ p \in Parsers
  BY DEF LoopStates
<1>2. CASE ~t.on
  BY <1>2 DEF Turn
<1>3. CASE t.on
  <2>1. Within(p, m, c)
    BY <1>3 DEF LoopStates
  <2>2. SUFFICES /\ \/ u.on /\ Within(u.parser, m, c) /\ Len(u.parser.buffer) <= Len(p.buffer) - 2
                    \/ ~u.on /\ Rests(u.parser, m, c)
                 /\ u \in [parser : {u.parser}, on : BOOLEAN]
    <3>1. ASSUME Within(u.parser, m, c) \/ Rests(u.parser, m, c) PROVE u.parser \in Parsers
      BY <3>1 DEF Within, Rests, AtSize, AtChunk, AtEnd, Reading
    <3> HIDE DEF u
    <3>2. ASSUME u \in [parser : {u.parser}, on : BOOLEAN], u.parser \in Parsers
          PROVE  u \in [parser : Parsers, on : BOOLEAN]
      BY <3>2
    <3> QED
      BY <1>3, <3>1, <3>2 DEF LoopStates, u
  <2>3. CASE \E i \in 0 .. Len(m.parts) : AtSize(p, m, i, c)
    <3>1. PICK i \in 0 .. Len(m.parts) : AtSize(p, m, i, c)
      BY <2>3
    <3>2. p.clen = -1
      BY <3>1 DEF AtSize, Reading
    <3>3. u = IF NoLine(p.buffer) THEN Returns(p) ELSE TakeSize(p)
      BY <1>3, <3>2 DEF Turn
    <3>4. IF NoLine(p.buffer) THEN Rests(p, m, c)
          ELSE LET v == TakeSize(p)
               IN  \/ v.on /\ Within(v.parser, m, c) /\ Len(v.parser.buffer) <= Len(p.buffer) - 2
                   \/ ~v.on /\ Rests(v.parser, m, c)
      BY <3>1, TurnAtSize
    <3>5. CASE NoLine(p.buffer)
      BY <3>3, <3>4, <3>5 DEF Returns
    <3>6. CASE ~NoLine(p.buffer)
      <4>1. TakeSize(p) \in [parser : {TakeSize(p).parser}, on : BOOLEAN]
        BY DEF TakeSize, GoesOn, Returns
      <4> QED
        BY <3>3, <3>4, <3>6, <4>1
    <3> QED
      BY <3>5, <3>6
  <2>4. CASE \E i \in 0 .. Len(m.parts) - 1 : AtChunk(p, m, i, c)
    <3>1. PICK i \in 0 .. Len(m.parts) - 1 : AtChunk(p, m, i, c)
      BY <2>4
    <3>2. p.clen # -1
      <4>1. Made(m)
        BY MessageMade
      <4>2. i + 1 \in 1 .. Len(m.parts)
        BY <4>1 DEF Made
      <4>3. Len(m.parts[i + 1]) \in Nat
        BY <4>1, <4>2 DEF Made
      <4> QED
        BY <3>1, <4>3 DEF AtChunk, Reading
    <3>3. u = IF p.clen + 2 > Len(p.buffer) THEN Returns(p) ELSE TakeChunk(p)
      BY <1>3, <3>2 DEF Turn
    <3>4. IF p.clen + 2 > Len(p.buffer) THEN Rests(p, m, c)
          ELSE LET v == TakeChunk(p)
               IN  v.on /\ Within(v.parser, m, c) /\ Len(v.parser.buffer) <= Len(p.buffer) - 2
      BY <3>1, TurnAtChunk
    <3>5. CASE p.clen + 2 > Len(p.buffer)
      BY <3>3, <3>4, <3>5 DEF Returns
    <3>6. CASE ~(p.clen + 2 > Len(p.buffer))
      <4>1. TakeChunk(p) \in [parser : {TakeChunk(p).parser}, on : BOOLEAN]
        BY DEF TakeChunk, GoesOn, Returns
      <4> QED
        BY <3>3, <3>4, <3>6, <4>1
    <3> QED
      BY <3>5, <3>6
  <2> QED
    BY <2>1, <2>3, <2>4 DEF Within
<1> QED
  BY <1>2, <1>3

(* So the loop comes to rest: there is nothing left to take after that     *)
(* many turns.                                                             *)
LEMMA ChunksTaken ==
  ASSUME NEW m \in Messages, m.framing = "chunked", NEW c, GoodCut(m, c),
         NEW p, Within(p, m, c)
  PROVE  Rests(TakeChunks(p), m, c)
<1> DEFINE S == LoopStates(m, c)
           x == GoesOn(p)
           F == [n \in Nat |-> [t \in S |-> Turn(t)]]
           Goal(g) == g = [n \in Nat |-> IF n = 0 THEN GoesOn(p) ELSE Turn(g[n - 1])]
           g == CHOOSE g : Goal(g)
           Y == Len(p.buffer)
<1>1. p \in Parsers /\ Y \in Nat
  <2>1. p \in Parsers
    BY DEF Within, AtSize, AtChunk, Reading
  <2> QED
    BY <2>1 DEF Parsers
<1>2. x \in S
  <2>1. x \in [parser : Parsers, on : BOOLEAN]
    BY <1>1 DEF GoesOn
  <2> QED
    BY <2>1 DEF LoopStates, GoesOn
<1>3. \A t \in S : Turn(t) \in S
  BY TurnStays
<1>4. \A t \in S : Turn(t).on => t.on /\ Len(Turn(t).parser.buffer) <= Len(t.parser.buffer) - 2
  BY TurnStays
<1>5. \A t \in S : Len(t.parser.buffer) \in Nat
  BY DEF LoopStates, Parsers
<1> HIDE DEF S, x
<1>6. F \in [Nat -> [S -> S]]
  BY <1>3
<1> HIDE DEF F
<1>7. PICK f \in [Nat -> S] : \A n \in Nat : f[n] = IF n = 0 THEN x ELSE F[n][f[n - 1]]
  <2>1. Solved(S, x, F)
    BY <1>2, <1>6, Recursion
  <2> QED
    BY <2>1 DEF Solved
<1>8. \A n \in Nat : f[n] = IF n = 0 THEN GoesOn(p) ELSE Turn(f[n - 1])
  <2> TAKE n \in Nat
  <2>1. CASE n = 0
    BY <1>7, <2>1 DEF x
  <2>2. CASE n # 0
    <3>1. n - 1 \in Nat
      BY <2>2
    <3>2. f[n] = F[n][f[n - 1]] /\ f[n - 1] \in S
      BY <1>7, <2>2, <3>1
    <3>3. F[n][f[n - 1]] = Turn(f[n - 1])
      BY <3>2 DEF F
    <3> QED
      BY <2>2, <3>2, <3>3
  <2> QED
    BY <2>1, <2>2
<1>9. Goal(f)
  BY <1>7, <1>8
<1>10. Goal(g)
  BY <1>9
<1>11. TakeChunks(p) = g[Y + 1].parser
  BY DEF TakeChunks
<1> HIDE DEF g
<1>12. g[0] = x /\ \A n \in Nat : n # 0 => g[n] = Turn(g[n - 1])
  BY <1>10 DEF x
<1>13. \A n \in Nat : g[n] \in S
  <2> DEFINE Q == {n \in Nat : g[n] \notin S}
  <2>1. SUFFICES ASSUME Q # {} PROVE FALSE
    OBVIOUS
  <2>2. PICK n \in Q : \A k \in Q : n <= k
    BY <2>1, HasLeast
  <2>3. n # 0
    BY <1>2, <1>12
  <2>4. n - 1 \in Nat /\ ~(n <= n - 1)
    BY <2>3
  <2>5. g[n - 1] \in S
    BY <2>2, <2>4
  <2> QED
    BY <1>3, <1>12, <2>3, <2>5
<1>14. \A n \in Nat : g[n].on => Len(g[n].parser.buffer) + 2 * n <= Y
  <2> DEFINE Q == {n \in Nat : g[n].on /\ ~(Len(g[n].parser.buffer) + 2 * n <= Y)}
  <2>1. SUFFICES ASSUME Q # {} PROVE FALSE
    OBVIOUS
  <2>2. PICK n \in Q : \A k \in Q : n <= k
    BY <2>1, HasLeast
  <2>3. n # 0
    <3>1. g[0].parser = p
      BY <1>12 DEF x, GoesOn
    <3>2. Len(g[0].parser.buffer) + 2 * 0 <= Y
      BY <1>1, <3>1
    <3> QED
      BY <3>2
  <2>4. n \in Nat /\ n - 1 \in Nat /\ ~(n <= n - 1)
    BY <2>3
  <2>5. n - 1 \notin Q
    BY <2>2, <2>4
  <2>6. g[n] = Turn(g[n - 1]) /\ g[n - 1] \in S /\ g[n] \in S /\ g[n].on
    BY <1>12, <1>13, <2>3, <2>4
  <2>7. g[n - 1].on /\ Len(g[n].parser.buffer) <= Len(g[n - 1].parser.buffer) - 2
    BY <1>4, <2>6
  <2>8. Len(g[n - 1].parser.buffer) + 2 * (n - 1) <= Y
    BY <2>4, <2>5, <2>7
  <2>9. ~(Len(g[n].parser.buffer) + 2 * n <= Y)
    OBVIOUS
  <2>10. Len(g[n].parser.buffer) \in Nat /\ Len(g[n - 1].parser.buffer) \in Nat
    BY <1>5, <2>6
  <2> DEFINE y == Len(g[n].parser.buffer)
             z == Len(g[n - 1].parser.buffer)
  <2>11. y \in Nat /\ z \in Nat /\ y <= z - 2 /\ z + 2 * (n - 1) <= Y /\ ~(y + 2 * n <= Y)
    BY <2>7, <2>8, <2>9, <2>10
  <2> HIDE DEF y, z, Y
  <2> QED
    BY <1>1, <2>4, <2>11
<1>15. Y + 1 \in Nat
  BY <1>1
<1>16. ~g[Y + 1].on
  <2>1. Len(g[Y + 1].parser.buffer) \in Nat
    BY <1>5, <1>13, <1>15
  <2>2. ~(Len(g[Y + 1].parser.buffer) + 2 * (Y + 1) <= Y)
    <3> DEFINE y == Len(g[Y + 1].parser.buffer)
    <3>1. y \in Nat
      BY <2>1
    <3> HIDE DEF y, Y
    <3>2. ~(y + 2 * (Y + 1) <= Y)
      BY <1>1, <3>1
    <3> QED
      BY <3>2 DEF y, Y
  <2> QED
    BY <1>14, <1>15, <2>2
<1>17. g[Y + 1] \in S
  BY <1>13, <1>15
<1> QED
  BY <1>11, <1>16, <1>17 DEF S, LoopStates

(* The body without chunks, when what is behind the head is b.             *)
PlainRead(p, m, c) ==
  LET b == Piece(Wire(m), HeadLength(m), c)
  IN  CASE ToldBody(m) -> Reading(p, m, Len(Body(m)), b, <<>>) /\ (p.done <=> c = Len(Wire(m)))
        [] ~ToldBody(m) /\ m.isReq -> Reading(p, m, -1, <<>>, <<>>) /\ p.done
        [] OTHER -> \/ Reading(p, m, -1, b, <<>>) /\ ~p.done
                    \/ Reading(p, m, Len(b), b, <<>>) /\ p.done /\ EndsWithBreak(b)

(* What is behind the head is the body, as far as it has come.             *)
LEMMA RestIs ==
  ASSUME NEW m \in Messages, m.framing # "chunked", NEW c \in HeadLength(m) .. Len(Wire(m))
  PROVE  LET b == Piece(Wire(m), HeadLength(m), c)
         IN  /\ b \in Seq(Nat) /\ Len(b) = c - HeadLength(m) /\ Len(b) \in Nat
             /\ Len(b) <= Len(Body(m)) /\ b = SubSeq(Body(m), 1, Len(b))
             /\ c = Len(Wire(m)) <=> Len(b) = Len(Body(m))
             /\ c = Len(Wire(m)) => b = Body(m)
<1> DEFINE W == Wire(m)
           H == HeadLength(m)
           b == Piece(W, H, c)
           s == Body(m)
<1>1. /\ W \in Seq(Nat) /\ H \in Nat /\ Len(W) \in Nat /\ s \in Seq(Nat) /\ Len(s) \in Nat
      /\ Stands(W, H, s) /\ Len(W) = H + Len(s)
  <2>1. Headed(m) /\ Made(m)
    BY MessageHeaded, MessageMade
  <2>2. s \in Seq(Nat) /\ Len(s) \in Nat
    BY <2>1 DEF Made
  <2> QED
    BY <2>1, <2>2, EndOfWire DEF Headed
<1> HIDE DEF W, H, s
<1>2. c \in Nat /\ H <= c /\ c <= Len(W) /\ c - H \in Nat /\ c - H <= Len(s) /\ H + (c - H) = c
  BY <1>1 DEF W, H
<1>3. IsPiece(Nat, W, H, c, b)
  BY <1>1, <1>2, PieceIs
<1>4. b \in Seq(Nat) /\ Len(b) = c - H
  BY <1>3 DEF IsPiece
<1>5. Piece(W, H, H + Len(s)) = s
  BY <1>1, StandsIs
<1>6. SubSeq(s, 1, c - H) = b
  <2>1. /\ 0 \in Nat /\ 0 <= c - H /\ H + Len(s) \in Nat /\ H <= H + Len(s)
        /\ c - H <= H + Len(s) - H /\ H + 0 = H /\ 0 + 1 = 1 /\ H + Len(s) <= Len(W)
    BY <1>1, <1>2
  <2>2. Piece(Piece(W, H, H + Len(s)), 0, c - H) = Piece(W, H + 0, H + (c - H))
    <3> DEFINE e == H + Len(s)
               y == c - H
    <3>1. /\ W \in Seq(Nat) /\ H \in Nat /\ e \in Nat /\ H <= e /\ e <= Len(W)
          /\ 0 \in Nat /\ y \in Nat /\ 0 <= y /\ y <= e - H
      BY <1>1, <1>2, <2>1
    <3> HIDE DEF e, y
    <3>2. Piece(Piece(W, H, e), 0, y) = Piece(W, H + 0, H + y)
      BY <3>1, PieceOfPiece
    <3> QED
      BY <3>2 DEF e, y
  <2>3. Piece(s, 0, c - H) = b
    BY <1>2, <1>5, <2>1, <2>2
  <2> QED
    BY <2>1, <2>3 DEF Piece
<1>7. c = Len(W) <=> c - H = Len(s)
  BY <1>1, <1>2
<1>8. c = Len(W) => b = s
  BY <1>1, <1>5
<1> QED
  BY <1>2, <1>4, <1>6, <1>7, <1>8 DEF W, H, s

(* The body is finished when it is as long as the head told.               *)
LEMMA BodyTaken ==
  ASSUME NEW m \in Messages, m.framing # "chunked", NEW c \in HeadLength(m) .. Len(Wire(m)),
         NEW p, ~p.done,
         Reading(p, m, ToldLength(m), Piece(Wire(m), HeadLength(m), c), <<>>)
  PROVE  PlainRead(TakeBody(p), m, c)
<1> DEFINE b == Piece(Wire(m), HeadLength(m), c)
           n == Len(b)
           x == ToldLength(m)
           whole == IF EndsWithBreak(b) THEN [p EXCEPT !.clen = n] ELSE p
           q == TakeBody(p)
<1>1. /\ b \in Seq(Nat) /\ n \in Nat /\ n <= Len(Body(m))
      /\ c = Len(Wire(m)) <=> n = Len(Body(m))
  BY RestIs
<1>2. Body(m) \in Seq(Nat) /\ Len(Body(m)) \in Nat
  <2>1. Body(m) \in Seq(Nat)
    BY MessageMade DEF Made
  <2> QED
    BY <2>1
<1>3. p.body = b /\ p.clen = x /\ p.isReq = m.isReq
  BY DEF Reading
<1> HIDE DEF b
<1>4. q = IF x > 0 THEN IF x <= n THEN Done(whole) ELSE p
          ELSE IF m.isReq THEN Done([p EXCEPT !.body = <<>>])
          ELSE IF n > 2 /\ EndsWithBreak(b) THEN Done(whole) ELSE p
  BY <1>3 DEF TakeBody
<1>5. Reading(p, m, x, b, <<>>)
  BY DEF b
<1>6. Reading([p EXCEPT !.clen = n], m, n, b, <<>>)
  BY <1>1, <1>5, SetClen
<1>7. ASSUME EndsWithBreak(b) \/ x = n PROVE Reading(Done(whole), m, n, b, <<>>) /\ Done(whole).done
  <2>1. Reading(whole, m, n, b, <<>>)
    BY <1>5, <1>6, <1>7
  <2> HIDE DEF whole
  <2> QED
    BY <2>1, SetDone
<1> HIDE DEF q, n, whole, x
<1>8. CASE ToldBody(m)
  <2>1. x = Len(Body(m)) /\ x > 0
    <3>1. Len(Body(m)) # 0
      BY <1>2, <1>8 DEF ToldBody
    <3> QED
      BY <1>2, <1>8, <3>1 DEF ToldLength, x
  <2>2. CASE n = x
    <3>1. q = Done(whole)
      BY <1>1, <1>4, <2>1, <2>2
    <3>2. Reading(q, m, n, b, <<>>) /\ q.done
      BY <1>7, <2>2, <3>1
    <3> QED
      BY <1>1, <1>8, <2>1, <2>2, <3>2 DEF PlainRead, b, q
  <2>3. CASE n # x
    <3>1. q = p
      BY <1>1, <1>2, <1>4, <2>1, <2>3
    <3>2. c # Len(Wire(m))
      BY <1>1, <2>1, <2>3
    <3> QED
      BY <1>5, <1>8, <2>1, <3>1, <3>2 DEF PlainRead, b, q
  <2> QED
    BY <2>2, <2>3
<1>9. CASE ~ToldBody(m)
  <2>1. x = -1 /\ ~(x > 0)
    BY <1>9 DEF ToldLength, x
  <2>2. CASE m.isReq
    <3> DEFINE r == [p EXCEPT !.body = <<>>]
    <3>1. <<>> \in Seq(Nat)
      OBVIOUS
    <3>2. Reading(r, m, x, <<>>, <<>>)
      BY <1>5, <3>1, SetBody
    <3>3. q = Done(r)
      BY <1>4, <2>1, <2>2
    <3> HIDE DEF r
    <3>4. Reading(q, m, x, <<>>, <<>>) /\ q.done
      BY <3>2, <3>3, SetDone
    <3> QED
      BY <1>9, <2>1, <2>2, <3>4 DEF PlainRead, q
  <2>3. CASE ~m.isReq
    <3>1. CASE n > 2 /\ EndsWithBreak(b)
      <4>1. Reading(q, m, n, b, <<>>) /\ q.done
        BY <1>4, <1>7, <2>1, <2>3, <3>1
      <4> QED
        BY <1>9, <2>3, <3>1, <4>1 DEF PlainRead, b, q, n
    <3>2. CASE ~(n > 2 /\ EndsWithBreak(b))
      <4>1. q = p
        BY <1>4, <2>1, <2>3, <3>2
      <4> QED
        BY <1>5, <1>9, <2>1, <2>3, <4>1 DEF PlainRead, b, q
    <3> QED
      BY <3>1, <3>2
  <2> QED
    BY <2>2, <2>3
<1> QED
  BY <1>8, <1>9

(* What the parser has when c bytes of the message have arrived.           *)
Expected(m, p, c) ==
  IF c < HeadLength(m) THEN c \notin {1, 2} /\ Searching(p, m, Piece(Wire(m), 0, c))
  ELSE IF m.framing = "chunked" THEN Rests(p, m, c)
  ELSE PlainRead(p, m, c)

(* What is behind the head is parsed in the same call,                     *)
LEMMA FromHead ==
  ASSUME msg \in Messages, Named(msg), HeadLength(msg) >= MinHead,
         NEW d \in HeadLength(msg) .. Len(Wire(msg)), d \notin BadCuts(msg),
         NEW p, Searching(p, msg, Piece(Wire(msg), 0, d))
  PROVE  Expected(msg, GoOn(SplitHead(p, HeadLength(msg) - 4)), d)
<1> DEFINE H == HeadLength(msg)
           r == SplitHead(p, H - 4)
           rest == Piece(Wire(msg), H, d)
<1>1. /\ ~r.done
      /\ IF InChunks(msg) THEN Reading(r, msg, -1, <<>>, rest)
         ELSE Reading(r, msg, ToldLength(msg), rest, <<>>)
  BY HeadSplit
<1>2. H \in Nat /\ Len(Wire(msg)) \in Nat
  BY EndOfWire, MessageHeaded DEF Headed
<1>3. ~(d < H) /\ d \in 0 .. Len(Wire(msg))
  BY <1>2
<1> HIDE DEF r, rest
<1>4. CASE msg.framing = "chunked"
  <2>1. Reading(r, msg, -1, <<>>, rest) /\ r.chunked
    <3>1. Reading(r, msg, -1, <<>>, rest) /\ InChunks(msg)
      BY <1>1, <1>4 DEF InChunks
    <3>2. r.chunked = InChunks(msg)
      BY <3>1 DEF Reading
    <3> QED
      BY <3>1, <3>2
  <2>2. At(msg, 0) = H /\ 0 \in 0 .. Len(msg.parts)
    <3>1. Made(msg) /\ Placed(msg)
      BY <1>4, MessageMade, ChunksPlaced
    <3> QED
      BY <3>1 DEF Made, Placed
  <2>3. BodyTo(msg, 0) = <<>>
    <3>1. AreJoined(Nat, msg.parts)
      BY MessageMade, JoinedIs DEF Made
    <3> QED
      BY <3>1 DEF AreJoined, BodyTo
  <2>4. AtSize(r, msg, 0, d)
    BY <1>1, <1>2, <2>1, <2>2, <2>3 DEF AtSize, rest
  <2>5. Within(r, msg, d)
    BY <2>2, <2>4 DEF Within
  <2>6. GoodCut(msg, d)
    BY <1>3, <1>4, CutGood
  <2>7. Rests(TakeChunks(r), msg, d)
    BY <1>4, <2>5, <2>6, ChunksTaken
  <2> QED
    BY <1>3, <1>4, <2>1, <2>7 DEF GoOn, Expected, r
<1>5. CASE msg.framing # "chunked"
  <2>1. Reading(r, msg, ToldLength(msg), rest, <<>>) /\ ~r.chunked
    <3>1. Reading(r, msg, ToldLength(msg), rest, <<>>) /\ ~InChunks(msg)
      BY <1>1, <1>5 DEF InChunks
    <3>2. r.chunked = InChunks(msg)
      BY <3>1 DEF Reading
    <3> QED
      BY <3>1, <3>2
  <2>2. PlainRead(TakeBody(r), msg, d)
    BY <1>1, <1>5, <2>1, BodyTaken DEF rest
  <2> QED
    BY <1>3, <1>5, <2>1, <2>2 DEF GoOn, Expected, r
<1> QED
  BY <1>4, <1>5

(* so a piece that comes while the head is searched finds the parser as    *)
(* expected,                                                               *)
LEMMA FromSearch ==
  ASSUME msg \in Messages, Readable, NEW c \in Nat, NEW d \in 0 .. Len(Wire(msg)),
         c < d, d \notin BadCuts(msg), c < HeadLength(msg),
         Searching(parser, msg, Piece(Wire(msg), 0, c)),
         NEW q \in TakeData(parser, Piece(Wire(msg), c, d))
  PROVE  Expected(msg, q, d)
<1> DEFINE W == Wire(msg)
           H == HeadLength(msg)
           data == Piece(W, c, d)
           s == Piece(W, 0, d)
           p == [parser EXCEPT !.head = @ \o data]
           i == EndOfHead(s)
<1>1. W \in Seq(Nat) /\ Len(W) \in Nat /\ H \in Nat /\ H >= 4 /\ H <= Len(W) /\ EndOfHead(W) = H - 4
  BY EndOfWire, MessageHeaded DEF Headed
<1>2. Named(msg) /\ H >= MinHead /\ H - 4 < MaxHead /\ MaxHead \in Nat
  <2>1. Named(msg)
    BY DEF Readable, Named
  <2>2. H - 4 + 4 >= MinHead /\ ~(H - 4 >= MaxHead)
    BY <1>1 DEF Readable, TooLong
  <2> QED
    BY <1>1, <2>1, <2>2, LimitsNat
<1>3. d \in Nat /\ d <= Len(W) /\ d >= 3 /\ c <= d /\ 0 \in Nat /\ 0 <= c /\ 0 <= d
  <2>1. d \notin {1, 2}
    BY DEF BadCuts
  <2> QED
    BY <1>1, <2>1
<1>4. Piece(W, 0, c) \o data = s
  BY <1>1, <1>3, PiecesJoin
<1>5. IsPiece(Nat, W, 0, d, s)
  BY <1>1, <1>3, PieceIs
<1>6. s \in Seq(Nat) /\ Len(s) = d
  BY <1>3, <1>5 DEF IsPiece
<1>7. parser.head = Piece(W, 0, c) /\ parser.code = -1 /\ parser \in Parsers
  BY DEF Searching
<1>8. p = [parser EXCEPT !.head = s]
  BY <1>4, <1>7
<1>9. Searching(p, msg, s)
  <2> HIDE DEF s
  <2>1. Searching([parser EXCEPT !.head = s], msg, s)
    BY <1>6 DEF Searching, Parsers
  <2> QED
    BY <1>8, <2>1
<1>10. p.head = s
  BY <1>9 DEF Searching
<1>11. i = IF d >= H THEN H - 4 ELSE d - 3
  BY <1>3, EndOfHeadIs
<1>12. TakeData(parser, data) =
         IF Len(p.head) < 3
         THEN {Fault(Done(p), "search"), Fault(GoOn([p EXCEPT !.code = 0]), "search")}
         ELSE IF i >= MaxHead THEN {Done(p)}
         ELSE IF i >= Len(p.head) - 3 THEN {p}
         ELSE {GoOn(SplitHead(p, i))}
  BY <1>7, <1>10 DEF TakeData
<1> HIDE DEF p, i, s, data
<1>13. CASE d < H
  <2>1. i = d - 3 /\ ~(i >= MaxHead)
    BY <1>1, <1>2, <1>3, <1>11, <1>13
  <2>2. ~(Len(p.head) < 3) /\ i >= Len(p.head) - 3
    BY <1>3, <1>6, <1>10, <2>1
  <2>3. TakeData(parser, data) = {p}
    BY <1>12, <2>1, <2>2
  <2>4. q = p
    BY <2>3 DEF data
  <2>5. d \notin {1, 2}
    BY <1>3
  <2> QED
    BY <1>9, <1>13, <2>4, <2>5 DEF Expected, s
<1>14. CASE d >= H
  <2>1. i = H - 4 /\ ~(i >= MaxHead)
    BY <1>1, <1>2, <1>11, <1>14
  <2>2. ~(Len(p.head) < 3) /\ ~(i >= Len(p.head) - 3)
    BY <1>1, <1>3, <1>6, <1>10, <1>14, <2>1
  <2>3. TakeData(parser, data) = {GoOn(SplitHead(p, H - 4))}
    BY <1>12, <2>1, <2>2
  <2>4. q = GoOn(SplitHead(p, H - 4))
    BY <2>3 DEF data
  <2>5. d \in H .. Len(W)
    BY <1>1, <1>3, <1>14
  <2>6. Expected(msg, GoOn(SplitHead(p, H - 4)), d)
    BY <1>2, <1>9, <2>5, FromHead DEF s
  <2> QED
    BY <2>4, <2>6
<1> QED
  BY <1>1, <1>3, <1>13, <1>14

(* one that comes within the chunks does,                                  *)
LEMMA FromChunks ==
  ASSUME msg \in Messages, msg.framing = "chunked", NEW c \in HeadLength(msg) .. Len(Wire(msg)),
         NEW d \in 0 .. Len(Wire(msg)), c < d, d \notin BadCuts(msg),
         Rests(parser, msg, c), ~parser.done,
         NEW q \in TakeData(parser, Piece(Wire(msg), c, d))
  PROVE  Rests(q, msg, d)
<1> DEFINE W == Wire(msg)
           data == Piece(W, c, d)
           p == [parser EXCEPT !.buffer = @ \o data]
<1>1. Made(msg) /\ Headed(msg) /\ Placed(msg)
  BY MessageMade, MessageHeaded, ChunksPlaced
<1>2. W \in Seq(Nat) /\ Len(W) \in Nat /\ c \in Nat /\ d \in Nat /\ c <= d /\ d <= Len(W)
  BY <1>1, EndOfWire DEF Headed
<1>3. GoodCut(msg, d)
  BY CutGood
<1>4. \/ \E i \in 0 .. Len(msg.parts) : AtSize(parser, msg, i, c)
      \/ \E i \in 0 .. Len(msg.parts) - 1 : AtChunk(parser, msg, i, c)
  BY DEF Rests, AtEnd
<1>5. parser.code = 200 /\ parser.chunked
  BY <1>4 DEF AtSize, AtChunk, Reading, InChunks
<1>6. TakeData(parser, data) = {TakeChunks(p)}
  <2>1. /\ parser.code # -1
    BY <1>5
  <2>2. p.chunked = parser.chunked
    BY <1>4 DEF AtSize, AtChunk, Reading, Parsers
  <2> QED
    BY <1>5, <2>1, <2>2 DEF TakeData, GoOn
<1>7. ASSUME NEW a \in Nat, a <= c, NEW x, NEW y, Reading(parser, msg, x, y, Piece(W, a, c))
      PROVE  Reading(p, msg, x, y, Piece(W, a, d)) /\ ~p.done
  <2> DEFINE b == Piece(W, a, d)
  <2>1. Piece(W, a, c) \o data = b
    BY <1>2, <1>7, PiecesJoin
  <2>2. IsPiece(Nat, W, a, d, b)
    BY <1>2, <1>7, PieceIs
  <2>3. b \in Seq(Nat)
    BY <2>2 DEF IsPiece
  <2>4. p = [parser EXCEPT !.buffer = b]
    BY <1>7, <2>1 DEF Reading
  <2> HIDE DEF b, p
  <2>5. Reading([parser EXCEPT !.buffer = b], msg, x, y, b)
        /\ [parser EXCEPT !.buffer = b].done = parser.done
    BY <1>7, <2>3, SetBuffer
  <2> QED
    BY <2>4, <2>5 DEF b
<1> HIDE DEF p
<1>8. Within(p, msg, d)
  <2>1. ASSUME NEW i \in 0 .. Len(msg.parts), AtSize(parser, msg, i, c) PROVE AtSize(p, msg, i, d)
    <3>1. At(msg, i) \in Nat /\ At(msg, i) <= c
      BY <1>1, <2>1 DEF Placed, AtSize
    <3>2. Reading(parser, msg, -1, BodyTo(msg, i), Piece(W, At(msg, i), c))
      BY <2>1 DEF AtSize
    <3>3. Reading(p, msg, -1, BodyTo(msg, i), Piece(W, At(msg, i), d)) /\ ~p.done
      BY <1>7, <3>1, <3>2
    <3> QED
      BY <1>2, <3>1, <3>3 DEF AtSize
  <2>2. ASSUME NEW i \in 0 .. Len(msg.parts) - 1, AtChunk(parser, msg, i, c)
        PROVE  AtChunk(p, msg, i, d)
    <3> DEFINE a == At(msg, i) + Line(msg, i)
    <3>1. a \in Nat /\ a <= c
      <4>1. i \in 0 .. Len(msg.parts)
        BY <1>1 DEF Made
      <4>2. At(msg, i) \in Nat /\ Line(msg, i) \in Nat
        BY <1>1, <4>1 DEF Placed
      <4> QED
        BY <2>2, <4>2 DEF AtChunk
    <3>2. Reading(parser, msg, Len(msg.parts[i + 1]), BodyTo(msg, i), Piece(W, a, c))
      BY <2>2 DEF AtChunk
    <3> HIDE DEF a
    <3>3. Reading(p, msg, Len(msg.parts[i + 1]), BodyTo(msg, i), Piece(W, a, d)) /\ ~p.done
      BY <1>7, <3>1, <3>2
    <3>4. a <= d
      BY <1>2, <3>1
    <3> QED
      BY <3>3, <3>4 DEF AtChunk, a
  <2> QED
    BY <1>4, <2>1, <2>2 DEF Within
<1>9. Rests(TakeChunks(p), msg, d)
  BY <1>3, <1>8, ChunksTaken
<1> QED
  BY <1>6, <1>9

(* and one that comes within a body does.                                  *)
LEMMA FromBody ==
  ASSUME msg \in Messages, msg.framing # "chunked", NEW c \in HeadLength(msg) .. Len(Wire(msg)),
         NEW d \in 0 .. Len(Wire(msg)), c < d,
         PlainRead(parser, msg, c), ~parser.done,
         NEW q \in TakeData(parser, Piece(Wire(msg), c, d))
  PROVE  PlainRead(q, msg, d)
<1> DEFINE W == Wire(msg)
           H == HeadLength(msg)
           data == Piece(W, c, d)
           b == Piece(W, H, d)
           p == [parser EXCEPT !.body = @ \o data]
<1>1. W \in Seq(Nat) /\ Len(W) \in Nat /\ H \in Nat /\ c \in Nat /\ d \in Nat
      /\ H <= c /\ c <= d /\ d <= Len(W) /\ H <= d /\ d \in H .. Len(W)
  <2>1. W \in Seq(Nat) /\ Len(W) \in Nat /\ H \in Nat
    BY EndOfWire, MessageHeaded DEF Headed
  <2> QED
    BY <2>1
<1>2. Reading(parser, msg, ToldLength(msg), Piece(W, H, c), <<>>)
  BY DEF PlainRead, ToldLength
<1>3. parser.code # -1 /\ ~parser.chunked /\ parser.body = Piece(W, H, c)
  <2>1. parser.code = 200 /\ parser.chunked = InChunks(msg) /\ parser.body = Piece(W, H, c)
    BY <1>2 DEF Reading
  <2>2. ~InChunks(msg)
    BY DEF InChunks
  <2> QED
    BY <2>1, <2>2
<1>4. Piece(W, H, c) \o data = b
  BY <1>1, PiecesJoin
<1>5. IsPiece(Nat, W, H, d, b)
  BY <1>1, PieceIs
<1>6. b \in Seq(Nat)
  BY <1>5 DEF IsPiece
<1>7. p = [parser EXCEPT !.body = b]
  BY <1>3, <1>4
<1> HIDE DEF b
<1>8. Reading(p, msg, ToldLength(msg), b, <<>>) /\ ~p.done
  <2>1. Reading([parser EXCEPT !.body = b], msg, ToldLength(msg), b, <<>>)
        /\ [parser EXCEPT !.body = b].done = parser.done
    BY <1>2, <1>6, SetBody
  <2> QED
    BY <1>7, <2>1
<1>9. ~p.chunked
  BY <1>8 DEF Reading, InChunks
<1>10. TakeData(parser, data) = {TakeBody(p)}
  BY <1>3, <1>9 DEF TakeData, GoOn
<1> HIDE DEF p
<1>11. PlainRead(TakeBody(p), msg, d)
  BY <1>1, <1>8, BodyTaken DEF b
<1> QED
  BY <1>10, <1>11

(* The inductive invariant: what has not arrived is the rest of the        *)
(* message, and the parser is where what has arrived takes it.             *)
FramingInv ==
  /\ msg \in Messages
  /\ \E c \in 0 .. Len(Wire(msg)) :
       /\ wire = Piece(Wire(msg), c, Len(Wire(msg)))
       /\ clean /\ Readable => Expected(msg, parser, c)

(* Nothing has arrived at first.                                           *)
LEMMA FramingStarts == FramingInit => FramingInv
<1> SUFFICES ASSUME FramingInit PROVE FramingInv
  OBVIOUS
<1>1. msg \in Messages /\ wire = Wire(msg) /\ parser = Fresh(msg.isReq)
  BY DEF FramingInit
<1>2. /\ Wire(msg) \in Seq(Nat) /\ Len(Wire(msg)) \in Nat
      /\ HeadLength(msg) \in Nat /\ HeadLength(msg) >= 4
  BY <1>1, EndOfWire, MessageHeaded DEF Headed
<1>3. Piece(Wire(msg), 0, Len(Wire(msg))) = Wire(msg) /\ Piece(Wire(msg), 0, 0) = <<>>
  <2>1. 0 \in 0 .. Len(Wire(msg))
    BY <1>2
  <2> QED
    BY <1>2, <2>1, WholePiece
<1>4. msg.isReq \in BOOLEAN
  BY <1>1, MessageMade DEF Made
<1>5. parser \in Parsers
  BY <1>1, <1>4 DEF Fresh, Parsers
<1>6. /\ parser.isReq = msg.isReq /\ parser.code = -1 /\ parser.head = <<>>
      /\ parser.body = <<>> /\ parser.buffer = <<>> /\ ~parser.done /\ parser.faults = {}
  BY <1>1 DEF Fresh
<1>7. Searching(parser, msg, <<>>)
  BY <1>5, <1>6 DEF Searching
<1>8. Expected(msg, parser, 0)
  <2>1. 0 < HeadLength(msg) /\ 0 \notin {1, 2}
    BY <1>2
  <2> QED
    BY <1>3, <1>7, <2>1 DEF Expected
<1>9. 0 \in 0 .. Len(Wire(msg)) /\ wire = Piece(Wire(msg), 0, Len(Wire(msg)))
  BY <1>1, <1>2, <1>3
<1> QED
  BY <1>1, <1>8, <1>9 DEF FramingInv

(* requestData() and responseData() keep it, whatever the piece.           *)
LEMMA PieceArrives ==
  ASSUME FramingInv, NEW n \in 1 .. MaxPiece, Arrive(n)
  PROVE  FramingInv'
<1>1. msg \in Messages /\ msg' = msg
  BY DEF FramingInv, Arrive
<1> DEFINE W == Wire(msg)
           N == Len(W)
<1>2. PICK c \in 0 .. N : wire = Piece(W, c, N) /\ (clean /\ Readable => Expected(msg, parser, c))
  BY DEF FramingInv
<1>3. n \in Nat /\ n > 0
  BY LimitsNat
<1>4. W \in Seq(Nat) /\ N \in Nat /\ HeadLength(msg) \in Nat /\ EndOfHead(W) = HeadLength(msg) - 4
  BY <1>1, EndOfWire, MessageHeaded DEF Headed
<1> HIDE DEF N
<1>5. c \in Nat /\ c <= N /\ N <= Len(W)
  BY <1>4 DEF N
<1>6. IsPiece(Nat, W, c, N, wire)
  BY <1>2, <1>4, <1>5, PieceIs
<1>7. wire \in Seq(Nat) /\ Len(wire) = N - c
  BY <1>6 DEF IsPiece
<1>8. n <= Len(wire) /\ ~parser.done
  BY DEF Arrive
<1> DEFINE d == c + n
<1>9. d \in Nat /\ c < d /\ c <= d /\ d <= N /\ n <= N - c /\ d \in 0 .. N
  BY <1>3, <1>4, <1>5, <1>7, <1>8
<1>10. wire' = Piece(W, d, N)
  <2>1. wire' = Drop(wire, n)
    BY DEF Arrive
  <2>2. Drop(Piece(W, c, N), n) = Piece(W, c + n, N)
    BY <1>3, <1>4, <1>5, <1>9, DropPiece
  <2> QED
    BY <1>2, <2>1, <2>2
<1>11. SubSeq(wire, 1, n) = Piece(W, c, d)
  <2>1. 0 \in Nat /\ 0 <= n /\ c + 0 = c /\ 0 + 1 = 1
    BY <1>3, <1>5
  <2>2. Piece(Piece(W, c, N), 0, n) = Piece(W, c + 0, c + n)
    BY <1>3, <1>4, <1>5, <1>9, <2>1, PieceOfPiece
  <2> QED
    BY <1>2, <2>1, <2>2 DEF Piece
<1>12. Len(wire') = N - d
  <2>1. IsPiece(Nat, W, d, N, wire')
    BY <1>4, <1>5, <1>9, <1>10, PieceIs
  <2> QED
    BY <2>1 DEF IsPiece
<1>13. parser' \in TakeData(parser, Piece(W, c, d)) /\ Len(Wire(msg)) - Len(wire') = d
  <2>1. N - (N - d) = d
    BY <1>4, <1>9
  <2> QED
    BY <1>11, <1>12, <2>1 DEF Arrive, N
<1>14. clean' = (clean /\ d \notin BadCuts(msg))
  BY <1>13 DEF Arrive
<1>15. Readable' = Readable
  BY <1>1 DEF Readable, TooLong
<1> HIDE DEF d
<1>16. ASSUME clean', Readable' PROVE Expected(msg, parser', d)
  <2>1. Readable /\ d \notin BadCuts(msg) /\ Expected(msg, parser, c)
    BY <1>2, <1>14, <1>15, <1>16
  <2>2. d \in 0 .. Len(Wire(msg))
    BY <1>9 DEF N
  <2>3. CASE c < HeadLength(msg)
    <3>1. Searching(parser, msg, Piece(Wire(msg), 0, c))
      BY <2>1, <2>3 DEF Expected
    <3> QED
      BY <1>1, <1>5, <1>9, <1>13, <2>1, <2>2, <2>3, <3>1, FromSearch
  <2>4. CASE ~(c < HeadLength(msg))
    <3>1. c \in HeadLength(msg) .. Len(Wire(msg)) /\ ~(d < HeadLength(msg))
      BY <1>4, <1>5, <1>9, <2>4 DEF N
    <3>2. CASE msg.framing = "chunked"
      <4>1. Rests(parser, msg, c)
        BY <2>1, <2>4, <3>2 DEF Expected
      <4>2. Rests(parser', msg, d)
        BY <1>1, <1>8, <1>9, <1>13, <2>1, <2>2, <3>1, <3>2, <4>1, FromChunks
      <4> QED
        BY <3>1, <3>2, <4>2 DEF Expected
    <3>3. CASE msg.framing # "chunked"
      <4>1. PlainRead(parser, msg, c)
        BY <2>1, <2>4, <3>3 DEF Expected
      <4>2. PlainRead(parser', msg, d)
        BY <1>1, <1>8, <1>9, <1>13, <2>2, <3>1, <3>3, <4>1, FromBody
      <4> QED
        BY <3>1, <3>3, <4>2 DEF Expected
    <3> QED
      BY <3>2, <3>3
  <2> QED
    BY <2>3, <2>4
<1> QED
  BY <1>1, <1>9, <1>10, <1>16 DEF FramingInv, N

(* The chunks that were taken are the beginning of the body.               *)
LEMMA BodyGrows ==
  ASSUME NEW m \in Messages, NEW i \in 0 .. Len(m.parts)
  PROVE  /\ Len(BodyTo(m, i)) \in 0 .. Len(Body(m))
         /\ BodyTo(m, i) = SubSeq(Body(m), 1, Len(BodyTo(m, i)))
<1> DEFINE s == Body(m)
           t == BodyTo(m, i)
           e == <<>>
<1>1. Made(m)
  BY MessageMade
<1>2. m.parts \in Seq(Seq(Nat)) /\ s \in Seq(Nat) /\ AreJoined(Nat, m.parts)
  BY <1>1, JoinedIs DEF Made
<1>3. t \in Seq(Nat)
  BY <1>2 DEF AreJoined, BodyTo
<1>4. e \in Seq(Nat) /\ e \o s = s /\ e \o t = t
  <2>1. <<>> \in Seq(Nat) /\ <<>> \o s = s /\ <<>> \o t = t
    BY <1>2, <1>3, ConcatEmptySeq
  <2> QED
    BY <2>1
<1> HIDE DEF e
<1>5. Stands(s, 0, e \o Joined(m.parts, Len(m.parts)))
  <2>1. Stands(s, 0, s)
    BY <1>2, SelfStands
  <2> QED
    BY <1>4, <2>1 DEF Body
<1>6. \A n \in 0 .. Len(m.parts) : Stands(s, 0, e \o Joined(m.parts, n))
  <2> HIDE DEF s
  <2> QED
    BY <1>2, <1>4, <1>5, FirstStand
<1>7. Stands(s, 0, t)
  BY <1>4, <1>6 DEF BodyTo
<1> HIDE DEF s, t
<1>8. Piece(s, 0, 0 + Len(t)) = t
  BY <1>2, <1>3, <1>7, StandsIs
<1>9. Len(s) \in Nat /\ Len(t) \in Nat /\ 0 + Len(t) = Len(t) /\ 0 + 1 = 1 /\ Len(t) <= Len(s)
  BY <1>2, <1>3, <1>7 DEF Stands
<1>10. SubSeq(s, 1, Len(t)) = t
  BY <1>8, <1>9 DEF Piece
<1> QED
  BY <1>9, <1>10 DEF s, t

(* What the parser is expected to have is what is promised of it.          *)
LEMMA FramingHolds == FramingInv => FramingSound
<1> SUFFICES ASSUME FramingInv, clean, Readable PROVE FramingSound
  BY DEF FramingSound
<1> DEFINE W == Wire(msg)
           N == Len(W)
           H == HeadLength(msg)
<1>1. msg \in Messages
  BY DEF FramingInv
<1>2. PICK c \in 0 .. N : wire = Piece(W, c, N) /\ Expected(msg, parser, c)
  BY DEF FramingInv
<1>3. Made(msg) /\ Headed(msg)
  BY <1>1, MessageMade, MessageHeaded
<1>4. W \in Seq(Nat) /\ N \in Nat /\ H \in Nat /\ H <= N /\ EndOfHead(W) = H - 4
  BY <1>1, <1>3, EndOfWire DEF Headed
<1>5. /\ Body(msg) \in Seq(Nat) /\ Len(Body(msg)) \in Nat
      /\ msg.framing \in {"encoded", "bare", "chunked"}
  <2>1. Body(msg) \in Seq(Nat) /\ msg.framing \in {"encoded", "bare", "chunked"}
    BY <1>3 DEF Made
  <2> QED
    BY <2>1
<1>6. c \in Nat /\ c <= N
  BY <1>4
<1>7. Len(wire) = N - c /\ (wire = <<>> <=> c = N)
  <2>1. IsPiece(Nat, W, c, N, wire)
    BY <1>2, <1>4, <1>6, PieceIs
  <2>2. wire \in Seq(Nat) /\ Len(wire) = N - c
    BY <2>1 DEF IsPiece
  <2> HIDE DEF N
  <2>3. wire = <<>> <=> Len(wire) = 0
    BY <2>2
  <2> QED
    BY <1>4, <1>6, <2>2, <2>3
<1>8. HeadArrived <=> c >= H
  <2>1. N - (N - c) = c /\ H - 4 + 4 = H
    BY <1>4, <1>6
  <2> QED
    BY <1>4, <1>7, <2>1 DEF HeadArrived
<1> HIDE DEF W, N, H
<1> DEFINE Sound == /\ parser.faults = {}
                    /\ \/ parser.done = Whole
                       \/ /\ ~msg.isReq /\ msg.framing = "bare"
                          /\ parser.done /\ EndsWithBreak(parser.body)
                    /\ \E n \in 0 .. Len(Payload) : parser.body = SubSeq(Payload, 1, n)
                    /\ parser.done /\ Whole => parser.body = Payload
<1>9. SUFFICES Sound
  BY DEF FramingSound
<1>10. Payload \in Seq(Nat) /\ Len(Payload) \in Nat
  <2>1. Payload \in Seq(Nat)
    BY <1>5 DEF Payload
  <2> QED
    BY <2>1
<1>11. parser.body = <<>> => \E n \in 0 .. Len(Payload) : parser.body = SubSeq(Payload, 1, n)
  <2>1. SubSeq(Payload, 1, 0) = <<>> /\ 0 \in 0 .. Len(Payload)
    BY <1>10
  <2> QED
    BY <2>1
<1>12. Whole \in BOOLEAN
  BY DEF Whole, HeadArrived
<1>13. ASSUME parser \in Parsers, parser.done <=> Whole PROVE parser.done = Whole
  BY <1>12, <1>13 DEF Parsers
<1>14. CASE c < H
  <2>1. Searching(parser, msg, Piece(W, 0, c))
    BY <1>2, <1>14 DEF Expected, H, W
  <2>2. ~parser.done /\ parser.faults = {} /\ parser.body = <<>>
    BY <2>1 DEF Searching
  <2>3. c # N /\ ~(c >= H)
    BY <1>4, <1>6, <1>14
  <2>4. ~Whole
    BY <1>7, <1>8, <2>3 DEF Whole
  <2>5. parser.done = Whole
    BY <1>13, <2>1, <2>2, <2>4 DEF Searching
  <2>6. \E n \in 0 .. Len(Payload) : parser.body = SubSeq(Payload, 1, n)
    BY <1>11, <2>2
  <2> QED
    BY <2>2, <2>5, <2>6
<1>15. CASE ~(c < H) /\ msg.framing = "chunked"
  <2>1. Rests(parser, msg, c) /\ Placed(msg)
    BY <1>1, <1>2, <1>15, ChunksPlaced DEF Expected, H
  <2>2. Payload = Body(msg) /\ (Whole <=> c = N)
    BY <1>7, <1>15 DEF Payload, Whole
  <2>3. ASSUME NEW i \in 0 .. Len(msg.parts), parser.body = BodyTo(msg, i)
        PROVE  \E n \in 0 .. Len(Payload) : parser.body = SubSeq(Payload, 1, n)
    BY <1>1, <2>2, <2>3, BodyGrows
  <2>4. CASE \E i \in 0 .. Len(msg.parts) : AtSize(parser, msg, i, c) /\ c <= At(msg, i) + 1
    <3>1. PICK i \in 0 .. Len(msg.parts) : AtSize(parser, msg, i, c) /\ c <= At(msg, i) + 1
      BY <2>4
    <3>2. ~parser.done /\ parser.faults = {} /\ parser.body = BodyTo(msg, i)
      BY <3>1 DEF AtSize, Reading
    <3>3. c # N
      <4>1. /\ At(msg, i) \in Nat /\ Line(msg, i) \in Nat /\ Line(msg, i) > 2
            /\ At(msg, i) + Line(msg, i) <= N
        BY <2>1 DEF Placed, N, W
      <4> QED
        BY <1>4, <1>6, <3>1, <4>1
    <3>4. parser.done = Whole
      BY <1>13, <2>2, <3>1, <3>2, <3>3 DEF AtSize, Reading
    <3>5. \E n \in 0 .. Len(Payload) : parser.body = SubSeq(Payload, 1, n)
      BY <2>3, <3>2
    <3> QED
      BY <3>2, <3>4, <3>5
  <2>5. CASE \E i \in 0 .. Len(msg.parts) - 1 : AtChunk(parser, msg, i, c) /\ c < At(msg, i + 1)
    <3>1. PICK i \in 0 .. Len(msg.parts) - 1 : AtChunk(parser, msg, i, c) /\ c < At(msg, i + 1)
      BY <2>5
    <3>2. ~parser.done /\ parser.faults = {} /\ parser.body = BodyTo(msg, i)
      BY <3>1 DEF AtChunk, Reading
    <3>3. i \in 0 .. Len(msg.parts) /\ i + 1 \in 0 .. Len(msg.parts)
      BY <1>3 DEF Made
    <3>4. c # N
      <4>1. At(msg, i + 1) <= N /\ At(msg, i + 1) \in Nat
        BY <2>1, <3>3 DEF Placed, N, W
      <4> QED
        BY <1>4, <1>6, <3>1, <4>1
    <3>5. parser.done = Whole
      BY <1>13, <2>2, <3>1, <3>2, <3>4 DEF AtChunk, Reading
    <3>6. \E n \in 0 .. Len(Payload) : parser.body = SubSeq(Payload, 1, n)
      BY <2>3, <3>2, <3>3
    <3> QED
      BY <3>2, <3>5, <3>6
  <2>6. CASE AtEnd(parser, msg, c)
    <3>1. c = N /\ parser.done /\ parser.faults = {} /\ parser.body = Body(msg)
      BY <2>6 DEF AtEnd, Reading, N, W
    <3>2. Body(msg) = BodyTo(msg, Len(msg.parts)) /\ Len(msg.parts) \in 0 .. Len(msg.parts)
      BY <1>3 DEF Body, BodyTo, Made
    <3> QED
      BY <2>2, <2>3, <3>1, <3>2
  <2> QED
    BY <2>1, <2>4, <2>5, <2>6 DEF Rests
<1>16. CASE ~(c < H) /\ msg.framing # "chunked"
  <2> DEFINE b == Piece(Wire(msg), HeadLength(msg), c)
  <2>1. PlainRead(parser, msg, c) /\ c \in HeadLength(msg) .. Len(Wire(msg)) /\ c >= H
    BY <1>2, <1>4, <1>6, <1>16 DEF Expected, H, N, W
  <2>2. /\ b \in Seq(Nat) /\ Len(b) = c - H /\ Len(b) \in Nat
        /\ Len(b) <= Len(Body(msg)) /\ b = SubSeq(Body(msg), 1, Len(b))
        /\ c = N <=> Len(b) = Len(Body(msg))
        /\ c = N => b = Body(msg)
    BY <1>1, <1>16, <2>1, RestIs DEF H, N, W
  <2> HIDE DEF b
  <2>3. Len(b) \in 0 .. Len(Body(msg))
    BY <1>5, <2>2
  <2>4. CASE ToldBody(msg)
    <3>1. /\ parser.body = b /\ parser.faults = {}
          /\ (parser.done <=> c = N) /\ parser.done \in BOOLEAN
      BY <2>1, <2>4 DEF PlainRead, Reading, Parsers, b, N, W
    <3>2. Payload = Body(msg) /\ (Whole <=> c = N)
      BY <1>7, <2>4 DEF Payload, Whole, ToldBody
    <3>3. Whole \in BOOLEAN
      BY DEF Whole, HeadArrived
    <3>4. parser.done = Whole
      BY <3>1, <3>2, <3>3
    <3> QED
      BY <2>2, <2>3, <3>1, <3>2, <3>4
  <2>5. CASE ~ToldBody(msg)
    <3>1. msg.framing = "bare" \/ (msg.framing = "encoded" /\ Body(msg) = <<>>)
      BY <1>5, <1>16, <2>5 DEF ToldBody
    <3>2. Whole <=> msg.isReq
      BY <1>8, <2>1, <3>1 DEF Whole
    <3>3. CASE msg.isReq
      <4>1. parser.body = <<>> /\ parser.faults = {} /\ parser.done
        BY <2>1, <2>5, <3>3 DEF PlainRead, Reading
      <4>2. Payload = <<>>
        BY <3>1, <3>3 DEF Payload
      <4> QED
        BY <1>11, <3>2, <3>3, <4>1, <4>2
    <3>4. CASE ~msg.isReq
      <4>1. /\ parser.body = b /\ parser.faults = {}
            /\ ~parser.done \/ (parser.done /\ EndsWithBreak(b))
        BY <2>1, <2>5, <3>4 DEF PlainRead, Reading, b
      <4>2. Payload = Body(msg) /\ ~Whole
        BY <3>2, <3>4 DEF Payload
      <4>3. parser.done => msg.framing = "bare"
        <5>1. ASSUME msg.framing = "encoded" PROVE ~EndsWithBreak(b)
          <6>1. Len(Body(msg)) = 0
            BY <3>1, <5>1
          <6>2. Len(b) = 0
            BY <2>2, <6>1
          <6> QED
            BY <6>2 DEF EndsWithBreak
        <5> QED
          BY <3>1, <4>1, <5>1
      <4>4. \E n \in 0 .. Len(Payload) : parser.body = SubSeq(Payload, 1, n)
        BY <2>2, <2>3, <4>1, <4>2
      <4>5. parser \in Parsers
        BY <2>1, <2>5, <3>4 DEF PlainRead, Reading
      <4>6. CASE parser.done
        BY <3>4, <4>1, <4>2, <4>3, <4>4, <4>6
      <4>7. CASE ~parser.done
        <5>1. parser.done = Whole
          BY <1>13, <4>2, <4>5, <4>7
        <5> QED
          BY <4>1, <4>2, <4>4, <4>7, <5>1
      <4> QED
        BY <4>6, <4>7
    <3> QED
      BY <3>3, <3>4
  <2> QED
    BY <2>4, <2>5
<1> QED
  BY <1>14, <1>15, <1>16

(* FramingSound, for any messages and limits, with requestData() and       *)
(* responseData() called for pieces of any sizes: cut anywhere but at a    *)
(* place of BadCuts, a message is finished with its last byte and not      *)
(* before, and its body is the one that was sent.                          *)
THEOREM FramingTheorem == FramingSpec => []FramingSound
<1>1. FramingInv /\ [FramingNext]_framingVars => FramingInv'
  <2> SUFFICES ASSUME FramingInv, [FramingNext]_framingVars PROVE FramingInv'
    OBVIOUS
  <2>1. ASSUME NEW n \in 1 .. MaxPiece, Arrive(n) PROVE FramingInv'
    BY <2>1, PieceArrives
  <2>2. CASE UNCHANGED framingVars
    BY <2>2 DEF FramingInv, framingVars, Expected, Readable, TooLong
  <2> QED
    BY <2>1, <2>2 DEF FramingNext
<1> QED
  BY <1>1, FramingStarts, FramingHolds, PTL DEF FramingSpec
=============================================================================
