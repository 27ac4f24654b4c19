-------------------------- MODULE OpenThreadProofs --------------------------
(***************************************************************************)
(* Theorems about OpenThread, for any callers, any number of calls and, but *)
(* for the last one, with and without the delayed store to isIdle_.        *)
(***************************************************************************)
EXTENDS OpenThread, SequenceTheorems, FiniteSetTheorems, TLAPS

(* The type invariant, and that a call in progress has been counted in     *)
(* calls, which makes the message it pushes one of Message.                *)
CallsBegun == \A c \in Callers : cpc[c] # "out" => calls[c] >= 1
Typed == TypeOK /\ CallsBegun

(* What each action of Next does to rpc, by name.                          *)
LEMMA TypedInit == Init => Typed
<1> SUFFICES ASSUME Init PROVE Typed
  OBVIOUS
<1>1. \A c \in Callers : 0 <= MaxCalls[c]
  BY MaxCallsNat
<1>2. /\ <<>> \in Seq(Node) /\ <<>> \in Seq(Message)
      /\ Len(<<>>) = 0
  OBVIOUS
<1>3. /\ cpc \in [Callers -> {"out", "push", "count", "spin"}]
      /\ calls \in [Callers -> Nat]
      /\ \A c \in Callers : calls[c] <= MaxCalls[c]
  BY <1>1 DEF Init
<1>4. /\ rpc \in RunPlaces
      /\ Len(node) = IF rpc \in {"count", "cb"} THEN 1 ELSE 0
  BY <1>2 DEF Init, RunPlaces
<1>6. /\ queue \in Seq(Node) /\ cache \in Seq(Node) /\ node \in Seq(Node)
      /\ handled \in Seq(Message)
  BY <1>2 DEF Init
<1>7. /\ state \in {"START", "RUN", "STOP"} /\ mutex \in {"none", "start", "run"}
      /\ starter \in {"polling", "returned", "aborted"}
      /\ writeId \in Nat /\ popId \in Nat /\ readId \in Nat /\ msgCount \in Int
  BY DEF Init
<1>8. isIdle \in BOOLEAN /\ idleBuffered \in BOOLEAN
  BY DEF Init
<1>9. TypeOK
  BY <1>3, <1>4, <1>6, <1>7, <1>8 DEF TypeOK
<1> QED
  BY <1>9 DEF Init, Typed, CallsBegun

(* The message that a call pushes is a message.                            *)
LEMMA PushedIsNode ==
  ASSUME Typed, NEW c \in Callers, NEW kind \in {"RUN", "STOP"},
         cpc[c] = "push"
  PROVE  [id |-> writeId, msg |-> [kind |-> kind, from |-> c, n |-> calls[c]]]
           \in Node
<1>1. calls[c] \in 1 .. MaxCalls[c]
  BY MaxCallsNat DEF Typed, TypeOK, CallsBegun
<1>2. [kind |-> kind, from |-> c, n |-> calls[c]]
        \in [kind : {"RUN", "STOP"}, from : {c}, n : 1 .. MaxCalls[c]]
  BY <1>1
<1>3. [kind |-> kind, from |-> c, n |-> calls[c]] \in Message
  BY <1>2 DEF Message
<1> QED
  BY <1>3 DEF Node, Typed, TypeOK

(* Every step of a caller keeps the types.                                 *)
LEMMA TypedCaller ==
  ASSUME Typed, NEW c \in Callers, Caller(c)
  PROVE  Typed'
<1> USE DEF Typed, TypeOK, CallsBegun, idleVars, queueVars, runVars
<1>1. CASE Enter(c)
  <2>1. calls' \in [Callers -> Nat]
    BY <1>1 DEF Enter
  <2>2. ASSUME NEW d \in Callers
        PROVE  calls'[d] <= MaxCalls[d]
    <3>1. /\ calls \in [Callers -> Nat] /\ MaxCalls \in [Callers -> Nat]
          /\ calls[c] < MaxCalls[c] /\ calls[d] <= MaxCalls[d]
          /\ calls' = [calls EXCEPT ![c] = calls[c] + 1]
      BY <1>1, MaxCallsNat DEF Enter
    <3> HIDE DEF Typed, TypeOK, CallsBegun
    <3> QED
      BY <3>1
  <2>3. cpc' \in [Callers -> {"out", "push", "count", "spin"}]
    BY <1>1 DEF Enter
  <2>4. CallsBegun'
    BY <1>1 DEF Enter
  <2> QED
    BY <1>1, <2>1, <2>2, <2>3, <2>4 DEF Enter
<1>2. ASSUME NEW kind \in {"RUN", "STOP"}, Push(c, kind)
      PROVE  Typed'
  <2>1. queue' \in Seq(Node)
    BY <1>2, PushedIsNode, AppendProperties DEF Push
  <2> QED
    BY <1>2, <2>1 DEF Push
<1>3. CASE Count(c)
  BY <1>3 DEF Count
<1>4. CASE Spin(c)
  BY <1>4 DEF Spin, AfterSignal, RunPlaces, InLoop, Leaving
<1> QED
  BY <1>1, <1>2, <1>3, <1>4 DEF Caller

(* Every step of run() keeps the types.                                    *)
LEMMA TypedRun ==
  ASSUME Typed, RunStep
  PROVE  Typed'
<1> USE DEF Typed, TypeOK, CallsBegun, idleVars, queueVars, callerVars, Goto,
            RunPlaces, InLoop, Leaving, IdleVisible
<1>1. CASE RunBegins BY <1>1 DEF RunBegins
<1>2. CASE StartHandled BY <1>2 DEF StartHandled
<1>3. CASE PopNode
  <2>1. cache \o queue \in Seq(Node)
    BY ConcatProperties
  <2>2. CASE cache \o queue = <<>>
    BY <1>3, <2>2 DEF PopNode, CacheFirst
  <2>3. CASE cache \o queue # <<>>
    <3>1. /\ Head(cache \o queue) \in Node
          /\ Tail(cache \o queue) \in Seq(Node)
      BY <2>1, <2>3, HeadTailProperties
    <3>2. popId + Len(queue) \in Nat
      BY LenProperties
    <3>3. node' = <<Head(cache \o queue)>> /\ rpc' = "count"
      BY <1>3, <2>3 DEF PopNode, CacheFirst
    <3>5. node' \in Seq(Node) /\ Len(node') = 1
      <4> HIDE DEF Typed, TypeOK, CallsBegun
      <4> QED
        BY <3>1, <3>3
    <3>4. /\ cache' = Tail(cache \o queue) /\ queue' = <<>>
          /\ popId' = popId + Len(queue)
          /\ UNCHANGED <<state, isIdle, idleBuffered, writeId, readId, handled,
                         msgCount, mutex, starter, cpc, calls>>
      BY <1>3, <2>3 DEF PopNode, CacheFirst
    <3>6. queue' \in Seq(Node)
      BY <3>4
    <3> QED
      BY <3>1, <3>2, <3>3, <3>4, <3>5, <3>6
  <2> QED
    BY <2>2, <2>3
<1>4. CASE Uncount
  <2>1. node[1] \in Node
    <3>1. node \in Seq(Node) /\ 1 \in 1 .. Len(node)
      BY <1>4 DEF Uncount
    <3> HIDE DEF Typed, TypeOK, CallsBegun
    <3> QED
      BY <3>1, ElementOfSeq
  <2>2. handled' \in Seq(Message)
    BY <1>4, <2>1, AppendProperties DEF Uncount, Node
  <2>3. msgCount' \in Int /\ readId' \in Nat
    BY <1>4 DEF Uncount, OneLess
  <2> QED
    BY <1>4, <2>2, <2>3 DEF Uncount
<1>5. CASE CallbackReturns BY <1>5 DEF CallbackReturns, Deleted
<1>6. CASE StillCounted BY <1>6 DEF StillCounted
<1>7. CASE LockIdle BY <1>7 DEF LockIdle
<1>8. CASE SetIdle BY <1>8 DEF SetIdle
<1>9. CASE HasMsg
  <2>1. cache \o queue \in Seq(Node) /\ popId + Len(queue) \in Nat
    BY ConcatProperties, LenProperties
  <2>2. /\ isIdle' \in BOOLEAN /\ idleBuffered' \in BOOLEAN
    BY <1>9 DEF HasMsg
  <2>3. /\ cache' \in Seq(Node) /\ queue' \in Seq(Node) /\ popId' \in Nat
        /\ rpc' \in {"counted", "unidle"}
    <3>1. CASE cache = <<>> /\ queue = <<>>
      BY <1>9, <3>1 DEF HasMsg
    <3>2. CASE ~(cache = <<>> /\ queue = <<>>)
      <4>1. /\ cache' = cache \o queue /\ queue' = <<>> /\ rpc' = "unidle"
            /\ popId' = popId + Len(queue)
        BY <1>9, <3>2 DEF HasMsg
      <4>2. queue' \in Seq(Node)
        BY <4>1
      <4> QED
        BY <2>1, <4>1, <4>2
    <3> QED
      BY <3>1, <3>2
  <2> QED
    BY <1>9, <2>2, <2>3 DEF HasMsg
<1>10. CASE NoneCounted BY <1>10 DEF NoneCounted
<1>11. CASE CondWait BY <1>11 DEF CondWait
<1>12. CASE WaitReturns BY <1>12 DEF WaitReturns
<1>13. CASE Unidle BY <1>13 DEF Unidle, IdleDown
<1>14. CASE Stopped BY <1>14 DEF Stopped
<1>15. CASE DropCache BY <1>15 DEF DropCache
<1>16. CASE ClearQueue BY <1>16 DEF ClearQueue
<1>17. CASE ResetIds BY <1>17 DEF ResetIds
<1> QED
  BY <1>1, <1>2, <1>3, <1>4, <1>5, <1>6, <1>7, <1>8, <1>9, <1>10, <1>11,
     <1>12, <1>13, <1>14, <1>15, <1>16, <1>17 DEF RunStep

LEMMA TypedStep == Typed /\ [Next]_vars => Typed'
<1> SUFFICES ASSUME Typed, [Next]_vars PROVE Typed'
  OBVIOUS
<1> USE DEF Typed, TypeOK, CallsBegun, idleVars, queueVars, runVars, callerVars
<1>1. CASE StartReturns BY <1>1 DEF StartReturns
<1>2. CASE StartGivesUp BY <1>2 DEF StartGivesUp
<1>3. CASE \E c \in Callers : Caller(c)
  BY <1>3, TypedCaller
<1>4. CASE RunStep
  BY <1>4, TypedRun
<1>5. CASE DrainStore BY <1>5 DEF DrainStore, IdleVisible
<1>6. CASE SpuriousWakeup
  BY <1>6 DEF SpuriousWakeup, Goto, RunPlaces, InLoop
<1>7. CASE UNCHANGED vars BY <1>7 DEF vars
<1> QED
  BY <1>1, <1>2, <1>3, <1>4, <1>5, <1>6, <1>7 DEF Next

(* The mailbox of an OpenThread is well-typed.                             *)
THEOREM Typing == Spec => []Typed
<1> QED
  BY TypedInit, TypedStep, PTL DEF Spec

(* The type invariant the runs check.                                      *)
THEOREM TypesHold == Spec => []TypeOK
<1>1. Typed => TypeOK
  BY DEF Typed
<1> QED
  BY <1>1, Typing, PTL

-----------------------------------------------------------------------------
(***************************************************************************)
(* No lost wakeup, when stores are not delayed.  From the moment hasMsg()  *)
(* has found nothing, every node that is pushed has its caller still       *)
(* before the spin's exit, because the spin exits only when isIdle_ is     *)
(* FALSE, which run() makes it only after the wait.                        *)
(***************************************************************************)
IdleShown ==
  /\ ~idleBuffered
  /\ rpc \in {"hasmsg", "counted", "wait", "waiting", "woken", "unidle"} =>
       isIdle = TRUE
NothingTaken ==
  rpc \in {"busy", "lock", "idle", "hasmsg", "counted", "wait", "waiting"} =>
    cache = <<>>
SignalOwed ==
  rpc \in {"counted", "wait", "waiting"} /\ queue # <<>> =>
    \E c \in Callers : cpc[c] \in {"count", "spin"}
IdleInv == IdleShown /\ NothingTaken /\ SignalOwed

LEMMA IdleInvInit == Init => IdleInv
<1> QED
  BY DEF Init, IdleInv, IdleShown, NothingTaken, SignalOwed

LEMMA IdleInvCaller ==
  ASSUME Typed, IdleInv, NEW c \in Callers, Caller(c)
  PROVE  IdleInv'
<1> USE DEF IdleInv, IdleShown, NothingTaken, SignalOwed, idleVars, queueVars,
            runVars
<1>0. cpc \in [Callers -> {"out", "push", "count", "spin"}]
  BY DEF Typed, TypeOK
<1>1. CASE Enter(c)
  <2>1. \A d \in Callers : cpc[d] \in {"count", "spin"} => cpc'[d] = cpc[d]
    BY <1>0, <1>1 DEF Enter
  <2> QED
    BY <1>1, <2>1 DEF Enter
<1>2. CASE \E kind \in {"RUN", "STOP"} : Push(c, kind)
  <2>1. cpc'[c] = "count"
    BY <1>0, <1>2 DEF Push
  <2> QED
    BY <1>2, <2>1 DEF Push
<1>3. CASE Count(c)
  <2>1. cpc'[c] = "spin"
    BY <1>0, <1>3 DEF Count
  <2> QED
    BY <1>3, <2>1 DEF Count
<1>4. CASE Spin(c)
  <2>1. CASE isIdle = TRUE
    <3>1. cpc' = cpc
      BY <1>0, <1>4, <2>1 DEF Spin, AfterSignal
    <3> QED
      BY <1>4, <2>1, <3>1 DEF Spin
  <2>2. CASE isIdle = FALSE
    <3>1. rpc' = rpc /\ rpc \notin {"counted", "wait", "waiting"}
      BY <1>4, <2>2 DEF Spin
    <3> QED
      BY <1>4, <2>2, <3>1 DEF Spin
  <2> QED
    BY <2>1, <2>2 DEF Typed, TypeOK
<1> QED
  BY <1>1, <1>2, <1>3, <1>4 DEF Caller

LEMMA IdleInvRun ==
  ASSUME TSO = FALSE, Typed, IdleInv, RunStep
  PROVE  IdleInv'
<1> USE DEF IdleInv, IdleShown, NothingTaken, SignalOwed, idleVars, queueVars,
            callerVars, Goto
<1>1. CASE RunBegins BY <1>1 DEF RunBegins
<1>2. CASE StartHandled BY <1>2 DEF StartHandled
<1>3. CASE PopNode
  <2>1. CASE rpc' = "count"
    BY <1>3, <2>1 DEF PopNode
  <2>2. CASE rpc' # "count"
    <3>1. cache \o queue = <<>> /\ rpc' = "busy" /\ UNCHANGED <<cache, queue>>
      BY <1>3, <2>2 DEF PopNode, CacheFirst
    <3>2. cache = <<>>
      BY <3>1, ConcatEqualIffEmpty DEF Typed, TypeOK
    <3> QED
      BY <1>3, <3>1, <3>2 DEF PopNode
  <2> QED
    BY <2>1, <2>2
<1>4. CASE Uncount BY <1>4 DEF Uncount
<1>5. CASE CallbackReturns BY <1>5 DEF CallbackReturns
<1>6. CASE StillCounted BY <1>6 DEF StillCounted
<1>7. CASE LockIdle BY <1>7 DEF LockIdle
<1>8. CASE SetIdle BY <1>8 DEF SetIdle
<1>9. CASE HasMsg
  <2>1. CASE cache = <<>> /\ queue = <<>>
    BY <1>9, <2>1 DEF HasMsg
  <2>2. CASE ~(cache = <<>> /\ queue = <<>>)
    <3>1. rpc' = "unidle" /\ isIdle' = TRUE /\ idleBuffered' = FALSE
      BY <1>9, <2>2 DEF HasMsg, IdleVisible
    <3> QED
      BY <3>1
  <2> QED
    BY <2>1, <2>2
<1>10. CASE NoneCounted BY <1>10 DEF NoneCounted
<1>11. CASE CondWait BY <1>11 DEF CondWait, IdleVisible
<1>12. CASE WaitReturns BY <1>12 DEF WaitReturns
<1>13. CASE Unidle BY <1>13 DEF Unidle, IdleDown
<1>14. CASE Stopped BY <1>14 DEF Stopped
<1>15. CASE DropCache BY <1>15 DEF DropCache
<1>16. CASE ClearQueue BY <1>16 DEF ClearQueue
<1>17. CASE ResetIds BY <1>17 DEF ResetIds
<1> QED
  BY <1>1, <1>2, <1>3, <1>4, <1>5, <1>6, <1>7, <1>8, <1>9, <1>10, <1>11,
     <1>12, <1>13, <1>14, <1>15, <1>16, <1>17 DEF RunStep

LEMMA IdleInvStep == TSO = FALSE /\ Typed /\ IdleInv /\ [Next]_vars => IdleInv'
<1> SUFFICES ASSUME TSO = FALSE, Typed, IdleInv, [Next]_vars PROVE IdleInv'
  OBVIOUS
<1> USE DEF IdleInv, IdleShown, NothingTaken, SignalOwed, idleVars, queueVars,
            runVars, callerVars
<1>1. CASE StartReturns BY <1>1 DEF StartReturns
<1>2. CASE StartGivesUp BY <1>2 DEF StartGivesUp
<1>3. CASE \E c \in Callers : Caller(c)
  BY <1>3, IdleInvCaller
<1>4. CASE RunStep
  BY <1>4, IdleInvRun
<1>5. CASE DrainStore BY <1>5 DEF DrainStore
<1>6. CASE SpuriousWakeup BY <1>6 DEF SpuriousWakeup, Goto
<1>7. CASE UNCHANGED vars BY <1>7 DEF vars
<1> QED
  BY <1>1, <1>2, <1>3, <1>4, <1>5, <1>6, <1>7 DEF Next

(* An OpenThread whose store to isIdle_ is not delayed never sleeps over a *)
(* node that no caller is about to signal.                                 *)
THEOREM WakeupTheorem == TSO = FALSE => (Spec => []NoLostWakeup)
<1> SUFFICES ASSUME TSO = FALSE PROVE Spec => []NoLostWakeup
  OBVIOUS
<1>1. Typed /\ IdleInv => NoLostWakeup
  <2> SUFFICES ASSUME Typed, IdleInv, rpc = "waiting", Unhandled # <<>>
               PROVE  \E c \in Callers : cpc[c] \in {"count", "spin"}
    BY DEF NoLostWakeup
  <2>1. Unhandled = queue
    BY ConcatEmptySeq DEF Unhandled, InHand, IdleInv, NothingTaken, Typed, TypeOK
  <2> QED
    BY <2>1 DEF IdleInv, SignalOwed
<1>2. Typed /\ IdleInv /\ [Next]_vars => IdleInv'
  BY IdleInvStep
<1> QED
  BY <1>1, <1>2, IdleInvInit, Typing, PTL DEF Spec

-----------------------------------------------------------------------------
(***************************************************************************)
(* Ids.  While run() loops, the node in hand, the cache and the list carry *)
(* the consecutive ids readId, readId + 1, ...  The list keeps the ids     *)
(* popId, popId + 1, ... until it is emptied at the end of run().          *)
(***************************************************************************)
CacheIds == \A i \in 1 .. Len(cache) : cache[i].id = popId - Len(cache) + i - 1
QueueIds == /\ writeId = popId + Len(queue)
            /\ \A i \in 1 .. Len(queue) : queue[i].id = popId + i - 1
HandId == node[1].id = readId
IdsInv ==
  /\ rpc \in {"clear", "reset", "done"} => cache = <<>>
  /\ rpc \notin {"reset", "done"} => QueueIds
  /\ rpc \notin {"clear", "reset", "done"} =>
       /\ CacheIds
       /\ popId = readId + Len(cache) + (IF rpc = "count" THEN 1 ELSE 0)
  /\ rpc = "count" => HandId

LEMMA IdsInvInit == Init => IdsInv
<1> QED
  BY DEF Init, IdsInv, CacheIds, QueueIds, HandId

(* Over the cache and the list together the ids are consecutive.           *)
LEMMA TakenIds ==
  ASSUME Typed, CacheIds, QueueIds
  PROVE  /\ cache \o queue \in Seq(Node)
         /\ Len(cache \o queue) = Len(cache) + Len(queue)
         /\ \A i \in 1 .. Len(cache \o queue) :
              (cache \o queue)[i].id = popId - Len(cache) + i - 1
<1>1. /\ cache \in Seq(Node) /\ queue \in Seq(Node) /\ popId \in Nat
      /\ Len(cache) \in Nat /\ Len(queue) \in Nat
  BY LenProperties DEF Typed, TypeOK
<1>2. /\ cache \o queue \in Seq(Node)
      /\ Len(cache \o queue) = Len(cache) + Len(queue)
      /\ \A i \in 1 .. Len(cache) + Len(queue) :
           (cache \o queue)[i] = IF i <= Len(cache) THEN cache[i]
                                 ELSE queue[i - Len(cache)]
  BY <1>1, ConcatProperties
<1>3. ASSUME NEW i \in 1 .. Len(cache \o queue)
      PROVE  (cache \o queue)[i].id = popId - Len(cache) + i - 1
  <2>1. CASE i <= Len(cache)
    <3>1. i \in 1 .. Len(cache) /\ (cache \o queue)[i] = cache[i]
      BY <1>1, <1>2, <2>1
    <3> QED
      BY <3>1 DEF CacheIds
  <2>2. CASE i > Len(cache)
    <3>1. /\ i - Len(cache) \in 1 .. Len(queue)
          /\ (cache \o queue)[i] = queue[i - Len(cache)]
      BY <1>1, <1>2, <2>2
    <3>2. queue[i - Len(cache)].id = popId + (i - Len(cache)) - 1
      BY <3>1 DEF QueueIds
    <3> QED
      BY <1>1, <3>1, <3>2
  <2> QED
    BY <1>1, <1>2, <2>1, <2>2
<1> QED
  BY <1>2, <1>3

(* A push gives the node the id that follows those of the list.            *)
LEMMA IdsInvPush ==
  ASSUME Typed, IdsInv, NEW c \in Callers, NEW kind \in {"RUN", "STOP"},
         Push(c, kind)
  PROVE  IdsInv'
<1> DEFINE new == [id |-> writeId,
                   msg |-> [kind |-> kind, from |-> c, n |-> calls[c]]]
<1>1. /\ queue' = Append(queue, new) /\ writeId' = writeId + 1
      /\ UNCHANGED <<popId, cache, node, readId, rpc>>
  BY DEF Push, runVars
<1>2. new \in Node
  BY PushedIsNode DEF Push
<1>3. /\ Len(queue') = Len(queue) + 1
      /\ \A i \in 1 .. Len(queue) : queue'[i] = queue[i]
      /\ queue'[Len(queue) + 1] = new
      /\ Len(queue) \in Nat /\ writeId \in Nat /\ popId \in Nat
  BY <1>1, <1>2, AppendProperties, LenProperties DEF Typed, TypeOK
<1>4. QueueIds => QueueIds'
  <2> SUFFICES ASSUME QueueIds PROVE QueueIds'
    OBVIOUS
  <2>1. writeId = popId + Len(queue) /\ new.id = writeId
    BY DEF QueueIds
  <2> HIDE DEF new
  <2>2. writeId' = popId' + Len(queue')
    BY <1>1, <1>3, <2>1
  <2>3. ASSUME NEW i \in 1 .. Len(queue')
        PROVE  queue'[i].id = popId' + i - 1
    <3>1. CASE i \in 1 .. Len(queue)
      BY <1>1, <1>3, <3>1 DEF QueueIds
    <3>2. CASE i = Len(queue) + 1
      BY <1>1, <1>3, <2>1, <3>2
    <3> QED
      BY <1>3, <3>1, <3>2
  <2> QED
    BY <2>2, <2>3 DEF QueueIds
<1> QED
  BY <1>1, <1>4 DEF IdsInv, CacheIds, HandId

(* popNode() hands out the node whose id run() expects.                    *)
LEMMA IdsInvPop ==
  ASSUME Typed, IdsInv, PopNode
  PROVE  IdsInv'
<1> DEFINE all == cache \o queue
<1>0. /\ Len(cache) \in Nat /\ popId \in Nat /\ readId \in Nat
  BY LenProperties DEF Typed, TypeOK
<1>1. CacheIds /\ QueueIds /\ popId = readId + Len(cache) /\ rpc = "pop"
  <2>1. rpc = "pop"
    BY DEF PopNode
  <2> QED
    BY <1>0, <2>1 DEF IdsInv
<1>2. /\ all \in Seq(Node) /\ Len(all) = Len(cache) + Len(queue)
      /\ \A i \in 1 .. Len(all) : all[i].id = popId - Len(cache) + i - 1
  BY <1>1, TakenIds
<1>3. /\ Len(cache) \in Nat /\ Len(queue) \in Nat /\ popId \in Nat
      /\ readId \in Nat /\ writeId \in Nat
  BY LenProperties DEF Typed, TypeOK
<1>4. CASE all = <<>>
  <2>1. rpc' = "busy" /\ UNCHANGED <<cache, node, queue, popId, writeId, readId>>
    BY <1>4 DEF PopNode, CacheFirst
  <2> QED
    BY <1>1, <2>1 DEF IdsInv, CacheIds, QueueIds
<1>5. CASE all # <<>>
  <2>1. /\ rpc' = "count" /\ node' = <<Head(all)>> /\ cache' = Tail(all)
        /\ queue' = <<>> /\ popId' = popId + Len(queue)
        /\ writeId' = writeId /\ readId' = readId
    BY <1>5 DEF PopNode, CacheFirst
  <2> HIDE DEF all
  <2>2. /\ Tail(all) \in Seq(Node) /\ Len(Tail(all)) = Len(all) - 1
        /\ \A i \in 1 .. Len(Tail(all)) : Tail(all)[i] = all[i + 1]
        /\ Len(all) \in Nat \ {0} /\ Head(all) = all[1]
    BY <1>2, <1>5, HeadTailProperties, EmptySeq
  <2>3. HandId'
    <3>1. all[1].id = readId
      BY <1>1, <1>2, <1>3, <2>2
    <3> QED
      BY <2>1, <2>2, <3>1 DEF HandId
  <2>4. ASSUME NEW i \in 1 .. Len(cache')
        PROVE  cache'[i].id = popId' - Len(cache') + i - 1
    <3>1. cache'[i] = all[i + 1] /\ i + 1 \in 1 .. Len(all)
      BY <2>1, <2>2
    <3>2. all[i + 1].id = popId - Len(cache) + (i + 1) - 1
      BY <1>2, <3>1
    <3>3. Len(cache') = Len(cache) + Len(queue) - 1
      BY <1>2, <2>1, <2>2
    <3>4. popId' = popId + Len(queue) /\ i \in Int
      BY <2>1
    <3> QED
      BY <1>3, <3>1, <3>2, <3>3, <3>4
  <2>5. popId' = readId' + Len(cache') + 1
    <3>1. Len(cache') = Len(cache) + Len(queue) - 1
      BY <1>2, <2>1, <2>2
    <3>2. popId' = popId + Len(queue) /\ popId = readId + Len(cache)
          /\ readId' = readId
      BY <1>1, <2>1
    <3> QED
      BY <1>3, <3>1, <3>2
  <2>6. QueueIds'
    BY <1>1, <1>3, <2>1 DEF QueueIds
  <2> QED
    BY <2>1, <2>3, <2>4, <2>5, <2>6 DEF IdsInv, CacheIds
<1> QED
  BY <1>4, <1>5

(* hasMsg() moves the list behind the cache.                               *)
LEMMA IdsInvHasMsg ==
  ASSUME Typed, IdsInv, HasMsg
  PROVE  IdsInv'
<1>0. /\ Len(cache) \in Nat /\ popId \in Nat /\ readId \in Nat
  BY LenProperties DEF Typed, TypeOK
<1>1. CacheIds /\ QueueIds /\ popId = readId + Len(cache) /\ rpc = "hasmsg"
  <2>1. rpc = "hasmsg"
    BY DEF HasMsg
  <2> QED
    BY <1>0, <2>1 DEF IdsInv
<1>2. CASE cache = <<>> /\ queue = <<>>
  <2>1. rpc' = "counted" /\ UNCHANGED <<cache, node, queue, popId, writeId, readId>>
    BY <1>2 DEF HasMsg
  <2> QED
    BY <1>1, <2>1 DEF IdsInv, CacheIds, QueueIds
<1>3. CASE ~(cache = <<>> /\ queue = <<>>)
  <2>1. /\ rpc' = "unidle" /\ cache' = cache \o queue /\ queue' = <<>>
        /\ popId' = popId + Len(queue) /\ UNCHANGED <<writeId, readId>>
    BY <1>3 DEF HasMsg
  <2>2. /\ Len(cache) \in Nat /\ Len(queue) \in Nat /\ popId \in Nat
        /\ readId \in Nat /\ writeId \in Nat
    BY LenProperties DEF Typed, TypeOK
  <2>3. Len(cache') = Len(cache) + Len(queue)
    BY <1>1, <2>1, TakenIds
  <2>4. CacheIds'
    <3> SUFFICES ASSUME NEW i \in 1 .. Len(cache')
                 PROVE  cache'[i].id = popId' - Len(cache') + i - 1
      BY DEF CacheIds
    <3>1. (cache \o queue)[i].id = popId - Len(cache) + i - 1
      BY <1>1, <2>1, TakenIds
    <3>2. popId' = popId + Len(queue) /\ i \in Int /\ cache' = cache \o queue
      BY <2>1
    <3> QED
      BY <2>2, <2>3, <3>1, <3>2
  <2>5. QueueIds'
    BY <1>1, <2>1, <2>2 DEF QueueIds
  <2>6. popId' = readId' + Len(cache')
    BY <1>1, <2>1, <2>2, <2>3
  <2> QED
    BY <2>1, <2>4, <2>5, <2>6 DEF IdsInv
<1> QED
  BY <1>2, <1>3

LEMMA IdsInvRun ==
  ASSUME Typed, IdsInv, RunStep
  PROVE  IdsInv'
<1> USE DEF IdsInv, CacheIds, QueueIds, HandId, idleVars, queueVars, callerVars,
            Goto
<1>1. CASE RunBegins BY <1>1 DEF RunBegins
<1>2. CASE StartHandled BY <1>2 DEF StartHandled
<1>3. CASE PopNode BY <1>3, IdsInvPop
<1>4. CASE Uncount
  <2>1. readId \in Nat /\ Len(cache) \in Nat
    BY LenProperties DEF Typed, TypeOK
  <2> QED
    BY <1>4, <2>1 DEF Uncount
<1>5. CASE CallbackReturns BY <1>5 DEF CallbackReturns
<1>6. CASE StillCounted BY <1>6 DEF StillCounted
<1>7. CASE LockIdle BY <1>7 DEF LockIdle
<1>8. CASE SetIdle BY <1>8 DEF SetIdle
<1>9. CASE HasMsg BY <1>9, IdsInvHasMsg
<1>10. CASE NoneCounted BY <1>10 DEF NoneCounted
<1>11. CASE CondWait BY <1>11 DEF CondWait
<1>12. CASE WaitReturns BY <1>12 DEF WaitReturns
<1>13. CASE Unidle BY <1>13 DEF Unidle
<1>14. CASE Stopped BY <1>14 DEF Stopped
<1>15. CASE DropCache BY <1>15 DEF DropCache
<1>16. CASE ClearQueue BY <1>16 DEF ClearQueue
<1>17. CASE ResetIds BY <1>17 DEF ResetIds
<1> QED
  BY <1>1, <1>2, <1>3, <1>4, <1>5, <1>6, <1>7, <1>8, <1>9, <1>10, <1>11,
     <1>12, <1>13, <1>14, <1>15, <1>16, <1>17 DEF RunStep

LEMMA IdsInvStep == Typed /\ IdsInv /\ [Next]_vars => IdsInv'
<1> SUFFICES ASSUME Typed, IdsInv, [Next]_vars PROVE IdsInv'
  OBVIOUS
<1>1. ASSUME NEW c \in Callers, Caller(c)
      PROVE  IdsInv'
  <2>1. CASE \E kind \in {"RUN", "STOP"} : Push(c, kind)
    BY <2>1, IdsInvPush
  <2> USE DEF IdsInv, CacheIds, QueueIds, HandId, queueVars, runVars
  <2>2. CASE Enter(c) BY <2>2 DEF Enter
  <2>3. CASE Count(c) BY <2>3 DEF Count
  <2>4. CASE Spin(c) BY <2>4 DEF Spin
  <2> QED
    BY <1>1, <2>1, <2>2, <2>3, <2>4 DEF Caller
<1>2. CASE RunStep
  BY <1>2, IdsInvRun
<1> USE DEF IdsInv, CacheIds, QueueIds, HandId, queueVars, runVars
<1>3. CASE StartReturns BY <1>3 DEF StartReturns
<1>4. CASE StartGivesUp BY <1>4 DEF StartGivesUp
<1>5. CASE DrainStore BY <1>5 DEF DrainStore
<1>6. CASE SpuriousWakeup BY <1>6 DEF SpuriousWakeup, Goto
<1>7. CASE UNCHANGED vars BY <1>7 DEF vars
<1> QED
  BY <1>1, <1>2, <1>3, <1>4, <1>5, <1>6, <1>7 DEF Next

(* The assertions on node ids never fail in the life of a run().           *)
THEOREM IdsTheorem == Spec => []IdsInOrder
<1>1. IdsInv => IdsInOrder
  BY DEF IdsInv, IdsInOrder, QueueIds, HandId
<1> QED
  BY <1>1, IdsInvInit, IdsInvStep, Typing, PTL DEF Spec

-----------------------------------------------------------------------------
(***************************************************************************)
(* Refinement.  The nodes in hand, in the cache and in the list are the    *)
(* pending messages of ActorQueue; a push accepts, the call of the         *)
(* callback handles, and every other step leaves ActorQueue alone.         *)
(***************************************************************************)
LEMMA MessagesType ==
  ASSUME NEW s \in Seq(Node)
  PROVE  /\ Messages(s) \in Seq(Message)
         /\ Len(Messages(s)) = Len(s)
         /\ \A i \in 1 .. Len(s) : Messages(s)[i] = s[i].msg
<1>1. Len(s) \in Nat /\ \A i \in 1 .. Len(s) : s[i] \in Node
  BY LenProperties, ElementOfSeq
<1>2. \A i \in 1 .. Len(s) : s[i].msg \in Message
  BY <1>1 DEF Node
<1> QED
  BY <1>1, <1>2 DEF Messages

LEMMA MessagesAppend ==
  ASSUME NEW s \in Seq(Node), NEW n \in Node
  PROVE  Messages(Append(s, n)) = Append(Messages(s), n.msg)
<1>1. /\ Append(s, n) \in Seq(Node) /\ Len(Append(s, n)) = Len(s) + 1
      /\ \A i \in 1 .. Len(s) : Append(s, n)[i] = s[i]
      /\ Append(s, n)[Len(s) + 1] = n
      /\ Len(s) \in Nat
  BY AppendProperties, LenProperties
<1>2. /\ Messages(s) \in Seq(Message) /\ Len(Messages(s)) = Len(s)
      /\ \A i \in 1 .. Len(s) : Messages(s)[i] = s[i].msg
  BY MessagesType
<1>3. /\ Messages(Append(s, n)) \in Seq(Message)
      /\ Len(Messages(Append(s, n))) = Len(s) + 1
      /\ \A i \in 1 .. Len(s) + 1 : Messages(Append(s, n))[i] = Append(s, n)[i].msg
  BY <1>1, MessagesType
<1>4. n.msg \in Message
  BY DEF Node
<1>5. /\ Append(Messages(s), n.msg) \in Seq(Message)
      /\ Len(Append(Messages(s), n.msg)) = Len(s) + 1
      /\ \A i \in 1 .. Len(s) : Append(Messages(s), n.msg)[i] = Messages(s)[i]
      /\ Append(Messages(s), n.msg)[Len(s) + 1] = n.msg
  BY <1>2, <1>4, AppendProperties
<1>6. ASSUME NEW i \in 1 .. Len(s) + 1
      PROVE  Messages(Append(s, n))[i] = Append(Messages(s), n.msg)[i]
  <2>1. CASE i \in 1 .. Len(s)
    BY <1>1, <1>2, <1>3, <1>5, <2>1
  <2>2. CASE i = Len(s) + 1
    BY <1>1, <1>3, <1>5, <2>2
  <2>3. i \in 1 .. Len(s) \/ i = Len(s) + 1
    <3>1. Len(s) \in Nat
      BY LenProperties
    <3> QED
      BY <3>1
  <2> QED
    BY <2>1, <2>2, <2>3
<1> QED
  BY <1>3, <1>5, <1>6, SeqEqual

LEMMA MessagesFirst ==
  ASSUME NEW n \in Node, NEW s \in Seq(Node)
  PROVE  /\ Messages(<<n>> \o s) # <<>>
         /\ Head(Messages(<<n>> \o s)) = n.msg
         /\ Tail(Messages(<<n>> \o s)) = Messages(s)
<1> DEFINE t == <<n>> \o s
<1>0. <<n>> \in Seq(Node) /\ Len(<<n>>) = 1 /\ <<n>>[1] = n /\ Len(s) \in Nat
  BY LenProperties
<1>1. /\ t \in Seq(Node) /\ Len(t) = 1 + Len(s) /\ t[1] = n
      /\ \A i \in 1 .. Len(s) : t[i + 1] = s[i]
  BY <1>0, ConcatProperties
<1> HIDE DEF t
<1>2. /\ Messages(t) \in Seq(Message) /\ Len(Messages(t)) = 1 + Len(s)
      /\ \A i \in 1 .. Len(t) : Messages(t)[i] = t[i].msg
  BY <1>1, MessagesType
<1>3. Messages(t) # <<>>
  BY <1>0, <1>2, EmptySeq
<1>4. Head(Messages(t)) = n.msg
  BY <1>0, <1>1, <1>2, <1>3
<1>5. /\ Tail(Messages(t)) \in Seq(Message) /\ Len(Tail(Messages(t))) = Len(s)
      /\ \A i \in 1 .. Len(s) : Tail(Messages(t))[i] = Messages(t)[i + 1]
  BY <1>0, <1>2, <1>3, HeadTailProperties
<1>6. /\ Messages(s) \in Seq(Message) /\ Len(Messages(s)) = Len(s)
      /\ \A i \in 1 .. Len(s) : Messages(s)[i] = s[i].msg
  BY MessagesType
<1>7. ASSUME NEW i \in 1 .. Len(s)
      PROVE  Tail(Messages(t))[i] = Messages(s)[i]
  <2>1. i + 1 \in 1 .. Len(t)
    BY <1>0, <1>1
  <2> QED
    BY <1>1, <1>2, <1>5, <1>6, <2>1
<1>8. Tail(Messages(t)) = Messages(s)
  BY <1>5, <1>6, <1>7, SeqEqual
<1> QED
  BY <1>3, <1>4, <1>8 DEF t

(* A step that changes none of these is a stutter of ActorQueue.           *)
LEMMA Stutter ==
  ASSUME UNCHANGED <<Unhandled, StopHandled, handled>>
  PROVE  UNCHANGED AQ!vars
<1> QED
  BY DEF AQ!vars, Pending, Messages

LEMMA RefineInit == Init => AQ!Init
<1> SUFFICES ASSUME Init PROVE AQ!Init
  OBVIOUS
<1>1. Unhandled = <<>>
  BY ConcatEmptySeq DEF Init, Unhandled, InHand
<1>2. Messages(<<>>) = <<>>
  <2>1. <<>> \in Seq(Node) /\ Len(<<>>) = 0
    OBVIOUS
  <2>2. Messages(<<>>) \in Seq(Message) /\ Len(Messages(<<>>)) = 0
    BY <2>1, MessagesType
  <2> QED
    BY <2>2, EmptySeq
<1>3. ~StopHandled
  BY DEF Init, StopHandled, Leaving
<1> QED
  BY <1>1, <1>2, <1>3 DEF AQ!Init, Pending, Init

(* A push accepts its message, or is lost when the STOP has been handled.  *)
LEMMA RefinePush ==
  ASSUME Typed, NEW c \in Callers, NEW kind \in {"RUN", "STOP"}, Push(c, kind)
  PROVE  [AQ!Next]_(AQ!vars)
<1> DEFINE m == [kind |-> kind, from |-> c, n |-> calls[c]]
           new == [id |-> writeId, msg |-> m]
<1>1. /\ queue' = Append(queue, new)
      /\ UNCHANGED <<cache, node, rpc, handled>>
  BY DEF Push, runVars
<1>2. new \in Node
  BY PushedIsNode DEF Push
<1>3. StopHandled' = StopHandled /\ InHand' = InHand
  BY <1>1 DEF StopHandled, InHand
<1>4. /\ queue \in Seq(Node) /\ cache \in Seq(Node) /\ InHand \in Seq(Node)
      /\ InHand \o cache \in Seq(Node)
  BY ConcatProperties DEF InHand, Typed, TypeOK
<1>5. new.msg = m /\ m \in Message
  BY <1>2 DEF Node
<1> HIDE DEF new
<1>6. Unhandled' = Append(Unhandled, new) /\ Unhandled \in Seq(Node)
  <2> DEFINE front == InHand \o cache
  <2>1. front \in Seq(Node) /\ <<new>> \in Seq(Node)
    BY <1>2, <1>4
  <2>2. Unhandled = front \o queue /\ Unhandled' = front \o Append(queue, new)
    BY <1>1, <1>3 DEF Unhandled
  <2> HIDE DEF front
  <2>3. front \o queue \in Seq(Node)
    BY <1>4, <2>1, ConcatProperties
  <2>4. Append(queue, new) = queue \o <<new>>
    BY <1>2, <1>4, AppendIsConcat
  <2>5. Append(front \o queue, new) = (front \o queue) \o <<new>>
    BY <1>2, <2>3, AppendIsConcat
  <2>6. (front \o queue) \o <<new>> = front \o (queue \o <<new>>)
    BY <1>4, <2>1, ConcatAssociative
  <2> QED
    BY <2>2, <2>3, <2>4, <2>5, <2>6
<1>7. CASE StopHandled
  BY <1>1, <1>3, <1>7 DEF AQ!vars, Pending
<1>8. CASE ~StopHandled
  <2>1. Messages(Unhandled') = Append(Messages(Unhandled), m)
    BY <1>2, <1>5, <1>6, MessagesAppend
  <2>2. Pending' = Append(Pending, m)
    <3>1. Pending = Messages(Unhandled)
      BY <1>8 DEF Pending
    <3>2. Pending' = Messages(Unhandled')
      BY <1>3, <1>8 DEF Pending, Messages
    <3> QED
      BY <2>1, <3>1, <3>2
  <2>3. AQ!Accept(m)
    BY <1>1, <1>3, <1>8, <2>2 DEF AQ!Accept
  <2> QED
    BY <1>5, <2>3 DEF AQ!Next
<1> QED
  BY <1>7, <1>8

(* The call of the callback handles the oldest pending message.            *)
LEMMA RefineUncount ==
  ASSUME Typed, Uncount
  PROVE  AQ!Next
<1>1. /\ rpc = "count" /\ rpc' = "cb" /\ handled' = Append(handled, node[1].msg)
      /\ UNCHANGED <<cache, queue, node>>
  BY DEF Uncount, Goto, queueVars
<1>2. node \in Seq(Node) /\ Len(node) = 1
  BY <1>1 DEF Typed, TypeOK
<1>3. node[1] \in Node /\ node = <<node[1]>>
  <2>1. node[1] \in Node
    BY <1>2, ElementOfSeq
  <2>2. /\ <<node[1]>> \in Seq(Node) /\ Len(<<node[1]>>) = 1
        /\ <<node[1]>>[1] = node[1]
    BY <2>1
  <2>3. \A i \in 1 .. Len(node) : node[i] = <<node[1]>>[i]
    BY <1>2, <2>2
  <2> QED
    BY <1>2, <2>1, <2>2, <2>3, SeqEqual
<1> DEFINE n == node[1]
           rest == cache \o queue
<1>4. cache \in Seq(Node) /\ queue \in Seq(Node) /\ rest \in Seq(Node)
  BY ConcatProperties DEF Typed, TypeOK
<1>5. Unhandled = <<n>> \o rest /\ Unhandled' = rest
  <2>1. InHand = <<n>> /\ InHand' = <<>>
    BY <1>1, <1>3 DEF InHand
  <2>2. (<<n>> \o cache) \o queue = <<n>> \o (cache \o queue)
    BY <1>3, <1>4, ConcatAssociative
  <2>3. <<>> \o cache = cache
    BY <1>4, ConcatEmptySeq
  <2> QED
    BY <1>1, <2>1, <2>2, <2>3 DEF Unhandled
<1>6. ~StopHandled /\ (StopHandled' <=> n.msg.kind = "STOP")
  BY <1>1 DEF StopHandled, Leaving
<1>7. n.msg \in Message
  BY <1>3 DEF Node
<1> HIDE DEF n, rest
<1>8. /\ Pending # <<>> /\ Head(Pending) = n.msg
      /\ Tail(Pending) = Messages(rest)
  <2>1. Pending = Messages(<<n>> \o rest)
    BY <1>5, <1>6 DEF Pending
  <2> QED
    BY <1>3, <1>4, <2>1, MessagesFirst DEF n
<1>9. Pending' = IF StopHandled' THEN <<>> ELSE Tail(Pending)
  <2>1. Messages(Unhandled)' = Messages(rest)
    BY <1>5 DEF Messages
  <2> QED
    BY <1>8, <2>1 DEF Pending
<1>10. (~StopHandled)' = (Head(Pending) \notin StopMessage)
  BY <1>6, <1>7, <1>8 DEF StopMessage
<1>11. handled' = Append(handled, Head(Pending))
  BY <1>1, <1>8 DEF n
<1>12. AQ!Handle
  BY <1>6, <1>8, <1>9, <1>10, <1>11 DEF AQ!Handle
<1> QED
  BY <1>12 DEF AQ!Next

(* popNode() and hasMsg() move nodes and keep their order.                 *)
LEMMA RefinePop ==
  ASSUME Typed, PopNode
  PROVE  UNCHANGED AQ!vars
<1>1. /\ cache \in Seq(Node) /\ queue \in Seq(Node)
      /\ cache \o queue \in Seq(Node)
  BY ConcatProperties DEF Typed, TypeOK
<1>2. /\ rpc = "pop" /\ handled' = handled /\ rpc' \in {"busy", "count"}
      /\ InHand = <<>>
  BY DEF PopNode, InHand
<1>3. Unhandled = cache \o queue
  BY <1>1, <1>2, ConcatEmptySeq DEF Unhandled
<1>4. StopHandled' = StopHandled
  BY <1>2 DEF StopHandled, Leaving
<1>5. CASE cache \o queue = <<>>
  <2>1. rpc' = "busy" /\ UNCHANGED <<cache, queue>>
    BY <1>5 DEF PopNode, CacheFirst
  <2>2. InHand' = InHand
    BY <1>2, <2>1 DEF InHand
  <2>3. Unhandled' = Unhandled
    BY <2>1, <2>2 DEF Unhandled
  <2> QED
    BY <1>2, <1>4, <2>3, Stutter
<1>6. CASE cache \o queue # <<>>
  <2> DEFINE all == cache \o queue
  <2>1. /\ rpc' = "count" /\ node' = <<Head(all)>> /\ cache' = Tail(all)
        /\ queue' = <<>>
    BY <1>6 DEF PopNode, CacheFirst
  <2>2. InHand' = <<Head(all)>>
    BY <2>1 DEF InHand
  <2>3. Unhandled' = (<<Head(all)>> \o Tail(all)) \o <<>>
    BY <2>1, <2>2 DEF Unhandled
  <2> HIDE DEF all
  <2>4. /\ all \in Seq(Node) /\ all # <<>>
    BY <1>1, <1>6 DEF all
  <2>5. /\ Head(all) = all[1] /\ Head(all) \in Node /\ Tail(all) \in Seq(Node)
        /\ Len(Tail(all)) = Len(all) - 1 /\ Len(all) \in Nat \ {0}
        /\ \A i \in 1 .. Len(Tail(all)) : Tail(all)[i] = all[i + 1]
    BY <2>4, HeadTailProperties, EmptySeq
  <2>6. <<Head(all)>> \o Tail(all) = all
    <3> DEFINE one == <<Head(all)>>
               rest == Tail(all)
               t == one \o rest
    <3>1. one \in Seq(Node) /\ Len(one) = 1 /\ one[1] = all[1]
      BY <2>5
    <3> HIDE DEF one
    <3>2. /\ t \in Seq(Node) /\ Len(t) = 1 + Len(rest)
          /\ \A i \in 1 .. 1 + Len(rest) :
               t[i] = IF i <= 1 THEN one[i] ELSE rest[i - 1]
      <4>1. rest \in Seq(Node)
        BY <2>5
      <4> HIDE DEF rest
      <4>2. /\ t \in Seq(Node) /\ Len(t) = Len(one) + Len(rest)
            /\ \A i \in 1 .. Len(one) + Len(rest) :
                 t[i] = IF i <= Len(one) THEN one[i] ELSE rest[i - Len(one)]
        BY <3>1, <4>1, ConcatProperties
      <4> HIDE DEF t
      <4> QED
        BY <3>1, <4>2
    <3> HIDE DEF t, rest
    <3>3. Len(t) = Len(all) /\ Len(all) \in Nat
      BY <2>5, <3>2 DEF rest
    <3>4. ASSUME NEW i \in 1 .. Len(t)
          PROVE  t[i] = all[i]
      <4>1. CASE i = 1
        BY <2>5, <3>1, <3>2, <3>3, <4>1 DEF rest
      <4>2. CASE i # 1
        <5>1. i - 1 \in 1 .. Len(rest) /\ ~(i <= 1) /\ i \in 1 .. 1 + Len(rest)
          BY <2>5, <3>3, <4>2 DEF rest
        <5>2. rest[i - 1] = all[(i - 1) + 1]
          BY <2>5, <5>1 DEF rest
        <5>3. (i - 1) + 1 = i
          BY <5>1
        <5> QED
          BY <3>2, <5>1, <5>2, <5>3
      <4> QED
        BY <4>1, <4>2
    <3> QED
      BY <2>4, <3>2, <3>3, <3>4, SeqEqual DEF t, one, rest
  <2>7. Unhandled' = Unhandled
    BY <1>3, <2>3, <2>4, <2>6, ConcatEmptySeq DEF all
  <2> QED
    BY <1>2, <1>4, <2>7, Stutter
<1> QED
  BY <1>5, <1>6

LEMMA RefineHasMsg ==
  ASSUME Typed, HasMsg
  PROVE  UNCHANGED AQ!vars
<1>1. /\ cache \in Seq(Node) /\ queue \in Seq(Node)
      /\ cache \o queue \in Seq(Node)
  BY ConcatProperties DEF Typed, TypeOK
<1>2. /\ rpc = "hasmsg" /\ handled' = handled /\ rpc' \in {"counted", "unidle"}
      /\ InHand = <<>> /\ InHand' = <<>>
  BY DEF HasMsg, InHand
<1>3. StopHandled' = StopHandled
  BY <1>2 DEF StopHandled, Leaving
<1>4. Unhandled = cache \o queue /\ Unhandled' = (<<>> \o cache') \o queue'
  BY <1>1, <1>2, ConcatEmptySeq DEF Unhandled
<1>5. CASE cache = <<>> /\ queue = <<>>
  <2>1. UNCHANGED <<cache, queue>>
    BY <1>5 DEF HasMsg
  <2>2. Unhandled' = Unhandled
    BY <1>1, <1>4, <2>1, ConcatEmptySeq
  <2> QED
    BY <1>2, <1>3, <2>2, Stutter
<1>6. CASE ~(cache = <<>> /\ queue = <<>>)
  <2>1. cache' = cache \o queue /\ queue' = <<>>
    BY <1>6 DEF HasMsg
  <2>2. Unhandled' = Unhandled
    BY <1>1, <1>4, <2>1, ConcatEmptySeq
  <2> QED
    BY <1>2, <1>3, <2>2, Stutter
<1> QED
  BY <1>5, <1>6

(* From the STOP message on, run() only throws nodes away.                 *)
LEMMA RefineLeaving ==
  ASSUME rpc \in Leaving, rpc' \in Leaving, UNCHANGED handled
  PROVE  UNCHANGED AQ!vars
<1>1. StopHandled /\ StopHandled'
  BY DEF StopHandled
<1> QED
  BY <1>1 DEF AQ!vars, Pending

LEMMA RefineRun ==
  ASSUME Typed, RunStep
  PROVE  [AQ!Next]_(AQ!vars)
<1> USE DEF Goto, Unhandled, InHand, StopHandled, Leaving, idleVars, queueVars,
            callerVars
<1>1. CASE RunBegins BY <1>1, Stutter DEF RunBegins
<1>2. CASE StartHandled BY <1>2, Stutter DEF StartHandled
<1>3. CASE PopNode BY <1>3, RefinePop
<1>4. CASE Uncount BY <1>4, RefineUncount
<1>5. CASE CallbackReturns
  <2>1. CASE node[1].msg.kind = "STOP"
    <3>1. StopHandled /\ StopHandled' /\ handled' = handled
      BY <1>5, <2>1 DEF CallbackReturns
    <3> QED
      BY <3>1 DEF AQ!vars, Pending
  <2>2. CASE node[1].msg.kind # "STOP"
    BY <1>5, <2>2, Stutter DEF CallbackReturns
  <2> QED
    BY <2>1, <2>2
<1>6. CASE StillCounted BY <1>6, Stutter DEF StillCounted
<1>7. CASE LockIdle BY <1>7, Stutter DEF LockIdle
<1>8. CASE SetIdle BY <1>8, Stutter DEF SetIdle
<1>9. CASE HasMsg BY <1>9, RefineHasMsg
<1>10. CASE NoneCounted BY <1>10, Stutter DEF NoneCounted
<1>11. CASE CondWait BY <1>11, Stutter DEF CondWait
<1>12. CASE WaitReturns BY <1>12, Stutter DEF WaitReturns
<1>13. CASE Unidle BY <1>13, Stutter DEF Unidle
<1>14. CASE Stopped BY <1>14, RefineLeaving DEF Stopped
<1>15. CASE DropCache BY <1>15, RefineLeaving DEF DropCache
<1>16. CASE ClearQueue BY <1>16, RefineLeaving DEF ClearQueue
<1>17. CASE ResetIds BY <1>17, RefineLeaving DEF ResetIds
<1> QED
  BY <1>1, <1>2, <1>3, <1>4, <1>5, <1>6, <1>7, <1>8, <1>9, <1>10, <1>11,
     <1>12, <1>13, <1>14, <1>15, <1>16, <1>17 DEF RunStep

LEMMA RefineStep == Typed /\ [Next]_vars => [AQ!Next]_(AQ!vars)
<1> SUFFICES ASSUME Typed, [Next]_vars PROVE [AQ!Next]_(AQ!vars)
  OBVIOUS
<1>1. ASSUME NEW c \in Callers, Caller(c)
      PROVE  [AQ!Next]_(AQ!vars)
  <2>1. CASE \E kind \in {"RUN", "STOP"} : Push(c, kind)
    BY <2>1, RefinePush
  <2> USE DEF Unhandled, InHand, StopHandled, Leaving, queueVars, runVars
  <2>2. CASE Enter(c) BY <2>2, Stutter DEF Enter
  <2>3. CASE Count(c) BY <2>3, Stutter DEF Count
  <2>4. CASE Spin(c) BY <2>4, Stutter DEF Spin
  <2> QED
    BY <1>1, <2>1, <2>2, <2>3, <2>4 DEF Caller
<1>2. CASE RunStep
  BY <1>2, RefineRun
<1> USE DEF Unhandled, InHand, StopHandled, Leaving, queueVars, runVars
<1>3. CASE StartReturns BY <1>3, Stutter DEF StartReturns
<1>4. CASE StartGivesUp BY <1>4, Stutter DEF StartGivesUp
<1>5. CASE DrainStore BY <1>5, Stutter DEF DrainStore
<1>6. CASE SpuriousWakeup BY <1>6, Stutter DEF SpuriousWakeup, Goto
<1>7. CASE UNCHANGED vars BY <1>7, Stutter DEF vars
<1> QED
  BY <1>1, <1>2, <1>3, <1>4, <1>5, <1>6, <1>7 DEF Next

(* OpenThread implements ActorQueue: every accepted message is handled     *)
(* exactly once and in the order of acceptance, until a STOP message.      *)
THEOREM QueuePromise == Spec => KeepsQueuePromise
<1> QED
  BY RefineInit, RefineStep, Typing, PTL DEF Spec, KeepsQueuePromise, AQ!Spec

-----------------------------------------------------------------------------
(* The count of messages.                                                  *)

(* The callers between their push and their count.                         *)
Uncounted == {c \in Callers : cpc[c] = "count"}
(* How many nodes run() has not counted down.                              *)
Waiting == (IF rpc = "count" THEN 1 ELSE 0) + Len(cache) + Len(queue)
CountInv == rpc \notin Leaving => msgCount = Waiting - Cardinality(Uncounted)

(* There are as many nodes as their sequences are long.                    *)
LEMMA WaitingLength ==
  ASSUME Typed
  PROVE  Len(Unhandled) = Waiting /\ Waiting \in Nat
<1>1. /\ cache \in Seq(Node) /\ queue \in Seq(Node) /\ node \in Seq(Node)
      /\ rpc = "count" => Len(node) = 1
  BY DEF Typed, TypeOK
<1>2. InHand \in Seq(Node) /\ Len(InHand) = IF rpc = "count" THEN 1 ELSE 0
  <2>1. CASE rpc = "count"
    BY <1>1, <2>1 DEF InHand
  <2>2. CASE rpc # "count"
    <3>1. <<>> \in Seq(Node) /\ Len(<<>>) = 0
      OBVIOUS
    <3> QED
      BY <2>2, <3>1 DEF InHand
  <2> QED
    BY <2>1, <2>2
<1>3. Len((InHand \o cache) \o queue) = (Len(InHand) + Len(cache)) + Len(queue)
  <2>1. InHand \o cache \in Seq(Node) /\ Len(InHand \o cache) = Len(InHand) + Len(cache)
    BY <1>1, <1>2, ConcatProperties
  <2> QED
    BY <1>1, <2>1, ConcatProperties
<1>4. Len(cache) \in Nat /\ Len(queue) \in Nat
  BY <1>1
<1> QED
  BY <1>2, <1>3, <1>4 DEF Unhandled, Waiting

(* The callers are finitely many.                                          *)
LEMMA FewUncounted == IsFiniteSet(Uncounted) /\ Cardinality(Uncounted) \in Nat
<1>1. Uncounted \subseteq Callers
  BY DEF Uncounted
<1> QED
  BY <1>1, CallersFinite, FS_Subset, FS_CardinalityType

(* A step that moves no caller into or out of its count and leaves nodes   *)
(* and the count alone.                                                    *)
LEMMA SameCount ==
  ASSUME CountInv, rpc' \notin Leaving => rpc \notin Leaving, msgCount' = msgCount,
         Uncounted' = Uncounted, rpc' \notin Leaving => Waiting' = Waiting
  PROVE  CountInv'
  BY DEF CountInv

(* A caller counts what it has pushed.                                     *)
LEMMA CountCaller ==
  ASSUME Typed, CountInv, NEW c \in Callers, Caller(c)
  PROVE  CountInv'
<1>0. /\ cpc \in [Callers -> {"out", "push", "count", "spin"}]
      /\ cache \in Seq(Node) /\ queue \in Seq(Node) /\ msgCount \in Int
  BY DEF Typed, TypeOK
<1>1. CASE Enter(c)
  <2>1. Uncounted' = Uncounted
    BY <1>0, <1>1 DEF Enter, Uncounted
  <2> QED
    BY <1>1, <2>1, SameCount DEF Enter, Waiting, queueVars, runVars
<1>2. ASSUME NEW kind \in {"RUN", "STOP"}, Push(c, kind)  PROVE CountInv'
  <2>1. Uncounted' = Uncounted \cup {c} /\ c \notin Uncounted
    BY <1>0, <1>2 DEF Push, Uncounted
  <2>2. Cardinality(Uncounted \cup {c}) = Cardinality(Uncounted) + 1
    BY <2>1, FewUncounted, FS_AddElement
  <2>3. Len(queue') = Len(queue) + 1
    BY <1>0, <1>2 DEF Push
  <2>4. UNCHANGED <<rpc, cache, msgCount>>
    BY <1>2 DEF Push, runVars
  <2>5. Waiting' = Waiting + 1 /\ Waiting \in Nat
    <3>1. Len(cache) \in Nat /\ Len(queue) \in Nat
      BY <1>0
    <3>2. rpc' = rpc /\ Len(cache') = Len(cache)
      BY <2>4
    <3>3. CASE rpc = "count"
      BY <2>3, <3>1, <3>2, <3>3 DEF Waiting
    <3>4. CASE rpc # "count"
      BY <2>3, <3>1, <3>2, <3>4 DEF Waiting
    <3> QED
      BY <3>3, <3>4
  <2>6. Cardinality(Uncounted') = Cardinality(Uncounted) + 1
    BY <2>1, <2>2
  <2> QED
    BY <2>4, <2>5, <2>6, FewUncounted DEF CountInv
<1>3. CASE Count(c)
  <2>1. Uncounted' = Uncounted \ {c} /\ c \in Uncounted
    BY <1>0, <1>3 DEF Count, Uncounted
  <2>2. Cardinality(Uncounted \ {c}) = Cardinality(Uncounted) - 1
    BY <2>1, FewUncounted, FS_RemoveElement
  <2>3. UNCHANGED <<rpc, cache, queue>> /\ msgCount' = msgCount + 1
    BY <1>3 DEF Count, runVars, queueVars
  <2>4. Waiting' = Waiting /\ Waiting \in Nat
    BY <2>3, WaitingLength DEF Waiting
  <2>5. Cardinality(Uncounted') = Cardinality(Uncounted) - 1
    BY <2>1, <2>2
  <2> QED
    BY <2>3, <2>4, <2>5, FewUncounted DEF CountInv
<1>4. CASE Spin(c)
  <2>1. Uncounted' = Uncounted
    BY <1>0, <1>4 DEF Spin, Uncounted, AfterSignal
  <2>2. UNCHANGED <<cache, queue, msgCount>>
    BY <1>4 DEF Spin, queueVars
  <2>3. rpc' = rpc \/ (rpc = "waiting" /\ rpc' = "woken")
    BY <1>4 DEF Spin
  <2>4. Waiting' = Waiting
    BY <2>2, <2>3 DEF Waiting
  <2> QED
    BY <2>1, <2>2, <2>3, <2>4, SameCount DEF Leaving
<1> QED
  BY <1>1, <1>2, <1>3, <1>4 DEF Caller

(* run() counts a node down when it has it in hand.                        *)
LEMMA CountRun ==
  ASSUME Typed, CountInv, RunStep
  PROVE  CountInv'
<1>0. /\ cache \in Seq(Node) /\ queue \in Seq(Node) /\ msgCount \in Int
      /\ Len(cache) \in Nat /\ Len(queue) \in Nat
  BY DEF Typed, TypeOK
<1>1. Uncounted' = Uncounted
  BY DEF RunStep, RunBegins, StartHandled, PopNode, Uncount, CallbackReturns,
     StillCounted, LockIdle, SetIdle, HasMsg, NoneCounted, CondWait, WaitReturns, Unidle,
     Stopped, DropCache, ClearQueue, ResetIds, callerVars, Uncounted
<1>2. CASE PopNode
  <2>1. msgCount' = msgCount /\ rpc = "pop"
    BY <1>2 DEF PopNode
  <2>2. CASE cache \o queue = <<>>
    <3>1. UNCHANGED <<cache, queue>> /\ rpc' = "busy"
      BY <1>2, <2>2 DEF PopNode, CacheFirst
    <3> QED
      BY <1>1, <2>1, <3>1, SameCount DEF Waiting, Leaving
  <2>3. CASE cache \o queue # <<>>
    <3>1. cache' = Tail(cache \o queue) /\ queue' = <<>> /\ rpc' = "count"
      BY <1>2, <2>3 DEF PopNode, CacheFirst
    <3>2. cache \o queue \in Seq(Node) /\ Len(cache \o queue) = Len(cache) + Len(queue)
      BY <1>0
    <3>3. Len(cache') = (Len(cache) + Len(queue)) - 1 /\ Len(queue') = 0
      BY <2>3, <3>1, <3>2
    <3>4. Waiting' = Waiting
      BY <1>0, <2>1, <3>1, <3>3 DEF Waiting
    <3> QED
      BY <1>1, <2>1, <3>1, <3>4, SameCount DEF Leaving
  <2> QED
    BY <2>2, <2>3
<1>3. CASE HasMsg
  <2>1. msgCount' = msgCount /\ rpc = "hasmsg" /\ rpc' \in {"counted", "unidle"}
    BY <1>3 DEF HasMsg
  <2>2. \/ UNCHANGED <<cache, queue>>
        \/ cache' = cache \o queue /\ queue' = <<>>
    BY <1>3 DEF HasMsg
  <2>3. Len(cache') + Len(queue') = Len(cache) + Len(queue)
    BY <1>0, <2>2
  <2>4. Waiting' = Waiting
    <3>1. Len(cache') \in Nat /\ Len(queue') \in Nat
      BY <1>0, <2>2
    <3> QED
      BY <1>0, <2>1, <2>3, <3>1 DEF Waiting
  <2> QED
    BY <1>1, <2>1, <2>4, SameCount DEF Leaving
<1>4. CASE Uncount
  <2>1. /\ msgCount' = msgCount - 1 /\ rpc = "count" /\ rpc' = "cb"
        /\ UNCHANGED <<cache, queue>>
    BY <1>4 DEF Uncount, OneLess, Goto, queueVars
  <2>2. Waiting' = Waiting - 1 /\ Waiting \in Nat
    BY <1>0, <2>1 DEF Waiting
  <2>3. Cardinality(Uncounted') = Cardinality(Uncounted)
    BY <1>1
  <2> QED
    BY <1>0, <2>1, <2>2, <2>3, FewUncounted DEF CountInv, Leaving
<1>5. CASE Stopped \/ DropCache \/ ClearQueue \/ ResetIds
  BY <1>5 DEF Stopped, DropCache, ClearQueue, ResetIds, Goto, CountInv, Leaving
<1>6. CASE RunBegins \/ StartHandled \/ CallbackReturns \/ StillCounted \/ LockIdle
           \/ SetIdle \/ NoneCounted \/ CondWait \/ WaitReturns \/ Unidle
  <2>1. UNCHANGED <<cache, queue, msgCount>>
    BY <1>6 DEF RunBegins, StartHandled, CallbackReturns, StillCounted, LockIdle, SetIdle,
       NoneCounted, CondWait, WaitReturns, Unidle, queueVars
  <2>2. rpc \notin Leaving \cup {"count"} /\ rpc' # "count"
    BY <1>6 DEF RunBegins, StartHandled, CallbackReturns, StillCounted, LockIdle, SetIdle,
       NoneCounted, CondWait, WaitReturns, Unidle, Goto, Leaving
  <2> QED
    BY <1>1, <2>1, <2>2, SameCount DEF Waiting
<1> QED
  BY <1>2, <1>3, <1>4, <1>5, <1>6 DEF RunStep

(* Every step keeps the count.                                             *)
LEMMA CountStep == Typed /\ CountInv /\ [Next]_vars => CountInv'
<1> SUFFICES ASSUME Typed, CountInv, [Next]_vars  PROVE CountInv'
  OBVIOUS
<1>1. ASSUME UNCHANGED <<rpc, cache, queue, cpc, msgCount>>  PROVE CountInv'
  BY <1>1 DEF CountInv, Waiting, Uncounted
<1>2. StartReturns \/ StartGivesUp \/ DrainStore \/ UNCHANGED vars => CountInv'
  BY <1>1 DEF StartReturns, StartGivesUp, DrainStore, vars, queueVars, runVars, callerVars
<1>3. SpuriousWakeup => CountInv'
  <2> SUFFICES ASSUME SpuriousWakeup  PROVE CountInv'
    OBVIOUS
  <2>1. /\ rpc = "waiting" /\ rpc' = "woken"
        /\ UNCHANGED <<cache, queue, cpc, msgCount>>
    BY DEF SpuriousWakeup, Goto, queueVars, callerVars
  <2> QED
    BY <2>1, SameCount DEF Leaving, Waiting, Uncounted
<1> QED
  BY <1>2, <1>3, CountCaller, CountRun DEF Next

(* msgCount_ is the number of nodes that were not popped, less those whose *)
(* sender has pushed and not yet counted, for any callers and calls, so it *)
(* never drifts, and run(), which finds it 0, has every node counted.      *)
THEOREM MsgCountTheorem == Spec => []MsgCountBalanced
<1>1. Init => CountInv
  <2> SUFFICES ASSUME Init  PROVE CountInv
    OBVIOUS
  <2>1. Uncounted = {}
    BY DEF Init, Uncounted
  <2>2. Cardinality(Uncounted) = 0
    BY <2>1, FS_EmptySet
  <2>3. msgCount = 0 /\ rpc = "begin" /\ Len(cache) = 0 /\ Len(queue) = 0
    BY DEF Init
  <2> QED
    BY <2>2, <2>3 DEF CountInv, Waiting
<1>2. Typed /\ CountInv => MsgCountBalanced
  BY WaitingLength DEF CountInv, MsgCountBalanced, Uncounted
<1> QED
  BY <1>1, <1>2, CountStep, Typing, PTL DEF Spec
=============================================================================
