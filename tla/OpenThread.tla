----------------------------- MODULE OpenThread -----------------------------
(***************************************************************************)
(* One OpenThread of open/openthread.cpp, from the creation of its pthread *)
(* to the end of run(): the mailbox (SafeQueue), the callers of send() and *)
(* stop(), the loop of run() and its idle protocol over isIdle_,           *)
(* msgCount_, mutex_ and cond_, and the caller of start().                 *)
(*                                                                         *)
(* A step is at most one access to a variable that another thread uses at  *)
(* the same time; a critical section of the spin lock is one step.         *)
(*                                                                         *)
(* isIdle_ is a plain volatile bool.  With TSO = TRUE the store            *)
(* isIdle_ = true may stay in the store buffer of the thread's core while  *)
(* later loads of the thread are performed, which x86 does; it is drained  *)
(* at the latest by the thread's next locked instruction.                  *)
(***************************************************************************)
EXTENDS Integers, Sequences, FiniteSets

CONSTANTS Callers,    (* the threads that call send() and stop()           *)
          Self,       (* this thread; in Callers if its callback sends too *)
          MaxCalls,   (* bound: how many calls each caller makes           *)
          TSO         (* the store to isIdle_ may be delayed               *)

ASSUME CallersFinite == IsFiniteSet(Callers)
ASSUME MaxCallsNat == MaxCalls \in [Callers -> Nat]
ASSUME TSOBoolean == TSO \in BOOLEAN

VARIABLES
  state,        (* state_: "START", "RUN" or "STOP"                        *)
  isIdle,       (* isIdle_ as the other threads read it                    *)
  idleBuffered, (* isIdle_ = true is in the store buffer                   *)
  queue,        (* queue_: the linked list of nodes                        *)
  writeId,      (* queue_.writeId_                                         *)
  popId,        (* queue_.readId_                                          *)
  cache,        (* queueCache_: the nodes popAll() took, oldest first      *)
  node,         (* the node run() holds, a sequence of at most one         *)
  readId,       (* readId_: the id the next handled node must have         *)
  msgCount,     (* msgCount_                                               *)
  mutex,        (* the holder of mutex_: "none", "start" or "run"          *)
  rpc,          (* where run() is                                          *)
  starter,      (* where the caller of start() is                          *)
  cpc,          (* where each caller's send() or stop() is                 *)
  calls,        (* how many calls each caller has made                     *)
  handled       (* the messages cb_ was called with, START excepted        *)

idleVars == <<isIdle, idleBuffered>>
queueVars == <<queue, writeId, popId>>
runVars == <<cache, node, readId, rpc, handled>>
callerVars == <<cpc, calls>>
vars == <<state, idleVars, queueVars, runVars, msgCount, mutex, starter,
          callerVars>>

-----------------------------------------------------------------------------
Message == UNION {[kind : {"RUN", "STOP"}, from : {c}, n : 1 .. MaxCalls[c]] :
                    c \in Callers}
Node == [id : Nat, msg : Message]

(* The messages of a sequence of nodes.                                    *)
Messages(nodes) == [i \in 1 .. Len(nodes) |-> nodes[i].msg]

(* The places of run(): inside the callback, in the loop, past the loop.   *)
InCallback == {"startcb", "cb"}
InLoop == {"pop", "count", "cb", "busy", "lock", "idle", "hasmsg",
           "counted", "wait", "waiting", "woken", "unidle"}
Leaving == {"stopping", "drop", "clear", "reset", "done"}
RunPlaces == {"begin", "startcb"} \cup InLoop \cup Leaving

Init ==
  /\ state = "START"            \* start() has created the pthread
  /\ starter = "polling"
  /\ mutex = "start"
  /\ isIdle = FALSE
  /\ idleBuffered = FALSE
  /\ queue = <<>>
  /\ writeId = 0
  /\ popId = 0
  /\ cache = <<>>
  /\ node = <<>>
  /\ readId = 0
  /\ msgCount = 0
  /\ rpc = "begin"
  /\ cpc = [c \in Callers |-> "out"]
  /\ calls = [c \in Callers |-> 0]
  /\ handled = <<>>

-----------------------------------------------------------------------------
(* start(): polls state_ under mutex_ until the new thread has set RUN.    *)
(* It gives up when it never sees RUN, which aborts the process.           *)
StartReturns ==
  /\ starter = "polling"
  /\ state = "RUN"
  /\ starter' = "returned"
  /\ mutex' = "none"
  /\ UNCHANGED <<state, idleVars, queueVars, runVars, msgCount, callerVars>>

StartGivesUp ==
  /\ starter = "polling"
  /\ state = "STOP"
  /\ starter' = "aborted"
  /\ UNCHANGED <<state, idleVars, queueVars, runVars, msgCount, mutex,
                 callerVars>>

-----------------------------------------------------------------------------
(* send() and stop(), which differ in the kind of node they push.          *)

(* A callback's own calls are made between the steps of that callback.     *)
MayRun(c) == c = Self => rpc \in InCallback

Enter(c) ==     \* the test of state_
  /\ cpc[c] = "out"
  /\ calls[c] < MaxCalls[c]
  /\ MayRun(c)
  /\ calls' = [calls EXCEPT ![c] = @ + 1]
  /\ cpc' = [cpc EXCEPT ![c] = IF state = "RUN" THEN "push" ELSE "out"]
  /\ UNCHANGED <<state, idleVars, queueVars, runVars, msgCount, mutex, starter>>

Push(c, kind) ==
  /\ cpc[c] = "push"
  /\ MayRun(c)
  /\ queue' = Append(queue,
                [id |-> writeId,
                 msg |-> [kind |-> kind, from |-> c, n |-> calls[c]]])
  /\ writeId' = writeId + 1
  /\ cpc' = [cpc EXCEPT ![c] = "count"]
  /\ UNCHANGED <<state, idleVars, popId, runVars, msgCount, mutex, starter,
                 calls>>

Count(c) ==
  /\ cpc[c] = "count"
  /\ MayRun(c)
  /\ msgCount' = msgCount + 1
  /\ cpc' = [cpc EXCEPT ![c] = "spin"]
  /\ UNCHANGED <<state, idleVars, queueVars, runVars, mutex, starter, calls>>

(* while (isIdle_) pthread_cond_signal(&cond_): one turn of the loop.  A   *)
(* signal that comes late, to a later wait, is one of SpuriousWakeup.      *)
AfterOneSignal == "out"          \* mutated: if (isIdle_)
AfterSignal == IF isIdle THEN "spin" ELSE "out"

Spin(c) ==
  /\ cpc[c] = "spin"
  /\ MayRun(c)
  /\ cpc' = [cpc EXCEPT ![c] = AfterSignal]
  /\ rpc' = IF isIdle /\ rpc = "waiting" THEN "woken" ELSE rpc
  /\ UNCHANGED <<state, idleVars, queueVars, cache, node, readId, handled,
                 msgCount, mutex, starter, calls>>

Caller(c) == \/ Enter(c)
             \/ \E kind \in {"RUN", "STOP"} : Push(c, kind)
             \/ Count(c)
             \/ Spin(c)

-----------------------------------------------------------------------------
(* run()                                                                   *)

Goto(from, to) == rpc = from /\ rpc' = to

(* Once the callback has begun a send() or stop() it completes it.         *)
SelfQuiet == Self \in Callers => cpc[Self] = "out"

RunBegins ==
  /\ Goto("begin", "startcb")
  /\ state' = "RUN"
  /\ UNCHANGED <<idleVars, queueVars, cache, node, readId, handled, msgCount,
                 mutex, starter, callerVars>>

StartHandled ==
  /\ Goto("startcb", "pop")
  /\ SelfQuiet
  /\ isIdle' = FALSE
  /\ UNCHANGED <<state, idleBuffered, queueVars, cache, node, readId, handled,
                 msgCount, mutex, starter, callerVars>>

(* popNode(): takes the whole list when it is not empty, then the oldest.  *)
QueueFirst == queue \o cache     \* mutated
CacheFirst == cache \o queue

PopNode ==
  /\ rpc = "pop"
  /\ LET all == CacheFirst
     IN  IF all = <<>>
         THEN /\ rpc' = "busy"
              /\ UNCHANGED <<cache, node, queue, popId>>
         ELSE /\ rpc' = "count"
              /\ node' = <<Head(all)>>
              /\ cache' = Tail(all)
              /\ queue' = <<>>
              /\ popId' = popId + Len(queue)
  /\ UNCHANGED <<state, idleVars, writeId, readId, handled, msgCount, mutex,
                 starter, callerVars>>

(* Negative when the node is popped before its sender has counted it.      *)
ClampedAtZero == IF msgCount > 0 THEN msgCount - 1 ELSE 0   \* mutated
OneLess == msgCount - 1

Uncount ==
  /\ Goto("count", "cb")
  /\ msgCount' = OneLess
  /\ readId' = readId + 1
  /\ handled' = Append(handled, node[1].msg)   \* cb_ is called
  /\ UNCHANGED <<state, idleVars, queueVars, cache, node, mutex, starter,
                 callerVars>>

NotDeleted == node               \* mutated
Deleted == <<>>                  \* delete node

CallbackReturns ==
  /\ rpc = "cb"
  /\ SelfQuiet
  /\ rpc' = IF node[1].msg.kind = "STOP" THEN "stopping" ELSE "pop"
  /\ node' = Deleted
  /\ UNCHANGED <<state, idleVars, queueVars, cache, readId, handled, msgCount,
                 mutex, starter, callerVars>>

StillCounted ==     \* if (msgCount_ > 0) continue
  /\ rpc = "busy"
  /\ rpc' = IF msgCount > 0 THEN "pop" ELSE "lock"
  /\ UNCHANGED <<state, idleVars, queueVars, cache, node, readId, handled,
                 msgCount, mutex, starter, callerVars>>

LockIdle ==
  /\ Goto("lock", "idle")
  /\ mutex = "none"
  /\ mutex' = "run"
  /\ UNCHANGED <<state, idleVars, queueVars, cache, node, readId, handled,
                 msgCount, starter, callerVars>>

SetIdle ==
  /\ Goto("idle", "hasmsg")
  /\ IF TSO THEN /\ idleBuffered' = TRUE
                 /\ UNCHANGED isIdle
            ELSE /\ isIdle' = TRUE
                 /\ UNCHANGED idleBuffered
  /\ UNCHANGED <<state, queueVars, cache, node, readId, handled, msgCount,
                 mutex, starter, callerVars>>

(* The store buffer drains by itself, or at a locked instruction.          *)
IdleVisible == isIdle' = (isIdle \/ idleBuffered) /\ idleBuffered' = FALSE

DrainStore ==
  /\ idleBuffered
  /\ IdleVisible
  /\ UNCHANGED <<state, queueVars, runVars, msgCount, mutex, starter,
                 callerVars>>

(* hasMsg(): an unlocked look at the list; popAll() locks the spin lock.   *)
HasMsg ==
  /\ rpc = "hasmsg"
  /\ IF cache = <<>> /\ queue = <<>>
     THEN /\ rpc' = "counted"
          /\ UNCHANGED <<idleVars, cache, queue, popId>>
     ELSE /\ rpc' = "unidle"
          /\ IF queue = <<>> THEN UNCHANGED idleVars ELSE IdleVisible
          /\ cache' = cache \o queue
          /\ popId' = popId + Len(queue)
          /\ queue' = <<>>
  /\ UNCHANGED <<state, writeId, node, readId, handled, msgCount, mutex,
                 starter, callerVars>>

NoneCounted ==      \* && msgCount_ == 0
  /\ rpc = "counted"
  /\ rpc' = IF msgCount = 0 THEN "wait" ELSE "unidle"
  /\ UNCHANGED <<state, idleVars, queueVars, cache, node, readId, handled,
                 msgCount, mutex, starter, callerVars>>

CondWait ==         \* releases mutex_ and waits, atomically
  /\ Goto("wait", "waiting")
  /\ mutex' = "none"
  /\ IdleVisible
  /\ UNCHANGED <<state, queueVars, cache, node, readId, handled, msgCount,
                 starter, callerVars>>

SpuriousWakeup ==
  /\ Goto("waiting", "woken")
  /\ UNCHANGED <<state, idleVars, queueVars, cache, node, readId, handled,
                 msgCount, mutex, starter, callerVars>>

WaitReturns ==      \* pthread_cond_wait locks mutex_ again
  /\ Goto("woken", "unidle")
  /\ mutex = "none"
  /\ mutex' = "run"
  /\ UNCHANGED <<state, idleVars, queueVars, cache, node, readId, handled,
                 msgCount, starter, callerVars>>

IdleUp == UNCHANGED idleVars     \* mutated
IdleDown == isIdle' = FALSE /\ idleBuffered' = FALSE

Unidle ==           \* isIdle_ = false and the unlock, a locked instruction
  /\ Goto("unidle", "pop")
  /\ IdleDown
  /\ mutex' = "none"
  /\ UNCHANGED <<state, queueVars, cache, node, readId, handled, msgCount,
                 starter, callerVars>>

(* The end of run(): STOP is published before the queues are emptied.      *)
Stopped ==
  /\ Goto("stopping", "drop")
  /\ state' = "STOP"
  /\ UNCHANGED <<idleVars, queueVars, cache, node, readId, handled, msgCount,
                 mutex, starter, callerVars>>

DropCache ==
  /\ Goto("drop", "clear")
  /\ mutex = "none"
  /\ mutex' = "run"
  /\ cache' = <<>>
  /\ UNCHANGED <<state, idleVars, queueVars, node, readId, handled, msgCount,
                 starter, callerVars>>

(* SafeQueue::clear() frees what popAll() took under the spin lock ...     *)
ClearQueue ==
  /\ Goto("clear", "reset")
  /\ queue' = <<>>
  /\ UNCHANGED <<state, idleVars, writeId, popId, cache, node, readId, handled,
                 msgCount, mutex, starter, callerVars>>

(* ... and resets the ids without it.                                      *)
ResetIds ==
  /\ Goto("reset", "done")
  /\ popId' = 0
  /\ writeId' = 0
  /\ mutex' = "none"
  /\ UNCHANGED <<state, idleVars, queue, cache, node, readId, handled, msgCount,
                 starter, callerVars>>

RunStep == \/ RunBegins \/ StartHandled
           \/ PopNode \/ Uncount \/ CallbackReturns \/ StillCounted
           \/ LockIdle \/ SetIdle \/ HasMsg \/ NoneCounted
           \/ CondWait \/ WaitReturns \/ Unidle
           \/ Stopped \/ DropCache \/ ClearQueue \/ ResetIds

(* A failed assert(false) ends the process.                                *)
Alive == starter # "aborted"

Next == /\ Alive
        /\ \/ StartReturns \/ StartGivesUp
           \/ \E c \in Callers : Caller(c)
           \/ RunStep \/ DrainStore \/ SpuriousWakeup

Spec == Init /\ [][Next]_vars

(***************************************************************************)
(* Fairness.  Every thread is scheduled: run(), start() and a call that    *)
(* was begun go on while they can (whether a call is begun is up to its    *)
(* caller), and a store buffer drains.  A spurious wakeup is never owed.   *)
(* The spin while (isIdle_) reads a flag that run() raises and lowers; the *)
(* strong fairness says that the spin does not read it only while it is up.*)
(***************************************************************************)
InCall(c) == (\E kind \in {"RUN", "STOP"} : Push(c, kind))
               \/ Count(c) \/ Spin(c)

Scheduled == /\ WF_vars(Alive /\ RunStep)
             /\ WF_vars(Alive /\ (StartReturns \/ StartGivesUp))
             /\ WF_vars(Alive /\ DrainStore)
             /\ \A c \in Callers : WF_vars(Alive /\ InCall(c))

SpinEnds == \A c \in Callers : SF_vars(Alive /\ ~isIdle /\ Spin(c))

ThreadSpec == Spec /\ Scheduled
FairSpec == ThreadSpec /\ SpinEnds

-----------------------------------------------------------------------------
(* The nodes run() has not called the callback with, oldest first.         *)
InHand == IF rpc = "count" THEN node ELSE <<>>
Unhandled == InHand \o cache \o queue

(* A STOP message has been handled, or is being handled.                   *)
StopHandled == \/ rpc \in Leaving
               \/ rpc = "cb" /\ node[1].msg.kind = "STOP"

(* Types, and the places at which run() holds a node.                      *)
TypeOK ==
  /\ state \in {"START", "RUN", "STOP"}
  /\ isIdle \in BOOLEAN /\ idleBuffered \in BOOLEAN
  /\ queue \in Seq(Node) /\ cache \in Seq(Node) /\ node \in Seq(Node)
  /\ writeId \in Nat /\ popId \in Nat /\ readId \in Nat
  /\ msgCount \in Int
  /\ mutex \in {"none", "start", "run"}
  /\ rpc \in RunPlaces
  /\ starter \in {"polling", "returned", "aborted"}
  /\ cpc \in [Callers -> {"out", "push", "count", "spin"}]
  /\ calls \in [Callers -> Nat]
  /\ \A c \in Callers : calls[c] <= MaxCalls[c]
  /\ handled \in Seq(Message)
  /\ Len(node) = IF rpc \in {"count", "cb"} THEN 1 ELSE 0

(* The assertions on the ids of nodes never fail: the one of run() before  *)
(* the callback, those of popAll(queueCache) and clear() for every node    *)
(* they would take now, whatever the callers and run() interleave.         *)
IdsInOrder ==
  /\ rpc = "count" => node[1].id = readId
  /\ rpc \notin {"reset", "done"} =>
       \A i \in 1 .. Len(queue) : queue[i].id = popId + i - 1

(* msgCount_ counts the nodes not yet popped, less those whose sender has  *)
(* pushed and not yet counted; so it is negative while a node is handled   *)
(* before it is counted, and never drifts.                                 *)
MsgCountBalanced ==
  rpc \notin Leaving =>
    msgCount = Len(Unhandled) - Cardinality({c \in Callers : cpc[c] = "count"})

(* No lost wakeup: run() never waits on cond_ with a node in its queue     *)
(* unless a caller is still on its way to the signal.                      *)
NoLostWakeup ==
  rpc = "waiting" /\ Unhandled # <<>> =>
    \E c \in Callers : cpc[c] \in {"count", "spin"}

(* A send() or stop() that was begun returns (or the process has died).    *)
CallsReturn ==
  \A c \in Callers : cpc[c] # "out" ~> cpc[c] = "out" \/ ~Alive

(***************************************************************************)
(* The promise this thread keeps.                                          *)
(***************************************************************************)
Pending == IF StopHandled THEN <<>> ELSE Messages(Unhandled)
StopMessage == {m \in Message : m.kind = "STOP"}

AQ == INSTANCE ActorQueue WITH Stopping <- StopMessage, pending <- Pending,
                               live <- ~StopHandled

(* Every accepted message is handled once and in the order of acceptance,  *)
(* over the list, the bulk pop and the node in hand, until a STOP message. *)
KeepsQueuePromise == AQ!Spec

(* And it is handled in the end, although run() sleeps when it sees none.  *)
HandlesInTheEnd == AQ!FairSpec
=============================================================================
