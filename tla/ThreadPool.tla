------------------------------ MODULE ThreadPool ------------------------------
(***************************************************************************)
(* OpenThreadPool and its SafeMap (open/openthread.cpp): threads by name   *)
(* and by pid, their creation and start, and stopAll().                    *)
(*                                                                         *)
(* A slot of the map is a key (the name) and a value (the thread).         *)
(* Writers of the map hold mutex_, stopAll() holds mutex_close_ instead,   *)
(* and readers hold nothing; so every access to a key, to a value and to   *)
(* the pid of a thread is a step of its own.  What a thread does between   *)
(* RUN and STOP is the business of module OpenThread.  A failed assertion  *)
(* is noted in "failed", and the call goes on as it does without           *)
(* assertions.                                                             *)
(***************************************************************************)
EXTENDS Integers, Sequences, FiniteSets

CONSTANTS Callers,   (* those who call the pool                             *)
          Names,     (* names of threads                                    *)
          Capacity,  (* the number of slots                                 *)
          MaxThread, (* bound: the thread objects are 1 .. MaxThread        *)
          Home,      (* the name of the thread a caller is the callback of, *)
                     (* NoName for a thread outside of the pool             *)
          NoName,
          Calls      (* bound: for each caller the calls it makes, as a     *)
                     (* sequence of sets of which one member is made each   *)

ASSUME CapacityNat == Capacity \in Nat \ {0}
ASSUME MaxThreadNat == MaxThread \in Nat \ {0}
ASSUME NoNameFresh == NoName \notin Names
ASSUME HomeType == Home \in [Callers -> Names \cup {NoName}]

VARIABLES
  isInit,     (* isInit_                                                    *)
  isClearIng, (* isClearIng_                                                *)
  mutex,      (* the holders of mutex_: at most one caller                  *)
  closeMutex, (* the holders of mutex_close_                                *)
  keys,       (* safeMap_.vectKeys_                                         *)
  values,     (* safeMap_.vectValues_, 0 for an empty pointer               *)
  obj,        (* the thread objects                                         *)
  pc, call,   (* where a caller is, and in which call                       *)
  look,       (* what it looks a name up for                                *)
  at,         (* the slot it is at                                          *)
  sptr,       (* the thread it holds, 0 for none                            *)
  tries,      (* how often stopAll() has told that thread again             *)
  on,         (* the thread whose callback it runs in, 0 outside of calls   *)
  calls,      (* how many calls it has begun                                *)
  given,      (* history: the threads create() has returned for a name      *)
  closed,     (* history: a stopAll() has begun                             *)
  failed      (* history: the assertions that have failed                   *)

mapVars == <<keys, values>>
lockVars == <<mutex, closeMutex>>
flagVars == <<isInit, isClearIng>>
callVars == <<call, on, calls>>
heldVars == <<look, tries, callVars>>  \* what a caller keeps in a call
history == <<given, closed, failed>>
vars == <<flagVars, lockVars, mapVars, obj, pc, at, sptr, heldVars,
          history>>

-----------------------------------------------------------------------------
Slots == 0 .. Capacity - 1
Threads == 1 .. MaxThread
Call == [op : {"create", "start", "launch", "thread", "send", "stop", "join",
               "halt", "stopAll"},
         by : {"name", "pid"}, list : BOOLEAN, of : Seq(Names \cup Slots)]
NoCall == [op |-> "thread", by |-> "name", list |-> FALSE, of |-> <<>>]

Name(c) == Head(call[c].of)
ByPid(c) == call[c].by = "pid"
Creates(c) == call[c].op \in {"create", "start", "launch"}

(* A call names threads or gives pids that create() has returned, and      *)
(* create() and its kin take names only.                                   *)
Sensible(k) ==
  /\ k \in Call
  /\ k.of \in Seq(IF k.by = "pid" THEN Slots ELSE Names)
  /\ k.op # "stopAll" => k.of # <<>>
  /\ k.op \in {"create", "start", "launch"} => k.by = "name"
ASSUME CallsType ==
  /\ Calls \in [Callers -> Seq(SUBSET Call)]
  /\ \A c \in Callers : \A i \in DOMAIN Calls[c] : \A k \in Calls[c][i] : Sensible(k)

Unused == [name |-> NoName, pid |-> -1, state |-> "none", told |-> FALSE]
Running(v) == obj[v].state = "RUN"

Init ==
  /\ isInit = FALSE
  /\ isClearIng = FALSE
  /\ mutex = {}
  /\ closeMutex = {}
  /\ keys = [s \in Slots |-> NoName]
  /\ values = [s \in Slots |-> 0]
  /\ obj = [v \in Threads |-> Unused]
  /\ pc = [c \in Callers |-> "out"]
  /\ call = [c \in Callers |-> NoCall]
  /\ look = [c \in Callers |-> "first"]
  /\ at = [c \in Callers |-> 0]
  /\ sptr = [c \in Callers |-> 0]
  /\ tries = [c \in Callers |-> 0]
  /\ on = [c \in Callers |-> 0]
  /\ calls = [c \in Callers |-> 0]
  /\ given = [n \in Names |-> {}]
  /\ closed = FALSE
  /\ failed = {}

Goto(c, p) == pc' = [pc EXCEPT ![c] = p]

(* A search of the map for a name, or the access to one slot by pid.       *)
Search(c, why) ==
  /\ look' = [look EXCEPT ![c] = why]
  /\ at' = [at EXCEPT ![c] = IF ByPid(c) THEN Name(c) ELSE 0]
  /\ sptr' = [sptr EXCEPT ![c] = 0]
  /\ Goto(c, IF ByPid(c) THEN "value" ELSE "key")

First(c) == IF call[c].op = "launch" THEN "unborn" ELSE "first"

Return(c) ==
  /\ Goto(c, "out")
  /\ on' = [on EXCEPT ![c] = 0]
  /\ sptr' = [sptr EXCEPT ![c] = 0]
  /\ call' = [call EXCEPT ![c] = NoCall]
  /\ look' = [look EXCEPT ![c] = "first"]
  /\ at' = [at EXCEPT ![c] = 0]
  /\ tries' = [tries EXCEPT ![c] = 0]
  /\ UNCHANGED calls

-----------------------------------------------------------------------------
(* A call begins.  The callback of a thread calls from inside that thread. *)
Begin(c) ==
  /\ pc[c] = "out"
  /\ calls[c] < Len(Calls[c])
  /\ \E k \in Calls[c][calls[c] + 1] : call' = [call EXCEPT ![c] = k]
  /\ \/ Home[c] = NoName /\ UNCHANGED on
     \/ \E v \in Threads : /\ Running(v) /\ obj[v].name = Home[c]
                           /\ on' = [on EXCEPT ![c] = v]
  /\ calls' = [calls EXCEPT ![c] = @ + 1]
  /\ Goto(c, "enter")
  /\ UNCHANGED <<flagVars, lockVars, mapVars, obj, look, at, sptr, history,
                 tries>>

(* The test of isInit_, without the lock; a single pid is compared with    *)
(* capacity() first, which takes the lock and initialises the pool.        *)
Enter(c) ==
  /\ pc[c] = "enter"
  /\ CASE call[c].op = "stopAll" ->
            Goto(c, IF isClearIng THEN "back" ELSE "close")
            /\ UNCHANGED <<look, at, sptr>>
       [] call[c].op # "stopAll" /\ ByPid(c) /\ ~call[c].list ->
            Goto(c, "capacity") /\ UNCHANGED <<look, at, sptr>>
       [] OTHER ->
            IF isInit THEN Search(c, First(c))
            ELSE Goto(c, "check") /\ UNCHANGED <<look, at, sptr>>
  /\ UNCHANGED <<flagVars, lockVars, mapVars, obj, callVars, history, tries>>

(* checkInit(): without a pool, create() and capacity() make one.          *)
CheckInit(c) ==
  /\ pc[c] \in {"check", "capacity"}
  /\ mutex = {}
  /\ IF isInit /\ ~isClearIng THEN Search(c, First(c))
     ELSE /\ IF pc[c] = "capacity" /\ isClearIng THEN Goto(c, "back")
             ELSE Goto(c, IF Creates(c) \/ pc[c] = "capacity" THEN "init"
                          ELSE "back")
          /\ UNCHANGED <<look, at, sptr>>
  /\ UNCHANGED <<flagVars, lockVars, mapVars, obj, callVars, history, tries>>

(* init(), under mutex_.  Abstraction: isInit_ is raised together with     *)
(* profile_ and the capacity of the map, which the code sets one after the *)
(* other; whoever tests isInit_ without the lock in between would read the *)
(* vectors of the map while they get their size.                           *)
InitPool(c) ==
  /\ pc[c] = "init"
  /\ mutex = {}
  /\ IF isClearIng
     THEN Goto(c, "back") /\ UNCHANGED <<isInit, look, at, sptr, failed>>
     ELSE /\ failed' = IF isInit THEN failed \cup {"init"} ELSE failed
          /\ isInit' = TRUE
          /\ Search(c, First(c))
  /\ UNCHANGED <<isClearIng, lockVars, mapVars, obj, callVars, given,
                 closed, tries>>

-----------------------------------------------------------------------------
(* SafeMap::operator[](name): the keys up to the first empty one.          *)
ReadKey(c) ==
  /\ pc[c] = "key"
  /\ CASE at[c] = Capacity \/ (at[c] < Capacity /\ keys[at[c]] = NoName) ->
            Goto(c, "found") /\ UNCHANGED at
       [] at[c] < Capacity /\ keys[at[c]] = Name(c) ->
            Goto(c, "value") /\ UNCHANGED at
       [] OTHER ->
            at' = [at EXCEPT ![c] = @ + 1] /\ UNCHANGED pc
  /\ UNCHANGED <<flagVars, lockVars, mapVars, obj, sptr, heldVars, history>>

(* The value, and the assertion that its pid is the slot.                  *)
ReadValue(c) ==
  /\ pc[c] = "value"
  /\ LET v == IF at[c] < Capacity THEN values[at[c]] ELSE 0 IN
     /\ sptr' = [sptr EXCEPT ![c] = v]
     /\ failed' = IF v # 0 /\ obj[v].pid # at[c] THEN failed \cup {"pid"}
                  ELSE failed
  /\ Goto(c, "found")
  /\ UNCHANGED <<flagVars, lockVars, mapVars, obj, at, given, closed,
                 heldVars>>

-----------------------------------------------------------------------------
(* create() as it would be without mutex_, or without the second look.     *)
CreateUnlocked(c) ==
  /\ pc[c] = "found" /\ Creates(c) /\ look[c] = "first" /\ sptr[c] = 0
  /\ mutex' = mutex \cup {c}
  /\ Search(c, "locked")
  /\ UNCHANGED <<flagVars, closeMutex, mapVars, obj, callVars, tries, history>>

CreateAtOnce(c) ==
  /\ pc[c] = "found" /\ Creates(c) /\ look[c] = "first" /\ sptr[c] = 0
  /\ mutex = {}
  /\ mutex' = {c}
  /\ look' = [look EXCEPT ![c] = "locked"]
  /\ UNCHANGED <<flagVars, closeMutex, mapVars, obj, pc, at, sptr, callVars,
                 tries, history>>

(* OpenThreader::start(), which makes a thread whose name must be new.     *)
Launch(c) ==
  /\ pc[c] = "found" /\ look[c] = "unborn"
  /\ IF sptr[c] # 0
     THEN failed' = failed \cup {"exists"} /\ Return(c)
     ELSE Search(c, "first") /\ UNCHANGED <<callVars, tries, failed>>
  /\ UNCHANGED <<flagVars, lockVars, mapVars, obj, given, closed>>

(* create(): what is not found is looked up again under mutex_.            *)
LockToCreate(c) ==
  /\ pc[c] = "found" /\ Creates(c) /\ look[c] = "first" /\ sptr[c] = 0
  /\ mutex = {}
  /\ mutex' = {c}
  /\ Search(c, "locked")
  /\ UNCHANGED <<flagVars, closeMutex, mapVars, obj, callVars, history,
                 tries>>

(* SafeMap::set() under mutex_: the slot of the name or the first empty    *)
(* one, where the value is written first.                                  *)
SlotFor(n) ==
  {s \in Slots : /\ keys[s] \in {NoName, n}
                 /\ \A r \in 0 .. s - 1 : keys[r] \notin {NoName, n}}

IsFull == \A s \in Slots : keys[s] # NoName

NewThread ==
  {v \in Threads : /\ obj[v].state = "none"
                   /\ \A w \in 1 .. v - 1 : obj[w].state # "none"}

SetValue(c) ==
  /\ pc[c] = "found" /\ Creates(c) /\ look[c] = "locked" /\ sptr[c] = 0
  /\ ~IsFull
  /\ \E v \in NewThread, s \in SlotFor(Name(c)) :
       /\ obj' = [obj EXCEPT ![v] =
            [name |-> Name(c), pid |-> -1, state |-> "STOP", told |-> FALSE]]
       /\ values' = [values EXCEPT ![s] = v]
       /\ sptr' = [sptr EXCEPT ![c] = v]
       /\ at' = [at EXCEPT ![c] = s]
  /\ Goto(c, "setkey")
  /\ UNCHANGED <<flagVars, lockVars, keys, heldVars, history>>

SetKeyOnly(c) ==    \* set() that forgets the pid
  /\ pc[c] = "setkey"
  /\ keys' = [keys EXCEPT ![at[c]] = Name(c)]
  /\ Goto(c, "unlock")
  /\ UNCHANGED <<flagVars, lockVars, values, obj, at, sptr, heldVars, history>>

SetKey(c) ==
  /\ pc[c] = "setkey"
  /\ keys' = [keys EXCEPT ![at[c]] = Name(c)]
  /\ Goto(c, "setpid")
  /\ UNCHANGED <<flagVars, lockVars, values, obj, at, sptr, heldVars,
                 history>>

(* value->pid_ = pid, and create()'s test of the pid: 0 takes the way of a *)
(* failure, which returns the thread at once; any other looks it up again. *)
SetPid(c) ==
  /\ pc[c] = "setpid"
  /\ obj' = [obj EXCEPT ![sptr[c]].pid = at[c]]
  /\ IF at[c] = 0
     THEN Goto(c, "unlock") /\ UNCHANGED <<look, at, sptr>>
     ELSE Search(c, "again")
  /\ UNCHANGED <<flagVars, lockVars, mapVars, callVars, history, tries>>

(* A full map leaves create() with the result of a last look.              *)
LookAgain(c) ==
  /\ pc[c] = "found" /\ Creates(c)
  /\ \/ look[c] = "locked" /\ (sptr[c] # 0 \/ IsFull)
     \/ look[c] = "again"
  /\ IF look[c] = "locked" /\ sptr[c] = 0
     THEN Search(c, "again")
     ELSE Goto(c, "unlock") /\ UNCHANGED <<look, at, sptr>>
  /\ UNCHANGED <<flagVars, lockVars, mapVars, obj, callVars, history, tries>>

Unlock(c) ==
  /\ pc[c] = "unlock"
  /\ mutex' = mutex \ {c}
  /\ Goto(c, "created")
  /\ UNCHANGED <<flagVars, closeMutex, mapVars, obj, at, sptr, heldVars,
                 history>>

(* create() has its result; create(name, cb) starts what does not run.     *)
Created(c) ==
  /\ \/ pc[c] = "created"
     \/ pc[c] = "found" /\ Creates(c) /\ look[c] = "first" /\ sptr[c] # 0
  /\ given' = IF sptr[c] = 0 THEN given
              ELSE [given EXCEPT ![Name(c)] = @ \cup {sptr[c]}]
  /\ IF call[c].op # "create" /\ sptr[c] # 0 /\ ~Running(sptr[c])
     THEN Goto(c, "startkey") /\ at' = [at EXCEPT ![c] = 0]
          /\ UNCHANGED <<sptr, heldVars>>
     ELSE Return(c)
  /\ UNCHANGED <<flagVars, lockVars, mapVars, obj, closed, failed>>

-----------------------------------------------------------------------------
(* OpenThread::start(): the pool must know the thread; then, under the     *)
(* mutex of the thread, STOP becomes START and RUN is waited for.          *)
StartLooks(c) ==
  /\ pc[c] = "startkey"
  /\ LET here == {s \in Slots : /\ keys[s] = Name(c)
                                /\ \A r \in 0 .. s - 1 :
                                     keys[r] \notin {NoName, Name(c)}} IN
     IF \E s \in here : values[s] # 0 /\ obj[values[s]].pid = obj[sptr[c]].pid
     THEN /\ Goto(c, "startlock")
          /\ UNCHANGED <<at, sptr, heldVars, failed>>
     ELSE /\ failed' = failed \cup {"unknown"}
          /\ Return(c)
  /\ UNCHANGED <<flagVars, lockVars, mapVars, obj, given, closed>>

Starting(v) == \E c \in Callers : pc[c] = "starting" /\ sptr[c] = v

StartLocks(c) ==
  /\ pc[c] = "startlock"
  /\ ~Starting(sptr[c])
  /\ IF obj[sptr[c]].state = "STOP"
     THEN /\ obj' = [obj EXCEPT ![sptr[c]].state = "START"]
          /\ Goto(c, "starting")
          /\ UNCHANGED <<at, sptr, heldVars, failed>>
     ELSE /\ failed' = failed \cup {"started"}
          /\ Return(c) /\ UNCHANGED obj
  /\ UNCHANGED <<flagVars, lockVars, mapVars, given, closed>>

(* It has seen RUN, or has polled for it in vain.                          *)
StartReturns(c) ==
  /\ pc[c] = "starting"
  /\ obj[sptr[c]].state \in {"RUN", "STOP"}
  /\ failed' = IF Running(sptr[c]) THEN failed ELSE failed \cup {"polled"}
  /\ Return(c)
  /\ UNCHANGED <<flagVars, lockVars, mapVars, obj, given, closed>>

-----------------------------------------------------------------------------
(* thread(), send(), stop() and threadJoin() with what they found; with a  *)
(* list they go on to the next of it.                                      *)
NextOf(c) ==
  IF Len(call[c].of) > 1
  THEN /\ call' = [call EXCEPT ![c].of = Tail(@)]
       /\ Goto(c, "enter")
       /\ UNCHANGED <<look, at, sptr, tries, on, calls>>
  ELSE Return(c)

Tell(v) == [obj EXCEPT ![v].told = @ \/ Running(v)]

Found(c, op) == pc[c] = "found" /\ call[c].op = op
FoundRunning(c) == sptr[c] # 0 /\ Running(sptr[c])

(* thread(), threadName() and threadId() return what they found.           *)
GiveThread(c) ==
  /\ Found(c, "thread")
  /\ NextOf(c)
  /\ UNCHANGED <<flagVars, lockVars, mapVars, obj, history>>

(* send() hands the message to a running thread (module OpenThread).       *)
Send(c) ==
  /\ Found(c, "send")
  /\ NextOf(c)
  /\ UNCHANGED <<flagVars, lockVars, mapVars, obj, history>>

Stop(c) ==
  /\ Found(c, "stop")
  /\ obj' = IF FoundRunning(c) THEN Tell(sptr[c]) ELSE obj
  /\ NextOf(c)
  /\ UNCHANGED <<flagVars, lockVars, mapVars, history>>

Join(c) ==
  /\ Found(c, "join")
  /\ IF FoundRunning(c)
     THEN Goto(c, "joining") /\ UNCHANGED <<at, sptr, heldVars>>
     ELSE NextOf(c)
  /\ UNCHANGED <<flagVars, lockVars, mapVars, obj, history>>

(* OpenThreader::stop(): stop() and waitStop() of what the name stands for. *)
Halt(c) ==
  /\ Found(c, "halt")
  /\ IF FoundRunning(c)
     THEN /\ obj' = Tell(sptr[c])
          /\ Goto(c, "joining") /\ UNCHANGED <<at, sptr, heldVars>>
     ELSE NextOf(c) /\ UNCHANGED obj
  /\ UNCHANGED <<flagVars, lockVars, mapVars, history>>

(* pthread_join() and waitStop() come back when the thread has ended, and  *)
(* at once when it is the caller's own.                                    *)
Joined(c) ==
  /\ pc[c] = "joining"
  /\ ~Running(sptr[c]) \/ on[c] = sptr[c]
  /\ NextOf(c)
  /\ UNCHANGED <<flagVars, lockVars, mapVars, obj, history>>

Back(c) ==
  /\ pc[c] = "back"
  /\ Return(c)
  /\ UNCHANGED <<flagVars, lockVars, mapVars, obj, history>>

-----------------------------------------------------------------------------
(* stopAll(): every running thread is told to stop and waited for, except  *)
(* the caller's own; then the map is cleared, slot by slot.                *)
Close(c) ==
  /\ pc[c] = "close"
  /\ closeMutex = {}
  /\ closed' = TRUE
  /\ IF isInit
     THEN /\ closeMutex' = {c}
          /\ isClearIng' = TRUE
          /\ at' = [at EXCEPT ![c] = 0]
          /\ Goto(c, "sweep")
     ELSE Goto(c, "back") /\ UNCHANGED <<closeMutex, isClearIng, at>>
  /\ UNCHANGED <<isInit, mutex, mapVars, obj, sptr, given, failed, heldVars>>

Sweep(c) ==
  /\ pc[c] = "sweep"
  /\ IF at[c] = Capacity
     THEN /\ at' = [at EXCEPT ![c] = 0]
          /\ Goto(c, "clearkey")
          /\ UNCHANGED <<obj, sptr, failed>>
     ELSE LET v == values[at[c]] IN
          /\ failed' = IF v # 0 /\ obj[v].pid # at[c] THEN failed \cup {"pid"}
                       ELSE failed
          /\ sptr' = [sptr EXCEPT ![c] = v]
          /\ IF v # 0 /\ Running(v)
             THEN obj' = Tell(v) /\ Goto(c, "poll") /\ UNCHANGED at
             ELSE at' = [at EXCEPT ![c] = @ + 1] /\ UNCHANGED <<obj, pc>>
  /\ tries' = [tries EXCEPT ![c] = 0]
  /\ UNCHANGED <<flagVars, lockVars, mapVars, look, callVars, given, closed>>

EndedOnly(c, v) == ~Running(v)    \* the loop without isCurrent()
MayLeave(c, v) == ~Running(v) \/ on[c] = v      \* isCurrent()

(* The fifth and the tenth round of the polling tell the thread again,     *)
(* which may have ended and been started anew in between.                  *)
TellAgain(c) ==
  /\ pc[c] = "poll"
  /\ ~MayLeave(c, sptr[c])
  /\ tries[c] < 2
  /\ tries' = [tries EXCEPT ![c] = @ + 1]
  /\ obj' = Tell(sptr[c])
  /\ UNCHANGED <<flagVars, lockVars, mapVars, pc, look, at, sptr, callVars,
                 history>>

Poll(c) ==
  /\ pc[c] = "poll"
  /\ MayLeave(c, sptr[c])
  /\ at' = [at EXCEPT ![c] = @ + 1]
  /\ Goto(c, "sweep")
  /\ UNCHANGED <<flagVars, lockVars, mapVars, obj, sptr, heldVars, history>>

ClearKey(c) ==
  /\ pc[c] = "clearkey"
  /\ IF at[c] = Capacity
     THEN /\ isClearIng' = FALSE
          /\ closeMutex' = closeMutex \ {c}
          /\ Goto(c, "back")
          /\ UNCHANGED keys
     ELSE /\ keys' = [keys EXCEPT ![at[c]] = NoName]
          /\ Goto(c, "clearvalue")
          /\ UNCHANGED <<isClearIng, closeMutex>>
  /\ UNCHANGED <<isInit, mutex, values, obj, at, sptr, heldVars, history>>

ClearValue(c) ==
  /\ pc[c] = "clearvalue"
  /\ values' = [values EXCEPT ![at[c]] = 0]
  /\ at' = [at EXCEPT ![c] = @ + 1]
  /\ Goto(c, "clearkey")
  /\ UNCHANGED <<flagVars, lockVars, keys, obj, sptr, heldVars, history>>

-----------------------------------------------------------------------------
(* The life of a thread: run() sets RUN, and a STOP message ends it when   *)
(* no callback is at work.                                                 *)
Runs(v) ==
  /\ obj[v].state = "START"
  /\ obj' = [obj EXCEPT ![v].state = "RUN"]
  /\ UNCHANGED <<flagVars, lockVars, mapVars, pc, at, sptr, heldVars,
                 history>>

Ends(v) ==
  /\ Running(v)
  /\ obj[v].told
  /\ \A c \in Callers : on[c] # v
  /\ obj' = [obj EXCEPT ![v].state = "STOP", ![v].told = FALSE]
  /\ UNCHANGED <<flagVars, lockVars, mapVars, pc, at, sptr, heldVars,
                 history>>

-----------------------------------------------------------------------------
Step(c) ==
  \/ Enter(c) \/ CheckInit(c) \/ InitPool(c) \/ ReadKey(c) \/ ReadValue(c)
  \/ Launch(c) \/ LockToCreate(c) \/ SetValue(c) \/ SetKey(c) \/ SetPid(c)
  \/ LookAgain(c)
  \/ Unlock(c) \/ Created(c) \/ StartLooks(c)
  \/ StartLocks(c) \/ StartReturns(c) \/ GiveThread(c) \/ Send(c)
  \/ Stop(c) \/ Join(c) \/ Halt(c) \/ Joined(c) \/ Back(c)
  \/ Close(c) \/ Sweep(c) \/ TellAgain(c) \/ Poll(c) \/ ClearKey(c)
  \/ ClearValue(c)

Next == \/ \E c \in Callers : Begin(c) \/ Step(c)
        \/ \E v \in Threads : Runs(v) \/ Ends(v)

Spec == Init /\ [][Next]_vars

(* A call that was begun goes on, and threads are scheduled.               *)
FairSpec == /\ Spec
            /\ \A c \in Callers : WF_vars(Step(c))
            /\ \A v \in Threads : WF_vars(Runs(v)) /\ WF_vars(Ends(v))

-----------------------------------------------------------------------------
Places == {"out", "enter", "check", "capacity", "init", "key", "value",
           "found", "setkey", "setpid", "unlock", "created", "startkey",
           "startlock", "starting", "joining", "back", "close", "sweep",
           "poll", "clearkey", "clearvalue"}
HoldsMutex(c) ==
  \/ pc[c] \in {"setkey", "setpid", "unlock"}
  \/ /\ pc[c] \in {"key", "value", "found"} /\ Creates(c)
     /\ look[c] \in {"locked", "again"}
HoldsCloseMutex(c) == pc[c] \in {"sweep", "poll", "clearkey", "clearvalue"}

Typed ==
  /\ isInit \in BOOLEAN /\ isClearIng \in BOOLEAN /\ closed \in BOOLEAN
  /\ keys \in [Slots -> Names \cup {NoName}]
  /\ values \in [Slots -> 0 .. MaxThread]
  /\ obj \in [Threads -> [name : Names \cup {NoName}, pid : Slots \cup {-1},
                         state : {"none", "STOP", "START", "RUN"},
                         told : BOOLEAN]]
  /\ pc \in [Callers -> Places]
  /\ look \in [Callers -> {"unborn", "first", "locked", "again"}]
  /\ at \in [Callers -> 0 .. Capacity]
  /\ sptr \in [Callers -> 0 .. MaxThread]
  /\ tries \in [Callers -> 0 .. 2]
  /\ on \in [Callers -> 0 .. MaxThread]
LocksHeld ==
  /\ mutex \subseteq Callers /\ closeMutex \subseteq Callers
  /\ \A c \in Callers : /\ c \in mutex <=> HoldsMutex(c)
                        /\ c \in closeMutex <=> HoldsCloseMutex(c)
  /\ \A c, d \in mutex : c = d
  /\ \A c, d \in closeMutex : c = d

(* Types, and who holds the two locks of the pool: mutex_ from the second  *)
(* look of create() on, mutex_close_ from the sweep of stopAll() on.       *)
TypeOK == Typed /\ LocksHeld

(* A thread in the map has the pid of its slot, or its creator is still    *)
(* inside of SafeMap::set().  This is what the assertions of every look-up *)
(* ("ret->pid() == pid") rest on; they fail in that window, as "failed"    *)
(* shows, and in no other.                                                 *)
PidIsSlot ==
  \A s \in Slots : values[s] # 0 =>
    \/ obj[values[s]].pid = s
    \/ \E c \in Callers : /\ pc[c] \in {"setkey", "setpid"}
                          /\ sptr[c] = values[s] /\ at[c] = s

(* Until a stopAll(), everybody who creates a name gets the same thread,   *)
(* whoever else creates it at the same time.                               *)
OneThreadPerName ==
  ~closed => \A n \in Names : \A v, w \in given[n] : v = w

StartedAnew(v) == Running(v) /\ ~obj[v].told    \* it had been told

(* stopAll() returns, although it waits for every thread with mutex_close_ *)
(* held, whatever the others do, except for two things: the callback of a  *)
(* thread has come to wait for that lock, so that the two wait for each    *)
(* other, or a thread it has told to stop is started anew.                 *)
StopAllReturns ==
  \A c \in Callers :
    (pc[c] # "out" /\ call[c].op = "stopAll") ~>
      \/ pc[c] = "out"
      \/ \E d \in Callers : on[d] # 0 /\ pc[d] = "close"
      \/ pc[c] = "poll" /\ StartedAnew(sptr[c])

=============================================================================
