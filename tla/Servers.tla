-------------------------------- MODULE Servers --------------------------------
(***************************************************************************)
(* OpenServer, OpenServerPool, OpenTimerServer, OpenThreadWorker and       *)
(* OpenApp (open/openserver.h, open/openserver.cpp, open/openthread.cpp):  *)
(* a program registers classes, starts servers, and runs them; running     *)
(* servers look each other up, send each other messages and ask for        *)
(* timers; a thread outside may wait for servers to exist.                 *)
(*                                                                         *)
(* The mailbox and the state of a thread are abstracted here to a queue    *)
(* and to "none", "START" and "RUN" (module OpenThread has the detail, and *)
(* nothing of it stops in this program); a pid is the order of creation.   *)
(* A unit of time is timeInterval_.  A failed assertion is noted in        *)
(* "failed", and the program goes on as it does without assertions.        *)
(***************************************************************************)
EXTENDS Integers, Sequences, FiniteSets

CONSTANTS Names,    (* the names of the program's servers                    *)
          Timer,    (* the name of the timer server                          *)
          Classes,
          Scripts,  (* bound: what main does, as sequences of operations,    *)
                    (* with what the onStart() of each server does           *)
          Wanted,   (* bound: the names the outside thread waits for         *)
          Times,    (* bound: GetServers()'s times                           *)
          MaxTime,  (* bound: the clock stops here                           *)
          Skews     (* by how much OpenThread::MilliUnixtime() is ahead      *)

ASSUME TimesNat == Times \in Nat
ASSUME MaxTimeNat == MaxTime \in Nat
ASSUME SkewsNat == Skews \subseteq Nat
ASSUME TimerApart == Timer \notin Names
ASSUME NamesFinite == IsFiniteSet(Names)
ASSUME WantedNames == Wanted \in Seq(Names)

(* What main does, and what a handler does.                                *)
All == Names \cup {Timer}
MainOps == [op : {"app", "register", "server", "timer", "run"},
            class : Classes, name : Names]
Duties == [op : {"ask", "answer"}, to : All]
          \cup [op : {"time", "interval"}, at : Nat]
          \cup [op : {"listen"}]
ASSUME ScriptsType ==
  Scripts \subseteq [main : Seq(MainOps), onStart : [Names -> Seq(Duties)]]

VARIABLES
  script,   \* what main does: fixed at the start
  step,     \* the operation main is at
  at,       \* where main is in it
  index,    \* the server runAllServers() is at
  isRunning,\* OpenApp::isRunning_
  classes,  \* the keys of mapClassCreate_
  slock,    \* spinSLock_ is held
  known,    \* the keys of mapNameServer_
  vect,     \* vectServer_
  pid,      \* pid_ of a server: -1 until init()
  inited,   \* the servers whose onInit() has run
  thread,   \* the state_ of a server's thread
  duty,     \* what is left of a server's current handler
  cache,    \* mapServerNameToId_ of a server
  coming,   \* the servers that a message of a socket is coming for
  inbox,    \* the messages in a server's mailbox
  now,      \* the clock
  phase,    \* where the timer server is
  curTime,  \* curTime of timeLoop()
  wake,     \* when its Sleep() may end
  events,   \* mapTimerEvent_
  want,     \* the name the outside thread is at
  count,    \* how many tries it has left
  servers,  \* the servers it has found
  asked, fired, \* history: the timers a server has asked for, has got
  refused,  \* history: who was refused a message by whom
  failed    \* history: the assertions that have failed

mainVars == <<script, step, at, index, isRunning>>
poolVars == <<classes, known, vect, pid, inited>>
timerVars == <<phase, curTime, wake, events>>
lookVars == <<want, count, servers>>
vars == <<mainVars, poolVars, slock, coming, thread, duty, cache, inbox, now,
          timerVars, lookVars, asked, fired, refused, failed>>

-----------------------------------------------------------------------------
Op == script.main[step]
Doing(op, a) == step <= Len(script.main) /\ Op.op = op /\ at = a
NextOp == step' = step + 1 /\ at' = "begin"
Created == {s \in All : pid[s] >= 0}
Servers == {vect[i] : i \in 1 .. Len(vect)}

Init ==
  /\ script \in Scripts
  /\ step = 1 /\ at = "begin" /\ index = 1 /\ isRunning = FALSE
  /\ classes = {} /\ known = {} /\ vect = <<>> /\ inited = {}
  /\ slock = FALSE
  /\ pid = [s \in All |-> -1]
  /\ thread = [s \in All |-> "none"]
  /\ duty = [s \in All |-> <<>>]
  /\ cache = [s \in All |-> {}]
  /\ coming = {}
  /\ inbox = [s \in All |-> <<>>]
  /\ now = 0
  /\ phase = "idle" /\ curTime = 0 /\ wake = 0 /\ events = <<>>
  /\ want = 1 /\ count = Times /\ servers = <<>>
  /\ asked = [s \in Names |-> 0]
  /\ fired = [s \in Names |-> 0]
  /\ refused = {} /\ failed = {}

-----------------------------------------------------------------------------
(* OpenApp::start(): what it starts is module SocketServer's poll thread.  *)
AppStart ==
  /\ Doing("app", "begin")
  /\ isRunning' = TRUE
  /\ NextOp
  /\ UNCHANGED <<script, index, poolVars, slock, coming, thread, duty, cache, inbox,
                 now, timerVars, lookVars, asked, fired, refused, failed>>

RegisterServer ==
  /\ Doing("register", "begin")
  /\ IF Op.class \in classes
       THEN failed' = failed \cup {"class is exist"} /\ UNCHANGED classes
       ELSE classes' = classes \cup {Op.class} /\ UNCHANGED failed
  /\ NextOp
  /\ UNCHANGED <<script, index, isRunning, known, vect, pid, inited, slock, coming,
                 thread, duty, cache, inbox, now, timerVars, lookVars, asked,
                 fired, refused>>

(* OpenServerPool::startServer() up to the release of spinSLock_.  When    *)
(* the class is not registered it is spinLock_ that is released.           *)
StartServerLocks ==
  /\ Doing("server", "begin")
  /\ ~slock
  /\ slock' = TRUE
  /\ at' = "locked"
  /\ UNCHANGED <<coming, script, step, index, isRunning, poolVars, thread, duty,
                 cache, inbox, now, timerVars, lookVars, asked, fired,
                 refused, failed>>

\* Mutant: spinLock_ is released for spinSLock_ here, too.
StartServerKeeps ==
  /\ Doing("server", "locked")
  /\ Op.name \notin known
  /\ Op.class \in classes
  /\ known' = known \cup {Op.name}
  /\ vect' = Append(vect, Op.name)
  /\ at' = "init"
  /\ UNCHANGED <<script, step, index, isRunning, classes, pid, inited, slock,
                 coming, thread, duty, cache, inbox, now, timerVars,
                 lookVars, asked, fired, refused, failed>>

StartServerInserts ==
  /\ Doing("server", "locked")
  /\ Op.name \notin known
  /\ Op.class \in classes
  /\ known' = known \cup {Op.name}
  /\ vect' = Append(vect, Op.name)
  /\ slock' = FALSE
  /\ at' = "init"
  /\ UNCHANGED <<coming, script, step, index, isRunning, classes, pid, inited,
                 thread, duty, cache, inbox, now, timerVars, lookVars, asked,
                 fired, refused, failed>>

StartServerFails ==
  /\ Doing("server", "locked")
  /\ \/ /\ Op.name \in known
        /\ slock' = FALSE
        /\ failed' = failed \cup {"server is exist"}
     \/ /\ Op.name \notin known
        /\ Op.class \notin classes
        /\ UNCHANGED slock
        /\ failed' = failed \cup {"class is not exist"}
  /\ NextOp
  /\ UNCHANGED <<coming, script, index, isRunning, poolVars, thread, duty, cache,
                 inbox, now, timerVars, lookVars, asked, fired, refused>>

(* OpenServer::init(): the thread gets its slot, and the server its pid_.  *)
(* (Mutant: the timer server is not counted.)                              *)
MakeThreadApart(s) == pid' = [pid EXCEPT ![s] = Cardinality(Created \ {Timer})]
MakeThread(s) == pid' = [pid EXCEPT ![s] = Cardinality(Created)]

InitServer ==
  /\ Doing("server", "init")
  /\ MakeThread(Op.name)
  /\ NextOp
  /\ UNCHANGED <<script, index, isRunning, classes, known, vect, inited,
                 slock, coming, thread, duty, cache, inbox, now, timerVars, lookVars,
                 asked, fired, refused, failed>>

(* OpenTimerServer::Run(): the timer server is in no map of the pool.      *)
TimerRun ==
  /\ Doing("timer", "begin")
  /\ IF Timer \in Created
       THEN NextOp /\ UNCHANGED pid
       ELSE MakeThread(Timer) /\ at' = "start" /\ UNCHANGED step
  /\ UNCHANGED <<script, index, isRunning, classes, known, vect, inited,
                 slock, coming, thread, duty, cache, inbox, now, timerVars, lookVars,
                 asked, fired, refused, failed>>

(* runAllServers(): onInit() of each in turn, and then start() of each.    *)
(* (Mutant: the first loop stops one short.)                               *)
OnInitShort ==
  /\ Doing("run", "begin")
  /\ IF index >= Len(vect)
       THEN index' = 1 /\ at' = "start" /\ UNCHANGED inited
       ELSE /\ inited' = inited \cup {vect[index]}
            /\ index' = index + 1
            /\ UNCHANGED at
  /\ UNCHANGED <<script, step, isRunning, classes, known, vect, pid, slock,
                 coming, thread, duty, cache, inbox, now, timerVars,
                 lookVars, asked, fired, refused, failed>>

OnInit ==
  /\ Doing("run", "begin")
  /\ IF index > Len(vect)
       THEN index' = 1 /\ at' = "start" /\ UNCHANGED inited
       ELSE /\ inited' = inited \cup {vect[index]}
            /\ index' = index + 1
            /\ UNCHANGED at
  /\ UNCHANGED <<script, step, isRunning, classes, known, vect, pid, slock, coming,
                 thread, duty, cache, inbox, now, timerVars, lookVars, asked,
                 fired, refused, failed>>

(* The server that main starts next, if any.                               *)
Starting == IF Doing("timer", "start") \/ Doing("timer", "poll") THEN {Timer}
            ELSE IF (Doing("run", "start") \/ Doing("run", "poll"))
                    /\ index <= Len(vect) THEN {vect[index]}
            ELSE {}

(* OpenServer::start() makes the thread, with its state_ at START ...      *)
StartThread ==
  /\ at = "start"
  /\ \E s \in Starting :
       /\ thread' = [thread EXCEPT ![s] = IF @ = "none" THEN "START" ELSE @]
       /\ failed' = failed \cup
                      IF thread[s] = "none" THEN {} ELSE {"is running"}
  /\ at' = "poll"
  /\ UNCHANGED <<script, step, index, isRunning, poolVars, slock, coming, duty,
                 cache, inbox, now, timerVars, lookVars, asked, fired,
                 refused>>

(* ... and polls until the thread is at RUN.  (Mutant: it does not.)       *)
PolledNever == TRUE
Polled == \A s \in Starting : thread[s] = "RUN"

StartPolls ==
  /\ at = "poll"
  /\ Polled
  /\ IF Op.op = "timer" THEN NextOp /\ UNCHANGED index
     ELSE at' = "start" /\ index' = index + 1 /\ UNCHANGED step
  /\ UNCHANGED <<script, isRunning, poolVars, slock, coming, thread, duty, cache,
                 inbox, now, timerVars, lookVars, asked, fired, refused,
                 failed>>

RunEnds ==
  /\ Doing("run", "start")
  /\ Starting = {}
  /\ NextOp
  /\ index' = 1
  /\ UNCHANGED <<script, isRunning, poolVars, slock, coming, thread, duty, cache,
                 inbox, now, timerVars, lookVars, asked, fired, refused,
                 failed>>

Main == \/ AppStart \/ RegisterServer \/ StartServerLocks
        \/ StartServerInserts \/ StartServerFails \/ InitServer
        \/ TimerRun \/ OnInit \/ StartThread \/ StartPolls \/ RunEnds

-----------------------------------------------------------------------------
(* The thread of a server comes to RUN, and calls onStart() first.  That   *)
(* of the timer server sends itself a message of type -1.                  *)
ThreadRuns(s) ==
  /\ thread[s] = "START"
  /\ thread' = [thread EXCEPT ![s] = "RUN"]
  /\ IF s = Timer
       THEN /\ inbox' = [inbox EXCEPT ![s] =
                           Append(@, [kind |-> "loop", from |-> s, time |-> 0])]
            /\ UNCHANGED duty
       ELSE /\ duty' = [duty EXCEPT ![s] = script.onStart[s]]
            /\ UNCHANGED inbox
  /\ UNCHANGED <<mainVars, poolVars, slock, coming, cache, now, timerVars, lookVars,
                 asked, fired, refused, failed>>

(* OpenThread::Send(): a thread that is not at RUN takes no message.       *)
Accepts(t) == thread[t] = "RUN"
Send(s, t, kind, time) ==
  IF Accepts(t)
    THEN /\ inbox' = [inbox EXCEPT ![t] =
                        Append(@, [kind |-> kind, from |-> s, time |-> time])]
         /\ UNCHANGED refused
    ELSE /\ refused' = refused \cup {<<s, t>>}
         /\ UNCHANGED inbox

Has(s, op) == duty[s] # <<>> /\ Head(duty[s]).op \in op
Done(s) == duty' = [duty EXCEPT ![s] = Tail(@)]

(* FindServer() takes spinSLock_, and pid() is read after it.              *)
Lookup(s) ==
  /\ Has(s, {"ask", "answer"})
  /\ Head(duty[s]).to \notin cache[s]
  /\ ~slock
  /\ LET t == Head(duty[s]).to IN
     IF t \in known /\ pid[t] >= 0
       THEN cache' = [cache EXCEPT ![s] = @ \cup {t}] /\ UNCHANGED <<duty, failed>>
       ELSE failed' = failed \cup {"no server"} /\ Done(s) /\ UNCHANGED cache
  /\ UNCHANGED <<mainVars, poolVars, slock, coming, thread, inbox, now, timerVars,
                 lookVars, asked, fired, refused>>

SendMsgProto(s) ==
  /\ Has(s, {"ask", "answer"})
  /\ Head(duty[s]).to \in cache[s]
  /\ Send(s, Head(duty[s]).to, Head(duty[s]).op, 0)
  /\ Done(s)
  /\ UNCHANGED <<mainVars, poolVars, slock, coming, thread, cache, now, timerVars,
                 lookVars, asked, fired, failed>>

(* startTime() and startInterval(), of which the second reads the clock of *)
(* OpenThread and not that of OpenTime.                                    *)
Deadline(d) ==
  IF d.op = "time" THEN {d.at} ELSE {now + k + d.at : k \in Skews}

StartTime(s) ==
  /\ Has(s, {"time", "interval"})
  /\ IF Timer \in Created
       THEN /\ \E k \in Deadline(Head(duty[s])) : Send(s, Timer, "timer", k)
            /\ asked' = [asked EXCEPT ![s] = @ + 1]
            /\ UNCHANGED failed
       ELSE /\ failed' = failed \cup {"no timer"}
            /\ UNCHANGED <<inbox, refused, asked>>
  /\ Done(s)
  /\ UNCHANGED <<mainVars, poolVars, slock, coming, thread, cache, now,
                 timerVars, lookVars, fired>>

(* OpenThreadWorker::onMsg(): the handler of a message by its type.  The   *)
(* handlers are those of a server that answers whoever asked.              *)
OnMsg(s) ==
  /\ s # Timer
  /\ duty[s] = <<>>
  /\ inbox[s] # <<>>
  /\ LET m == Head(inbox[s]) IN
     /\ duty' = [duty EXCEPT ![s] =
          IF m.kind = "ask" THEN <<[op |-> "answer", to |-> m.from]>> ELSE <<>>]
     /\ fired' = [fired EXCEPT ![s] = IF m.kind = "timer" THEN @ + 1 ELSE @]
  /\ inbox' = [inbox EXCEPT ![s] = Tail(@)]
  /\ UNCHANGED <<mainVars, poolVars, slock, coming, thread, cache, now, timerVars,
                 lookVars, asked, refused, failed>>

(* A server with a socket, and OpenApp::SocketFunc(), with which the poll  *)
(* thread hands a message of that socket over.                             *)
Listen(s) ==
  /\ Has(s, {"listen"})
  /\ coming' = IF isRunning THEN coming \cup {s} ELSE coming
  /\ Done(s)
  /\ UNCHANGED <<mainVars, poolVars, slock, thread, cache, inbox, now,
                 timerVars, lookVars, asked, fired, refused, failed>>

SocketFunc(s) ==
  /\ s \in coming
  /\ coming' = coming \ {s}
  /\ Send(s, s, "socket", 0)
  /\ UNCHANGED <<mainVars, poolVars, slock, thread, duty, cache, now,
                 timerVars, lookVars, asked, fired, failed>>

Server(s) == \/ ThreadRuns(s) \/ Lookup(s) \/ SendMsgProto(s)
             \/ StartTime(s) \/ OnMsg(s) \/ Listen(s)

-----------------------------------------------------------------------------
(* OpenTimerServer::onTimerProto() and the start of timeLoop().  A         *)
(* multimap keeps equal deadlines in the order of their insertion.         *)
(* (Mutant: a map, which keeps the first.)                                 *)
InsertOnce(es, e) ==
  LET before == Cardinality({i \in 1 .. Len(es) : es[i].time < e.time})
  IN  IF \E i \in 1 .. Len(es) : es[i].time = e.time THEN es
      ELSE SubSeq(es, 1, before) \o <<e>> \o SubSeq(es, before + 1, Len(es))
Insert(es, e) ==
  LET before == Cardinality({i \in 1 .. Len(es) : es[i].time <= e.time})
  IN  SubSeq(es, 1, before) \o <<e>> \o SubSeq(es, before + 1, Len(es))

OnTimerProto ==
  /\ phase \in {"idle", "check"}
  /\ inbox[Timer] # <<>>
  /\ LET m == Head(inbox[Timer]) IN
     events' = IF m.kind = "timer"
                 THEN Insert(events, [time |-> m.time, to |-> m.from])
                 ELSE events
  /\ inbox' = [inbox EXCEPT ![Timer] = Tail(@)]
  /\ curTime' = now
  /\ phase' = "check"
  /\ UNCHANGED <<mainVars, poolVars, slock, coming, thread, duty, cache, now, wake,
                 lookVars, asked, fired, refused, failed>>

\* Mutant: the mailbox is not looked at.
CanLoopAlways == phase = "check"
CanLoop == phase = "check" /\ inbox[Timer] = <<>>
IsDue == events # <<>> /\ Head(events).time <= curTime

TimeLoop ==
  /\ CanLoop
  /\ phase' = "due"
  /\ UNCHANGED <<mainVars, poolVars, slock, coming, thread, duty, cache, inbox, now,
                 curTime, wake, events, lookVars, asked, fired, refused,
                 failed>>

Fire ==
  /\ phase = "due"
  /\ IsDue
  /\ Send(Timer, Head(events).to, "timer", Head(events).time)
  /\ events' = Tail(events)
  /\ UNCHANGED <<mainVars, poolVars, slock, coming, thread, duty, cache, now, phase,
                 curTime, wake, lookVars, asked, fired, failed>>

GoToSleep ==
  /\ phase = "due"
  /\ ~IsDue
  /\ phase' = "sleep"
  /\ wake' = now + 1
  /\ UNCHANGED <<mainVars, poolVars, slock, coming, thread, duty, cache, inbox, now,
                 curTime, events, lookVars, asked, fired, refused, failed>>

(* A Sleep() takes timeInterval_ or longer; at MaxTime it takes no time    *)
(* that the model counts.                                                  *)
\* Mutant: a Sleep() that a signal ends counts as one of timeInterval_.
SleptLess == TRUE
Slept == now >= wake \/ now = MaxTime

WakeUp ==
  /\ phase = "sleep"
  /\ Slept
  /\ curTime' = IF curTime < MaxTime THEN curTime + 1 ELSE curTime
  /\ phase' = "check"
  /\ UNCHANGED <<mainVars, poolVars, slock, coming, thread, duty, cache, inbox, now,
                 wake, events, lookVars, asked, fired, refused, failed>>

TimerServer == OnTimerProto \/ TimeLoop \/ Fire \/ GoToSleep \/ WakeUp

Tick ==
  /\ phase # "idle"
  /\ now < MaxTime
  /\ now' = now + 1
  /\ UNCHANGED <<mainVars, poolVars, slock, coming, thread, duty, cache, inbox,
                 timerVars, lookVars, asked, fired, refused, failed>>

-----------------------------------------------------------------------------
(* GetServers(): each name is looked up until it is there, "times" times.  *)
GetServers ==
  /\ want <= Len(Wanted)
  /\ \/ /\ count > 0
        /\ ~slock
        /\ IF Wanted[want] \in known
             THEN /\ servers' = Append(servers, Wanted[want])
                  /\ want' = want + 1
                  /\ count' = Times
             ELSE count' = count - 1 /\ UNCHANGED <<want, servers>>
     \/ /\ count = 0
        /\ want' = want + 1
        /\ count' = Times
        /\ UNCHANGED servers
  /\ UNCHANGED <<mainVars, poolVars, slock, coming, thread, duty, cache, inbox, now,
                 timerVars, asked, fired, refused, failed>>

Next ==
  \/ Main
  \/ \E s \in All : Server(s) \/ SocketFunc(s)
  \/ TimerServer
  \/ Tick
  \/ GetServers

Spec == Init /\ [][Next]_vars

(* Every thread gets on, and so does the clock.  A spin lock is not fair,  *)
(* but main takes it a bounded number of times.                            *)
FairSpec ==
  /\ Spec
  /\ WF_vars(Main)
  /\ \A s \in All : WF_vars(Server(s)) /\ WF_vars(SocketFunc(s))
  /\ WF_vars(TimerServer)
  /\ WF_vars(Tick)
  /\ WF_vars(GetServers)

-----------------------------------------------------------------------------
Messages == [kind : {"loop", "timer", "ask", "answer", "socket"}, from : All,
             time : Nat]

(* Every variable has its type: pids are distinct, as those of the pool.   *)
TypeOK ==
  /\ script \in Scripts
  /\ step \in 1 .. Len(script.main) + 1
  /\ at \in {"begin", "locked", "init", "start", "poll"}
  /\ index \in 1 .. Len(vect) + 1
  /\ isRunning \in BOOLEAN /\ slock \in BOOLEAN
  /\ classes \subseteq Classes /\ known \subseteq Names
  /\ vect \in Seq(known) /\ Len(vect) = Cardinality(known)
  /\ pid \in [All -> -1 .. Cardinality(All) - 1]
  /\ \A s, t \in Created : pid[s] = pid[t] => s = t
  /\ inited \subseteq Names /\ coming \subseteq Names
  /\ thread \in [All -> {"none", "START", "RUN"}]
  /\ cache \in [All -> SUBSET Names]
  /\ inbox \in [All -> Seq(Messages)]
  /\ now \in 0 .. MaxTime /\ wake \in 0 .. MaxTime + 1
  /\ phase \in {"idle", "check", "due", "sleep"}
  /\ curTime \in 0 .. MaxTime
  /\ events \in Seq([time : Nat, to : Names])
  /\ want \in 1 .. Len(Wanted) + 1 /\ count \in 0 .. Times
  /\ servers \in Seq(Names)
  /\ asked \in [Names -> Nat] /\ fired \in [Names -> Nat]
  /\ refused \subseteq All \X All

(* A server that runs finds every server there is with its pid and its     *)
(* onInit() done (openserver.cpp:29-65): no handler meets a half-made one. *)
InitBeforeStart ==
  \A s \in Names : thread[s] # "none" =>
                     \A t \in known : pid[t] >= 0 /\ t \in inited

(* Only a server that was started later refuses a message, since start()   *)
(* returns when the thread is at RUN: a server may tell those before it in *)
(* vectServer_ and the timer from onStart(), and whoever asks it an answer *)
(* (openserver.cpp:120-138, openthread.cpp:257).                           *)
EarlierReachable ==
  \A r \in refused : \E i, j \in 1 .. Len(vect) :
                       vect[i] = r[1] /\ vect[j] = r[2] /\ i < j

(* Of the timers a server has asked for each is in one place: on its way   *)
(* to the timer server, in mapTimerEvent_, on its way back, or fired.      *)
TimersOf(s) ==
  Cardinality({i \in 1 .. Len(inbox[Timer]) :
                 inbox[Timer][i].from = s /\ inbox[Timer][i].kind = "timer"})
  + Cardinality({i \in 1 .. Len(events) : events[i].to = s})
  + Cardinality({i \in 1 .. Len(inbox[s]) : inbox[s][i].kind = "timer"})
  + fired[s]
TimersAccounted == \A s \in Names : asked[s] = TimersOf(s)

(* No timer fires before its deadline, by the clock: the time of the loop, *)
(* which Sleep() moves on without a look at the clock, never runs ahead    *)
(* (openserver.cpp:321-343).                                               *)
FireNotEarly ==
  /\ curTime <= now
  /\ \A s \in Names : \A i \in 1 .. Len(inbox[s]) :
        inbox[s][i].kind = "timer" => inbox[s][i].time <= now

(* Every timer that was asked for, and is not for after the clock's end,   *)
(* fires: a message makes timeLoop() return, and the next call of it goes  *)
(* on with what is left (openserver.cpp:305-343).                          *)
Beyond(s) ==
  Cardinality({i \in 1 .. Len(events) :
                 events[i].to = s /\ events[i].time > MaxTime})
TimersFire == \A s \in Names : asked[s] > 0 ~> asked[s] = fired[s] + Beyond(s)

(* GetServers() comes to its end, unless startServer() was asked for a     *)
(* class that is not registered: it then leaves spinSLock_ held.           *)
LookupEnds == <>(want > Len(Wanted) \/ "class is not exist" \in failed)
=============================================================================
