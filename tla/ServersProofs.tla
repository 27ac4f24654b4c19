---------------------------- MODULE ServersProofs ----------------------------
(***************************************************************************)
(* Five invariants of module Servers, for every set of servers and of      *)
(* scripts, every clock skew and every bound of the clock.                 *)
(*                                                                         *)
(* FireNotEarly holds of every program.  It is not inductive: curTime      *)
(* moves on by one when Sleep() ends, without a look at the clock, and it  *)
(* stays behind because it was behind the end of that Sleep() when it      *)
(* began: SleepsOn.  And the deadline of an event is what its message      *)
(* said: Typing.  Most actions are Quiet, and do to a mailbox no more than *)
(* Grows says; QuietStep is about all of them.                             *)
(*                                                                         *)
(* TimersAccounted and EarlierReachable hold of the programs that do not   *)
(* start their first timer server after their servers (OrderedScripts),    *)
(* InitBeforeStart of those that start no server after a runAllServers()   *)
(* (ServersFirst).  Control says where main is, Mail what the mailboxes    *)
(* and mapTimerEvent_ hold and how many timers, Order what vectServer_ has *)
(* to do with who runs, Ready which servers have a pid and their onInit()  *)
(* behind them.                                                            *)
(*                                                                         *)
(* TypeOK holds of every program again.  Types has what it needs besides:  *)
(* who is to get a pid has none (Place), a pid is less than the number of  *)
(* threads made (PidTypes), and only servers ask for timers (TimersFrom).  *)
(***************************************************************************)
EXTENDS Servers, FiniteSetTheorems, Functions, TLAPS
USE TimerApart, MaxTimeNat, SkewsNat

Event == [time : Nat, to : All]

Typing ==
  /\ script \in Scripts
  /\ now \in Nat /\ curTime \in Nat /\ wake \in Nat
  /\ inbox \in [All -> Seq(Messages)]
  /\ duty \in [All -> Seq(Duties)]
  /\ events \in Seq(Event)
\* a Sleep() ends after the time of the loop
SleepsOn == phase = "sleep" => curTime < wake
IInv == Typing /\ SleepsOn /\ FireNotEarly

(* mapTimerEvent_ after an insertion is a sequence of events again.        *)
LEMMA InsertTyped ==
  ASSUME NEW E, NEW es \in Seq(E), NEW e \in E
  PROVE  Insert(es, e) \in Seq(E)
<1> DEFINE S == {i \in 1 .. Len(es) : es[i].time <= e.time}
           b == Cardinality(S)
<1>1. Len(es) \in Nat
  OBVIOUS
<1>2. IsFiniteSet(1 .. Len(es)) /\ Cardinality(1 .. Len(es)) <= Len(es)
  BY <1>1, FS_Interval
<1>3. IsFiniteSet(S) /\ b <= Len(es)
  <2>1. S \in SUBSET (1 .. Len(es))
    OBVIOUS
  <2>2. IsFiniteSet(S) /\ Cardinality(S) <= Cardinality(1 .. Len(es))
    BY <1>2, <2>1, FS_Subset
  <2>3. Cardinality(1 .. Len(es)) \in Nat /\ Cardinality(S) \in Nat
    BY <1>2, <2>2, FS_CardinalityType
  <2> QED
    BY <1>1, <1>2, <2>2, <2>3
<1>4. b \in Nat
  BY <1>3, FS_CardinalityType
<1>5. Insert(es, e) = SubSeq(es, 1, b) \o <<e>> \o SubSeq(es, b + 1, Len(es))
  BY DEF Insert
<1> HIDE DEF b, S
<1>6. SubSeq(es, 1, b) \in Seq(E) /\ SubSeq(es, b + 1, Len(es)) \in Seq(E)
  BY <1>1, <1>3, <1>4
<1>7. <<e>> \in Seq(E)
  OBVIOUS
<1>8. SubSeq(es, 1, b) \o <<e>> \in Seq(E)
  BY <1>6, <1>7
<1> QED
  BY <1>5, <1>6, <1>8

\* What Send() does to the mailboxes.
Posted(t, m) == inbox' = [inbox EXCEPT ![t] = Append(@, m)] \/ inbox' = inbox

(* A Send() adds the message to one mailbox at most, and to no other.      *)
LEMMA PostTyped ==
  ASSUME Typing, NEW m \in Messages, NEW t, Posted(t, m)
  PROVE  /\ inbox' \in [All -> Seq(Messages)]
         /\ \A r \in Names : \/ inbox'[r] = inbox[r]
                             \/ r = t /\ inbox'[r] = Append(inbox[r], m)
<1>1. inbox \in [All -> Seq(Messages)] /\ Names \subseteq All
  BY DEF Typing, All
<1>2. CASE inbox' = inbox
  BY <1>1, <1>2
<1>3. CASE inbox' = [inbox EXCEPT ![t] = Append(@, m)]
  <2>1. \A r \in All : Append(inbox[r], m) \in Seq(Messages)
    BY <1>1
  <2> QED
    BY <1>1, <1>3, <2>1
<1> QED
  BY <1>2, <1>3 DEF Posted

\* A step that leaves the clock, the time of the loop and the events alone.
Quiet == UNCHANGED <<script, now, curTime, wake, phase, events>>
\* What a step does to the mailbox of r: nothing, its first message is taken,
\* or a message is added that is not a timer whose deadline is to come.
Grows(r) ==
  \/ inbox'[r] = inbox[r]
  \/ inbox[r] # <<>> /\ inbox'[r] = Tail(inbox[r])
  \/ \E m \in Messages : /\ inbox'[r] = Append(inbox[r], m)
                         /\ m.kind = "timer" => m.time <= now

(* Such a step, and any step of the clock, leaves no early timer in r.     *)
LEMMA InboxStep ==
  ASSUME Typing, NEW r \in Names, Grows(r), NEW n \in Int, now <= n,
         \A i \in 1 .. Len(inbox[r]) :
            inbox[r][i].kind = "timer" => inbox[r][i].time <= now
  PROVE  \A i \in 1 .. Len(inbox'[r]) :
            inbox'[r][i].kind = "timer" => inbox'[r][i].time <= n
<1>1. inbox[r] \in Seq(Messages)
  BY DEF Typing, All
<1>2. now \in Nat
  BY DEF Typing
<1> DEFINE q == inbox[r]
           p == inbox'[r]
<1>3. \A i \in 1 .. Len(q) : q[i].time \in Int
  <2>1. \A i \in 1 .. Len(q) : q[i] \in Messages
    BY <1>1
  <2>2. \A m \in Messages : m.time \in Int
    BY DEF Messages
  <2> QED
    BY <2>1, <2>2
<1>4. CASE p = q
  BY <1>2, <1>3, <1>4
<1>5. CASE q # <<>> /\ p = Tail(q)
  <2>1. Len(p) = Len(q) - 1 /\ \A i \in 1 .. Len(p) : p[i] = q[i + 1]
    BY <1>1, <1>5
  <2>2. \A i \in 1 .. Len(p) : i + 1 \in 1 .. Len(q)
    BY <1>1, <2>1
  <2> QED
    BY <1>2, <1>3, <2>1, <2>2
<1>6. ASSUME NEW m \in Messages, p = Append(q, m), m.kind = "timer" => m.time <= now
      PROVE  \A i \in 1 .. Len(p) : p[i].kind = "timer" => p[i].time <= n
  <2>1. /\ Len(p) = Len(q) + 1 /\ p[Len(q) + 1] = m
        /\ \A i \in 1 .. Len(q) : p[i] = q[i]
    BY <1>1, <1>6
  <2>2. m.time \in Int
    BY DEF Messages
  <2>3. \A i \in 1 .. Len(p) : i \in 1 .. Len(q) \/ i = Len(q) + 1
    BY <1>1, <2>1
  <2> QED
    BY <1>2, <1>3, <1>6, <2>1, <2>2, <2>3
<1> QED
  BY <1>4, <1>5, <1>6 DEF Grows

(* A quiet step that respects the mailboxes keeps the invariant ...        *)
LEMMA QuietStep ==
  ASSUME IInv, Quiet, inbox' \in [All -> Seq(Messages)], duty' \in [All -> Seq(Duties)],
         \A r \in Names : Grows(r)
  PROVE  IInv'
<1>1. Typing'
  BY DEF IInv, Typing, Quiet
<1>2. SleepsOn'
  BY DEF IInv, SleepsOn, Quiet
<1>3. FireNotEarly'
  <2>1. now \in Int /\ now <= now /\ now' = now
    BY DEF IInv, Typing, Quiet
  <2>2. \A r \in Names : \A i \in 1 .. Len(inbox'[r]) :
          inbox'[r][i].kind = "timer" => inbox'[r][i].time <= now
    BY <2>1, InboxStep DEF IInv, FireNotEarly
  <2> QED
    BY <2>1, <2>2 DEF IInv, FireNotEarly, Quiet
<1> QED
  BY <1>1, <1>2, <1>3 DEF IInv

(* The program starts with no timers and every clock at 0.                 *)
LEMMA InitInv == Init => IInv
<1> SUFFICES ASSUME Init PROVE IInv
  OBVIOUS
<1> USE DEF Init
<1>1. <<>> \in Seq(Messages) /\ <<>> \in Seq(Duties) /\ <<>> \in Seq(Event)
  OBVIOUS
<1>2. Typing
  BY <1>1 DEF Typing
<1>3. SleepsOn
  BY DEF SleepsOn
<1>4. FireNotEarly
  BY DEF FireNotEarly, All
<1> QED
  BY <1>2, <1>3, <1>4 DEF IInv

(* ... and so does one that leaves them alone.                             *)
LEMMA SameMail ==
  ASSUME IInv, Quiet, UNCHANGED inbox, duty' \in [All -> Seq(Duties)]
  PROVE  IInv'
<1>1. inbox' \in [All -> Seq(Messages)]
  BY DEF IInv, Typing
<1>2. \A r \in Names : Grows(r)
  BY DEF Grows
<1> QED
  BY <1>1, <1>2, QuietStep

(* What is left of a handler is a sequence of duties.                      *)
LEMMA DoneTyped ==
  ASSUME Typing, NEW s \in All, duty[s] # <<>>, Done(s)
  PROVE  duty' \in [All -> Seq(Duties)] /\ Head(duty[s]) \in Duties
<1>1. duty \in [All -> Seq(Duties)] /\ duty[s] \in Seq(Duties)
  BY DEF Typing
<1>2. Tail(duty[s]) \in Seq(Duties) /\ Head(duty[s]) \in Duties
  BY <1>1
<1> QED
  BY <1>1, <1>2 DEF Done

(* main() (OpenApp, OpenServerPool) touches no mailbox and no timer.       *)
LEMMA MainStep == IInv /\ Main => IInv'
<1> SUFFICES ASSUME IInv, Main PROVE IInv'
  OBVIOUS
<1>1. Quiet /\ UNCHANGED <<inbox, duty>>
  <2> USE DEF Quiet, timerVars
  <2>1. CASE AppStart
    BY <2>1 DEF AppStart
  <2>2. CASE RegisterServer
    BY <2>2 DEF RegisterServer
  <2>3. CASE StartServerLocks
    BY <2>3 DEF StartServerLocks
  <2>4. CASE StartServerInserts
    BY <2>4 DEF StartServerInserts
  <2>5. CASE StartServerFails
    BY <2>5 DEF StartServerFails
  <2>6. CASE InitServer
    BY <2>6 DEF InitServer
  <2>7. CASE TimerRun
    BY <2>7 DEF TimerRun
  <2>8. CASE OnInit
    BY <2>8 DEF OnInit
  <2>9. CASE StartThread
    BY <2>9 DEF StartThread
  <2>10. CASE StartPolls
    BY <2>10 DEF StartPolls
  <2>11. CASE RunEnds
    BY <2>11 DEF RunEnds
  <2> QED
    BY <2>1, <2>2, <2>3, <2>4, <2>5, <2>6, <2>7, <2>8, <2>9, <2>10, <2>11 DEF Main
<1>2. duty' \in [All -> Seq(Duties)]
  BY <1>1 DEF IInv, Typing
<1> QED
  BY <1>1, <1>2, SameMail

(* A server thread starts on its onStart(), the timer server on its loop.  *)
LEMMA ThreadRunsStep == \A s \in All : IInv /\ ThreadRuns(s) => IInv'
<1> SUFFICES ASSUME NEW s \in All, IInv, ThreadRuns(s) PROVE IInv'
  OBVIOUS
<1>1. Quiet
  BY DEF ThreadRuns, Quiet, mainVars, timerVars
<1>2. CASE s = Timer
  <2> DEFINE m == [kind |-> "loop", from |-> s, time |-> 0]
  <2>1. m \in Messages
    BY DEF Messages
  <2>2. inbox' = [inbox EXCEPT ![s] = Append(@, m)] /\ duty' = duty
    BY <1>2 DEF ThreadRuns
  <2> HIDE DEF m
  <2>3. inbox \in [All -> Seq(Messages)] /\ duty \in [All -> Seq(Duties)]
    BY DEF IInv, Typing
  <2>4. inbox' \in [All -> Seq(Messages)]
    BY <2>1, <2>2, <2>3
  <2>5. \A r \in Names : Grows(r)
    BY <1>2, <2>2, <2>3 DEF Grows, All
  <2> QED
    BY <1>1, <2>2, <2>3, <2>4, <2>5, QuietStep
<1>3. CASE s # Timer
  <2>1. s \in Names
    BY <1>3 DEF All
  <2>2. script.onStart[s] \in Seq(Duties)
    BY <2>1, ScriptsType DEF IInv, Typing
  <2>3. duty' \in [All -> Seq(Duties)] /\ UNCHANGED inbox
    BY <1>3, <2>2 DEF ThreadRuns, IInv, Typing
  <2> QED
    BY <1>1, <2>3, SameMail
<1> QED
  BY <1>2, <1>3

(* FindServer() only drops the duty when there is no such server.          *)
LEMMA LookupStep == \A s \in All : IInv /\ Lookup(s) => IInv'
<1> SUFFICES ASSUME NEW s \in All, IInv, Lookup(s) PROVE IInv'
  OBVIOUS
<1>1. Quiet /\ UNCHANGED inbox /\ duty[s] # <<>>
  BY DEF Lookup, Has, Quiet, mainVars, timerVars
<1>2. UNCHANGED duty \/ Done(s)
  BY DEF Lookup
<1>3. duty' \in [All -> Seq(Duties)]
  BY <1>1, <1>2, DoneTyped DEF IInv, Typing
<1> QED
  BY <1>1, <1>3, SameMail

(* A message from server to server is no timer.                            *)
LEMMA SendMsgProtoStep == \A s \in All : IInv /\ SendMsgProto(s) => IInv'
<1> SUFFICES ASSUME NEW s \in All, IInv, SendMsgProto(s) PROVE IInv'
  OBVIOUS
<1>1. Quiet /\ duty[s] # <<>> /\ Done(s) /\ Typing
  BY DEF SendMsgProto, Has, Quiet, mainVars, timerVars, IInv
<1>2. duty' \in [All -> Seq(Duties)]
  BY <1>1, DoneTyped
<1> DEFINE k == Head(duty[s]).op
           t == Head(duty[s]).to
           m == [kind |-> k, from |-> s, time |-> 0]
<1>3. k \in {"ask", "answer"} /\ Posted(t, m)
  BY DEF SendMsgProto, Has, Send, Posted
<1> HIDE DEF k, t
<1>5. m \in Messages /\ m.kind # "timer"
  BY <1>3 DEF Messages
<1> HIDE DEF m
<1>4. /\ inbox' \in [All -> Seq(Messages)]
      /\ \A r \in Names : inbox'[r] = inbox[r] \/ inbox'[r] = Append(inbox[r], m)
  BY <1>1, <1>3, <1>5, PostTyped
<1>6. \A r \in Names : Grows(r)
  BY <1>4, <1>5 DEF Grows
<1> QED
  BY <1>1, <1>2, <1>4, <1>6, QuietStep

(* A timer that is asked for goes to the timer server, not to a server.    *)
LEMMA StartTimeStep == \A s \in All : IInv /\ StartTime(s) => IInv'
<1> SUFFICES ASSUME NEW s \in All, IInv, StartTime(s) PROVE IInv'
  OBVIOUS
<1>1. Quiet /\ duty[s] # <<>> /\ Done(s) /\ Typing
  BY DEF StartTime, Has, Quiet, mainVars, timerVars, IInv
<1>2. duty' \in [All -> Seq(Duties)] /\ Head(duty[s]) \in Duties
  BY <1>1, DoneTyped
<1> DEFINE d == Head(duty[s])
<1>3. d.op \in {"time", "interval"}
  BY DEF StartTime, Has
<1> HIDE DEF d
<1>4. d \in Duties
  BY <1>2 DEF d
<1>5. d.at \in Nat
  BY <1>3, <1>4 DEF Duties
<1>6. \A k \in Deadline(d) : k \in Nat
  BY <1>1, <1>5 DEF Deadline, Typing
<1>7. CASE UNCHANGED inbox
  BY <1>1, <1>2, <1>7, SameMail
<1>8. ASSUME NEW k \in Deadline(d), Send(s, Timer, "timer", k)
      PROVE  IInv'
  <2> DEFINE m == [kind |-> "timer", from |-> s, time |-> k]
  <2>3. m \in Messages /\ Posted(Timer, m)
    BY <1>6, <1>8 DEF Messages, Send, Posted
  <2> HIDE DEF m
  <2>1. /\ inbox' \in [All -> Seq(Messages)]
        /\ \A r \in Names : inbox'[r] = inbox[r]
    BY <1>1, <2>3, PostTyped
  <2>2. \A r \in Names : Grows(r)
    BY <2>1 DEF Grows
  <2> QED
    BY <1>1, <1>2, <2>1, <2>2, QuietStep
<1> QED
  BY <1>7, <1>8 DEF StartTime, d

(* A server takes its first message, and may owe an answer for it.         *)
LEMMA OnMsgStep == \A s \in All : IInv /\ OnMsg(s) => IInv'
<1> SUFFICES ASSUME NEW s \in All, IInv, OnMsg(s) PROVE IInv'
  OBVIOUS
<1>1. Quiet /\ inbox[s] # <<>> /\ inbox' = [inbox EXCEPT ![s] = Tail(@)]
  BY DEF OnMsg, Quiet, mainVars, timerVars
<1>2. inbox \in [All -> Seq(Messages)] /\ duty \in [All -> Seq(Duties)]
  BY DEF IInv, Typing
<1> DEFINE m == Head(inbox[s])
           d == IF m.kind = "ask" THEN <<[op |-> "answer", to |-> m.from]>> ELSE <<>>
<1>3. m \in Messages
  BY <1>1, <1>2
<1>4. m.from \in All
  BY <1>3 DEF Messages
<1>5. duty' = [duty EXCEPT ![s] = d]
  BY DEF OnMsg
<1>6. [op |-> "answer", to |-> m.from] \in Duties
  BY <1>4 DEF Duties
<1>7. d \in Seq(Duties)
  BY <1>6
<1> HIDE DEF d, m
<1>8. duty' \in [All -> Seq(Duties)]
  BY <1>2, <1>5, <1>7
<1>9. inbox' \in [All -> Seq(Messages)]
  BY <1>1, <1>2
<1>10. \A r \in Names : Grows(r)
  BY <1>1, <1>2 DEF Grows, All
<1> QED
  BY <1>1, <1>8, <1>9, <1>10, QuietStep

(* Listening sends nothing.                                                *)
LEMMA ListenStep == \A s \in All : IInv /\ Listen(s) => IInv'
<1> SUFFICES ASSUME NEW s \in All, IInv, Listen(s) PROVE IInv'
  OBVIOUS
<1>1. Quiet /\ UNCHANGED inbox /\ duty[s] # <<>> /\ Done(s) /\ Typing
  BY DEF Listen, Has, Quiet, mainVars, timerVars, IInv
<1> QED
  BY <1>1, DoneTyped, SameMail

(* What comes from a socket is no timer.                                   *)
LEMMA SocketFuncStep == \A s \in All : IInv /\ SocketFunc(s) => IInv'
<1> SUFFICES ASSUME NEW s \in All, IInv, SocketFunc(s) PROVE IInv'
  OBVIOUS
<1> DEFINE m == [kind |-> "socket", from |-> s, time |-> 0]
<1>1. Quiet /\ UNCHANGED duty /\ Posted(s, m) /\ Typing
  BY DEF SocketFunc, Quiet, mainVars, timerVars, IInv, Send, Posted
<1>3. m \in Messages /\ m.kind # "timer"
  BY DEF Messages
<1> HIDE DEF m
<1>2. /\ inbox' \in [All -> Seq(Messages)]
      /\ \A r \in Names : inbox'[r] = inbox[r] \/ inbox'[r] = Append(inbox[r], m)
  BY <1>1, <1>3, PostTyped
<1>4. \A r \in Names : Grows(r)
  BY <1>2, <1>3 DEF Grows
<1>5. duty' \in [All -> Seq(Duties)]
  BY <1>1 DEF Typing
<1> QED
  BY <1>1, <1>2, <1>4, <1>5, QuietStep

(* The thread outside only looks.                                          *)
LEMMA GetServersStep == IInv /\ GetServers => IInv'
<1> SUFFICES ASSUME IInv, GetServers PROVE IInv'
  OBVIOUS
<1>1. Quiet /\ UNCHANGED <<inbox, duty>>
  BY DEF GetServers, Quiet, mainVars, timerVars
<1> QED
  BY <1>1, SameMail DEF IInv, Typing

(* onTimerProto() reads the clock into the time of the loop.               *)
LEMMA OnTimerProtoStep == IInv /\ OnTimerProto => IInv'
<1> SUFFICES ASSUME IInv, OnTimerProto PROVE IInv'
  OBVIOUS
<1> USE DEF OnTimerProto, mainVars
<1>1. inbox \in [All -> Seq(Messages)] /\ events \in Seq(Event) /\ Timer \in All
  BY DEF IInv, Typing, All
<1> DEFINE m == Head(inbox[Timer])
           e == [time |-> m.time, to |-> m.from]
<1>2. m \in Messages
  BY <1>1
<1>3. e \in Event
  BY <1>2 DEF Messages, Event
<1>4. events' = events \/ events' = Insert(events, e)
  OBVIOUS
<1> HIDE DEF e, m
<1>5. events' \in Seq(Event)
  BY <1>1, <1>3, <1>4, InsertTyped
<1>6. inbox' = [inbox EXCEPT ![Timer] = Tail(@)] /\ inbox[Timer] # <<>>
  OBVIOUS
<1>7. inbox' \in [All -> Seq(Messages)]
  BY <1>1, <1>6
<1>8. \A r \in Names : inbox'[r] = inbox[r]
  BY <1>1, <1>6 DEF All
<1>9. Typing'
  BY <1>5, <1>7 DEF IInv, Typing
<1>10. SleepsOn'
  BY DEF SleepsOn
<1>11. FireNotEarly'
  BY <1>8 DEF IInv, Typing, FireNotEarly
<1> QED
  BY <1>9, <1>10, <1>11 DEF IInv

(* The loop starts: no clock moves.                                        *)
LEMMA TimeLoopStep == IInv /\ TimeLoop => IInv'
<1> SUFFICES ASSUME IInv, TimeLoop PROVE IInv'
  OBVIOUS
<1> USE DEF TimeLoop, mainVars
<1>1. Typing'
  BY DEF IInv, Typing
<1>2. SleepsOn'
  BY DEF SleepsOn
<1>3. FireNotEarly'
  BY DEF IInv, FireNotEarly
<1> QED
  BY <1>1, <1>2, <1>3 DEF IInv

(* What fires is due by the time of the loop, which the clock has reached. *)
LEMMA FireStep == IInv /\ Fire => IInv'
<1> SUFFICES ASSUME IInv, Fire PROVE IInv'
  OBVIOUS
<1> USE DEF Fire, mainVars
<1> DEFINE e == Head(events)
           m == [kind |-> "timer", from |-> Timer, time |-> e.time]
<1>1. events \in Seq(Event) /\ events # <<>> /\ events' = Tail(events)
  BY DEF IInv, Typing, IsDue
<1>2. e \in Event /\ events' \in Seq(Event)
  BY <1>1
<1>3. e.time \in Nat /\ e.time <= now
  BY <1>2 DEF IInv, Typing, FireNotEarly, IsDue, Event
<1>4. Posted(e.to, m) /\ Typing
  BY DEF IInv, Send, Posted
<1> HIDE DEF e
<1>6. m \in Messages /\ m.time <= now
  BY <1>3 DEF Messages, All
<1> HIDE DEF m
<1>5. /\ inbox' \in [All -> Seq(Messages)]
      /\ \A r \in Names : inbox'[r] = inbox[r] \/ inbox'[r] = Append(inbox[r], m)
  BY <1>4, <1>6, PostTyped
<1>7. \A r \in Names : Grows(r)
  BY <1>5, <1>6 DEF Grows
<1>8. Typing'
  BY <1>2, <1>5 DEF IInv, Typing
<1>9. SleepsOn'
  BY DEF SleepsOn
<1>10. FireNotEarly'
  <2>1. now \in Int /\ now <= now /\ now' = now /\ curTime' = curTime
    BY DEF IInv, Typing
  <2>2. \A r \in Names : \A i \in 1 .. Len(inbox'[r]) :
          inbox'[r][i].kind = "timer" => inbox'[r][i].time <= now
    BY <1>4, <1>7, <2>1, InboxStep DEF IInv, FireNotEarly
  <2> QED
    BY <2>1, <2>2 DEF IInv, FireNotEarly
<1> QED
  BY <1>8, <1>9, <1>10 DEF IInv

(* A Sleep() is to end one unit after the clock, so after the loop's time. *)
LEMMA GoToSleepStep == IInv /\ GoToSleep => IInv'
<1> SUFFICES ASSUME IInv, GoToSleep PROVE IInv'
  OBVIOUS
<1> USE DEF GoToSleep, mainVars
<1>1. Typing'
  BY DEF IInv, Typing
<1>2. SleepsOn'
  BY DEF IInv, Typing, FireNotEarly, SleepsOn
<1>3. FireNotEarly'
  BY DEF IInv, FireNotEarly
<1> QED
  BY <1>1, <1>2, <1>3 DEF IInv

(* When it has ended the clock is a unit past the loop's time, at least.   *)
LEMMA WakeUpStep == IInv /\ WakeUp => IInv'
<1> SUFFICES ASSUME IInv, WakeUp PROVE IInv'
  OBVIOUS
<1> USE DEF WakeUp, mainVars
<1>1. Typing'
  BY DEF IInv, Typing
<1>2. SleepsOn'
  BY DEF SleepsOn
<1>3. curTime' <= now
  BY DEF IInv, Typing, SleepsOn, FireNotEarly, Slept
<1>4. FireNotEarly'
  BY <1>3 DEF IInv, FireNotEarly
<1> QED
  BY <1>1, <1>2, <1>4 DEF IInv

(* The clock only moves on.                                                *)
LEMMA TickStep == IInv /\ Tick => IInv'
<1> SUFFICES ASSUME IInv, Tick PROVE IInv'
  OBVIOUS
<1> USE DEF Tick, mainVars, timerVars
<1>1. Typing'
  BY DEF IInv, Typing
<1>2. SleepsOn'
  BY DEF IInv, SleepsOn
<1>3. FireNotEarly'
  <2>1. now + 1 \in Int /\ now <= now + 1 /\ now' = now + 1 /\ curTime <= now
    BY DEF IInv, Typing, FireNotEarly
  <2>2. \A r \in Names : Grows(r)
    BY DEF Grows
  <2>3. \A r \in Names : \A i \in 1 .. Len(inbox'[r]) :
          inbox'[r][i].kind = "timer" => inbox'[r][i].time <= now + 1
    BY <2>1, <2>2, InboxStep DEF IInv, FireNotEarly
  <2>4. curTime' <= now'
    BY <2>1 DEF IInv, Typing
  <2> QED
    BY <2>1, <2>3, <2>4 DEF FireNotEarly
<1> QED
  BY <1>1, <1>2, <1>3 DEF IInv

(* Every step of the program keeps the invariant.                          *)
LEMMA NextInv == IInv /\ [Next]_vars => IInv'
<1> SUFFICES ASSUME IInv, [Next]_vars PROVE IInv'
  OBVIOUS
<1>1. CASE Main
  BY <1>1, MainStep
<1>2. ASSUME NEW s \in All, Server(s) PROVE IInv'
  BY <1>2, ThreadRunsStep, LookupStep, SendMsgProtoStep, StartTimeStep,
     OnMsgStep, ListenStep DEF Server
<1>3. ASSUME NEW s \in All, SocketFunc(s) PROVE IInv'
  BY <1>3, SocketFuncStep
<1>4. CASE TimerServer
  BY <1>4, OnTimerProtoStep, TimeLoopStep, FireStep, GoToSleepStep, WakeUpStep
     DEF TimerServer
<1>5. CASE Tick
  BY <1>5, TickStep
<1>6. CASE GetServers
  BY <1>6, GetServersStep
<1>7. CASE UNCHANGED vars
  <2>1. Quiet /\ UNCHANGED <<inbox, duty>>
    BY <1>7 DEF vars, Quiet, mainVars, timerVars
  <2> QED
    BY <2>1, SameMail DEF IInv, Typing
<1> QED
  BY <1>1, <1>2, <1>3, <1>4, <1>5, <1>6, <1>7 DEF Next

(* No timer reaches the mailbox of a server before its deadline, and the   *)
(* time of timeLoop() never runs ahead of the clock                        *)
(* (openserver.cpp:321-343).                                               *)
THEOREM EarlyTheorem == Spec => []FireNotEarly
<1>1. IInv => FireNotEarly
  BY DEF IInv
<1> QED
  BY InitInv, NextInv, <1>1, PTL DEF Spec

-----------------------------------------------------------------------------
(* TimersAccounted.  A timer is lost when it is asked for while the timer  *)
(* server has a pid and does not run yet; so the program must not start    *)
(* its first timer server after its servers: OrderedScripts.  Then main    *)
(* is in Run() of the timer server before it starts any other (FirstTimer, *)
(* RunFirst), a server that has something to do runs (Alive), and so does  *)
(* whoever a timer is for (Owed).                                          *)
MainAt(i, op) == script.main[i].op = op
OrderedScripts ==
  \A sc \in Scripts : \A i, j \in 1 .. Len(sc.main) :
     i < j /\ sc.main[i].op = "run" /\ sc.main[j].op = "timer"
       => \E h \in 1 .. i - 1 : sc.main[h].op = "timer"

Starter ==
  /\ step \in Nat \ {0}
  /\ thread \in [All -> {"none", "START", "RUN"}]
  /\ DOMAIN pid = All /\ IsFiniteSet(Created)
  /\ asked \in [Names -> Nat] /\ fired \in [Names -> Nat]
\* where main is when it starts a thread
StartsOne ==
  at \in {"start", "poll"} =>
    /\ step <= Len(script.main)
    /\ Op.op \in {"timer", "run"}
    /\ Op.op = "timer" => Timer \in Created
FirstTimer ==
  /\ Timer \in Created /\ thread[Timer] # "RUN" =>
       at \in {"start", "poll"} /\ Op.op = "timer"
  /\ Timer \notin Created \/ thread[Timer] # "RUN" =>
       \A i \in 1 .. step - 1 : i <= Len(script.main) => ~MainAt(i, "timer")
RunFirst ==
  \A s \in Names : thread[s] # "none" =>
     \E i \in 1 .. step : i <= Len(script.main) /\ MainAt(i, "run")
Alive ==
  /\ duty[Timer] = <<>>
  /\ \A s \in Names : duty[s] # <<>> \/ inbox[s] # <<>> => thread[s] = "RUN"
Runs(s) == s \in Names /\ thread[s] = "RUN"
Owed ==
  /\ \A i \in 1 .. Len(inbox[Timer]) :
        inbox[Timer][i].kind = "timer" => Runs(inbox[Timer][i].from)
  /\ \A i \in 1 .. Len(events) : Runs(events[i].to)

\* The timers of s, as numbers of members of sequences.
Hits(q, S) == Cardinality({i \in 1 .. Len(q) : q[i] \in S})
Asking(s) == {m \in Messages : m.kind = "timer" /\ m.from = s}
For(s) == {e \in Event : e.to = s}
Back == {m \in Messages : m.kind = "timer"}
Total(s) == Hits(inbox[Timer], Asking(s)) + Hits(events, For(s))
            + Hits(inbox[s], Back) + fired[s]
Tally == \A s \in Names : asked[s] = Total(s)
Kept == Starter /\ StartsOne /\ FirstTimer /\ RunFirst /\ Alive /\ Owed /\ Tally

LEMMA HitsType ==
  ASSUME NEW q, Len(q) \in Nat, NEW S
  PROVE  /\ IsFiniteSet({i \in 1 .. Len(q) : q[i] \in S})
         /\ Hits(q, S) \in Nat
<1> DEFINE I == {i \in 1 .. Len(q) : q[i] \in S}
<1>1. IsFiniteSet(1 .. Len(q))
  BY FS_Interval
<1>2. IsFiniteSet(I)
  <2>1. I \in SUBSET (1 .. Len(q))
    OBVIOUS
  <2> QED
    BY <1>1, <2>1, FS_Subset
<1> QED
  BY <1>2, FS_CardinalityType DEF Hits

(* What a sequence counts for when a member is put in at k.                *)
Put(q, r, k, x) ==
  /\ Len(r) = Len(q) + 1 /\ k \in 1 .. Len(q) + 1 /\ r[k] = x
  /\ \A i \in 1 .. k - 1 : r[i] = q[i]
  /\ \A i \in k .. Len(q) : r[i + 1] = q[i]
LEMMA HitsPut ==
  ASSUME NEW q, NEW r, NEW k, NEW x, NEW S, Len(q) \in Nat, Put(q, r, k, x)
  PROVE  /\ x \in S => Hits(r, S) = Hits(q, S) + 1
         /\ x \notin S => Hits(r, S) = Hits(q, S)
<1> DEFINE n == Len(q)
           I == {i \in 1 .. n : q[i] \in S}
           J == {i \in 1 .. Len(r) : r[i] \in S}
           f == [i \in I |-> IF i < k THEN i ELSE i + 1]
<1>1. /\ n \in Nat /\ Len(r) = n + 1 /\ k \in 1 .. n + 1 /\ r[k] = x
      /\ \A i \in 1 .. k - 1 : r[i] = q[i]
      /\ \A i \in k .. n : r[i + 1] = q[i]
  BY DEF Put
<1>2. Hits(q, S) = Cardinality(I) /\ Hits(r, S) = Cardinality(J)
  BY DEF Hits
<1>3. IsFiniteSet(I) /\ IsFiniteSet(J) /\ Hits(q, S) \in Nat /\ Hits(r, S) \in Nat
  <2>1. Len(r) \in Nat
    BY <1>1
  <2>2. IsFiniteSet(I) /\ Hits(q, S) \in Nat
    BY HitsType
  <2>3. IsFiniteSet(J) /\ Hits(r, S) \in Nat
    BY <2>1, HitsType
  <2> QED
    BY <2>2, <2>3
<1>4. \A i \in I : f[i] \in J \ {k}
  <2> SUFFICES ASSUME NEW i \in I PROVE f[i] \in J \ {k}
    OBVIOUS
  <2>1. CASE i < k
    BY <1>1, <2>1
  <2>2. CASE ~(i < k)
    BY <1>1, <2>2
  <2> QED
    BY <2>1, <2>2
<1>5. \A i, j \in I : f[i] = f[j] => i = j
  BY <1>1
<1>6. \A j \in J \ {k} : \E i \in I : f[i] = j
  <2> SUFFICES ASSUME NEW j \in J \ {k} PROVE \E i \in I : f[i] = j
    OBVIOUS
  <2>1. CASE j < k
    <3>1. j \in I /\ f[j] = j
      BY <1>1, <2>1
    <3> QED
      BY <3>1
  <2>2. CASE ~(j < k)
    <3>1. j - 1 \in k .. n /\ r[(j - 1) + 1] = q[j - 1] /\ (j - 1) + 1 = j
      BY <1>1, <2>2
    <3>2. j - 1 \in I /\ f[j - 1] = j
      BY <1>1, <3>1
    <3> QED
      BY <3>2
  <2> QED
    BY <2>1, <2>2
<1>7. f \in Bijection(I, J \ {k})
  <2>1. DOMAIN f = I /\ f \in [I -> J \ {k}]
    BY <1>4
  <2> HIDE DEF f, I, J
  <2> QED
    BY <1>5, <1>6, <2>1 DEF Bijection, Injection, Surjection, IsInjective
<1> HIDE DEF f
<1>8. Cardinality(J \ {k}) = Cardinality(I)
  BY <1>3, <1>7, FS_Bijection DEF ExistsBijection
<1>9. k \in J <=> x \in S
  BY <1>1
<1> HIDE DEF I, J, n
<1>10. Cardinality(J \ {k}) = IF k \in J THEN Cardinality(J) - 1 ELSE Cardinality(J)
  BY <1>3, FS_RemoveElement
<1> QED
  BY <1>2, <1>3, <1>8, <1>9, <1>10

(* A member at the end, and one from the front.                            *)
LEMMA HitsAppend ==
  ASSUME NEW T, NEW q \in Seq(T), NEW x \in T, NEW S
  PROVE  /\ Hits(q, S) \in Nat
         /\ x \in S => Hits(Append(q, x), S) = Hits(q, S) + 1
         /\ x \notin S => Hits(Append(q, x), S) = Hits(q, S)
<1>1. Put(q, Append(q, x), Len(q) + 1, x) /\ Len(q) \in Nat
  BY DEF Put
<1>2. Hits(q, S) \in Nat
  BY <1>1, HitsType
<1> QED
  BY <1>1, <1>2, HitsPut

LEMMA HitsTail ==
  ASSUME NEW T, NEW q \in Seq(T), q # <<>>, NEW S
  PROVE  /\ Hits(q, S) \in Nat /\ Hits(Tail(q), S) \in Nat
         /\ Head(q) \in S => Hits(q, S) = Hits(Tail(q), S) + 1
         /\ Head(q) \notin S => Hits(q, S) = Hits(Tail(q), S)
<1>1. /\ Len(q) \in Nat /\ Len(Tail(q)) \in Nat
      /\ Put(Tail(q), q, 1, Head(q))
  BY DEF Put
<1>2. Hits(q, S) \in Nat /\ Hits(Tail(q), S) \in Nat
  BY <1>1, HitsType
<1> QED
  BY <1>1, <1>2, HitsPut

(* mapTimerEvent_ after an insertion has one event more.                   *)
LEMMA InsertPuts ==
  ASSUME NEW es \in Seq(Event), NEW e \in Event
  PROVE  \E k \in 1 .. Len(es) + 1 : Put(es, Insert(es, e), k, e)
<1> DEFINE S == {i \in 1 .. Len(es) : es[i].time <= e.time}
           b == Cardinality(S)
           p == SubSeq(es, 1, b)
           r == SubSeq(es, b + 1, Len(es))
<1>1. Len(es) \in Nat
  OBVIOUS
<1>2. b \in Nat /\ b <= Len(es)
  <2>1. IsFiniteSet(1 .. Len(es)) /\ Cardinality(1 .. Len(es)) <= Len(es)
    BY <1>1, FS_Interval
  <2>2. S \in SUBSET (1 .. Len(es))
    OBVIOUS
  <2>3. IsFiniteSet(S) /\ b <= Cardinality(1 .. Len(es))
    BY <2>1, <2>2, FS_Subset
  <2>4. Cardinality(1 .. Len(es)) \in Nat /\ b \in Nat
    BY <2>1, <2>3, FS_CardinalityType
  <2> HIDE DEF b
  <2> QED
    BY <1>1, <2>1, <2>3, <2>4
<1>3. Insert(es, e) = p \o <<e>> \o r
  BY DEF Insert
<1> HIDE DEF b
<1>4. p \in Seq(Event) /\ Len(p) = b /\ \A i \in 1 .. b : p[i] = es[i]
  BY <1>1, <1>2
<1>5. /\ r \in Seq(Event) /\ Len(r) = Len(es) - b
      /\ \A i \in 1 .. Len(es) - b : r[i] = es[b + i]
  BY <1>1, <1>2
<1>6. /\ p \o <<e>> \in Seq(Event) /\ Len(p \o <<e>>) = b + 1
      /\ (p \o <<e>>)[b + 1] = e
      /\ \A i \in 1 .. b : (p \o <<e>>)[i] = es[i]
  BY <1>2, <1>4
<1> HIDE DEF p, r
<1> DEFINE v == p \o <<e>>
           w == v \o r
<1>7. v \in Seq(Event) /\ Len(v) = b + 1 /\ v[b + 1] = e
      /\ \A i \in 1 .. b : v[i] = es[i]
  BY <1>6
<1> HIDE DEF v
<1>8. /\ Len(w) = Len(v) + Len(r)
      /\ \A i \in 1 .. Len(v) : w[i] = v[i]
      /\ \A i \in 1 .. Len(r) : w[Len(v) + i] = r[i]
  <2>1. v \in Seq(Event) /\ r \in Seq(Event)
    BY <1>5, <1>7
  <2> QED
    BY ONLY <2>1
<1> HIDE DEF w
<1>9. Put(es, w, b + 1, e)
  <2>1. Len(w) = Len(es) + 1 /\ b + 1 \in 1 .. Len(es) + 1
    BY <1>1, <1>2, <1>5, <1>7, <1>8
  <2>2. w[b + 1] = e /\ \A i \in 1 .. (b + 1) - 1 : w[i] = es[i]
    BY <1>1, <1>2, <1>7, <1>8
  <2>3. ASSUME NEW i \in b + 1 .. Len(es) PROVE w[i + 1] = es[i]
    <3>1. i - b \in 1 .. Len(r) /\ (b + 1) + (i - b) = i + 1 /\ b + (i - b) = i
      BY <1>1, <1>2, <1>5
    <3>2. w[(b + 1) + (i - b)] = r[i - b] /\ r[i - b] = es[b + (i - b)]
      BY <1>5, <1>7, <1>8, <3>1
    <3> QED
      BY <3>1, <3>2
  <2> QED
    BY <2>1, <2>2, <2>3 DEF Put
<1>10. Insert(es, e) = w /\ b + 1 \in 1 .. Len(es) + 1
  BY <1>1, <1>2, <1>3 DEF w, v
<1> QED
  BY <1>9, <1>10

-----------------------------------------------------------------------------
Control == Starter /\ StartsOne /\ FirstTimer /\ RunFirst

(* The operation main is at is one of those it can do.                     *)
LEMMA OpTyped ==
  ASSUME Typing, Starter, step <= Len(script.main)
  PROVE  Op \in MainOps /\ step \in 1 .. Len(script.main)
<1>1. script.main \in Seq(MainOps)
  BY ScriptsType DEF Typing
<1>2. step \in 1 .. Len(script.main)
  BY <1>1 DEF Starter
<1> QED
  BY <1>1, <1>2 DEF Op

\* A step that leaves alone which servers have a pid, and their threads.
Threads == /\ UNCHANGED <<script, thread, asked, fired>>
           /\ DOMAIN pid' = All /\ IsFiniteSet(Created')
           /\ (Timer \in Created)' <=> Timer \in Created

(* Main goes on to the next operation, unless the timer server starts.     *)
LEMMA NextOpControl ==
  ASSUME Typing, Control, Threads, NextOp, step <= Len(script.main),
         Timer \in Created => thread[Timer] = "RUN",
         Op.op = "timer" => Timer \in Created
  PROVE  Control'
<1>1. step' = step + 1 /\ at' = "begin" /\ step \in Nat \ {0}
  BY DEF NextOp, Control, Starter
<1>2. Starter'
  BY <1>1 DEF Control, Starter, Threads
<1>3. StartsOne'
  BY <1>1 DEF StartsOne
<1>4. FirstTimer'
  <2>1. CASE Timer \in Created
    BY <2>1 DEF FirstTimer, Threads
  <2>2. CASE Timer \notin Created
    <3>1. \A i \in 1 .. step - 1 : i <= Len(script.main) => ~MainAt(i, "timer")
      BY <2>2 DEF Control, FirstTimer
    <3>2. ~MainAt(step, "timer")
      BY <2>2 DEF MainAt, Op
    <3>3. \A i \in 1 .. step' - 1 : i <= Len(script.main) => ~MainAt(i, "timer")
      BY <1>1, <3>1, <3>2
    <3> QED
      BY <2>2, <3>3 DEF FirstTimer, Threads, MainAt
  <2> QED
    BY <2>1, <2>2
<1>5. RunFirst'
  <2>1. \A i \in 1 .. step : i \in 1 .. step'
    BY <1>1
  <2> QED
    BY <2>1 DEF Control, RunFirst, Threads, MainAt
<1> QED
  BY <1>2, <1>3, <1>4, <1>5 DEF Control

(* Main stays at its operation.                                            *)
LEMMA StayControl ==
  ASSUME Control, Threads, UNCHANGED step, StartsOne',
         Timer \in Created /\ thread[Timer] # "RUN" =>
           at' \in {"start", "poll"} /\ Op.op = "timer"
  PROVE  Control'
<1>1. Starter'
  BY DEF Control, Starter, Threads
<1>2. FirstTimer'
  BY DEF Control, FirstTimer, Threads, MainAt, Op
<1>3. RunFirst'
  BY DEF Control, RunFirst, Threads, MainAt
<1> QED
  BY <1>1, <1>2, <1>3 DEF Control

(* What an operation of main that starts no thread finds.                  *)
LEMMA Elsewhere ==
  ASSUME Typing, Control, NEW op, NEW a, Doing(op, a),
         a \notin {"start", "poll"} \/ op # "timer"
  PROVE  /\ step <= Len(script.main) /\ Op.op = op /\ Op \in MainOps
         /\ Timer \in Created => thread[Timer] = "RUN"
<1>1. step <= Len(script.main) /\ Op.op = op /\ at = a
  BY DEF Doing
<1> QED
  BY <1>1, OpTyped DEF Control, FirstTimer

(* A thread that is made gets a pid, beside those that have one.           *)
LEMMA MakeThreadControl ==
  ASSUME Control, NEW s \in All, MakeThread(s)
  PROVE  /\ DOMAIN pid' = All /\ IsFiniteSet(Created') /\ s \in Created'
         /\ \A t \in All : t # s => (t \in Created' <=> t \in Created)
<1>1. DOMAIN pid = All /\ IsFiniteSet(Created)
  BY DEF Control, Starter
<1>2. Cardinality(Created) \in Nat
  BY <1>1, FS_CardinalityType
<1> DEFINE n == Cardinality(Created)
<1>3. pid' = [pid EXCEPT ![s] = n]
  BY DEF MakeThread
<1> HIDE DEF n
<1>4. /\ DOMAIN pid' = All /\ pid'[s] = n
      /\ \A t \in All : t # s => pid'[t] = pid[t]
  BY <1>1, <1>3
<1>5. n >= 0
  BY <1>2 DEF n
<1>6. s \in Created' /\ \A t \in All : t # s => (t \in Created' <=> t \in Created)
  BY <1>4, <1>5 DEF Created
<1>7. Created' \subseteq Created \cup {s}
  BY <1>6 DEF Created
<1>8. IsFiniteSet(Created \cup {s})
  BY <1>1, FS_AddElement
<1>9. IsFiniteSet(Created')
  BY <1>7, <1>8, FS_Subset
<1> QED
  BY <1>4, <1>6, <1>9

(* startServer() gives a pid to that server and no other.                  *)
LEMMA InitServerControl ==
  ASSUME Typing, Control, InitServer
  PROVE  Control'
<1>1. Doing("server", "init") /\ MakeThread(Op.name) /\ NextOp
  BY DEF InitServer
<1>2. /\ step <= Len(script.main) /\ Op.op = "server" /\ Op \in MainOps
      /\ Timer \in Created => thread[Timer] = "RUN"
  BY <1>1, Elsewhere
<1>3. Op.name \in Names /\ Op.name # Timer
  BY <1>2 DEF MainOps
<1>4. Op.name \in All /\ Timer \in All
  BY <1>3 DEF All
<1>5. /\ DOMAIN pid' = All /\ IsFiniteSet(Created')
      /\ Timer \in Created' <=> Timer \in Created
  BY <1>1, <1>3, <1>4, MakeThreadControl
<1>6. Threads
  BY <1>5 DEF InitServer, Threads
<1> QED
  BY <1>1, <1>2, <1>6, NextOpControl

(* Run() of the timer server gives it a pid and begins to start it.        *)
LEMMA TimerRunControl ==
  ASSUME Typing, Control, TimerRun
  PROVE  Control'
<1>1. Doing("timer", "begin")
  BY DEF TimerRun
<1>2. /\ step <= Len(script.main) /\ Op.op = "timer" /\ Op \in MainOps
      /\ Timer \in Created => thread[Timer] = "RUN"
  BY <1>1, Elsewhere
<1>3. CASE Timer \in Created
  <2>1. Threads /\ NextOp
    BY <1>3 DEF TimerRun, Threads, Control, Starter, Created
  <2> QED
    BY <1>2, <1>3, <2>1, NextOpControl
<1>4. CASE Timer \notin Created
  <2>1. /\ MakeThread(Timer) /\ at' = "start"
        /\ UNCHANGED <<script, step, thread, asked, fired>>
    BY <1>4 DEF TimerRun
  <2>2. Timer \in All
    BY DEF All
  <2>3. DOMAIN pid' = All /\ IsFiniteSet(Created') /\ Timer \in Created'
    BY <2>1, <2>2, MakeThreadControl
  <2>4. Starter'
    BY <2>1, <2>3 DEF Control, Starter
  <2>6. StartsOne'
    BY <1>2, <2>1, <2>3 DEF StartsOne, Op
  <2>7. FirstTimer'
    BY <1>2, <1>4, <2>1 DEF Control, FirstTimer, MainAt, Op
  <2>8. RunFirst'
    BY <2>1 DEF Control, RunFirst, MainAt
  <2> QED
    BY <2>4, <2>6, <2>7, <2>8 DEF Control
<1> QED
  BY <1>3, <1>4

(* start() makes a thread, of the timer server or of one of the others.    *)
LEMMA StartThreadControl ==
  ASSUME Typing, Control, StartThread
  PROVE  Control'
<1>1. PICK s \in Starting :
        thread' = [thread EXCEPT ![s] = IF @ = "none" THEN "START" ELSE @]
  BY DEF StartThread
<1>2. /\ at = "start" /\ at' = "poll"
      /\ UNCHANGED <<script, step, pid, asked, fired>>
  BY DEF StartThread, poolVars
<1>3. /\ step <= Len(script.main) /\ Op.op \in {"timer", "run"}
      /\ Op.op = "timer" => Timer \in Created
  BY <1>2 DEF Control, StartsOne
<1>4. thread \in [All -> {"none", "START", "RUN"}] /\ Timer \in All
  BY DEF Control, Starter, All
<1>5. /\ thread' \in [All -> {"none", "START", "RUN"}]
      /\ \A t \in All : t # s => thread'[t] = thread[t]
      /\ \A t \in All : thread[t] = "RUN" => thread'[t] = "RUN"
      /\ \A t \in All : thread'[t] = "RUN" => thread[t] = "RUN"
  BY <1>1, <1>4
<1>6. Starter'
  BY <1>2, <1>5 DEF Control, Starter, Created
<1>7. StartsOne'
  BY <1>2, <1>3 DEF StartsOne, Op, Created
<1>8. FirstTimer'
  BY <1>2, <1>4, <1>5 DEF Control, FirstTimer, MainAt, Op, Created
<1>9. RunFirst'
  <2>1. CASE Op.op = "timer"
    <3>1. s = Timer
      BY <1>1, <1>2, <1>3, <2>1 DEF Starting, Doing
    <3>2. \A t \in Names : thread'[t] = thread[t]
      BY <1>5, <3>1, TimerApart DEF All
    <3> QED
      BY <1>2, <3>2 DEF Control, RunFirst, MainAt
  <2>2. CASE Op.op = "run"
    <3>1. step \in 1 .. step /\ MainAt(step, "run")
      BY <2>2 DEF Control, Starter, MainAt, Op
    <3> QED
      BY <1>2, <1>3, <3>1 DEF RunFirst, MainAt
  <2> QED
    BY <1>3, <2>1, <2>2
<1> QED
  BY <1>6, <1>7, <1>8, <1>9 DEF Control

(* start() returns when the thread runs, and not before.                   *)
LEMMA StartPollsControl ==
  ASSUME Typing, Control, StartPolls
  PROVE  Control'
<1>1. /\ at = "poll" /\ Polled
      /\ UNCHANGED <<script, thread, pid, asked, fired>>
  BY DEF StartPolls, poolVars
<1>2. Threads
  BY <1>1 DEF Threads, Control, Starter, Created
<1>3. /\ step <= Len(script.main) /\ Op.op \in {"timer", "run"}
      /\ Op.op = "timer" => Timer \in Created
  BY <1>1 DEF Control, StartsOne
<1>4. CASE Op.op = "timer"
  <2>1. Starting = {Timer}
    BY <1>1, <1>3, <1>4 DEF Starting, Doing
  <2>2. thread[Timer] = "RUN" /\ NextOp
    BY <1>1, <1>4, <2>1 DEF Polled, StartPolls
  <2> QED
    BY <1>2, <1>3, <2>2, NextOpControl
<1>5. CASE Op.op = "run"
  <2>1. at' = "start" /\ UNCHANGED step
    BY <1>5 DEF StartPolls
  <2>2. Timer \in Created => thread[Timer] = "RUN"
    BY <1>5 DEF Control, FirstTimer
  <2>3. StartsOne'
    BY <1>1, <1>3, <1>5, <2>1 DEF StartsOne, Op
  <2> QED
    BY <1>2, <2>1, <2>2, <2>3, StayControl
<1> QED
  BY <1>3, <1>4, <1>5

(* The other operations of main.                                           *)
LEMMA MainControl ==
  ASSUME Typing, Control, Main
  PROVE  Control'
<1> DEFINE Same == UNCHANGED <<script, thread, pid, asked, fired>>
<1>1. Same => Threads
  BY DEF Threads, Control, Starter, Created
<1>2. ASSUME NEW op, NEW a, Doing(op, a), op # "timer", Same, NextOp
      PROVE  Control'
  <2>1. /\ step <= Len(script.main) /\ Op.op = op
        /\ Timer \in Created => thread[Timer] = "RUN"
    BY <1>2, Elsewhere
  <2> QED
    BY <1>1, <1>2, <2>1, NextOpControl
<1>3. ASSUME NEW op, NEW a, Doing(op, a), op # "timer", Same, UNCHANGED step,
             at' \in {"start", "poll"} => op = "run"
      PROVE  Control'
  <2>1. /\ step <= Len(script.main) /\ Op.op = op
        /\ Timer \in Created => thread[Timer] = "RUN"
    BY <1>3, Elsewhere
  <2>2. StartsOne'
    BY <1>3, <2>1 DEF StartsOne, Op
  <2> QED
    BY <1>1, <1>3, <2>1, <2>2, StayControl
<1>4. CASE AppStart
  <2>1. Doing("app", "begin") /\ Same /\ NextOp
    BY <1>4 DEF AppStart, poolVars
  <2> QED
    BY <1>2, <2>1
<1>5. CASE RegisterServer
  <2>1. Doing("register", "begin") /\ Same /\ NextOp
    BY <1>5 DEF RegisterServer
  <2> QED
    BY <1>2, <2>1
<1>6. CASE StartServerLocks
  <2>1. Doing("server", "begin") /\ Same /\ UNCHANGED step /\ at' = "locked"
    BY <1>6 DEF StartServerLocks, poolVars
  <2> QED
    BY <1>3, <2>1
<1>7. CASE StartServerInserts
  <2>1. Doing("server", "locked") /\ Same /\ UNCHANGED step /\ at' = "init"
    BY <1>7 DEF StartServerInserts
  <2> QED
    BY <1>3, <2>1
<1>8. CASE StartServerFails
  <2>1. Doing("server", "locked") /\ Same /\ NextOp
    BY <1>8 DEF StartServerFails, poolVars
  <2> QED
    BY <1>2, <2>1
<1>9. CASE InitServer
  BY <1>9, InitServerControl
<1>10. CASE TimerRun
  BY <1>10, TimerRunControl
<1>11. CASE OnInit
  <2>1. /\ Doing("run", "begin") /\ Same /\ UNCHANGED step
    BY <1>11 DEF OnInit
  <2> QED
    BY <1>3, <2>1
<1>12. CASE StartThread
  BY <1>12, StartThreadControl
<1>13. CASE StartPolls
  BY <1>13, StartPollsControl
<1>14. CASE RunEnds
  <2>1. Doing("run", "start") /\ Same /\ NextOp
    BY <1>14 DEF RunEnds, poolVars
  <2> QED
    BY <1>2, <2>1
<1> QED
  BY <1>4, <1>5, <1>6, <1>7, <1>8, <1>9, <1>10, <1>11, <1>12, <1>13, <1>14
     DEF Main

(* A thread comes to RUN; and all else does not concern main.              *)
LEMMA ThreadRunsControl ==
  ASSUME Typing, Control, NEW s \in All, ThreadRuns(s)
  PROVE  Control'
<1>1. /\ thread[s] = "START" /\ thread' = [thread EXCEPT ![s] = "RUN"]
      /\ UNCHANGED <<script, step, at, pid, asked, fired>>
  BY DEF ThreadRuns, mainVars, poolVars
<1>2. thread \in [All -> {"none", "START", "RUN"}] /\ Timer \in All
  BY DEF Control, Starter, All
<1>3. /\ thread' \in [All -> {"none", "START", "RUN"}]
      /\ \A t \in All : thread'[t] # "none" => thread[t] # "none"
      /\ \A t \in All : thread'[t] # "RUN" => thread[t] # "RUN"
  BY <1>1, <1>2
<1>4. Starter'
  BY <1>1, <1>3 DEF Control, Starter, Created
<1>5. StartsOne'
  BY <1>1 DEF Control, StartsOne, Op, Created
<1>6. FirstTimer'
  BY <1>1, <1>2, <1>3 DEF Control, FirstTimer, MainAt, Op, Created
<1>7. RunFirst'
  BY <1>1, <1>3 DEF Control, RunFirst, MainAt, All
<1> QED
  BY <1>4, <1>5, <1>6, <1>7 DEF Control

LEMMA OtherControl ==
  ASSUME Control, UNCHANGED <<script, step, at, thread, pid>>,
         asked' \in [Names -> Nat], fired' \in [Names -> Nat]
  PROVE  Control'
<1>1. Starter'
  BY DEF Control, Starter, Created
<1>2. StartsOne'
  BY DEF Control, StartsOne, Op, Created
<1>3. FirstTimer'
  BY DEF Control, FirstTimer, MainAt, Op, Created
<1>4. RunFirst'
  BY DEF Control, RunFirst, MainAt
<1> QED
  BY <1>1, <1>2, <1>3, <1>4 DEF Control

-----------------------------------------------------------------------------
Mail == Alive /\ Owed /\ Tally
\* Who runs goes on running.
RunsOn == \A t \in All : thread[t] = "RUN" => thread'[t] = "RUN"

(* What a Send() of m to t does to the messages of the mailbox of r, and   *)
(* to their number.                                                        *)
Gets(r, t, m) ==
  /\ \A S : /\ Hits(inbox[r], S) \in Nat
            /\ r = t /\ thread[t] = "RUN" /\ m \in S =>
                 Hits(inbox'[r], S) = Hits(inbox[r], S) + 1
            /\ r # t \/ m \notin S => Hits(inbox'[r], S) = Hits(inbox[r], S)
  /\ \A i \in 1 .. Len(inbox'[r]) :
       \/ i \in 1 .. Len(inbox[r]) /\ inbox'[r][i] = inbox[r][i]
       \/ r = t /\ inbox'[r][i] = m
  /\ inbox'[r] # <<>> => inbox[r] # <<>> \/ (r = t /\ thread[t] = "RUN")
LEMMA SendTimers ==
  ASSUME Typing, NEW s, NEW t, NEW kind, NEW time, Send(s, t, kind, time),
         NEW m \in Messages, m = [kind |-> kind, from |-> s, time |-> time]
  PROVE  \A r \in All : Gets(r, t, m)
<1> SUFFICES ASSUME NEW r \in All PROVE Gets(r, t, m)
  OBVIOUS
<1>1. inbox \in [All -> Seq(Messages)] /\ inbox[r] \in Seq(Messages)
  BY DEF Typing
<1>2. \A S : /\ Hits(inbox[r], S) \in Nat
             /\ m \in S => Hits(Append(inbox[r], m), S) = Hits(inbox[r], S) + 1
             /\ m \notin S => Hits(Append(inbox[r], m), S) = Hits(inbox[r], S)
  BY <1>1, HitsAppend
<1>3. \A i \in 1 .. Len(Append(inbox[r], m)) :
        \/ i \in 1 .. Len(inbox[r]) /\ Append(inbox[r], m)[i] = inbox[r][i]
        \/ Append(inbox[r], m)[i] = m
  BY <1>1
<1>4. CASE thread[t] = "RUN"
  <2>1. inbox' = [inbox EXCEPT ![t] = Append(@, m)]
    BY <1>4 DEF Send, Accepts
  <2>2. CASE r = t
    <3>1. inbox'[r] = Append(inbox[r], m)
      BY <1>1, <2>1, <2>2
    <3> QED
      BY <1>2, <1>3, <1>4, <2>2, <3>1 DEF Gets
  <2>3. CASE r # t
    <3>1. inbox'[r] = inbox[r]
      BY <1>1, <2>1, <2>3
    <3> QED
      BY <1>2, <2>3, <3>1 DEF Gets
  <2> QED
    BY <2>2, <2>3
<1>5. CASE thread[t] # "RUN"
  <2>1. inbox' = inbox
    BY <1>5 DEF Send, Accepts
  <2> QED
    BY <1>2, <1>5, <2>1 DEF Gets
<1> QED
  BY <1>4, <1>5

(* A step that leaves the timers of every server as many as they were.     *)
LEMMA SameTally ==
  ASSUME Tally, UNCHANGED <<events, asked, fired>>,
         \A r \in Names :
           /\ Hits(inbox'[Timer], Asking(r)) = Hits(inbox[Timer], Asking(r))
           /\ Hits(inbox'[r], Back) = Hits(inbox[r], Back)
  PROVE  Tally'
BY DEF Tally, Total

(* A step that has nothing to do with mailboxes, duties and timers.        *)
LEMMA SameTimers ==
  ASSUME Mail, RunsOn, UNCHANGED <<duty, inbox, events, asked, fired>>
  PROVE  Mail'
<1>1. \A r : Runs(r) => Runs(r)'
  BY DEF Runs, RunsOn, All
<1>2. Alive' /\ Owed'
  BY <1>1 DEF Mail, Alive, Owed, RunsOn, All
<1>3. Tally'
  BY SameTally DEF Mail
<1> QED
  BY <1>2, <1>3 DEF Mail

(* A step of a server that posts at most a message that is no timer, or    *)
(* goes on in its handler.                                                 *)
LEMMA SmallStep ==
  ASSUME Typing, Mail, RunsOn, UNCHANGED <<events, asked, fired>>,
         \A r \in All : duty'[r] # <<>> => duty[r] # <<>>,
         \/ UNCHANGED inbox
         \/ \E s \in All : \E t : \E kind \in {"ask", "answer", "socket"} :
              Send(s, t, kind, 0)
  PROVE  Mail'
<1>1. CASE UNCHANGED inbox
  <2>1. \A r : Runs(r) => Runs(r)'
    BY DEF Runs, RunsOn, All
  <2>2. Alive' /\ Owed'
    BY <1>1, <2>1 DEF Mail, Alive, Owed, RunsOn, All
  <2>3. Tally'
    BY <1>1, SameTally DEF Mail
  <2> QED
    BY <2>2, <2>3 DEF Mail
<1>2. ASSUME NEW s \in All, NEW t, NEW kind \in {"ask", "answer", "socket"},
             Send(s, t, kind, 0)
      PROVE  Mail'
  <2> DEFINE m == [kind |-> kind, from |-> s, time |-> 0]
  <2>1. m \in Messages /\ m.kind # "timer"
    BY DEF Messages
  <2> HIDE DEF m
  <2>0. m = [kind |-> kind, from |-> s, time |-> 0]
    BY DEF m
  <2>9. \A r \in All : Gets(r, t, m)
    BY <1>2, <2>0, <2>1, SendTimers
  <2>2. \A r \in All :
          /\ \A S : m \notin S => Hits(inbox'[r], S) = Hits(inbox[r], S)
          /\ \A i \in 1 .. Len(inbox'[r]) :
               \/ i \in 1 .. Len(inbox[r]) /\ inbox'[r][i] = inbox[r][i]
               \/ inbox'[r][i] = m
          /\ inbox'[r] # <<>> => inbox[r] # <<>> \/ thread[r] = "RUN"
    BY <2>9 DEF Gets
  <2>3. m \notin Back /\ \A r : m \notin Asking(r)
    BY <2>1 DEF Back, Asking
  <2>4. Timer \in All /\ Names \subseteq All
    BY DEF All
  <2>5. Tally'
    BY <2>2, <2>3, <2>4, SameTally DEF Mail
  <2>6. Alive'
    <3>1. duty'[Timer] = <<>>
      BY <2>4 DEF Mail, Alive
    <3> QED
      BY <2>2, <2>4, <3>1 DEF Mail, Alive, RunsOn
  <2>7. Owed'
    <3>1. \A r : Runs(r) => Runs(r)'
      BY <2>4 DEF Runs, RunsOn
    <3>2. \A i \in 1 .. Len(inbox'[Timer]) :
            inbox'[Timer][i].kind = "timer" => Runs(inbox'[Timer][i].from)
      BY <2>1, <2>2, <2>4 DEF Mail, Owed
    <3> QED
      BY <3>1, <3>2 DEF Mail, Owed
  <2> QED
    BY <2>5, <2>6, <2>7 DEF Mail
<1> QED
  BY <1>1, <1>2

(* What Done() leaves of the duties.                                       *)
LEMMA DoneLess ==
  ASSUME Typing, NEW s \in All, duty[s] # <<>>, Done(s)
  PROVE  \A r \in All : duty'[r] # <<>> => duty[r] # <<>>
BY DEF Typing, Done

(* The steps of main().                                                    *)
LEMMA MainMail ==
  ASSUME Mail, Starter, Main
  PROVE  Mail'
<1>1. thread \in [All -> {"none", "START", "RUN"}]
  BY DEF Starter
<1>2. UNCHANGED <<duty, inbox, events, asked, fired>> /\ (UNCHANGED thread \/ StartThread)
  <2> USE DEF timerVars
  <2>1. CASE AppStart
    BY <2>1 DEF AppStart
  <2>2. CASE RegisterServer
    BY <2>2 DEF RegisterServer
  <2>3. CASE StartServerLocks
    BY <2>3 DEF StartServerLocks
  <2>4. CASE StartServerInserts
    BY <2>4 DEF StartServerInserts
  <2>5. CASE StartServerFails
    BY <2>5 DEF StartServerFails
  <2>6. CASE InitServer
    BY <2>6 DEF InitServer
  <2>7. CASE TimerRun
    BY <2>7 DEF TimerRun
  <2>8. CASE OnInit
    BY <2>8 DEF OnInit
  <2>9. CASE StartThread
    BY <2>9 DEF StartThread
  <2>10. CASE StartPolls
    BY <2>10 DEF StartPolls
  <2>11. CASE RunEnds
    BY <2>11 DEF RunEnds
  <2> QED
    BY <2>1, <2>2, <2>3, <2>4, <2>5, <2>6, <2>7, <2>8, <2>9, <2>10, <2>11 DEF Main
<1>3. StartThread => RunsOn
  BY <1>1 DEF StartThread, RunsOn
<1> QED
  BY <1>2, <1>3, SameTimers DEF RunsOn

(* A thread that comes to RUN may have something to do.                    *)
LEMMA ThreadRunsMail ==
  ASSUME Typing, Mail, Starter, NEW s \in All, ThreadRuns(s)
  PROVE  Mail'
<1>1. /\ thread' = [thread EXCEPT ![s] = "RUN"]
      /\ UNCHANGED <<events, asked, fired>>
  BY DEF ThreadRuns, timerVars
<1>2. thread \in [All -> {"none", "START", "RUN"}]
  BY DEF Starter
<1>3. RunsOn /\ thread'[s] = "RUN"
  BY <1>1, <1>2 DEF RunsOn
<1>4. Timer \in All /\ Names \subseteq All
  BY DEF All
<1>5. \A r : Runs(r) => Runs(r)'
  BY <1>3, <1>4 DEF Runs, RunsOn
<1>6. CASE s = Timer
  <2> DEFINE m == [kind |-> "loop", from |-> s, time |-> 0]
  <2>1. inbox' = [inbox EXCEPT ![s] = Append(@, m)] /\ UNCHANGED duty
    BY <1>6 DEF ThreadRuns
  <2>2. m \in Messages /\ m.kind # "timer"
    BY DEF Messages
  <2> HIDE DEF m
  <2>3. inbox \in [All -> Seq(Messages)] /\ inbox[Timer] \in Seq(Messages)
    BY <1>4 DEF Typing
  <2>4. /\ inbox'[Timer] = Append(inbox[Timer], m)
        /\ \A r \in Names : inbox'[r] = inbox[r]
    BY <1>4, <1>6, <2>1, <2>3
  <2>5. \A r : m \notin Asking(r)
    BY <2>2 DEF Asking
  <2>6. \A r : Hits(inbox'[Timer], Asking(r)) = Hits(inbox[Timer], Asking(r))
    BY <2>2, <2>3, <2>4, <2>5, HitsAppend
  <2>7. Tally'
    BY <1>1, <2>4, <2>6, SameTally DEF Mail
  <2>8. Alive'
    BY <1>3, <1>4, <2>1, <2>4 DEF Mail, Alive, RunsOn
  <2>9. \A i \in 1 .. Len(inbox'[Timer]) :
          inbox'[Timer][i].kind = "timer" => Runs(inbox'[Timer][i].from)
    <3>1. \A i \in 1 .. Len(inbox'[Timer]) :
            \/ i \in 1 .. Len(inbox[Timer]) /\ inbox'[Timer][i] = inbox[Timer][i]
            \/ inbox'[Timer][i] = m
      BY <2>3, <2>4
    <3> QED
      BY <2>2, <3>1 DEF Mail, Owed
  <2>10. Owed'
    BY <1>1, <1>5, <2>9 DEF Mail, Owed
  <2> QED
    BY <2>7, <2>8, <2>10 DEF Mail
<1>7. CASE s # Timer
  <2>1. UNCHANGED inbox /\ duty' = [duty EXCEPT ![s] = script.onStart[s]]
    BY <1>7 DEF ThreadRuns
  <2>2. \A r \in All : r # s => duty'[r] = duty[r]
    BY <2>1 DEF Typing
  <2>3. Alive'
    BY <1>3, <1>4, <1>7, <2>1, <2>2 DEF Mail, Alive, RunsOn
  <2>4. Owed'
    BY <1>1, <1>5, <2>1 DEF Mail, Owed
  <2>5. Tally'
    BY <1>1, <2>1, SameTally DEF Mail
  <2> QED
    BY <2>3, <2>4, <2>5 DEF Mail
<1> QED
  BY <1>6, <1>7

(* The steps of a handler that have to do with no timer.                   *)
LEMMA HandlerMail ==
  ASSUME Typing, Mail, NEW s \in All, 
         Lookup(s) \/ SendMsgProto(s) \/ Listen(s) \/ SocketFunc(s)
  PROVE  Mail'
<1>1. CASE Lookup(s)
  <2>1. /\ UNCHANGED <<inbox, events, asked, fired, thread>>
        /\ duty[s] # <<>> /\ (UNCHANGED duty \/ Done(s))
    BY <1>1 DEF Lookup, Has, timerVars
  <2> QED
    BY <2>1, DoneLess, SmallStep DEF RunsOn
<1>2. CASE SendMsgProto(s)
  <2>1. /\ UNCHANGED <<events, asked, fired, thread>> /\ duty[s] # <<>> /\ Done(s)
        /\ Head(duty[s]).op \in {"ask", "answer"}
        /\ Send(s, Head(duty[s]).to, Head(duty[s]).op, 0)
    BY <1>2 DEF SendMsgProto, Has, timerVars
  <2>2. \E t : \E kind \in {"ask", "answer", "socket"} : Send(s, t, kind, 0)
    <3> DEFINE t == Head(duty[s]).to
               kind == Head(duty[s]).op
    <3>1. kind \in {"ask", "answer", "socket"} /\ Send(s, t, kind, 0)
      BY <2>1
    <3> HIDE DEF t, kind
    <3> QED
      BY <3>1
  <2> QED
    BY <2>1, <2>2, DoneLess, SmallStep DEF RunsOn
<1>3. CASE Listen(s)
  <2>1. /\ UNCHANGED <<inbox, events, asked, fired, thread>>
        /\ duty[s] # <<>> /\ Done(s)
    BY <1>3 DEF Listen, Has, timerVars
  <2> QED
    BY <2>1, DoneLess, SmallStep DEF RunsOn
<1>4. CASE SocketFunc(s)
  <2>1. UNCHANGED <<events, asked, fired, thread, duty>> /\ Send(s, s, "socket", 0)
    BY <1>4 DEF SocketFunc, timerVars
  <2>2. \E t : \E kind \in {"ask", "answer", "socket"} : Send(s, t, kind, 0)
    BY <2>1
  <2> QED
    BY <2>1, <2>2, SmallStep DEF RunsOn
<1> QED
  BY <1>1, <1>2, <1>3, <1>4

(* The timer server runs when a server asks it for a timer, if it has its  *)
(* pid: main would not have come to start that server otherwise.           *)
LEMMA TimerIsUp ==
  ASSUME OrderedScripts, Typing, Control, NEW s \in Names, thread[s] # "none",
         Timer \in Created
  PROVE  thread[Timer] = "RUN"
<1> SUFFICES ASSUME thread[Timer] # "RUN" PROVE FALSE
  OBVIOUS
<1>1. at \in {"start", "poll"} /\ Op.op = "timer"
  BY DEF Control, FirstTimer
<1>2. step \in 1 .. Len(script.main)
  BY <1>1, OpTyped DEF Control, StartsOne
<1>3. PICK i \in 1 .. step : i <= Len(script.main) /\ script.main[i].op = "run"
  BY DEF Control, RunFirst, MainAt
<1>4. script.main[step].op = "timer"
  BY <1>1 DEF Op
<1>5. i # step
  BY <1>3, <1>4
<1>6. Len(script.main) \in Nat
  BY ScriptsType DEF Typing
<1>7. i \in 1 .. Len(script.main) /\ i < step
  BY <1>2, <1>3, <1>5, <1>6
<1>8. PICK h \in 1 .. i - 1 : script.main[h].op = "timer"
  BY <1>2, <1>3, <1>4, <1>7 DEF OrderedScripts, Typing
<1>9. h \in 1 .. step - 1 /\ h <= Len(script.main)
  BY <1>2, <1>6, <1>7
<1> QED
  BY <1>8, <1>9 DEF Control, FirstTimer, MainAt

(* A timer that is asked for is on its way to the timer server.            *)
LEMMA StartTimeKept ==
  ASSUME OrderedScripts, Typing, Control, Mail, NEW s \in All, StartTime(s)
  PROVE  Control' /\ Mail'
<1>1. /\ duty[s] # <<>> /\ Done(s)
      /\ UNCHANGED <<script, step, at, thread, pid, events, fired>>
  BY DEF StartTime, Has, mainVars, poolVars, timerVars
<1>2. s \in Names /\ s # Timer /\ thread[s] = "RUN"
  BY <1>1, TimerApart DEF Mail, Alive, All
<1>3. \A r \in All : duty'[r] # <<>> => duty[r] # <<>>
  BY <1>1, DoneLess
<1>4. asked \in [Names -> Nat] /\ fired \in [Names -> Nat]
  BY DEF Control, Starter
<1>5. Timer \in All /\ Names \subseteq All
  BY DEF All
<1>6. CASE Timer \notin Created
  <2>1. UNCHANGED <<inbox, asked>>
    BY <1>6 DEF StartTime
  <2> QED
    BY <1>1, <1>3, <1>4, <2>1, OtherControl, SmallStep DEF RunsOn
<1>7. CASE Timer \in Created
  <2> DEFINE d == Head(duty[s])
  <2>1. PICK k \in Deadline(d) : Send(s, Timer, "timer", k)
    BY <1>7 DEF StartTime
  <2>2. asked' = [asked EXCEPT ![s] = @ + 1]
    BY <1>7 DEF StartTime
  <2>3. d.op \in {"time", "interval"} /\ d \in Duties
    BY <1>1, DoneTyped DEF StartTime, Has
  <2> HIDE DEF d
  <2>4. d.at \in Nat
    BY <2>3 DEF Duties
  <2>5. k \in Nat
    BY <2>1, <2>4 DEF Deadline, Typing
  <2> DEFINE m == [kind |-> "timer", from |-> s, time |-> k]
  <2>6. m \in Messages /\ m.kind = "timer" /\ m.from = s
    BY <2>5 DEF Messages
  <2>7. thread[Timer] = "RUN"
    BY <1>2, <1>7, TimerIsUp
  <2> HIDE DEF m
  <2>0. m = [kind |-> "timer", from |-> s, time |-> k]
    BY DEF m
  <2>8. \A r \in All :
          /\ \A S : /\ Hits(inbox[r], S) \in Nat
                    /\ r = Timer /\ m \in S =>
                         Hits(inbox'[r], S) = Hits(inbox[r], S) + 1
                    /\ r # Timer \/ m \notin S =>
                         Hits(inbox'[r], S) = Hits(inbox[r], S)
          /\ \A i \in 1 .. Len(inbox'[r]) :
               \/ i \in 1 .. Len(inbox[r]) /\ inbox'[r][i] = inbox[r][i]
               \/ r = Timer /\ inbox'[r][i] = m
          /\ inbox'[r] # <<>> => inbox[r] # <<>> \/ r = Timer
    <3>1. \A r \in All : Gets(r, Timer, m)
      BY <2>0, <2>1, <2>6, SendTimers
    <3> QED
      BY <2>7, <3>1 DEF Gets
  <2>9. asked' \in [Names -> Nat]
    BY <1>2, <1>4, <2>2
  <2>10. Control'
    BY <1>1, <1>4, <2>9, OtherControl
  <2>11. Alive'
    <3>1. duty'[Timer] = <<>>
      BY <1>3, <1>5 DEF Mail, Alive
    <3>2. \A r \in Names : duty'[r] # <<>> \/ inbox'[r] # <<>> => thread[r] = "RUN"
      BY <1>3, <1>5, <2>8, TimerApart DEF Mail, Alive
    <3> QED
      BY <1>1, <3>1, <3>2 DEF Alive
  <2>12. Owed'
    <3>1. Runs(s)
      BY <1>2 DEF Runs
    <3>2. \A i \in 1 .. Len(inbox'[Timer]) :
            inbox'[Timer][i].kind = "timer" => Runs(inbox'[Timer][i].from)
      BY <1>5, <2>6, <2>8, <3>1 DEF Mail, Owed
    <3> QED
      BY <1>1, <3>2 DEF Mail, Owed, Runs
  <2>13. ASSUME NEW r \in Names PROVE asked'[r] = Total(r)'
    <3>1. asked[r] = Total(r) /\ fired[r] \in Nat /\ r # Timer /\ r \in All
      BY <1>4, <1>5, TimerApart DEF Mail, Tally
    <3>2. Hits(inbox'[r], Back) = Hits(inbox[r], Back) /\ Hits(inbox[r], Back) \in Nat
      BY <2>8, <3>1
    <3>3. Hits(events, For(r)) \in Nat
      <4>1. Len(events) \in Nat
        BY DEF Typing
      <4> QED
        BY <4>1, HitsType
    <3>4. m \in Asking(r) <=> r = s
      BY <2>6 DEF Asking
    <3>5. /\ Hits(inbox[Timer], Asking(r)) \in Nat
          /\ r = s => Hits(inbox'[Timer], Asking(r)) = Hits(inbox[Timer], Asking(r)) + 1
          /\ r # s => Hits(inbox'[Timer], Asking(r)) = Hits(inbox[Timer], Asking(r))
      BY <1>5, <2>8, <3>4
    <3>6. asked'[r] = IF r = s THEN asked[r] + 1 ELSE asked[r]
      BY <1>2, <1>4, <2>2
    <3>7. /\ Total(r) = Hits(inbox[Timer], Asking(r)) + Hits(events, For(r))
                        + Hits(inbox[r], Back) + fired[r]
          /\ Total(r)' = Hits(inbox'[Timer], Asking(r)) + Hits(events, For(r))
                         + Hits(inbox'[r], Back) + fired[r]
      BY <1>1 DEF Total
    <3> QED
      BY <3>1, <3>2, <3>3, <3>5, <3>6, <3>7
  <2> QED
    BY <2>10, <2>11, <2>12, <2>13 DEF Mail, Tally
<1> QED
  BY <1>6, <1>7

(* A server takes its first message: if it is a timer, that timer fired.   *)
LEMMA OnMsgKept ==
  ASSUME Typing, Control, Mail, NEW s \in All, OnMsg(s)
  PROVE  Control' /\ Mail'
<1>1. /\ s # Timer /\ inbox[s] # <<>> /\ inbox' = [inbox EXCEPT ![s] = Tail(@)]
      /\ UNCHANGED <<script, step, at, thread, pid, events, asked>>
  BY DEF OnMsg, mainVars, poolVars, timerVars
<1>2. s \in Names /\ thread[s] = "RUN"
  BY <1>1 DEF Mail, Alive, All
<1>3. Timer \in All /\ Names \subseteq All
  BY DEF All
<1>4. asked \in [Names -> Nat] /\ fired \in [Names -> Nat]
  BY DEF Control, Starter
<1>5. inbox \in [All -> Seq(Messages)] /\ inbox[s] \in Seq(Messages)
  BY DEF Typing
<1>6. /\ inbox'[s] = Tail(inbox[s])
      /\ \A r \in All : r # s => inbox'[r] = inbox[r]
  BY <1>1, <1>5
<1> DEFINE m == Head(inbox[s])
<1>7. m \in Messages /\ (m \in Back <=> m.kind = "timer")
  BY <1>1, <1>5 DEF Back
<1>8. fired' = [fired EXCEPT ![s] = IF m.kind = "timer" THEN @ + 1 ELSE @]
  BY DEF OnMsg
<1>9. \A r \in All : r # s => duty'[r] = duty[r]
  BY DEF OnMsg, Typing
<1>10. /\ Hits(inbox[s], Back) \in Nat /\ Hits(inbox'[s], Back) \in Nat
       /\ m \in Back => Hits(inbox[s], Back) = Hits(inbox'[s], Back) + 1
       /\ m \notin Back => Hits(inbox[s], Back) = Hits(inbox'[s], Back)
  BY <1>1, <1>5, <1>6, HitsTail
<1> HIDE DEF m
<1>11. /\ fired' \in [Names -> Nat]
       /\ fired'[s] = IF m.kind = "timer" THEN fired[s] + 1 ELSE fired[s]
       /\ \A r \in Names : r # s => fired'[r] = fired[r]
  BY <1>2, <1>4, <1>8
<1>12. Control'
  BY <1>1, <1>4, <1>11, OtherControl
<1>13. Alive'
  BY <1>1, <1>2, <1>3, <1>6, <1>9 DEF Mail, Alive
<1>14. Owed'
  BY <1>1, <1>3, <1>6 DEF Mail, Owed, Runs
<1>15. ASSUME NEW r \in Names PROVE asked'[r] = Total(r)'
  <2>1. inbox'[Timer] = inbox[Timer]
    BY <1>1, <1>3, <1>6
  <2>2. /\ Hits(inbox[Timer], Asking(r)) \in Nat
        /\ Hits(events, For(r)) \in Nat
    <3>1. Len(events) \in Nat /\ Len(inbox[Timer]) \in Nat
      BY <1>3 DEF Typing
    <3> QED
      BY <3>1, HitsType
  <2>3. /\ asked[r] = Hits(inbox[Timer], Asking(r)) + Hits(events, For(r))
                      + Hits(inbox[r], Back) + fired[r]
        /\ Total(r)' = Hits(inbox[Timer], Asking(r)) + Hits(events, For(r))
                       + Hits(inbox'[r], Back) + fired'[r]
    BY <1>1, <2>1 DEF Mail, Tally, Total
  <2>4. CASE r # s
    <3>1. inbox'[r] = inbox[r] /\ fired'[r] = fired[r]
      BY <1>3, <1>6, <1>11, <2>4
    <3> QED
      BY <1>1, <2>3, <3>1
  <2>5. CASE r = s /\ m.kind = "timer"
    <3>1. Hits(inbox[r], Back) = Hits(inbox'[r], Back) + 1 /\ fired'[r] = fired[r] + 1
      BY <1>7, <1>10, <1>11, <2>5
    <3>2. Hits(inbox'[r], Back) \in Nat /\ fired[r] \in Nat
      BY <1>4, <1>10, <2>5
    <3> QED
      BY <1>1, <2>2, <2>3, <3>1, <3>2
  <2>6. CASE r = s /\ m.kind # "timer"
    <3>1. Hits(inbox[r], Back) = Hits(inbox'[r], Back) /\ fired'[r] = fired[r]
      BY <1>7, <1>10, <1>11, <2>6
    <3> QED
      BY <1>1, <2>3, <3>1
  <2> QED
    BY <2>4, <2>5, <2>6
<1> QED
  BY <1>12, <1>13, <1>14, <1>15 DEF Mail, Tally

(* onTimerProto() makes an event of the message.                           *)
LEMMA OnTimerProtoMail ==
  ASSUME Typing, Control, Mail, OnTimerProto
  PROVE  Mail'
<1> DEFINE q == inbox[Timer]
           m == Head(q)
           e == [time |-> m.time, to |-> m.from]
<1>1. /\ q # <<>> /\ inbox' = [inbox EXCEPT ![Timer] = Tail(@)]
      /\ UNCHANGED <<thread, duty, asked, fired>>
      /\ events' = IF m.kind = "timer" THEN Insert(events, e) ELSE events
  BY DEF OnTimerProto
<1>2. Timer \in All /\ Names \subseteq All
  BY DEF All
<1>3. inbox \in [All -> Seq(Messages)] /\ q \in Seq(Messages) /\ events \in Seq(Event)
  BY <1>2 DEF Typing
<1>4. inbox'[Timer] = Tail(q) /\ \A r \in Names : inbox'[r] = inbox[r]
  BY <1>1, <1>2, <1>3, TimerApart
<1>5. m \in Messages
  BY <1>1, <1>3
<1>6. e \in Event /\ e.to = m.from
  BY <1>5 DEF Messages, Event
<1>7. /\ Len(Tail(q)) \in Nat
      /\ \A i \in 1 .. Len(Tail(q)) : i + 1 \in 1 .. Len(q) /\ Tail(q)[i] = q[i + 1]
      /\ 1 \in 1 .. Len(q) /\ q[1] = m
  BY <1>1, <1>3
<1>8. m.kind = "timer" => Runs(m.from)
  BY <1>7 DEF Mail, Owed
<1>9. \A r : /\ Hits(q, Asking(r)) \in Nat /\ Hits(Tail(q), Asking(r)) \in Nat
             /\ m \in Asking(r) => Hits(q, Asking(r)) = Hits(Tail(q), Asking(r)) + 1
             /\ m \notin Asking(r) => Hits(q, Asking(r)) = Hits(Tail(q), Asking(r))
  BY <1>1, <1>3, HitsTail
<1>10. Len(events) \in Nat /\ \A r : Hits(events, For(r)) \in Nat
  <2>1. Len(events) \in Nat
    BY <1>3
  <2> QED
    BY <2>1, HitsType
<1> HIDE DEF e, m, q
<1>11. Alive'
  BY <1>1, <1>4 DEF Mail, Alive
<1>12. \A i \in 1 .. Len(inbox'[Timer]) :
         inbox'[Timer][i].kind = "timer" => Runs(inbox'[Timer][i].from)
  BY <1>4, <1>7 DEF Mail, Owed, q
<1>13. \A r \in Names :
         /\ asked[r] = Hits(q, Asking(r)) + Hits(events, For(r))
                       + Hits(inbox[r], Back) + fired[r]
         /\ Total(r)' = Hits(Tail(q), Asking(r)) + Hits(events', For(r))
                        + Hits(inbox[r], Back) + fired[r]
  BY <1>1, <1>4 DEF Mail, Tally, Total, q
<1>14. CASE m.kind # "timer"
  <2>1. events' = events
    BY <1>1, <1>14
  <2>2. Owed'
    BY <1>1, <1>12, <2>1 DEF Mail, Owed, Runs
  <2>3. \A r : m \notin Asking(r)
    BY <1>14 DEF Asking
  <2>4. Tally'
    BY <1>1, <1>9, <1>13, <2>1, <2>3 DEF Tally
  <2> QED
    BY <1>11, <2>2, <2>4 DEF Mail
<1>15. CASE m.kind = "timer"
  <2>1. PICK k \in 1 .. Len(events) + 1 : Put(events, events', k, e)
    BY <1>1, <1>3, <1>6, <1>15, InsertPuts
  <2>2. \A i \in 1 .. Len(events') :
          \/ i \in 1 .. Len(events) /\ events'[i] = events[i]
          \/ events'[i] = e
          \/ i - 1 \in 1 .. Len(events) /\ events'[i] = events[i - 1]
    <3> SUFFICES ASSUME NEW i \in 1 .. Len(events')
                 PROVE  \/ i \in 1 .. Len(events) /\ events'[i] = events[i]
                        \/ events'[i] = e
                        \/ i - 1 \in 1 .. Len(events) /\ events'[i] = events[i - 1]
      OBVIOUS
    <3>1. i \in 1 .. Len(events) + 1
      BY <2>1 DEF Put
    <3>2. CASE i < k
      BY <1>10, <2>1, <3>1, <3>2 DEF Put
    <3>3. CASE i = k
      BY <2>1, <3>3 DEF Put
    <3>4. CASE i > k
      <4>1. i - 1 \in k .. Len(events) /\ (i - 1) + 1 = i
        BY <1>10, <2>1, <3>1, <3>4
      <4>2. events'[(i - 1) + 1] = events[i - 1]
        BY <2>1, <4>1 DEF Put
      <4> QED
        BY <1>10, <2>1, <4>1, <4>2
    <3> QED
      BY <1>10, <2>1, <3>1, <3>2, <3>3, <3>4
  <2>3. \A i \in 1 .. Len(events') : Runs(events'[i].to)
    BY <1>6, <1>8, <1>15, <2>2 DEF Mail, Owed
  <2>4. Owed'
    BY <1>1, <1>12, <2>3 DEF Owed, Runs
  <2>5. ASSUME NEW r \in Names PROVE asked'[r] = Total(r)'
    <3>1. (m \in Asking(r) <=> m.from = r) /\ (e \in For(r) <=> m.from = r)
      BY <1>5, <1>6, <1>15 DEF Asking, For
    <3>2. /\ e \in For(r) => Hits(events', For(r)) = Hits(events, For(r)) + 1
          /\ e \notin For(r) => Hits(events', For(r)) = Hits(events, For(r))
      BY <1>10, <2>1, HitsPut
    <3>3. CASE m.from = r
      <4>1. /\ Hits(q, Asking(r)) = Hits(Tail(q), Asking(r)) + 1
            /\ Hits(events', For(r)) = Hits(events, For(r)) + 1
        BY <1>9, <3>1, <3>2, <3>3
      <4>2. Hits(Tail(q), Asking(r)) \in Nat /\ Hits(events, For(r)) \in Nat
        BY <1>9, <1>10
      <4> DEFINE a == Hits(q, Asking(r))
                 b == Hits(Tail(q), Asking(r))
                 c == Hits(events, For(r))
                 d == Hits(events', For(r))
      <4>3. a + c = b + d
        <5> HIDE DEF a, b, c, d
        <5> QED
          BY <4>1, <4>2 DEF a, b, c, d
      <4> QED
        BY <1>1, <1>13, <4>3
    <3>4. CASE m.from # r
      <4>1. /\ Hits(q, Asking(r)) = Hits(Tail(q), Asking(r))
            /\ Hits(events', For(r)) = Hits(events, For(r))
        BY <1>9, <3>1, <3>2, <3>4
      <4> QED
        BY <1>1, <1>13, <4>1
    <3> QED
      BY <3>3, <3>4
  <2> QED
    BY <1>11, <2>4, <2>5 DEF Mail, Tally
<1> QED
  BY <1>14, <1>15

(* An event that is due goes back to whoever asked for it, who runs.       *)
LEMMA FireMail ==
  ASSUME Typing, Control, Mail, Fire
  PROVE  Mail'
<1> DEFINE e == Head(events)
           m == [kind |-> "timer", from |-> Timer, time |-> e.time]
<1>1. /\ events # <<>> /\ events' = Tail(events)
      /\ Send(Timer, e.to, "timer", e.time)
      /\ UNCHANGED <<thread, duty, asked, fired>>
  BY DEF Fire, IsDue
<1>2. Timer \in All /\ Names \subseteq All
  BY DEF All
<1>3. events \in Seq(Event) /\ e \in Event
  BY <1>1 DEF Typing
<1>4. /\ Len(Tail(events)) \in Nat
      /\ \A i \in 1 .. Len(Tail(events)) :
           i + 1 \in 1 .. Len(events) /\ Tail(events)[i] = events[i + 1]
      /\ 1 \in 1 .. Len(events) /\ events[1] = e
  BY <1>1, <1>3
<1>5. e.to \in Names /\ thread[e.to] = "RUN"
  BY <1>4 DEF Mail, Owed, Runs
<1>6. \A r : /\ Hits(events, For(r)) \in Nat /\ Hits(Tail(events), For(r)) \in Nat
             /\ e \in For(r) => Hits(events, For(r)) = Hits(Tail(events), For(r)) + 1
             /\ e \notin For(r) => Hits(events, For(r)) = Hits(Tail(events), For(r))
  BY <1>1, <1>3, HitsTail
<1> HIDE DEF e
<1>7. m \in Messages /\ m.from = Timer
  BY <1>2, <1>3 DEF Messages, Event
<1>8. m \in Back
  BY <1>7 DEF Back
<1>9. \A r \in All :
        /\ \A S : /\ Hits(inbox[r], S) \in Nat
                  /\ r = e.to /\ m \in S =>
                       Hits(inbox'[r], S) = Hits(inbox[r], S) + 1
                  /\ r # e.to \/ m \notin S =>
                       Hits(inbox'[r], S) = Hits(inbox[r], S)
        /\ \A i \in 1 .. Len(inbox'[r]) :
             \/ i \in 1 .. Len(inbox[r]) /\ inbox'[r][i] = inbox[r][i]
             \/ r = e.to /\ inbox'[r][i] = m
        /\ inbox'[r] # <<>> => inbox[r] # <<>> \/ r = e.to
  <2>1. \A r \in All : Gets(r, e.to, m)
    <3>1. m = [kind |-> "timer", from |-> Timer, time |-> e.time]
      OBVIOUS
    <3> HIDE DEF m
    <3> QED
      BY <1>1, <1>7, <3>1, SendTimers
  <2> QED
    BY <1>5, <2>1 DEF Gets
<1> HIDE DEF m
<1>10. Timer # e.to
  BY <1>5, TimerApart
<1>11. Alive'
  BY <1>1, <1>2, <1>5, <1>9 DEF Mail, Alive
<1>12. Owed'
  <2>1. \A i \in 1 .. Len(inbox'[Timer]) :
          inbox'[Timer][i].kind = "timer" => Runs(inbox'[Timer][i].from)
    BY <1>2, <1>9, <1>10 DEF Mail, Owed
  <2>2. \A i \in 1 .. Len(events') : Runs(events'[i].to)
    BY <1>1, <1>4 DEF Mail, Owed
  <2> QED
    BY <1>1, <2>1, <2>2 DEF Owed, Runs
<1>13. ASSUME NEW r \in Names PROVE asked'[r] = Total(r)'
  <2>1. Hits(inbox'[Timer], Asking(r)) = Hits(inbox[Timer], Asking(r))
    BY <1>2, <1>9, <1>10
  <2>2. /\ asked[r] = Hits(inbox[Timer], Asking(r)) + Hits(events, For(r))
                      + Hits(inbox[r], Back) + fired[r]
        /\ Total(r)' = Hits(inbox[Timer], Asking(r)) + Hits(Tail(events), For(r))
                       + Hits(inbox'[r], Back) + fired[r]
    BY <1>1, <2>1 DEF Mail, Tally, Total
  <2>3. e \in For(r) <=> r = e.to
    BY <1>3 DEF For
  <2>4. CASE r = e.to
    <3> DEFINE a == Hits(events, For(r))
               b == Hits(Tail(events), For(r))
               c == Hits(inbox[r], Back)
               d == Hits(inbox'[r], Back)
               n == Hits(inbox[Timer], Asking(r))
    <3>1. a = b + 1 /\ d = c + 1 /\ b \in Nat /\ c \in Nat /\ n \in Nat
      BY <1>2, <1>6, <1>8, <1>9, <2>3, <2>4
    <3>2. n + a + c = n + b + d
      <4> HIDE DEF a, b, c, d, n
      <4> QED
        BY <3>1
    <3> QED
      BY <1>1, <2>2, <3>2
  <2>5. CASE r # e.to
    <3>1. /\ Hits(events, For(r)) = Hits(Tail(events), For(r))
          /\ Hits(inbox'[r], Back) = Hits(inbox[r], Back)
      BY <1>2, <1>6, <1>9, <2>3, <2>5
    <3> QED
      BY <1>1, <2>2, <3>1
  <2> QED
    BY <2>4, <2>5
<1> QED
  BY <1>11, <1>12, <1>13 DEF Mail, Tally

(* The program starts with nothing asked for and no thread.                *)
LEMMA InitKept == Init => Kept
<1> SUFFICES ASSUME Init PROVE Kept
  OBVIOUS
<1> USE DEF Init
<1>1. Created = {} /\ Timer \in All /\ Names \subseteq All
  BY DEF Created, All
<1>2. IsFiniteSet(Created)
  BY <1>1, FS_EmptySet
<1>3. Starter
  BY <1>2 DEF Starter
<1>4. StartsOne
  BY DEF StartsOne
<1>5. FirstTimer
  BY <1>1 DEF FirstTimer
<1>6. RunFirst
  BY <1>1 DEF RunFirst
<1>7. Alive
  BY <1>1 DEF Alive
<1>8. Owed
  BY <1>1 DEF Owed
<1>9. Tally
  <2>1. \A q, S : q = <<>> => Hits(q, S) = 0
    <3> SUFFICES ASSUME NEW S PROVE Hits(<<>>, S) = 0
      OBVIOUS
    <3>1. {i \in 1 .. Len(<<>>) : <<>>[i] \in S} = {}
      OBVIOUS
    <3> QED
      BY <3>1, FS_EmptySet DEF Hits
  <2>2. \A s \in Names : /\ inbox[Timer] = <<>> /\ inbox[s] = <<>> /\ events = <<>>
                         /\ asked[s] = 0 /\ fired[s] = 0
    BY <1>1
  <2>3. \A s \in Names : /\ Hits(inbox[Timer], Asking(s)) = 0
                         /\ Hits(events, For(s)) = 0
                         /\ Hits(inbox[s], Back) = 0
    BY <2>1, <2>2
  <2> QED
    BY <2>2, <2>3 DEF Tally, Total
<1> QED
  BY <1>3, <1>4, <1>5, <1>6, <1>7, <1>8, <1>9 DEF Kept

LEMMA NextKept ==
  ASSUME OrderedScripts, IInv, Kept, [Next]_vars
  PROVE  Kept'
<1> SUFFICES Control' /\ Mail'
  BY DEF Kept, Control, Mail
<1>1. Typing /\ Control /\ Mail /\ Starter
  BY DEF IInv, Kept, Control, Mail
<1>2. asked \in [Names -> Nat] /\ fired \in [Names -> Nat]
  BY <1>1 DEF Starter
<1>3. CASE Main
  BY <1>1, <1>3, MainControl, MainMail
<1>4. ASSUME NEW s \in All, ThreadRuns(s) PROVE Control' /\ Mail'
  BY <1>1, <1>4, ThreadRunsControl, ThreadRunsMail
<1>5. ASSUME NEW s \in All, Lookup(s) \/ SendMsgProto(s) \/ Listen(s) \/ SocketFunc(s)
      PROVE  Control' /\ Mail'
  <2>1. UNCHANGED <<script, step, at, thread, pid, asked, fired>>
    BY <1>5 DEF Lookup, SendMsgProto, Listen, SocketFunc, mainVars, poolVars
  <2> QED
    BY <1>1, <1>2, <1>5, <2>1, OtherControl, HandlerMail
<1>6. ASSUME NEW s \in All, StartTime(s) PROVE Control' /\ Mail'
  BY <1>1, <1>6, StartTimeKept
<1>7. ASSUME NEW s \in All, OnMsg(s) PROVE Control' /\ Mail'
  BY <1>1, <1>7, OnMsgKept
<1>8. CASE OnTimerProto
  <2>1. UNCHANGED <<script, step, at, thread, pid, asked, fired>>
    BY <1>8 DEF OnTimerProto, mainVars, poolVars
  <2> QED
    BY <1>1, <1>2, <1>8, <2>1, OtherControl, OnTimerProtoMail
<1>9. CASE Fire
  <2>1. UNCHANGED <<script, step, at, thread, pid, asked, fired>>
    BY <1>9 DEF Fire, mainVars, poolVars
  <2> QED
    BY <1>1, <1>2, <1>9, <2>1, OtherControl, FireMail
<1>10. CASE TimeLoop \/ GoToSleep \/ WakeUp \/ Tick \/ GetServers \/ UNCHANGED vars
  <2>1. /\ UNCHANGED <<script, step, at, thread, pid, asked, fired>>
        /\ UNCHANGED <<duty, inbox, events>>
    BY <1>10 DEF TimeLoop, GoToSleep, WakeUp, Tick, GetServers, vars, mainVars,
                 poolVars, timerVars
  <2> QED
    BY <1>1, <1>2, <2>1, OtherControl, SameTimers DEF RunsOn
<1> QED
  BY <1>3, <1>4, <1>5, <1>6, <1>7, <1>8, <1>9, <1>10 DEF Next, Server, TimerServer

(* The numbers of the invariant are those of the property.                 *)
LEMMA TallyAccounts == Typing /\ Tally => TimersAccounted
<1> SUFFICES ASSUME Typing, Tally, NEW s \in Names PROVE asked[s] = TimersOf(s)
  BY DEF TimersAccounted
<1>1. /\ inbox[Timer] \in Seq(Messages) /\ inbox[s] \in Seq(Messages)
      /\ events \in Seq(Event)
  BY DEF Typing, All
<1>2. {i \in 1 .. Len(inbox[Timer]) : inbox[Timer][i] \in Asking(s)}
      = {i \in 1 .. Len(inbox[Timer]) :
           inbox[Timer][i].from = s /\ inbox[Timer][i].kind = "timer"}
  BY <1>1 DEF Asking
<1>3. {i \in 1 .. Len(events) : events[i] \in For(s)}
      = {i \in 1 .. Len(events) : events[i].to = s}
  BY <1>1 DEF For
<1>4. {i \in 1 .. Len(inbox[s]) : inbox[s][i] \in Back}
      = {i \in 1 .. Len(inbox[s]) : inbox[s][i].kind = "timer"}
  BY <1>1 DEF Back
<1> QED
  BY <1>2, <1>3, <1>4 DEF Tally, Total, TimersOf, Hits

(* No timer is lost or fires twice: of those a server has asked for each   *)
(* is on its way to the timer server, in mapTimerEvent_, on its way back,  *)
(* or has fired (openserver.cpp:305-343), in every program that does not   *)
(* start its first timer server after its servers.                         *)
THEOREM AccountedTheorem == OrderedScripts => (Spec => []TimersAccounted)
<1> SUFFICES ASSUME OrderedScripts PROVE Spec => []TimersAccounted
  OBVIOUS
<1>1. Init => IInv /\ Kept
  BY InitInv, InitKept
<1>2. IInv /\ Kept /\ [Next]_vars => (IInv /\ Kept)'
  BY NextInv, NextKept
<1>3. IInv /\ Kept => TimersAccounted
  BY TallyAccounts DEF IInv, Kept
<1> QED
  BY <1>1, <1>2, <1>3, PTL DEF Spec

-----------------------------------------------------------------------------
(* EarlierReachable and InitBeforeStart.  runAllServers() starts the       *)
(* servers in the order of vectServer_ and waits for each (InTurn, Waited) *)
(* so the one that runs, and looks another up, is before the one that does *)
(* not run yet.  It has called the onInit() of all before it starts one    *)
(* (InitSoFar, AllInited), and startServer() has made a thread for each    *)
(* (HasPid).  A program that starts a server after a runAllServers() has   *)
(* one in mapNameServer_ without its onInit(): ServersFirst leaves it out. *)
ServersFirst ==
  \A sc \in Scripts : \A i, j \in 1 .. Len(sc.main) :
     i < j /\ sc.main[i].op = "run" /\ sc.main[j].op = "server" =>
       \A h \in 1 .. j - 1 :
          sc.main[h].op = "register" => sc.main[h].class # sc.main[j].class

Kinds ==
  /\ vect \in Seq(Names) /\ index \in Nat \ {0}
  /\ pid \in [All -> Int] /\ cache \in [All -> SUBSET Names]
  /\ known = Servers
  /\ \A i, j \in 1 .. Len(vect) : vect[i] = vect[j] => i = j
\* who is looked up, and who runs, is in vectServer_
Met ==
  /\ \A s \in All : cache[s] \subseteq known
  /\ \A s \in coming : Runs(s)
  /\ \A s \in Names : thread[s] # "none" => s \in known
InTurn ==
  \A i \in 1 .. Len(vect) : thread[vect[i]] # "none" =>
     \A j \in 1 .. i - 1 : thread[vect[j]] = "RUN"
Starts == step <= Len(script.main) /\ Op.op = "run" /\ at \in {"start", "poll"}
Waited ==
  Starts => \A j \in 1 .. index - 1 : j <= Len(vect) => thread[vect[j]] = "RUN"
Order == Kinds /\ Met /\ InTurn /\ Waited /\ EarlierReachable

Registered ==
  \A c \in classes : \E h \in 1 .. step - 1 :
     /\ h <= Len(script.main)
     /\ MainAt(h, "register") /\ script.main[h].class = c
HasPid == \A t \in known : pid[t] >= 0 \/ (Doing("server", "init") /\ Op.name = t)
AtFirst == index = 1 \/ (step <= Len(script.main) /\ Op.op = "run")
InitSoFar ==
  Doing("run", "begin") =>
    \A i \in 1 .. index - 1 : i <= Len(vect) => vect[i] \in inited
AllInited == Starts => known \subseteq inited
Ready ==
  Registered /\ HasPid /\ AtFirst /\ InitSoFar /\ AllInited /\ InitBeforeStart

(* A step of main that touches neither vectServer_ nor a thread.           *)
LEMMA StepOrder ==
  ASSUME Order, UNCHANGED <<vect, known, thread, cache, coming, refused>>,
         pid' \in [All -> Int], index' \in Nat \ {0}, Waited'
  PROVE  Order'
<1>1. Kinds'
  BY DEF Order, Kinds, Servers
<1>2. Met' /\ InTurn' /\ EarlierReachable'
  BY DEF Order, Met, Runs, InTurn, EarlierReachable
<1> QED
  BY <1>1, <1>2 DEF Order

(* A step of a server or of the timer server, which may post a message:    *)
(* when it is refused then by a server that comes later.                   *)
Later(s, t) == \E i, j \in 1 .. Len(vect) : vect[i] = s /\ vect[j] = t /\ i < j
LEMMA OtherOrder ==
  ASSUME Order, UNCHANGED <<script, step, at, index, vect, known, pid, thread>>,
         cache' \in [All -> SUBSET Names], \A s \in All : cache'[s] \subseteq known,
         \A s \in coming' : Runs(s),
         \A r \in refused' : r \in refused \/ Later(r[1], r[2])
  PROVE  Order'
<1>1. Kinds'
  BY DEF Order, Kinds, Servers
<1>2. Met' /\ InTurn'
  BY DEF Order, Met, Runs, InTurn
<1>3. Waited'
  BY DEF Order, Waited, Starts, Op
<1>4. EarlierReachable'
  BY DEF Order, EarlierReachable, Later
<1> QED
  BY <1>1, <1>2, <1>3, <1>4 DEF Order

LEMMA SendRefused ==
  ASSUME NEW s, NEW t, NEW kind, NEW time, Send(s, t, kind, time),
         thread[t] = "RUN" \/ Later(s, t)
  PROVE  \A r \in refused' : r \in refused \/ Later(r[1], r[2])
BY DEF Send, Accepts

(* A server that runs comes before one that does not.                      *)
LEMMA RunsEarlier ==
  ASSUME Order, NEW s \in Names, NEW t \in Names, thread[s] = "RUN", t \in known,
         thread[t] # "RUN"
  PROVE  Later(s, t)
<1>1. s \in known
  BY DEF Order, Met
<1>2. PICK i \in 1 .. Len(vect) : vect[i] = s
  BY <1>1 DEF Order, Kinds, Servers
<1>3. PICK j \in 1 .. Len(vect) : vect[j] = t
  BY DEF Order, Kinds, Servers
<1>4. i # j /\ ~(j \in 1 .. i - 1)
  BY <1>2, <1>3 DEF Order, InTurn
<1>5. i < j
  BY <1>4 DEF Order, Kinds
<1> QED
  BY <1>2, <1>3, <1>5 DEF Later

(* startServer() puts the new server at the end of vectServer_, once.      *)
LEMMA InsertsKinds ==
  ASSUME Typing, Control, Kinds, StartServerInserts
  PROVE  Kinds'
<1> DEFINE n == Op.name
           v == Append(vect, n)
<1>1. /\ Doing("server", "locked") /\ n \notin known /\ at' = "init"
      /\ known' = known \cup {n} /\ vect' = v
      /\ UNCHANGED <<index, pid, cache>>
  BY DEF StartServerInserts
<1>2. n \in Names
  <2>1. Op \in MainOps
    BY <1>1, Elsewhere
  <2> QED
    BY <2>1 DEF MainOps
<1> HIDE DEF n
<1>3. /\ v \in Seq(Names) /\ Len(v) = Len(vect) + 1 /\ Len(vect) \in Nat
      /\ v[Len(vect) + 1] = n
      /\ \A i \in 1 .. Len(vect) : i \in 1 .. Len(v) /\ v[i] = vect[i]
      /\ \A i \in 1 .. Len(v) : i \in 1 .. Len(vect) \/ i = Len(vect) + 1
  BY <1>2 DEF Kinds
<1>4. \A i \in 1 .. Len(vect) : vect[i] # n /\ vect[i] \in known
  BY <1>1 DEF Kinds, Servers
<1> HIDE DEF v
<1>5. known' = Servers'
  <2>1. Servers = known /\ Servers' = {v[i] : i \in 1 .. Len(v)}
    BY <1>1 DEF Kinds, Servers
  <2>2. \A x \in known' : x \in Servers'
    <3>1. Len(vect) + 1 \in 1 .. Len(v)
      BY <1>3
    <3> QED
      BY <1>1, <1>3, <2>1, <3>1 DEF Servers
  <2>3. \A x \in Servers' : x \in known'
    BY <1>1, <1>3, <1>4, <2>1
  <2> QED
    BY <2>2, <2>3
<1> QED
  <2>1. \A i, j \in 1 .. Len(v) : v[i] = v[j] => i = j
    BY <1>3, <1>4 DEF Kinds
  <2> QED
    BY <1>1, <1>3, <1>5, <2>1 DEF Kinds

(* ... where it is after all that run.                                     *)
LEMMA InsertsOrder ==
  ASSUME Typing, Control, Order, StartServerInserts
  PROVE  Order'
<1> DEFINE n == Op.name
           v == Append(vect, n)
<1>1. /\ Doing("server", "locked") /\ n \notin known /\ at' = "init"
      /\ known' = known \cup {n} /\ vect' = v
      /\ UNCHANGED <<script, step, index, pid, cache, coming, thread, refused>>
  BY DEF StartServerInserts
<1>2. n \in Names
  <2>1. Op \in MainOps
    BY <1>1, Elsewhere
  <2> QED
    BY <2>1 DEF MainOps
<1> HIDE DEF n
<1>3. /\ v \in Seq(Names) /\ Len(v) = Len(vect) + 1 /\ Len(vect) \in Nat
      /\ v[Len(vect) + 1] = n
      /\ \A i \in 1 .. Len(vect) : i \in 1 .. Len(v) /\ v[i] = vect[i]
      /\ \A i \in 1 .. Len(v) : i \in 1 .. Len(vect) \/ i = Len(vect) + 1
  BY <1>2 DEF Order, Kinds
<1>4. \A i \in 1 .. Len(vect) : vect[i] # n /\ vect[i] \in known
  BY <1>1 DEF Order, Kinds, Servers
<1> HIDE DEF v
<1>6. Kinds'
  BY InsertsKinds DEF Order
<1>7. Met'
  BY <1>1 DEF Order, Met, Runs
<1>8. thread[n] = "none"
  BY <1>1, <1>2 DEF Order, Met
<1>9. InTurn'
  <2> SUFFICES ASSUME NEW i \in 1 .. Len(v), thread[v[i]] # "none", NEW j \in 1 .. i - 1
               PROVE  thread[v[j]] = "RUN"
    BY <1>1 DEF InTurn
  <2>1. i \in 1 .. Len(vect) /\ v[i] = vect[i]
    BY <1>3, <1>8
  <2>2. j \in 1 .. Len(vect) /\ v[j] = vect[j]
    BY <1>3, <2>1
  <2> QED
    BY <2>1, <2>2 DEF Order, InTurn
<1>10. Waited'
  BY <1>1 DEF Waited, Starts
<1>11. EarlierReachable'
  <2> SUFFICES ASSUME NEW r \in refused
               PROVE  \E i, j \in 1 .. Len(v) : v[i] = r[1] /\ v[j] = r[2] /\ i < j
    BY <1>1 DEF EarlierReachable
  <2>1. PICK i, j \in 1 .. Len(vect) : vect[i] = r[1] /\ vect[j] = r[2] /\ i < j
    BY DEF Order, EarlierReachable
  <2> QED
    BY <1>3, <2>1
<1> QED
  BY <1>6, <1>7, <1>9, <1>10, <1>11 DEF Order

(* runAllServers() makes the thread of the next server: those before run.  *)
LEMMA StartThreadOrder ==
  ASSUME Typing, Control, Order, StartThread
  PROVE  Order'
<1>1. /\ at = "start" /\ at' = "poll"
      /\ UNCHANGED <<script, step, index, vect, known, pid, cache, coming, refused>>
  BY DEF StartThread, poolVars
<1>2. PICK s \in Starting :
        thread' = [thread EXCEPT ![s] = IF @ = "none" THEN "START" ELSE @]
  BY DEF StartThread
<1>3. step <= Len(script.main) /\ Op.op \in {"timer", "run"}
  BY <1>1 DEF Control, StartsOne
<1>4. thread \in [All -> {"none", "START", "RUN"}] /\ Names \subseteq All
  BY DEF Control, Starter, All
<1>5. /\ \A t \in All : t # s => thread'[t] = thread[t]
      /\ \A t \in All : thread[t] = "RUN" => thread'[t] = "RUN"
  BY <1>2, <1>4
<1>6. Kinds'
  BY <1>1 DEF Order, Kinds, Servers
<1>7. EarlierReachable'
  BY <1>1 DEF Order, EarlierReachable
<1>8. \A i \in 1 .. Len(vect) : vect[i] \in Names /\ vect[i] \in All
  BY <1>4 DEF Order, Kinds
<1>9. Waited'
  BY <1>1, <1>3, <1>5, <1>8 DEF Order, Kinds, Waited, Starts, Op
<1>10. CASE Op.op = "timer"
  <2>1. s = Timer
    BY <1>1, <1>2, <1>3, <1>10 DEF Starting, Doing
  <2>2. \A t \in Names : thread'[t] = thread[t]
    BY <1>4, <1>5, <2>1, TimerApart
  <2>3. InTurn'
    <3> SUFFICES ASSUME NEW i \in 1 .. Len(vect), thread[vect[i]] # "none",
                        NEW j \in 1 .. i - 1
                 PROVE  thread[vect[j]] = "RUN" /\ thread'[vect[j]] = thread[vect[j]]
      BY <1>1, <1>8, <2>2 DEF InTurn
    <3>1. j \in 1 .. Len(vect)
      BY DEF Order, Kinds
    <3> QED
      BY <1>8, <2>2, <3>1 DEF Order, InTurn
  <2>4. Met'
    BY <1>1, <2>2 DEF Order, Met, Runs
  <2> QED
    BY <1>6, <1>7, <1>9, <2>3, <2>4 DEF Order
<1>11. CASE Op.op = "run"
  <2>1. index <= Len(vect) /\ s = vect[index]
    BY <1>1, <1>2, <1>11 DEF Starting, Doing
  <2>2. index \in 1 .. Len(vect) /\ Len(vect) \in Nat
    BY <2>1 DEF Order, Kinds
  <2>3. \A j \in 1 .. index - 1 : thread[vect[j]] = "RUN"
    BY <1>1, <1>3, <1>11, <2>2 DEF Order, Waited, Starts
  <2>4. InTurn'
    <3> SUFFICES ASSUME NEW i \in 1 .. Len(vect), thread'[vect[i]] # "none",
                        NEW j \in 1 .. i - 1
                 PROVE  thread'[vect[j]] = "RUN"
      BY <1>1 DEF InTurn
    <3>1. j \in 1 .. Len(vect)
      BY <2>2
    <3>2. CASE i = index
      BY <1>5, <1>8, <2>3, <3>1, <3>2
    <3>3. CASE i # index
      <4>1. vect[i] # s
        BY <2>1, <2>2, <3>3 DEF Order, Kinds
      <4>2. thread[vect[i]] # "none"
        BY <1>5, <1>8, <4>1
      <4> QED
        BY <1>5, <1>8, <3>1, <4>2 DEF Order, InTurn
    <3> QED
      BY <3>2, <3>3
  <2>5. s \in known
    BY <2>1, <2>2 DEF Order, Kinds, Servers
  <2>6. Met'
    BY <1>1, <1>4, <1>5, <2>5 DEF Order, Met, Runs
  <2> QED
    BY <1>6, <1>7, <1>9, <2>4, <2>6 DEF Order
<1> QED
  BY <1>3, <1>10, <1>11

(* ... and goes on to the next one when it runs.                           *)
LEMMA StartPollsOrder ==
  ASSUME Typing, Control, Order, StartPolls
  PROVE  Order'
<1>1. /\ at = "poll" /\ Polled
      /\ UNCHANGED <<script, vect, known, pid, cache, coming, thread, refused>>
  BY DEF StartPolls, poolVars
<1>2. pid' \in [All -> Int] /\ index \in Nat \ {0}
  BY <1>1 DEF Order, Kinds
<1>3. step <= Len(script.main) /\ Op.op \in {"timer", "run"}
  BY <1>1 DEF Control, StartsOne
<1>4. CASE Op.op = "timer"
  <2>1. UNCHANGED index /\ at' = "begin"
    BY <1>4 DEF StartPolls, NextOp
  <2>2. Waited'
    BY <2>1 DEF Waited, Starts
  <2> QED
    BY <1>1, <1>2, <2>1, <2>2, StepOrder
<1>5. CASE Op.op = "run"
  <2>1. index' = index + 1 /\ UNCHANGED step
    BY <1>5 DEF StartPolls
  <2>2. \A j \in 1 .. index - 1 : j <= Len(vect) => thread[vect[j]] = "RUN"
    BY <1>1, <1>3, <1>5 DEF Order, Waited, Starts
  <2>3. index <= Len(vect) => thread[vect[index]] = "RUN"
    BY <1>1, <1>3, <1>5 DEF Polled, Starting, Doing
  <2>4. Waited'
    <3>1. \A j \in 1 .. index' - 1 : j \in 1 .. index - 1 \/ j = index
      BY <1>2, <2>1
    <3> QED
      BY <1>1, <2>2, <2>3, <3>1 DEF Waited
  <2>5. index' \in Nat \ {0}
    BY <1>2, <2>1
  <2> QED
    BY <1>1, <1>2, <2>4, <2>5, StepOrder
<1> QED
  BY <1>3, <1>4, <1>5

(* A step of main.                                                         *)
LEMMA MainOrder ==
  ASSUME Typing, Control, Order, Main
  PROVE  Order'
<1> DEFINE Same == UNCHANGED <<vect, known, thread, cache, coming, refused>>
<1>1. pid \in [All -> Int] /\ index \in Nat \ {0}
  BY DEF Order, Kinds
<1>2. ASSUME Same, pid' \in [All -> Int], index' \in Nat \ {0},
             at' \in {"begin", "locked"}
      PROVE  Order'
  <2>1. Waited'
    BY <1>2 DEF Waited, Starts
  <2> QED
    BY <1>2, <2>1, StepOrder
<1>3. ASSUME NEW s \in All, MakeThread(s) PROVE pid' \in [All -> Int]
  <2>1. Cardinality(Created) \in Nat
    BY FS_CardinalityType DEF Control, Starter
  <2> QED
    BY <1>1, <1>3, <2>1 DEF MakeThread
<1>4. CASE AppStart
  BY <1>1, <1>2, <1>4 DEF AppStart, poolVars, NextOp
<1>5. CASE RegisterServer
  BY <1>1, <1>2, <1>5 DEF RegisterServer, NextOp
<1>6. CASE StartServerLocks
  BY <1>1, <1>2, <1>6 DEF StartServerLocks, poolVars
<1>7. CASE StartServerInserts
  BY <1>7, InsertsOrder
<1>8. CASE StartServerFails
  BY <1>1, <1>2, <1>8 DEF StartServerFails, poolVars, NextOp
<1>9. CASE InitServer
  <2>1. Op \in MainOps
    BY <1>9, Elsewhere DEF InitServer
  <2>2. Op.name \in All
    BY <2>1 DEF MainOps, All
  <2> QED
    BY <1>1, <1>2, <1>3, <1>9, <2>2 DEF InitServer, NextOp
<1>10. CASE TimerRun
  <2>1. /\ Same /\ UNCHANGED index /\ Op.op = "timer" /\ Timer \in All
        /\ UNCHANGED script
    BY <1>10 DEF TimerRun, Doing, All
  <2>2. CASE Timer \in Created
    BY <1>1, <1>2, <1>10, <2>1, <2>2 DEF TimerRun, NextOp
  <2>3. CASE Timer \notin Created
    <3>1. UNCHANGED step /\ MakeThread(Timer)
      BY <1>10, <2>3 DEF TimerRun
    <3>2. Waited'
      BY <2>1, <3>1 DEF Waited, Starts, Op
    <3> QED
      BY <1>1, <1>3, <2>1, <3>1, <3>2, StepOrder
  <2> QED
    BY <2>2, <2>3
<1>11. CASE OnInit
  <2>1. Same /\ UNCHANGED <<script, step, pid>> /\ at = "begin"
    BY <1>11 DEF OnInit, Doing
  <2>2. CASE index > Len(vect)
    <3>1. index' = 1
      BY <1>11, <2>2 DEF OnInit
    <3>2. Waited'
      BY <3>1 DEF Waited
    <3> QED
      BY <1>1, <2>1, <3>1, <3>2, StepOrder
  <2>3. CASE ~(index > Len(vect))
    <3>1. index' = index + 1 /\ UNCHANGED at
      BY <1>11, <2>3 DEF OnInit
    <3>2. index' \in Nat \ {0}
      BY <1>1, <3>1
    <3> QED
      BY <1>1, <1>2, <2>1, <3>1, <3>2
  <2> QED
    BY <2>2, <2>3
<1>12. CASE StartThread
  BY <1>12, StartThreadOrder
<1>13. CASE StartPolls
  BY <1>13, StartPollsOrder
<1>14. CASE RunEnds
  BY <1>1, <1>2, <1>14 DEF RunEnds, poolVars, NextOp
<1> QED
  BY <1>4, <1>5, <1>6, <1>7, <1>8, <1>9, <1>10, <1>11, <1>12, <1>13, <1>14
     DEF Main

LEMMA ThreadRunsOrder ==
  ASSUME Control, Order, NEW s \in All, ThreadRuns(s)
  PROVE  Order'
<1>1. /\ thread[s] = "START" /\ thread' = [thread EXCEPT ![s] = "RUN"]
      /\ UNCHANGED <<script, step, at, index, vect, known, pid, cache, coming,
                     refused>>
  BY DEF ThreadRuns, mainVars, poolVars
<1>2. thread \in [All -> {"none", "START", "RUN"}] /\ Names \subseteq All
  BY DEF Control, Starter, All
<1>3. \A t \in All : /\ thread[t] = "RUN" => thread'[t] = "RUN"
                     /\ thread'[t] # "none" => thread[t] # "none"
  BY <1>1, <1>2
<1>4. Kinds'
  BY <1>1 DEF Order, Kinds, Servers
<1>5. Met'
  BY <1>1, <1>2, <1>3 DEF Order, Met, Runs
<1>6. \A i \in 1 .. Len(vect) :
         vect[i] \in All /\ \A j \in 1 .. i - 1 : vect[j] \in All
  BY <1>2 DEF Order, Kinds
<1>7. InTurn'
  BY <1>1, <1>3, <1>6 DEF Order, InTurn
<1>8. Waited'
  <2>1. \A j \in 1 .. index - 1 : j <= Len(vect) => vect[j] \in All
    BY <1>2 DEF Order, Kinds
  <2> QED
    BY <1>1, <1>3, <2>1 DEF Order, Waited, Starts, Op
<1>9. EarlierReachable'
  BY <1>1 DEF Order, EarlierReachable
<1> QED
  BY <1>4, <1>5, <1>7, <1>8, <1>9 DEF Order

(* A handler asks, answers, listens, or asks for a timer.                  *)
LEMMA HandlerOrder ==
  ASSUME OrderedScripts, Typing, Control, Mail, Order, NEW s \in All,
         Lookup(s) \/ SendMsgProto(s) \/ StartTime(s) \/ Listen(s)
  PROVE  Order'
<1>1. /\ UNCHANGED <<script, step, at, index, vect, known, pid, thread>>
      /\ duty[s] # <<>>
  BY DEF Lookup, SendMsgProto, StartTime, Listen, Has, mainVars, poolVars
<1>2. s \in Names /\ thread[s] = "RUN"
  BY <1>1 DEF Mail, Alive, All
<1>3. /\ cache \in [All -> SUBSET Names] /\ \A r \in All : cache[r] \subseteq known
      /\ \A r \in coming : Runs(r)
  BY DEF Order, Kinds, Met
<1>4. known \subseteq Names
  BY DEF Order, Kinds, Servers
<1>5. CASE Lookup(s)
  <2> DEFINE t == Head(duty[s]).to
  <2>1. /\ UNCHANGED <<coming, refused>>
        /\ \/ cache' = cache
           \/ t \in known /\ cache' = [cache EXCEPT ![s] = @ \cup {t}]
    BY <1>5 DEF Lookup
  <2> HIDE DEF t
  <2>2. /\ cache' \in [All -> SUBSET Names]
        /\ \A r \in All : cache'[r] \subseteq known
    BY <1>3, <1>4, <2>1
  <2> QED
    BY <1>1, <1>3, <2>1, <2>2, OtherOrder
<1>6. CASE SendMsgProto(s)
  <2> DEFINE t == Head(duty[s]).to
             k == Head(duty[s]).op
  <2>1. UNCHANGED <<cache, coming>> /\ t \in cache[s] /\ Send(s, t, k, 0)
    BY <1>6 DEF SendMsgProto
  <2> HIDE DEF t, k
  <2>2. t \in known /\ t \in Names
    BY <1>3, <1>4, <2>1
  <2>3. thread[t] = "RUN" \/ Later(s, t)
    BY <1>2, <2>2, RunsEarlier
  <2>4. \A r \in refused' : r \in refused \/ Later(r[1], r[2])
    BY <2>1, <2>3, SendRefused
  <2> QED
    BY <1>1, <1>3, <2>1, <2>4, OtherOrder
<1>7. CASE StartTime(s)
  <2>1. UNCHANGED <<cache, coming>>
    BY <1>7 DEF StartTime
  <2>2. CASE Timer \in Created
    <3>1. PICK k : Send(s, Timer, "timer", k)
      BY <1>7, <2>2 DEF StartTime
    <3>2. thread[Timer] = "RUN"
      BY <1>2, <2>2, TimerIsUp
    <3>3. \A r \in refused' : r \in refused \/ Later(r[1], r[2])
      BY <3>1, <3>2, SendRefused
    <3> QED
      BY <1>1, <1>3, <2>1, <3>3, OtherOrder
  <2>3. CASE Timer \notin Created
    <3>1. UNCHANGED refused
      BY <1>7, <2>3 DEF StartTime
    <3> QED
      BY <1>1, <1>3, <2>1, <3>1, OtherOrder
  <2> QED
    BY <2>2, <2>3
<1>8. CASE Listen(s)
  <2>1. UNCHANGED <<cache, refused>> /\ coming' \subseteq coming \cup {s}
    BY <1>8 DEF Listen
  <2>2. \A r \in coming' : Runs(r)
    BY <1>2, <1>3, <2>1 DEF Runs
  <2> QED
    BY <1>1, <1>3, <2>1, <2>2, OtherOrder
<1> QED
  BY <1>5, <1>6, <1>7, <1>8

LEMMA NextOrder ==
  ASSUME OrderedScripts, IInv, Kept, Order, [Next]_vars
  PROVE  Order'
<1>1. Typing /\ Control /\ Mail /\ Starter
  BY DEF IInv, Kept, Control, Mail
<1> DEFINE Same == UNCHANGED <<script, step, at, index, vect, known, pid, thread, cache>>
<1>2. /\ cache \in [All -> SUBSET Names] /\ \A r \in All : cache[r] \subseteq known
      /\ \A r \in coming : Runs(r)
  BY DEF Order, Kinds, Met
<1>3. CASE Main
  BY <1>1, <1>3, MainOrder
<1>4. ASSUME NEW s \in All, ThreadRuns(s) PROVE Order'
  BY <1>1, <1>4, ThreadRunsOrder
<1>5. ASSUME NEW s \in All, Lookup(s) \/ SendMsgProto(s) \/ StartTime(s) \/ Listen(s)
      PROVE  Order'
  BY <1>1, <1>5, HandlerOrder
<1>6. ASSUME NEW s \in All, OnMsg(s) PROVE Order'
  <2>1. Same /\ UNCHANGED <<coming, refused>>
    BY <1>6 DEF OnMsg, mainVars, poolVars
  <2> QED
    BY <1>2, <2>1, OtherOrder
<1>7. ASSUME NEW s \in All, SocketFunc(s) PROVE Order'
  <2>1. Same /\ s \in coming /\ coming' \subseteq coming /\ Send(s, s, "socket", 0)
    BY <1>7 DEF SocketFunc, mainVars, poolVars
  <2>2. thread[s] = "RUN"
    BY <1>2, <2>1 DEF Runs
  <2>3. \A r \in refused' : r \in refused \/ Later(r[1], r[2])
    BY <2>1, <2>2, SendRefused
  <2> QED
    BY <1>2, <2>1, <2>3, OtherOrder
<1>8. CASE Fire
  <2> DEFINE e == Head(events)
  <2>1. /\ Same /\ UNCHANGED coming
        /\ Send(Timer, e.to, "timer", e.time) /\ events # <<>>
    BY <1>8 DEF Fire, IsDue, mainVars, poolVars
  <2>2. 1 \in 1 .. Len(events) /\ events[1] = e
    BY <1>1, <2>1 DEF Typing
  <2>3. thread[e.to] = "RUN"
    BY <1>1, <2>2 DEF Mail, Owed, Runs
  <2>4. \A r \in refused' : r \in refused \/ Later(r[1], r[2])
    BY <2>1, <2>3, SendRefused
  <2> QED
    BY <1>2, <2>1, <2>4, OtherOrder
<1>9. CASE OnTimerProto \/ TimeLoop \/ GoToSleep \/ WakeUp \/ Tick \/ GetServers
           \/ UNCHANGED vars
  <2>1. Same /\ UNCHANGED <<coming, refused>>
    BY <1>9 DEF OnTimerProto, TimeLoop, GoToSleep, WakeUp, Tick, GetServers, vars,
                mainVars, poolVars
  <2> QED
    BY <1>2, <2>1, OtherOrder
<1> QED
  BY <1>3, <1>4, <1>5, <1>6, <1>7, <1>8, <1>9 DEF Next, Server, TimerServer

LEMMA InitOrder == Init => Order
<1> SUFFICES ASSUME Init PROVE Order
  OBVIOUS
<1> USE DEF Init
<1>1. Kinds
  BY DEF Kinds, Servers
<1>2. Met
  BY DEF Met, All
<1>3. InTurn /\ Waited /\ EarlierReachable
  BY DEF InTurn, Waited, Starts, EarlierReachable
<1> QED
  BY <1>1, <1>2, <1>3 DEF Order

(* Whoever is refused a message, it is one of a server before it in        *)
(* vectServer_: a server may write to those before it from its onStart(),  *)
(* and the timer server to everyone (openserver.cpp:120-138,               *)
(* openthread.cpp:257), in every program that does not start its first     *)
(* timer server after its servers.                                         *)
THEOREM EarlierTheorem == OrderedScripts => (Spec => []EarlierReachable)
<1> SUFFICES ASSUME OrderedScripts PROVE Spec => []EarlierReachable
  OBVIOUS
<1>1. Init => IInv /\ Kept /\ Order
  BY InitInv, InitKept, InitOrder
<1>2. IInv /\ Kept /\ Order /\ [Next]_vars => (IInv /\ Kept /\ Order)'
  BY NextInv, NextKept, NextOrder
<1>3. IInv /\ Kept /\ Order => EarlierReachable
  BY DEF Order
<1> QED
  BY <1>1, <1>2, <1>3, PTL DEF Spec

-----------------------------------------------------------------------------
(* A server that is in startServer() has no pid yet; all the others do.    *)
LEMMA AllHavePids ==
  ASSUME HasPid, at # "init"
  PROVE  \A t \in known : pid[t] >= 0
BY DEF HasPid, Doing

(* A step that moves main and touches no server.                           *)
LEMMA StepReady ==
  ASSUME Ready, UNCHANGED <<script, known, vect, thread, inited, pid>>,
         Registered', HasPid', AtFirst', InitSoFar', AllInited'
  PROVE  Ready'
BY DEF Ready, InitBeforeStart

(* Main goes on to the next operation.                                     *)
LEMMA NextOpReady ==
  ASSUME Control, Ready, NextOp, step <= Len(script.main), index' = 1,
         UNCHANGED <<script, known, inited>>,
         \A t \in known : pid'[t] >= 0,
         \A c \in classes' \ classes : Op.op = "register" /\ c = Op.class,
         \A s \in Names : thread'[s] # "none" => thread[s] # "none"
  PROVE  Ready'
<1>1. step' = step + 1 /\ at' = "begin" /\ step \in Nat \ {0}
  BY DEF NextOp, Control, Starter
<1>2. Registered'
  <2> SUFFICES ASSUME NEW c \in classes'
               PROVE  \E h \in 1 .. step' - 1 :
                        /\ h <= Len(script.main)
                        /\ MainAt(h, "register") /\ script.main[h].class = c
    BY DEF Registered, MainAt
  <2>1. CASE c \in classes
    <3>1. PICK h \in 1 .. step - 1 :
                 /\ h <= Len(script.main)
                 /\ MainAt(h, "register") /\ script.main[h].class = c
      BY <2>1 DEF Ready, Registered
    <3>2. h \in 1 .. step' - 1
      BY <1>1
    <3> QED
      BY <3>1, <3>2
  <2>2. CASE c \notin classes
    <3>1. MainAt(step, "register") /\ script.main[step].class = c
      BY <2>2 DEF MainAt, Op
    <3>2. step \in 1 .. step' - 1
      BY <1>1
    <3> QED
      BY <3>1, <3>2
  <2> QED
    BY <2>1, <2>2
<1>3. HasPid'
  BY DEF HasPid
<1>4. AtFirst' /\ InitSoFar' /\ AllInited'
  BY <1>1 DEF AtFirst, InitSoFar, AllInited, Starts
<1>5. InitBeforeStart'
  BY DEF Ready, InitBeforeStart
<1> QED
  BY <1>2, <1>3, <1>4, <1>5 DEF Ready

(* A server is new only while no server has a thread.                      *)
LEMMA InsertsReady ==
  ASSUME ServersFirst, Typing, Control, Ready, StartServerInserts
  PROVE  Ready'
<1> DEFINE n == Op.name
<1>1. /\ Doing("server", "locked") /\ Op.class \in classes /\ at' = "init"
      /\ known' = known \cup {n} /\ vect' = Append(vect, n)
      /\ UNCHANGED <<script, step, index, classes, pid, inited, thread>>
  BY DEF StartServerInserts
<1>2. step <= Len(script.main) /\ Op.op = "server" /\ at = "locked"
  BY <1>1 DEF Doing
<1>3. step \in 1 .. Len(script.main) /\ Len(script.main) \in Nat
  BY <1>2, OpTyped, ScriptsType DEF Control, Typing
<1>4. \A s \in Names : thread[s] = "none"
  <2> SUFFICES ASSUME NEW s \in Names, thread[s] # "none" PROVE FALSE
    OBVIOUS
  <2>1. PICK i \in 1 .. step : i <= Len(script.main) /\ script.main[i].op = "run"
    BY DEF Control, RunFirst, MainAt
  <2>2. PICK h \in 1 .. step - 1 :
               /\ script.main[h].op = "register"
               /\ script.main[h].class = Op.class
    BY <1>1 DEF Ready, Registered, MainAt
  <2>3. i # step
    BY <1>2, <2>1 DEF Op
  <2>4. i \in 1 .. Len(script.main) /\ i < step
    BY <1>3, <2>1, <2>3
  <2>5. script.main[step].op = "server" /\ script.main[step].class = Op.class
    BY <1>2 DEF Op
  <2> QED
    BY <1>3, <2>1, <2>2, <2>4, <2>5 DEF ServersFirst, Typing
<1>5. Registered'
  BY <1>1 DEF Ready, Registered, MainAt
<1>6. HasPid'
  <2>1. (Op.name)' = n /\ (Doing("server", "init"))'
    BY <1>1, <1>2 DEF Doing, Op
  <2>2. \A t \in known : pid[t] >= 0
    BY <1>2, AllHavePids DEF Ready
  <2> QED
    BY <1>1, <2>1, <2>2 DEF HasPid
<1>7. AtFirst'
  BY <1>1 DEF Ready, AtFirst, Op
<1>8. InitSoFar' /\ AllInited'
  BY <1>1 DEF InitSoFar, AllInited, Starts, Doing
<1>9. InitBeforeStart'
  BY <1>1, <1>4 DEF InitBeforeStart
<1> QED
  BY <1>5, <1>6, <1>7, <1>8, <1>9 DEF Ready

(* runAllServers() calls the onInit() of the next server, or has done so   *)
(* of all.                                                                 *)
LEMMA OnInitReady ==
  ASSUME Control, Kinds, Ready, OnInit
  PROVE  Ready'
<1>1. /\ Doing("run", "begin")
      /\ UNCHANGED <<script, step, classes, known, vect, pid, thread>>
  BY DEF OnInit
<1>2. step <= Len(script.main) /\ Op.op = "run" /\ at = "begin"
  BY <1>1 DEF Doing
<1>3. index \in Nat \ {0} /\ Len(vect) \in Nat
  BY DEF Kinds
<1>4. \A i \in 1 .. index - 1 : i <= Len(vect) => vect[i] \in inited
  BY <1>1 DEF Ready, InitSoFar
<1>5. \A t \in known : pid[t] >= 0
  BY <1>2, AllHavePids DEF Ready
<1>6. Registered' /\ HasPid' /\ AtFirst'
  BY <1>1, <1>2, <1>5 DEF Ready, Registered, MainAt, HasPid, AtFirst, Op
<1>7. inited \subseteq inited'
  BY DEF OnInit
<1>8. InitBeforeStart'
  BY <1>1, <1>7 DEF Ready, InitBeforeStart
<1>9. CASE index > Len(vect)
  <2>1. index' = 1 /\ at' = "start" /\ UNCHANGED inited
    BY <1>9 DEF OnInit
  <2>2. InitSoFar'
    BY <2>1 DEF InitSoFar, Doing
  <2>3. known \subseteq inited
    <3>1. \A i \in 1 .. Len(vect) : vect[i] \in inited
      BY <1>3, <1>4, <1>9
    <3> QED
      BY <3>1 DEF Kinds, Servers
  <2>4. AllInited'
    BY <1>1, <2>1, <2>3 DEF AllInited
  <2> QED
    BY <1>6, <1>8, <2>2, <2>4 DEF Ready
<1>10. CASE ~(index > Len(vect))
  <2>1. inited' = inited \cup {vect[index]} /\ index' = index + 1 /\ UNCHANGED at
    BY <1>10 DEF OnInit
  <2>2. \A i \in 1 .. index' - 1 : i \in 1 .. index - 1 \/ i = index
    BY <1>3, <2>1
  <2>3. InitSoFar'
    BY <1>1, <1>4, <2>1, <2>2 DEF InitSoFar
  <2>4. AllInited'
    BY <1>2, <2>1 DEF AllInited, Starts
  <2> QED
    BY <1>6, <1>8, <2>3, <2>4 DEF Ready
<1> QED
  BY <1>9, <1>10

(* It starts a thread only when all have a pid and their onInit() is done. *)
LEMMA StartThreadReady ==
  ASSUME Control, Ready, StartThread
  PROVE  Ready'
<1>1. /\ at = "start" /\ at' = "poll"
      /\ UNCHANGED <<script, step, index, classes, known, vect, pid, inited>>
  BY DEF StartThread, poolVars
<1>2. PICK s \in Starting :
        thread' = [thread EXCEPT ![s] = IF @ = "none" THEN "START" ELSE @]
  BY DEF StartThread
<1>3. step <= Len(script.main) /\ Op.op \in {"timer", "run"}
  BY <1>1 DEF Control, StartsOne
<1>4. \A t \in known : pid[t] >= 0
  BY <1>1, AllHavePids DEF Ready
<1>5. Registered' /\ HasPid' /\ AtFirst'
  BY <1>1, <1>4 DEF Ready, Registered, MainAt, HasPid, AtFirst, Op
<1>6. InitSoFar'
  BY <1>1 DEF InitSoFar, Doing
<1>7. AllInited'
  BY <1>1 DEF Ready, AllInited, Starts, Op
<1>8. InitBeforeStart'
  <2>1. CASE Op.op = "run"
    <3>1. known \subseteq inited
      BY <1>1, <1>3, <2>1 DEF Ready, AllInited, Starts
    <3> QED
      BY <1>1, <1>4, <3>1 DEF InitBeforeStart
  <2>2. CASE Op.op = "timer"
    <3>1. s = Timer
      BY <1>1, <1>2, <1>3, <2>2 DEF Starting, Doing
    <3>2. \A t \in Names : thread'[t] = thread[t]
      BY <1>2, <3>1, TimerApart DEF Control, Starter, All
    <3> QED
      BY <1>1, <3>2 DEF Ready, InitBeforeStart
  <2> QED
    BY <1>3, <2>1, <2>2
<1> QED
  BY <1>5, <1>6, <1>7, <1>8 DEF Ready

(* A step of main.                                                         *)
LEMMA MainReady ==
  ASSUME ServersFirst, Typing, Control, Kinds, Ready, Main
  PROVE  Ready'
<1> DEFINE Same == UNCHANGED <<script, known, vect, inited, thread>>
<1>1. ASSUME NEW op, NEW a, Doing(op, a), a # "init", op # "run", NextOp,
             Same, UNCHANGED <<pid, index>>,
             \A c \in classes' \ classes : op = "register" /\ c = Op.class
      PROVE  Ready'
  <2>1. step <= Len(script.main) /\ Op.op = op /\ at # "init" /\ index = 1
    BY <1>1 DEF Doing, Ready, AtFirst
  <2>2. \A t \in known : pid[t] >= 0
    BY <2>1, AllHavePids DEF Ready
  <2> QED
    BY <1>1, <2>1, <2>2, NextOpReady
<1>2. CASE AppStart
  <2>1. Doing("app", "begin") /\ NextOp /\ Same /\ UNCHANGED <<pid, index, classes>>
    BY <1>2 DEF AppStart, poolVars
  <2> QED
    BY <1>1, <2>1
<1>3. CASE RegisterServer
  <2>1. /\ Doing("register", "begin") /\ NextOp /\ Same /\ UNCHANGED <<pid, index>>
        /\ classes' \subseteq classes \cup {Op.class}
    BY <1>3 DEF RegisterServer
  <2> QED
    BY <1>1, <2>1
<1>4. CASE StartServerLocks
  <2>1. /\ Doing("server", "begin") /\ at' = "locked" /\ Same
        /\ UNCHANGED <<step, pid, index, classes>>
    BY <1>4 DEF StartServerLocks, poolVars
  <2>2. \A t \in known : pid[t] >= 0
    BY <2>1, AllHavePids DEF Ready, Doing
  <2>3. Registered' /\ HasPid' /\ AtFirst'
    BY <2>1, <2>2 DEF Ready, Registered, MainAt, HasPid, AtFirst, Op
  <2>4. InitSoFar' /\ AllInited'
    BY <2>1 DEF InitSoFar, AllInited, Starts, Doing
  <2> QED
    BY <2>1, <2>3, <2>4, StepReady
<1>5. CASE StartServerInserts
  BY <1>5, InsertsReady
<1>6. CASE StartServerFails
  <2>1. /\ Doing("server", "locked") /\ NextOp /\ Same
        /\ UNCHANGED <<pid, index, classes>>
    BY <1>6 DEF StartServerFails, poolVars
  <2> QED
    BY <1>1, <2>1
<1>7. CASE InitServer
  <2>1. /\ Doing("server", "init") /\ NextOp /\ Same /\ MakeThread(Op.name)
        /\ UNCHANGED <<index, classes>>
    BY <1>7 DEF InitServer
  <2>2. step <= Len(script.main) /\ Op.op = "server" /\ Op \in MainOps
    BY <2>1, Elsewhere
  <2>3. Op.name \in All /\ known \subseteq All
    BY <2>2 DEF MainOps, All, Kinds, Servers
  <2>4. /\ Op.name \in Created'
        /\ \A t \in All : t # Op.name => (t \in Created' <=> t \in Created)
    BY <2>1, <2>3, MakeThreadControl
  <2>5. \A t \in known : pid'[t] >= 0
    BY <2>3, <2>4 DEF Ready, HasPid, Created
  <2>6. index' = 1
    BY <2>1, <2>2 DEF Ready, AtFirst
  <2> QED
    BY <2>1, <2>2, <2>5, <2>6, NextOpReady
<1>8. CASE TimerRun
  <2>1. Doing("timer", "begin") /\ Same /\ UNCHANGED <<index, classes>>
    BY <1>8 DEF TimerRun
  <2>2. CASE Timer \in Created
    <3>1. NextOp /\ UNCHANGED pid
      BY <1>8, <2>2 DEF TimerRun
    <3> QED
      BY <1>1, <2>1, <3>1
  <2>3. CASE Timer \notin Created
    <3>1. MakeThread(Timer) /\ at' = "start" /\ UNCHANGED step
      BY <1>8, <2>3 DEF TimerRun
    <3>2. \A t \in known : pid[t] >= 0
      BY <2>1, AllHavePids DEF Ready, Doing
    <3>3. known \subseteq Names /\ Names \subseteq All /\ Timer \in All
      BY DEF Kinds, Servers, All
    <3>4. \A t \in known : pid'[t] >= 0
      BY <3>1, <3>2, <3>3, TimerApart DEF MakeThread, Control, Starter
    <3>5. Registered' /\ HasPid' /\ AtFirst'
      BY <2>1, <3>1, <3>4 DEF Ready, Registered, MainAt, HasPid, AtFirst, Op
    <3>6. InitSoFar' /\ AllInited'
      BY <2>1, <3>1 DEF InitSoFar, AllInited, Starts, Doing, Op
    <3>7. InitBeforeStart'
      BY <2>1, <3>4 DEF Ready, InitBeforeStart
    <3> QED
      BY <3>5, <3>6, <3>7 DEF Ready
  <2> QED
    BY <2>2, <2>3
<1>9. CASE OnInit
  BY <1>9, OnInitReady
<1>10. CASE StartThread
  BY <1>10, StartThreadReady
<1>11. CASE StartPolls
  <2>1. at = "poll" /\ Same /\ UNCHANGED <<pid, classes>>
    BY <1>11 DEF StartPolls, poolVars
  <2>2. step <= Len(script.main) /\ Op.op \in {"timer", "run"}
    BY <2>1 DEF Control, StartsOne
  <2>3. CASE Op.op = "timer"
    <3>1. Doing("timer", "poll") /\ NextOp /\ UNCHANGED index
      BY <1>11, <2>1, <2>2, <2>3 DEF StartPolls, Doing
    <3> QED
      BY <1>1, <2>1, <3>1
  <2>4. CASE Op.op = "run"
    <3>1. at' = "start" /\ UNCHANGED step
      BY <1>11, <2>4 DEF StartPolls
    <3>2. \A t \in known : pid[t] >= 0
      BY <2>1, AllHavePids DEF Ready
    <3>3. Registered' /\ HasPid' /\ AtFirst'
      BY <2>1, <2>2, <2>4, <3>1, <3>2
         DEF Ready, Registered, MainAt, HasPid, AtFirst, Op
    <3>4. InitSoFar'
      BY <3>1 DEF InitSoFar, Doing
    <3>5. AllInited'
      BY <2>1, <2>2, <2>4, <3>1 DEF Ready, AllInited, Starts, Op
    <3> QED
      BY <2>1, <3>3, <3>4, <3>5, StepReady
  <2> QED
    BY <2>2, <2>3, <2>4
<1>12. CASE RunEnds
  <2>1. /\ Doing("run", "start") /\ NextOp /\ index' = 1 /\ Same
        /\ UNCHANGED <<pid, classes>>
    BY <1>12 DEF RunEnds, poolVars
  <2>2. step <= Len(script.main) /\ at # "init"
    BY <2>1 DEF Doing
  <2>3. \A t \in known : pid[t] >= 0
    BY <2>2, AllHavePids DEF Ready
  <2> QED
    BY <2>1, <2>2, <2>3, NextOpReady
<1> QED
  BY <1>2, <1>3, <1>4, <1>5, <1>6, <1>7, <1>8, <1>9, <1>10, <1>11, <1>12 DEF Main

(* No other step concerns it, but that a thread comes to RUN.              *)
LEMMA OtherReady ==
  ASSUME Ready,
         UNCHANGED <<script, step, at, index, classes, known, vect, pid, inited>>,
         \A s \in Names : thread'[s] # "none" => thread[s] # "none"
  PROVE  Ready'
<1>1. Registered' /\ HasPid' /\ AtFirst'
  BY DEF Ready, Registered, MainAt, HasPid, AtFirst, Op, Doing
<1>2. InitSoFar' /\ AllInited'
  BY DEF Ready, InitSoFar, AllInited, Starts, Op, Doing
<1>3. InitBeforeStart'
  BY DEF Ready, InitBeforeStart
<1> QED
  BY <1>1, <1>2, <1>3 DEF Ready

(* What OrderedScripts is not needed for.                                  *)
LEMMA NextControl ==
  ASSUME Typing, Control, [Next]_vars
  PROVE  Control'
<1> DEFINE Same == UNCHANGED <<script, step, at, thread, pid>>
<1>1. asked \in [Names -> Nat] /\ fired \in [Names -> Nat]
  BY DEF Control, Starter
<1>2. CASE Main
  BY <1>2, MainControl
<1>3. ASSUME NEW s \in All, ThreadRuns(s) PROVE Control'
  BY <1>3, ThreadRunsControl
<1>4. ASSUME NEW s \in All, StartTime(s) PROVE Control'
  <2>1. /\ Same /\ UNCHANGED fired
        /\ asked' = asked \/ asked' = [asked EXCEPT ![s] = @ + 1]
    BY <1>4 DEF StartTime, mainVars, poolVars
  <2>2. asked' \in [Names -> Nat]
    <3>1. \A r \in Names : asked[r] + 1 \in Nat
      BY <1>1
    <3> QED
      BY <1>1, <2>1, <3>1
  <2> QED
    BY <1>1, <2>1, <2>2, OtherControl
<1>5. ASSUME NEW s \in All, OnMsg(s) PROVE Control'
  <2> DEFINE n == Head(inbox[s]).kind
  <2>1. /\ Same /\ UNCHANGED asked
        /\ fired' = [fired EXCEPT ![s] = IF n = "timer" THEN @ + 1 ELSE @]
    BY <1>5 DEF OnMsg, mainVars, poolVars
  <2> HIDE DEF n
  <2>2. fired' \in [Names -> Nat]
    <3>1. \A r \in Names : fired[r] + 1 \in Nat
      BY <1>1
    <3> QED
      BY <1>1, <2>1, <3>1
  <2> QED
    BY <1>1, <2>1, <2>2, OtherControl
<1>6. CASE \/ \E s \in All : Lookup(s) \/ SendMsgProto(s) \/ Listen(s) \/ SocketFunc(s)
           \/ TimerServer \/ Tick \/ GetServers \/ UNCHANGED vars
  <2>1. Same /\ UNCHANGED <<asked, fired>>
    BY <1>6 DEF Lookup, SendMsgProto, Listen, SocketFunc, TimerServer, OnTimerProto,
                TimeLoop, Fire, GoToSleep, WakeUp, Tick, GetServers, vars, mainVars,
                poolVars
  <2> QED
    BY <1>1, <2>1, OtherControl
<1> QED
  BY <1>2, <1>3, <1>4, <1>5, <1>6 DEF Next, Server

LEMMA NextKinds ==
  ASSUME Typing, Control, Kinds, [Next]_vars
  PROVE  Kinds'
<1>1. /\ pid \in [All -> Int] /\ index \in Nat \ {0} /\ index + 1 \in Nat \ {0}
      /\ cache \in [All -> SUBSET Names]
  BY DEF Kinds
<1>2. ASSUME UNCHANGED <<known, vect>>, pid' \in [All -> Int], index' \in Nat \ {0},
             cache' \in [All -> SUBSET Names]
      PROVE  Kinds'
  BY <1>2 DEF Kinds, Servers
<1>3. CASE Main
  <2>1. CASE StartServerInserts
    BY <2>1, InsertsKinds
  <2>2. CASE InitServer \/ TimerRun
    <3>1. Cardinality(Created) \in Nat
      BY FS_CardinalityType DEF Control, Starter
    <3>2. UNCHANGED <<known, vect, index, cache>>
      BY <2>2 DEF InitServer, TimerRun
    <3>3. UNCHANGED pid \/ \E s : MakeThread(s)
      BY <2>2 DEF InitServer, TimerRun
    <3>4. pid' \in [All -> Int]
      BY <1>1, <3>1, <3>3 DEF MakeThread
    <3> QED
      BY <1>1, <1>2, <3>2, <3>4
  <2>3. CASE \/ AppStart \/ RegisterServer \/ StartServerLocks \/ StartServerFails
             \/ OnInit \/ StartThread \/ StartPolls \/ RunEnds
    <3>1. /\ UNCHANGED <<known, vect, pid, cache>>
          /\ index' \in {index, index + 1, 1}
      BY <2>3 DEF AppStart, RegisterServer, StartServerLocks, StartServerFails,
                  OnInit, StartThread, StartPolls, RunEnds, poolVars
    <3> QED
      BY <1>1, <1>2, <3>1
  <2> QED
    BY <1>3, <2>1, <2>2, <2>3 DEF Main
<1>4. ASSUME NEW s \in All, Lookup(s) PROVE Kinds'
  <2> DEFINE t == Head(duty[s]).to
  <2>1. /\ UNCHANGED <<known, vect, pid, index>>
        /\ \/ cache' = cache
           \/ t \in known /\ cache' = [cache EXCEPT ![s] = @ \cup {t}]
    BY <1>4 DEF Lookup, mainVars, poolVars
  <2> HIDE DEF t
  <2>2. known \subseteq Names
    BY DEF Kinds, Servers
  <2>3. cache' \in [All -> SUBSET Names]
    BY <1>1, <2>1, <2>2
  <2> QED
    BY <1>1, <1>2, <2>1, <2>3
<1>5. CASE \/ \E s \in All : \/ ThreadRuns(s) \/ SendMsgProto(s) \/ StartTime(s)
                             \/ OnMsg(s) \/ Listen(s) \/ SocketFunc(s)
           \/ TimerServer \/ Tick \/ GetServers \/ UNCHANGED vars
  <2>1. UNCHANGED <<known, vect, pid, index, cache>>
    BY <1>5 DEF ThreadRuns, SendMsgProto, StartTime, OnMsg, Listen, SocketFunc,
                TimerServer, OnTimerProto, TimeLoop, Fire, GoToSleep, WakeUp, Tick,
                GetServers, vars, mainVars, poolVars
  <2> QED
    BY <1>1, <1>2, <2>1
<1> QED
  BY <1>3, <1>4, <1>5 DEF Next, Server

LEMMA NextReady ==
  ASSUME ServersFirst, Typing, Control, Kinds, Ready, [Next]_vars
  PROVE  Ready'
<1>2. CASE Main
  BY <1>2, MainReady
<1>3. CASE \/ \E s \in All : Server(s) \/ SocketFunc(s)
           \/ TimerServer \/ Tick \/ GetServers \/ UNCHANGED vars
  <2>1. UNCHANGED <<script, step, at, index, classes, known, vect, pid, inited>>
    BY <1>3 DEF Server, ThreadRuns, Lookup, SendMsgProto, StartTime, OnMsg, Listen,
                SocketFunc, TimerServer, OnTimerProto, TimeLoop, Fire, GoToSleep,
                WakeUp, Tick, GetServers, vars, mainVars, poolVars
  <2>2. UNCHANGED thread \/ \E s \in All : ThreadRuns(s)
    BY <1>3 DEF Server, Lookup, SendMsgProto, StartTime, OnMsg, Listen,
                SocketFunc, TimerServer, OnTimerProto, TimeLoop, Fire, GoToSleep,
                WakeUp, Tick, GetServers, vars
  <2>3. ASSUME NEW s \in All, ThreadRuns(s)
        PROVE  \A t \in Names : thread'[t] # "none" => thread[t] # "none"
    BY <2>3 DEF ThreadRuns, Control, Starter, All
  <2> QED
    BY <2>1, <2>2, <2>3, OtherReady
<1> QED
  BY <1>2, <1>3 DEF Next

LEMMA InitReady == Init => Ready
<1> SUFFICES ASSUME Init PROVE Ready
  OBVIOUS
<1> USE DEF Init
<1>1. Registered /\ HasPid /\ AtFirst
  BY DEF Registered, HasPid, AtFirst
<1>2. InitSoFar /\ AllInited /\ InitBeforeStart
  BY DEF InitSoFar, AllInited, Starts, InitBeforeStart
<1> QED
  BY <1>1, <1>2 DEF Ready

(* When the thread of a server is made, every server that can be looked up *)
(* has its pid and its onInit() behind it (openserver.cpp:29-65), in every *)
(* program that starts no server after a runAllServers().                  *)
THEOREM InitFirstTheorem == ServersFirst => (Spec => []InitBeforeStart)
<1> DEFINE I == IInv /\ Control /\ Kinds /\ Ready
<1> SUFFICES ASSUME ServersFirst PROVE Spec => []InitBeforeStart
  OBVIOUS
<1>1. Init => I
  BY InitInv, InitKept, InitOrder, InitReady DEF Kept, Control, Order
<1>2. I /\ [Next]_vars => I'
  BY NextInv, NextControl, NextKinds, NextReady DEF IInv
<1>3. I => InitBeforeStart
  BY DEF Ready
<1> QED
  BY <1>1, <1>2, <1>3, PTL DEF Spec
-----------------------------------------------------------------------------
(* The types.  Main is within its program and within vectServer_, and does *)
(* not give a pid to who has one; pids are less than there are threads.    *)
Place ==
  /\ step \in 1 .. Len(script.main) + 1
  /\ at \in {"begin", "locked", "init", "start", "poll"}
  /\ index \in 1 .. Len(vect) + 1
  /\ at # "begin" => step <= Len(script.main)
  /\ at = "init" => Op.name \in known /\ pid[Op.name] = -1
  /\ at = "poll" /\ Op.op # "timer" => index <= Len(vect)
PoolTypes ==
  /\ isRunning \in BOOLEAN /\ slock \in BOOLEAN
  /\ classes \subseteq Classes /\ known \subseteq Names
  /\ vect \in Seq(known) /\ Len(vect) = Cardinality(known)
  /\ inited \subseteq Names
PidTypes ==
  /\ pid \in [All -> -1 .. Cardinality(All) - 1]
  /\ \A s, t \in Created : pid[s] = pid[t] => s = t
  /\ \A s \in Created : pid[s] < Cardinality(Created) /\ s \in known \cup {Timer}
(* The timer server asks for nothing, and for a timer only a server asks.  *)
TimersFrom == \A i \in 1 .. Len(inbox[Timer]) :
                inbox[Timer][i].kind = "timer" => inbox[Timer][i].from \in Names
MailTypes ==
  /\ thread \in [All -> {"none", "START", "RUN"}]
  /\ cache \in [All -> SUBSET Names] /\ coming \subseteq Names
  /\ asked \in [Names -> Nat] /\ fired \in [Names -> Nat]
  /\ refused \subseteq All \X All
  /\ events \in Seq([time : Nat, to : Names])
  /\ duty[Timer] = <<>>
  /\ TimersFrom
ClockTypes ==
  /\ now \in 0 .. MaxTime /\ wake \in 0 .. MaxTime + 1 /\ curTime \in 0 .. MaxTime
  /\ phase \in {"idle", "check", "due", "sleep"}
LookTypes ==
  /\ want \in 1 .. Len(Wanted) + 1 /\ count \in 0 .. Times
  /\ servers \in Seq(Names)
Types == Place /\ PoolTypes /\ PidTypes /\ MailTypes /\ ClockTypes /\ LookTypes

(* The operation main is at is one of those it can do.                     *)
LEMMA OpAt ==
  ASSUME Typing, Place, step <= Len(script.main)
  PROVE  Op \in MainOps /\ step \in Nat /\ step + 1 \in 1 .. Len(script.main) + 1
<1>1. script.main \in Seq(MainOps) /\ Len(script.main) \in Nat
  BY ScriptsType DEF Typing
<1>2. step \in 1 .. Len(script.main)
  BY <1>1 DEF Place
<1> QED
  BY <1>1, <1>2 DEF Op

(* The pids are those of a pool of finitely many threads.                  *)
LEMMA CreatedFinite ==
  /\ IsFiniteSet(All) /\ Cardinality(All) \in Nat
  /\ IsFiniteSet(Created) /\ Cardinality(Created) \in Nat
  /\ Cardinality(Created) <= Cardinality(All)
<1>1. IsFiniteSet(All)
  BY NamesFinite, FS_Singleton, FS_Union DEF All
<1>2. Created \in SUBSET All
  BY DEF Created
<1>3. IsFiniteSet(Created) /\ Cardinality(Created) <= Cardinality(All)
  BY <1>1, <1>2, FS_Subset
<1> QED
  BY <1>1, <1>3, FS_CardinalityType

(* A thread that is made has the next pid.                                 *)
LEMMA MadeTypes ==
  ASSUME PidTypes, NEW s \in All, pid[s] = -1, s \in known' \cup {Timer}, UNCHANGED known,
         MakeThread(s)
  PROVE  PidTypes'
<1> DEFINE n == Cardinality(Created)
<1>1. n \in Nat
  BY CreatedFinite
<1>2. pid' = [pid EXCEPT ![s] = n] /\ pid \in [All -> -1 .. Cardinality(All) - 1]
  BY DEF MakeThread, PidTypes
<1>3. Created' = Created \cup {s} /\ s \notin Created
  <2>1. \A t \in All : (pid'[t] >= 0) <=> (t = s \/ pid[t] >= 0)
    BY <1>1, <1>2
  <2> QED
    BY <2>1 DEF Created
<1>4. Cardinality(Created') = n + 1
  BY <1>3, CreatedFinite, FS_AddElement
<1>5. n + 1 <= Cardinality(All) /\ Cardinality(All) \in Nat
  <2>1. Created' \in SUBSET All
    BY DEF Created
  <2> QED
    BY <1>4, <2>1, CreatedFinite, FS_Subset
<1> HIDE DEF n
<1>6. pid' \in [All -> -1 .. Cardinality(All) - 1]
  BY <1>1, <1>2, <1>5
<1>7. pid'[s] = n /\ \A t \in Created : pid'[t] = pid[t] /\ pid[t] < n /\ pid[t] \in Int
  <2>1. \A t \in Created : t \in All /\ t # s /\ pid[t] \in Int
    BY <1>2, <1>3 DEF Created
  <2>2. \A t \in Created : pid[t] < n
    BY DEF PidTypes, n
  <2> QED
    BY <1>2, <2>1, <2>2
<1>8. \A t, u \in Created' : pid'[t] = pid'[u] => t = u
  BY <1>1, <1>3, <1>7 DEF PidTypes
<1>9. \A t \in Created' : pid'[t] < n + 1 /\ t \in known' \cup {Timer}
  BY <1>1, <1>3, <1>7 DEF PidTypes
<1> QED
  BY <1>4, <1>6, <1>8, <1>9 DEF PidTypes

(* Main goes on to the next operation.                                     *)
LEMMA NextOpPlace ==
  ASSUME Typing, Place, NextOp, step <= Len(script.main), UNCHANGED script,
         index' \in 1 .. Len(vect') + 1
  PROVE  Place'
<1>1. step' = step + 1 /\ at' = "begin"
  BY DEF NextOp
<1>2. step + 1 \in 1 .. Len(script.main) + 1
  BY OpAt
<1> QED
  BY <1>1, <1>2 DEF Place

\* A step that leaves the pool alone, but for pids.
SamePool == UNCHANGED <<isRunning, slock, classes, known, vect, inited>>

(* The pids stay.                                                          *)
LEMMA SamePids ==
  ASSUME PidTypes, UNCHANGED pid, known \subseteq known'
  PROVE  PidTypes'
<1>1. Created' = Created
  BY DEF Created
<1> QED
  BY <1>1 DEF PidTypes

(* main() stays within its program, and makes a thread for each name once. *)
LEMMA MainTypes ==
  ASSUME Typing, Place, PoolTypes, PidTypes, Main
  PROVE  Place' /\ PoolTypes' /\ PidTypes'
<1>1. index \in 1 .. Len(vect) + 1 /\ vect \in Seq(known) /\ Len(vect) \in Nat
  BY DEF Place, PoolTypes
<1>2. ASSUME SamePool, NextOp, step <= Len(script.main), UNCHANGED <<script, index>>
      PROVE  Place' /\ PoolTypes'
  <2>1. index' \in 1 .. Len(vect') + 1
    BY <1>1, <1>2 DEF SamePool
  <2> QED
    BY <1>2, <2>1, NextOpPlace DEF SamePool, PoolTypes
<1>3. CASE AppStart
  <2>1. /\ isRunning' = TRUE /\ NextOp /\ step <= Len(script.main)
        /\ UNCHANGED <<script, index, slock, classes, known, vect, pid, inited>>
    BY <1>3 DEF AppStart, Doing, poolVars
  <2>2. Place'
    BY <1>1, <2>1, NextOpPlace
  <2>3. PoolTypes' /\ PidTypes'
    BY <2>1, SamePids DEF PoolTypes
  <2> QED
    BY <2>2, <2>3
<1>4. CASE RegisterServer
  <2>1. /\ NextOp /\ step <= Len(script.main)
        /\ UNCHANGED <<script, index, slock, isRunning, known, vect, pid, inited>>
        /\ classes' = classes \/ classes' = classes \cup {Op.class}
    BY <1>4 DEF RegisterServer, Doing
  <2>2. Op \in MainOps
    BY <2>1, OpAt
  <2>3. Op.class \in Classes
    BY <2>2 DEF MainOps
  <2>4. Place'
    BY <1>1, <2>1, NextOpPlace
  <2>5. PoolTypes' /\ PidTypes'
    BY <2>1, <2>3, SamePids DEF PoolTypes
  <2> QED
    BY <2>4, <2>5
<1>5. CASE StartServerLocks
  <2>1. /\ slock' = TRUE /\ at' = "locked" /\ step <= Len(script.main)
        /\ UNCHANGED <<script, step, index, isRunning, classes, known, vect, pid, inited>>
    BY <1>5 DEF StartServerLocks, Doing, poolVars
  <2> QED
    BY <2>1, SamePids DEF Place, PoolTypes
<1>6. CASE StartServerInserts
  <2>1. /\ slock' = FALSE /\ at = "locked" /\ at' = "init" /\ step <= Len(script.main)
        /\ UNCHANGED <<script, step, index, isRunning, classes, pid, inited>>
        /\ Op.name \notin known /\ known' = known \cup {Op.name}
        /\ vect' = Append(vect, Op.name)
    BY <1>6 DEF StartServerInserts, Doing
  <2>2. Op.name \in Names
    <3>1. Op \in MainOps
      BY <2>1, OpAt
    <3> QED
      BY <3>1 DEF MainOps
  <2> DEFINE n == Op.name
  <2>3. n' = n
    BY <2>1 DEF Op
  <2>4. pid[n] = -1
    <3>1. n \in All /\ n # Timer
      BY <2>2, TimerApart DEF All
    <3>2. n \notin Created
      BY <2>1, <3>1 DEF PidTypes
    <3>3. ~(pid[n] >= 0) /\ pid[n] \in -1 .. Cardinality(All) - 1
      BY <3>1, <3>2 DEF Created, PidTypes
    <3> QED
      BY <3>3, CreatedFinite
  <2> HIDE DEF n
  <2>5. known' = known \cup {n} /\ n \notin known /\ n \in Names /\ vect' = Append(vect, n)
    BY <2>1, <2>2 DEF n
  <2>6. vect' \in Seq(known') /\ Len(vect') = Len(vect) + 1
    <3>1. vect \in Seq(known')
      BY <1>1, <2>5
    <3> QED
      BY <1>1, <2>5, <3>1
  <2>7. Cardinality(known') = Cardinality(known) + 1
    <3>1. IsFiniteSet(known)
      BY NamesFinite, FS_Subset DEF PoolTypes
    <3> QED
      BY <2>5, <3>1, FS_AddElement
  <2>8. PoolTypes'
    BY <2>1, <2>5, <2>6, <2>7 DEF PoolTypes
  <2>9. PidTypes'
    BY <2>1, <2>5, SamePids
  <2>10. index' \in 1 .. Len(vect') + 1
    BY <1>1, <2>1, <2>6
  <2>11. Place'
    <3>1. step' \in 1 .. Len(script'.main) + 1 /\ step' <= Len(script'.main)
      BY <2>1 DEF Place
    <3>2. Op'.name \in known' /\ pid'[Op'.name] = -1
      BY <2>1, <2>3, <2>4, <2>5 DEF n
    <3> QED
      BY <2>1, <2>10, <3>1, <3>2 DEF Place
  <2> QED
    BY <2>8, <2>9, <2>11
<1>7. CASE StartServerFails
  <2>1. /\ NextOp /\ step <= Len(script.main)
        /\ UNCHANGED <<script, index, isRunning, classes, known, vect, pid, inited>>
        /\ slock' = FALSE \/ slock' = slock
    BY <1>7 DEF StartServerFails, Doing, poolVars
  <2>2. Place'
    BY <1>1, <2>1, NextOpPlace
  <2>3. PoolTypes' /\ PidTypes'
    BY <2>1, SamePids DEF PoolTypes
  <2> QED
    BY <2>2, <2>3
<1>8. CASE InitServer
  <2>1. /\ SamePool /\ NextOp /\ step <= Len(script.main) /\ UNCHANGED <<script, index>>
        /\ at = "init" /\ MakeThread(Op.name)
    BY <1>8 DEF InitServer, Doing, SamePool
  <2>2. Op.name \in known /\ pid[Op.name] = -1
    BY <2>1 DEF Place
  <2> DEFINE n == Op.name
  <2> HIDE DEF n
  <2>3. n \in known /\ pid[n] = -1 /\ MakeThread(n) /\ UNCHANGED known
    BY <2>1, <2>2 DEF n, SamePool
  <2>4. n \in All
    BY <2>3 DEF PoolTypes, All
  <2>5. PidTypes'
    <3>1. PICK s : s = n
      OBVIOUS
    <3>2. s \in All /\ pid[s] = -1 /\ s \in known' \cup {Timer} /\ UNCHANGED known /\ MakeThread(s)
      BY <2>3, <2>4, <3>1
    <3> QED
      BY <3>2, MadeTypes
  <2> QED
    BY <1>2, <2>1, <2>5
<1>9. CASE TimerRun
  <2>1. /\ SamePool /\ step <= Len(script.main) /\ UNCHANGED <<script, index>>
        /\ IF Timer \in Created THEN NextOp /\ UNCHANGED pid
           ELSE MakeThread(Timer) /\ at' = "start" /\ UNCHANGED step
    BY <1>9 DEF TimerRun, Doing, SamePool
  <2>2. CASE Timer \in Created
    <3>1. PidTypes'
      BY <2>1, <2>2, SamePids DEF SamePool
    <3> QED
      BY <1>2, <2>1, <2>2, <3>1
  <2>3. CASE Timer \notin Created
    <3>1. Timer \in All
      BY DEF All
    <3>2. pid[Timer] = -1
      <4>1. ~(pid[Timer] >= 0) /\ pid[Timer] \in -1 .. Cardinality(All) - 1
        BY <2>3, <3>1 DEF Created, PidTypes
      <4> QED
        BY <4>1, CreatedFinite
    <3>3. PidTypes'
      BY <2>1, <2>3, <3>1, <3>2, MadeTypes DEF SamePool
    <3>4. Place'
      BY <2>1, <2>3 DEF Place, SamePool
    <3>5. PoolTypes'
      BY <2>1 DEF PoolTypes, SamePool
    <3> QED
      BY <3>3, <3>4, <3>5
  <2> QED
    BY <2>2, <2>3
<1>10. CASE OnInit
  <2>1. /\ UNCHANGED <<script, step, isRunning, classes, known, vect, pid, slock>>
        /\ step <= Len(script.main) /\ at = "begin"
        /\ IF index > Len(vect) THEN index' = 1 /\ at' = "start" /\ UNCHANGED inited
           ELSE inited' = inited \cup {vect[index]} /\ index' = index + 1 /\ UNCHANGED at
    BY <1>10 DEF OnInit, Doing
  <2>2. PidTypes'
    BY <2>1, SamePids
  <2>3. CASE index > Len(vect)
    BY <1>1, <2>1, <2>2, <2>3 DEF Place, PoolTypes
  <2>4. CASE ~(index > Len(vect))
    <3>1. index \in 1 .. Len(vect) /\ index + 1 \in 1 .. Len(vect) + 1
      BY <1>1, <2>4
    <3>2. vect[index] \in Names
      BY <1>1, <3>1 DEF PoolTypes
    <3>3. PoolTypes'
      BY <2>1, <2>4, <3>2 DEF PoolTypes
    <3>4. Place'
      BY <2>1, <2>4, <3>1 DEF Place
    <3> QED
      BY <2>2, <3>3, <3>4
  <2> QED
    BY <2>3, <2>4
<1>11. CASE StartThread
  <2>1. /\ at = "start" /\ at' = "poll" /\ Starting # {}
        /\ UNCHANGED <<script, step, index, isRunning, classes, known, vect, pid, inited, slock>>
    BY <1>11 DEF StartThread, poolVars
  <2>2. Op.op # "timer" => index <= Len(vect)
    BY <2>1 DEF Starting, Doing
  <2>3. Op' = Op
    BY <2>1 DEF Op
  <2>4. Place'
    BY <2>1, <2>2, <2>3 DEF Place
  <2>5. PoolTypes' /\ PidTypes'
    BY <2>1, SamePids DEF PoolTypes
  <2> QED
    BY <2>4, <2>5
<1>12. CASE StartPolls
  <2>1. /\ at = "poll" /\ UNCHANGED <<script, pid>> /\ SamePool
        /\ IF Op.op = "timer" THEN NextOp /\ UNCHANGED index
           ELSE at' = "start" /\ index' = index + 1 /\ UNCHANGED step
    BY <1>12 DEF StartPolls, SamePool, poolVars
  <2>2. step <= Len(script.main)
    BY <2>1 DEF Place
  <2>3. PidTypes'
    BY <2>1, SamePids DEF SamePool
  <2>4. CASE Op.op = "timer"
    BY <1>2, <2>1, <2>2, <2>3, <2>4
  <2>5. CASE Op.op # "timer"
    <3>1. index + 1 \in 1 .. Len(vect) + 1
      BY <1>1, <2>1, <2>5 DEF Place
    <3>2. Place'
      BY <2>1, <2>2, <2>5, <3>1 DEF Place, SamePool
    <3>3. PoolTypes'
      BY <2>1 DEF PoolTypes, SamePool
    <3> QED
      BY <2>3, <3>2, <3>3
  <2> QED
    BY <2>4, <2>5
<1>13. CASE RunEnds
  <2>1. /\ NextOp /\ step <= Len(script.main) /\ index' = 1 /\ SamePool
        /\ UNCHANGED <<script, pid>>
    BY <1>13 DEF RunEnds, Doing, SamePool, poolVars
  <2>2. index' \in 1 .. Len(vect') + 1
    BY <1>1, <2>1 DEF SamePool
  <2>3. Place'
    BY <2>1, <2>2, NextOpPlace
  <2>4. PoolTypes' /\ PidTypes'
    BY <2>1, SamePids DEF PoolTypes, SamePool
  <2> QED
    BY <2>3, <2>4
<1> QED
  BY <1>3, <1>4, <1>5, <1>6, <1>7, <1>8, <1>9, <1>10, <1>11, <1>12, <1>13 DEF Main

(* Nobody else touches the program and the pool.                           *)
LEMMA OtherPlace ==
  ASSUME Place, PoolTypes, PidTypes, UNCHANGED <<mainVars, poolVars, slock>>
  PROVE  Place' /\ PoolTypes' /\ PidTypes'
<1>1. UNCHANGED <<script, step, at, index, isRunning, classes, known, vect, pid, inited, slock>>
  BY DEF mainVars, poolVars
<1>2. Op' = Op
  BY <1>1 DEF Op
<1> QED
  BY <1>1, <1>2, SamePids DEF Place, PoolTypes

\* A step that leaves alone what has to do with messages.
SameMails == UNCHANGED <<cache, coming, asked, fired, refused, events, duty, inbox>>

(* What Send() leaves: timers at the timer server are still from servers.  *)
LEMMA SendTypes ==
  ASSUME Typing, MailTypes, NEW s \in All, NEW t \in All, NEW kind, NEW time,
         Send(s, t, kind, time), kind = "timer" => s \in Names
  PROVE  refused' \subseteq All \X All /\ TimersFrom'
<1> DEFINE m == [kind |-> kind, from |-> s, time |-> time]
<1>1. refused' \subseteq All \X All
  BY DEF Send, MailTypes
<1>2. Posted(t, m)
  BY DEF Send, Posted
<1>3. inbox \in [All -> Seq(Messages)] /\ Timer \in All
  BY DEF Typing, All
<1>4. m.kind = "timer" => m.from \in Names
  OBVIOUS
<1> HIDE DEF m
<1> DEFINE q == inbox[Timer]
<1>5. q \in Seq(Messages) /\ \A i \in 1 .. Len(q) : q[i].kind = "timer" => q[i].from \in Names
  BY <1>3 DEF MailTypes, TimersFrom
<1>6. inbox'[Timer] = q \/ inbox'[Timer] = Append(q, m)
  BY <1>2, <1>3 DEF Posted
<1> HIDE DEF q
<1>7. TimersFrom'
  <2>1. CASE inbox'[Timer] = q
    BY <1>5, <2>1 DEF TimersFrom
  <2>2. CASE inbox'[Timer] = Append(q, m)
    <3> DEFINE r == Append(q, m)
    <3>1. /\ Len(r) = Len(q) + 1 /\ r[Len(q) + 1] = m /\ Len(q) \in Nat
          /\ \A i \in 1 .. Len(q) : r[i] = q[i]
      BY <1>5
    <3> HIDE DEF r
    <3>2. \A i \in 1 .. Len(r) : i \in 1 .. Len(q) \/ i = Len(q) + 1
      BY <3>1
    <3>3. \A i \in 1 .. Len(r) : r[i].kind = "timer" => r[i].from \in Names
      BY <1>4, <1>5, <3>1, <3>2
    <3> QED
      BY <2>2, <3>3 DEF TimersFrom, r
  <2> QED
    BY <1>6, <2>1, <2>2
<1> QED
  BY <1>1, <1>7

(* main() sends nothing, and starts threads.                               *)
LEMMA MainMails ==
  ASSUME MailTypes, Main
  PROVE  MailTypes'
<1>1. SameMails /\ thread' \in [All -> {"none", "START", "RUN"}]
  <2> USE DEF SameMails, MailTypes, timerVars
  <2>1. CASE AppStart
    BY <2>1 DEF AppStart
  <2>2. CASE RegisterServer
    BY <2>2 DEF RegisterServer
  <2>3. CASE StartServerLocks
    BY <2>3 DEF StartServerLocks
  <2>4. CASE StartServerInserts
    BY <2>4 DEF StartServerInserts
  <2>5. CASE StartServerFails
    BY <2>5 DEF StartServerFails
  <2>6. CASE InitServer
    BY <2>6 DEF InitServer
  <2>7. CASE TimerRun
    BY <2>7 DEF TimerRun
  <2>8. CASE OnInit
    BY <2>8 DEF OnInit
  <2>9. CASE StartThread
    <3>1. SameMails
      BY <2>9 DEF StartThread
    <3>2. PICK s \in Starting : thread' = [thread EXCEPT ![s] = IF @ = "none" THEN "START" ELSE @]
      BY <2>9 DEF StartThread
    <3>3. thread' \in [All -> {"none", "START", "RUN"}]
      BY <3>2
    <3> QED
      BY <3>1, <3>3
  <2>10. CASE StartPolls
    BY <2>10 DEF StartPolls
  <2>11. CASE RunEnds
    BY <2>11 DEF RunEnds
  <2> QED
    BY <2>1, <2>2, <2>3, <2>4, <2>5, <2>6, <2>7, <2>8, <2>9, <2>10, <2>11 DEF Main
<1> QED
  BY <1>1 DEF MailTypes, SameMails, TimersFrom

(* Only a server is in a handler: the timer server has none.               *)
LEMMA InHandler ==
  ASSUME Typing, MailTypes, NEW s \in All, duty[s] # <<>>
  PROVE  /\ s \in Names /\ s # Timer
         /\ Head(duty[s]) \in Duties
         /\ Done(s) => duty'[Timer] = <<>>
<1>1. s # Timer /\ s \in Names
  BY DEF MailTypes, All
<1>2. duty \in [All -> Seq(Duties)] /\ duty[s] \in Seq(Duties)
  BY DEF Typing
<1>3. Head(duty[s]) \in Duties
  BY <1>2
<1>4. Done(s) => duty'[Timer] = duty[Timer]
  BY <1>1, <1>2 DEF Done, All
<1> QED
  BY <1>1, <1>3, <1>4 DEF MailTypes

(* The threads of servers.                                                 *)
LEMMA ServerMails ==
  ASSUME Typing, PoolTypes, MailTypes, NEW s \in All, Server(s) \/ SocketFunc(s)
  PROVE  MailTypes'
<1>1. CASE ThreadRuns(s)
  <2>1. /\ thread' = [thread EXCEPT ![s] = "RUN"]
        /\ UNCHANGED <<cache, coming, asked, fired, refused, events>>
    BY <1>1 DEF ThreadRuns, timerVars
  <2>2. CASE s = Timer
    <3>1. /\ inbox' = [inbox EXCEPT ![Timer] =
                         Append(@, [kind |-> "loop", from |-> Timer, time |-> 0])]
          /\ UNCHANGED duty
      BY <1>1, <2>2 DEF ThreadRuns
    <3> DEFINE m == [kind |-> "loop", from |-> Timer, time |-> 0]
               q == inbox[Timer]
               r == Append(q, m)
    <3>2. inbox'[Timer] = r /\ q \in Seq(Messages)
      BY <3>1 DEF Typing, All
    <3>3. m.kind # "timer"
      OBVIOUS
    <3>4. \A i \in 1 .. Len(q) : q[i].kind = "timer" => q[i].from \in Names
      BY DEF MailTypes, TimersFrom
    <3> HIDE DEF m, q
    <3>5. /\ Len(r) = Len(q) + 1 /\ r[Len(q) + 1] = m /\ Len(q) \in Nat
          /\ \A i \in 1 .. Len(q) : r[i] = q[i]
      BY <3>2
    <3> HIDE DEF r
    <3>6. \A i \in 1 .. Len(r) : i \in 1 .. Len(q) \/ i = Len(q) + 1
      BY <3>5
    <3>7. \A i \in 1 .. Len(r) : r[i].kind = "timer" => r[i].from \in Names
      BY <3>3, <3>4, <3>5, <3>6
    <3>8. TimersFrom'
      BY <3>2, <3>7 DEF TimersFrom
    <3> QED
      BY <2>1, <3>1, <3>8 DEF MailTypes
  <2>3. CASE s # Timer
    <3>1. duty'[Timer] = duty[Timer] /\ inbox' = inbox
      BY <1>1, <2>3 DEF ThreadRuns, Typing, All
    <3> QED
      BY <2>1, <3>1 DEF MailTypes, TimersFrom
  <2> QED
    BY <2>2, <2>3
<1>2. CASE Lookup(s)
  <2>1. /\ UNCHANGED <<thread, coming, asked, fired, refused, events, inbox>>
        /\ duty[s] # <<>>
    BY <1>2 DEF Lookup, Has, timerVars
  <2>2. \/ UNCHANGED cache /\ Done(s)
        \/ /\ UNCHANGED duty
           /\ Head(duty[s]).to \in known
           /\ cache' = [cache EXCEPT ![s] = @ \cup {Head(duty[s]).to}]
    BY <1>2 DEF Lookup
  <2>3. duty'[Timer] = <<>>
    BY <2>1, <2>2, InHandler DEF MailTypes
  <2>4. cache' \in [All -> SUBSET Names]
    <3>1. cache \in [All -> SUBSET Names] /\ known \subseteq Names
      BY DEF MailTypes, PoolTypes
    <3>2. PICK t : t = Head(duty[s]).to
      OBVIOUS
    <3>3. cache' = cache \/ (t \in Names /\ cache' = [cache EXCEPT ![s] = @ \cup {t}])
      BY <2>2, <3>1, <3>2
    <3> QED
      BY <3>1, <3>3
  <2> QED
    BY <2>1, <2>3, <2>4 DEF MailTypes, TimersFrom
<1>3. CASE SendMsgProto(s)
  <2>1. /\ UNCHANGED <<thread, cache, coming, asked, fired, events>>
        /\ duty[s] # <<>> /\ Head(duty[s]).op \in {"ask", "answer"} /\ Done(s)
        /\ Head(duty[s]).to \in cache[s]
        /\ Send(s, Head(duty[s]).to, Head(duty[s]).op, 0)
    BY <1>3 DEF SendMsgProto, Has, timerVars
  <2>2. Head(duty[s]).to \in All
    BY <2>1 DEF MailTypes, All
  <2>3. Head(duty[s]).op # "timer"
    BY <2>1
  <2>4. duty'[Timer] = <<>>
    BY <2>1, InHandler
  <2>5. refused' \subseteq All \X All /\ TimersFrom'
    <3>1. PICK t \in All : t = Head(duty[s]).to
      BY <2>2
    <3>3. PICK k : k = Head(duty[s]).op
      OBVIOUS
    <3>2. Send(s, t, k, 0) /\ k # "timer"
      BY <2>1, <2>3, <3>1, <3>3
    <3> QED
      BY <3>2, SendTypes
  <2> QED
    BY <2>1, <2>4, <2>5 DEF MailTypes
<1>4. CASE StartTime(s)
  <2>1. /\ UNCHANGED <<thread, cache, coming, fired, events>> /\ duty[s] # <<>> /\ Done(s)
        /\ \/ /\ \E k : Send(s, Timer, "timer", k)
              /\ asked' = [asked EXCEPT ![s] = @ + 1]
           \/ UNCHANGED <<inbox, refused, asked>>
    BY <1>4 DEF StartTime, Has, timerVars
  <2>2. s \in Names /\ duty'[Timer] = <<>>
    BY <2>1, InHandler
  <2>3. asked' \in [Names -> Nat]
    BY <2>1, <2>2 DEF MailTypes
  <2>4. refused' \subseteq All \X All /\ TimersFrom'
    <3>1. CASE UNCHANGED <<inbox, refused>>
      BY <3>1 DEF MailTypes, TimersFrom
    <3>2. ASSUME NEW k, Send(s, Timer, "timer", k)
          PROVE  refused' \subseteq All \X All /\ TimersFrom'
      <4>1. Timer \in All
        BY DEF All
      <4> QED
        BY <2>2, <3>2, <4>1, SendTypes
    <3> QED
      BY <2>1, <3>1, <3>2
  <2> QED
    BY <2>1, <2>2, <2>3, <2>4 DEF MailTypes
<1>5. CASE OnMsg(s)
  <2>1. /\ UNCHANGED <<thread, cache, coming, asked, refused, events>>
        /\ s \in Names /\ s # Timer
        /\ fired' = [fired EXCEPT ![s] = IF Head(inbox[s]).kind = "timer" THEN @ + 1 ELSE @]
        /\ inbox' = [inbox EXCEPT ![s] = Tail(@)]
        /\ \E d : duty' = [duty EXCEPT ![s] = d]
    BY <1>5 DEF OnMsg, timerVars, All
  <2>2. Timer \in All /\ duty \in [All -> Seq(Duties)] /\ inbox \in [All -> Seq(Messages)]
    BY DEF All, Typing
  <2>3. duty'[Timer] = duty[Timer] /\ inbox'[Timer] = inbox[Timer]
    BY <2>1, <2>2
  <2>4. fired' \in [Names -> Nat]
    BY <2>1 DEF MailTypes
  <2> QED
    BY <2>1, <2>3, <2>4 DEF MailTypes, TimersFrom
<1>6. CASE Listen(s)
  <2>1. /\ UNCHANGED <<thread, cache, asked, fired, refused, events, inbox>>
        /\ duty[s] # <<>> /\ Done(s) /\ coming' \subseteq coming \cup {s}
    BY <1>6 DEF Listen, Has, timerVars
  <2>2. s \in Names /\ duty'[Timer] = <<>>
    BY <2>1, InHandler
  <2> QED
    BY <2>1, <2>2 DEF MailTypes, TimersFrom
<1>7. CASE SocketFunc(s)
  <2>1. /\ UNCHANGED <<thread, cache, asked, fired, events, duty>>
        /\ coming' \subseteq coming /\ Send(s, s, "socket", 0)
    BY <1>7 DEF SocketFunc, timerVars
  <2>2. refused' \subseteq All \X All /\ TimersFrom'
    BY <2>1, SendTypes
  <2> QED
    BY <2>1, <2>2 DEF MailTypes
<1> QED
  BY <1>1, <1>2, <1>3, <1>4, <1>5, <1>6, <1>7 DEF Server

(* The timer server.                                                       *)
LEMMA TimerMails ==
  ASSUME Typing, MailTypes, TimerServer
  PROVE  MailTypes'
<1> DEFINE E == [time : Nat, to : Names]
<1>1. /\ UNCHANGED <<thread, cache, coming, asked, fired, duty>>
  BY DEF TimerServer, OnTimerProto, TimeLoop, Fire, GoToSleep, WakeUp
<1>2. events \in Seq(E)
  BY DEF MailTypes
<1>3. CASE OnTimerProto
  <2> DEFINE q == inbox[Timer]
             m == Head(q)
             e == [time |-> m.time, to |-> m.from]
  <2>1. /\ q # <<>> /\ inbox' = [inbox EXCEPT ![Timer] = Tail(@)] /\ UNCHANGED refused
        /\ events' = IF m.kind = "timer" THEN Insert(events, e) ELSE events
    BY <1>3 DEF OnTimerProto
  <2>2. q \in Seq(Messages) /\ inbox'[Timer] = Tail(q)
    BY <2>1 DEF Typing, All
  <2>3. \A i \in 1 .. Len(q) : q[i].kind = "timer" => q[i].from \in Names
    BY DEF MailTypes, TimersFrom
  <2> HIDE DEF q
  <2>4. m \in Messages /\ m = q[1] /\ 1 \in 1 .. Len(q)
    BY <2>1, <2>2
  <2>5. m.kind = "timer" => e \in E
    BY <2>3, <2>4 DEF Messages
  <2> HIDE DEF e, m, E
  <2>6. events' \in Seq(E)
    BY <1>2, <2>1, <2>5, InsertTyped
  <2>7. TimersFrom'
    <3> DEFINE r == Tail(q)
    <3>1. /\ Len(r) = Len(q) - 1 /\ Len(q) \in Nat
          /\ \A i \in 1 .. Len(r) : r[i] = q[i + 1]
      BY <2>1, <2>2
    <3> HIDE DEF r
    <3>2. \A i \in 1 .. Len(r) : i + 1 \in 1 .. Len(q)
      BY <3>1
    <3>3. \A i \in 1 .. Len(r) : r[i].kind = "timer" => r[i].from \in Names
      BY <2>3, <3>1, <3>2
    <3> QED
      BY <2>2, <3>3 DEF TimersFrom, r
  <2> QED
    BY <1>1, <2>1, <2>6, <2>7 DEF MailTypes, E
<1>4. CASE Fire
  <2>1. /\ events # <<>> /\ events' = Tail(events)
        /\ Send(Timer, Head(events).to, "timer", Head(events).time)
    BY <1>4 DEF Fire, IsDue
  <2> HIDE DEF E
  <2>2. events' \in Seq(E) /\ Head(events) \in E
    BY <1>2, <2>1
  <2>3. PICK t : t = Head(events).to
    OBVIOUS
  <2>4. t \in Names /\ t # Timer /\ t \in All
    BY <2>2, <2>3, TimerApart DEF All, E
  <2>5. /\ refused' \subseteq refused \cup {<<Timer, t>>}
        /\ \/ inbox' = inbox
           \/ \E x : inbox' = [inbox EXCEPT ![t] = x]
    BY <2>1, <2>3 DEF Send
  <2>6. inbox'[Timer] = inbox[Timer]
    BY <2>4, <2>5 DEF Typing, All
  <2>7. refused' \subseteq All \X All
    BY <2>4, <2>5 DEF MailTypes, All
  <2> QED
    BY <1>1, <2>2, <2>6, <2>7 DEF MailTypes, TimersFrom, E
<1>5. CASE TimeLoop \/ GoToSleep \/ WakeUp
  <2>1. UNCHANGED <<inbox, events, refused>>
    BY <1>5 DEF TimeLoop, GoToSleep, WakeUp
  <2> QED
    BY <1>1, <2>1 DEF MailTypes, TimersFrom
<1> QED
  BY <1>3, <1>4, <1>5 DEF TimerServer

(* The clock stops at its bound, and no time is ahead of it.               *)
LEMMA ClockStep ==
  ASSUME Typing, ClockTypes, [Next]_vars
  PROVE  ClockTypes'
<1>1. MaxTime \in Nat
  BY MaxTimeNat
<1>2. CASE UNCHANGED <<now, phase, curTime, wake>>
  BY <1>2 DEF ClockTypes
<1>3. CASE Main
  <2>1. UNCHANGED <<now, phase, curTime, wake>>
    BY <1>3 DEF Main, AppStart, RegisterServer, StartServerLocks, StartServerInserts,
         StartServerFails, InitServer, TimerRun, OnInit, StartThread, StartPolls, RunEnds,
         timerVars
  <2> QED
    BY <1>2, <2>1
<1>4. CASE \E s \in All : Server(s) \/ SocketFunc(s)
  <2>1. UNCHANGED <<now, phase, curTime, wake>>
    BY <1>4 DEF Server, ThreadRuns, Lookup, SendMsgProto, StartTime, OnMsg, Listen,
         SocketFunc, timerVars
  <2> QED
    BY <1>2, <2>1
<1>5. CASE TimerServer
  <2> USE <1>1 DEF ClockTypes
  <2>1. CASE OnTimerProto
    BY <2>1 DEF OnTimerProto
  <2>2. CASE TimeLoop
    BY <2>2 DEF TimeLoop
  <2>3. CASE Fire
    BY <2>3 DEF Fire
  <2>4. CASE GoToSleep
    BY <2>4 DEF GoToSleep
  <2>5. CASE WakeUp
    BY <2>5 DEF WakeUp
  <2> QED
    BY <1>5, <2>1, <2>2, <2>3, <2>4, <2>5 DEF TimerServer
<1>6. CASE Tick
  BY <1>1, <1>6 DEF Tick, ClockTypes, timerVars
<1>7. CASE GetServers \/ UNCHANGED vars
  <2>1. UNCHANGED <<now, phase, curTime, wake>>
    BY <1>7 DEF GetServers, vars, timerVars
  <2> QED
    BY <1>2, <2>1
<1> QED
  BY <1>3, <1>4, <1>5, <1>6, <1>7 DEF Next

(* GetServers() goes through the names it was given.                       *)
LEMMA LookStep ==
  ASSUME LookTypes, [Next]_vars
  PROVE  LookTypes'
<1>1. CASE UNCHANGED lookVars
  BY <1>1 DEF LookTypes, lookVars
<1>2. CASE GetServers
  <2>1. Len(Wanted) \in Nat /\ Times \in Nat
    BY WantedNames, TimesNat
  <2>2. want \in 1 .. Len(Wanted) /\ want + 1 \in 1 .. Len(Wanted) + 1
    BY <1>2, <2>1 DEF GetServers, LookTypes
  <2>3. Wanted[want] \in Names
    BY <2>2, WantedNames
  <2>4. \/ /\ want' = want + 1 /\ count' = Times
           /\ servers' = servers \/ servers' = Append(servers, Wanted[want])
        \/ UNCHANGED <<want, servers>> /\ count > 0 /\ count' = count - 1
    BY <1>2 DEF GetServers
  <2>5. servers' \in Seq(Names)
    BY <2>3, <2>4 DEF LookTypes
  <2>6. count' \in 0 .. Times
    BY <2>1, <2>4 DEF LookTypes
  <2>7. want' \in 1 .. Len(Wanted) + 1
    BY <2>2, <2>4 DEF LookTypes
  <2> QED
    BY <2>5, <2>6, <2>7 DEF LookTypes
<1>3. ~GetServers => UNCHANGED lookVars
  BY DEF Next, Main, AppStart, RegisterServer, StartServerLocks, StartServerInserts,
       StartServerFails, InitServer, TimerRun, OnInit, StartThread, StartPolls, RunEnds,
       Server, ThreadRuns, Lookup, SendMsgProto, StartTime, OnMsg, Listen, SocketFunc,
       TimerServer, OnTimerProto, TimeLoop, Fire, GoToSleep, WakeUp, Tick, vars
<1> QED
  BY <1>1, <1>2, <1>3

(* Every step keeps the types.                                             *)
LEMMA TypesStep ==
  ASSUME Typing, Types, [Next]_vars
  PROVE  Types'
<1>1. ClockTypes' /\ LookTypes'
  BY ClockStep, LookStep DEF Types
<1>2. CASE Main
  BY <1>1, <1>2, MainTypes, MainMails DEF Types
<1>3. ASSUME NEW s \in All, Server(s) \/ SocketFunc(s)
      PROVE  Types'
  <2>1. MailTypes'
    BY <1>3, ServerMails DEF Types
  <2>2. UNCHANGED <<mainVars, poolVars, slock>>
    BY <1>3 DEF Server, ThreadRuns, Lookup, SendMsgProto, StartTime, OnMsg, Listen, SocketFunc
  <2> QED
    BY <1>1, <2>1, <2>2, OtherPlace DEF Types
<1>4. CASE TimerServer
  <2>1. UNCHANGED <<mainVars, poolVars, slock>>
    BY <1>4 DEF TimerServer, OnTimerProto, TimeLoop, Fire, GoToSleep, WakeUp
  <2> QED
    BY <1>1, <1>4, <2>1, TimerMails, OtherPlace DEF Types
<1>5. CASE Tick \/ GetServers \/ UNCHANGED vars
  <2>1. UNCHANGED <<mainVars, poolVars, slock>> /\ SameMails /\ UNCHANGED thread
    BY <1>5 DEF Tick, GetServers, vars, SameMails, timerVars
  <2>2. MailTypes'
    BY <2>1 DEF Types, MailTypes, SameMails, TimersFrom
  <2> QED
    BY <1>1, <2>1, <2>2, OtherPlace DEF Types
<1> QED
  BY <1>2, <1>3, <1>4, <1>5 DEF Next

(* At the start main is at the first operation of a program, if any, and   *)
(* there is nothing yet.                                                   *)
LEMMA InitTypes == Init => Types
<1> SUFFICES ASSUME Init PROVE Types
  OBVIOUS
<1>1. Len(script.main) \in Nat
  BY ScriptsType DEF Init
<1>2. /\ step = 1 /\ at = "begin" /\ index = 1 /\ isRunning = FALSE
      /\ classes = {} /\ known = {} /\ vect = <<>> /\ inited = {} /\ slock = FALSE
  BY DEF Init
<1>3. Place
  BY <1>1, <1>2 DEF Place
<1>4. PoolTypes
  <2>1. Cardinality({}) = 0 /\ <<>> \in Seq({}) /\ Len(<<>>) = 0
    BY FS_EmptySet
  <2> QED
    BY <1>2, <2>1 DEF PoolTypes
<1>5. PidTypes
  <2>1. pid = [s \in All |-> -1]
    BY DEF Init
  <2>2. Created = {}
    BY <2>1 DEF Created
  <2>3. -1 \in -1 .. Cardinality(All) - 1
    BY CreatedFinite
  <2> QED
    BY <2>1, <2>2, <2>3 DEF PidTypes
<1>6. MailTypes
  BY DEF Init, MailTypes, TimersFrom, All
<1>7. ClockTypes
  BY DEF Init, ClockTypes
<1>8. LookTypes
  BY WantedNames, TimesNat DEF Init, LookTypes
<1> QED
  BY <1>3, <1>4, <1>5, <1>6, <1>7, <1>8 DEF Types

(* Every variable has its type, whatever the program: main stays within    *)
(* its operations and within vectServer_, vectServer_ has each name of     *)
(* mapNameServer_ once, no two threads have one pid_, and only servers ask *)
(* for timers.                                                             *)
THEOREM ServersTypes == Spec => []TypeOK
<1>1. Init => IInv /\ Types
  BY InitInv, InitTypes
<1>2. IInv /\ Types /\ [Next]_vars => (IInv /\ Types)'
  BY NextInv, TypesStep DEF IInv
<1>3. IInv /\ Types => TypeOK
  BY DEF IInv, Typing, Types, Place, PoolTypes, PidTypes, MailTypes, ClockTypes,
         LookTypes, TypeOK
<1> QED
  BY <1>1, <1>2, <1>3, PTL DEF Spec
=============================================================================
