------------------------- MODULE SocketOrderProofs -------------------------
(***************************************************************************)
(* Order and wakeups of SocketServer: the count of the sends under way,    *)
(* the write event of a connection with data, and the order of what one    *)
(* thread sends. Order is the inductive invariant, on top of Base, Settled *)
(* and Streams: a direct write needs sending = 0 and empty lists, which    *)
(* means that no send() of the caller is in front of it, and a thread      *)
(* takes its calls one at a time, which keeps those in the pipe in order.  *)
(* All of it is for threads that send after the OPEN message (EarlySend =  *)
(* FALSE), as a send() before it takes no reference.                       *)
(***************************************************************************)
EXTENDS SocketStreamProofs

USE Bounds, Usage
USE DEF slotVars, refVars, listVars, evVars, pollVars, threadVars, bufVars,
        toldVars, linkVars

(* Sends are for connections with an OPEN message, and neither a slot that *)
(* is being opened nor one whose OPEN message is under way has had one.    *)
OpenedFirst ==
  /\ \A m \in sent : m.id \in opened
  /\ type = "RESERVE" => lastId \notin opened
  /\ type \in {"CONNECTING", "PACCEPT"} => id \notin opened
  /\ poll \in {"quiet", "opened"} => id \notin opened
(* sending counts the sends that are on their way to the socket thread.    *)
Counted ==
  protocol = "TCP" => /\ IsFiniteSet(SendsOf(id))
                      /\ sending = Cardinality(SendsOf(id))
(* A connection is in epoll, for write events as long as data waits.       *)
Watched ==
  /\ Alive /\ type \in {"CONNECTING", "CONNECTED"} => watch # "no"
  /\ DataIsWatched
(* The commands of a caller's sends are in the order of its calls, and     *)
(* all of earlier calls than the one it is in.                             *)
Carries(k) == k \in 1 .. Len(pipe) /\ pipe[k].op \in {"D", "P"}
Queue ==
  /\ \A j, k \in 1 .. Len(pipe) :
       Carries(j) /\ Carries(k) /\ j < k /\ pipe[j].by = pipe[k].by =>
         pipe[j].nth < pipe[k].nth
  /\ \A k \in 1 .. Len(pipe) :
       Carries(k) /\ pc[pipe[k].by] \in Sends => pipe[k].nth < calls[pipe[k].by]
(* The low list holds only what sendLowpriority() was given.               *)
LowIsLow == \A m \in Msgs(low) : m.op = "P"
(* A caller that has the lock for a direct write to its connection has no  *)
(* send() behind it in the pipe, nor, when it writes, in the high list.    *)
NothingAhead ==
  \A t \in Threads :
    /\ pc[t] \in {"locked", "lockedrest"} /\ call[t].id = id =>
         \A m \in sent : m.op = "D" /\ m.by = t /\ m.id = id => ~InPipe(m)
    /\ pc[t] = "lockedrest" =>
         \A m \in Msgs(high) : ~(m.op = "D" /\ m.by = t)
(* Every send() of ms that is earlier than one in s, of the same caller,   *)
(* has its last unit in front of it.                                       *)
InOrder(s, ms) ==
  \A p \in 1 .. Len(s) : \A m \in ms :
    m.op = "D" /\ Before(m, s[p][1]) => \E q \in 1 .. p - 1 : s[q] = <<m, Size>>
(* What is and will be written is in the order of the calls, and what was  *)
(* freed, or is about to be freed after a direct write, was written.       *)
Ordered ==
  Alive => /\ InOrder(wire \o BeforeHigh, sent)
           /\ type # "HALFCLOSE" => \A m \in freed : m.id = id => m \in Whole(wire)
           /\ \A t \in Threads : pc[t] = "written" /\ call[t].id = id =>
                call[t] \in Whole(wire)
(* The socket thread writes to and decides about a slot that is in use.    *)
Busy == poll \in {"flush", "send", "decide"} => type # "INVALID"
(* The inductive invariant, on top of Base, Settled and Streams.           *)
Order == /\ OpenedFirst /\ Counted /\ Watched
         /\ Queue /\ LowIsLow /\ NothingAhead /\ Ordered /\ Busy

-----------------------------------------------------------------------------
(* A connection that is being opened holds nothing: what the slot holds    *)
(* was sent to its connection, after the OPEN message.                     *)
LEMMA NothingYet ==
  ASSUME Base, Settled, OpenedFirst, Live, id \notin opened
  PROVE  high = <<>> /\ low = <<>> /\ dwBuffer = <<>>
<1>1. tag = id
  BY DEF Settled, Tagged
<1>2. ASSUME NEW s \in Seq(Buffer), \A p \in 1 .. Len(s) : s[p][1].id = id
      PROVE  s = <<>>
  <2>1. ASSUME NEW p \in 1 .. Len(s)  PROVE FALSE
    <3>1. s[p][1] \in sent
      BY DEF Buffer
    <3> QED
      BY <1>2, <3>1 DEF OpenedFirst
  <2>2. Len(s) \in Nat /\ (Len(s) = 0 => s = <<>>)
    OBVIOUS
  <2> QED
    BY <2>1, <2>2
<1>3. high \in Seq(Buffer) /\ low \in Seq(Buffer) /\ dwBuffer \in Seq(Buffer)
  BY ListsAre
<1> QED
  BY <1>1, <1>2, <1>3 DEF Settled, Own

(* A step of a caller: keeps OpenedFirst.                                  *)
LEMMA CallerOpened ==
  ASSUME EarlySend = FALSE, Base, Settled, OpenedFirst, NEW t \in Threads, Caller(t)
  PROVE  OpenedFirst'
<1>1. CASE Reserve(t)
  <2>1. lastId' = lastId + 1 /\ lastId \in Nat /\ opened \subseteq 1 .. lastId
    BY <1>1 DEF Reserve, Base, SlotTyped, Settled, IdsKnown
  <2>2. lastId' \notin opened
    BY <2>1
  <2> QED
    BY <1>1, <2>2 DEF Reserve, OpenedFirst
<1>2. CASE NameSlot(t)
  <2>1. type = "RESERVE" /\ type' = type
    BY <1>2 DEF NameSlot, At, Settled, Reserving, Reserves
  <2>2. poll \notin {"quiet", "opened"}
    BY <2>1 DEF Settled, OnResult
  <2> QED
    BY <1>2, <2>1, <2>2 DEF NameSlot, OpenedFirst
<1>3. CASE SendGone(t)
  <2>1. PICK op \in {"D", "P"}, i \in opened : sent' = sent \cup {NewCall(t, op, i)}
    BY <1>3 DEF SendGone, SendTo
  <2>2. NewCall(t, op, i).id = i
    BY DEF NewCall
  <2> QED
    BY <1>3, <2>1, <2>2 DEF SendGone, OpenedFirst
<1>4. CASE Send(t)
  <2>1. PICK op \in {"D", "P"}, i \in opened : sent' = sent \cup {NewCall(t, op, i)}
    BY <1>4 DEF Send, SendTo
  <2>2. NewCall(t, op, i).id = i
    BY DEF NewCall
  <2> QED
    BY <1>4, <2>1, <2>2 DEF Send, OpenedFirst
<1>5. CASE \/ SendOpen(t) \/ Request(t) \/ FirstTest(t) \/ TryLock(t) \/ SecondTest(t)
           \/ DirectWrite(t) \/ NoDirectWrite(t) \/ Unlock(t) \/ IncSendingRef(t)
           \/ PushSend(t)
  <2>1. UNCHANGED <<sent, opened, type, lastId, id, poll>>
    BY <1>5 DEF SendOpen, Request, FirstTest, TryLock, SecondTest, ReadsLists, DirectWrite,
       NoDirectWrite, Unlock, IncSendingRef, PushSend
  <2> QED
    BY <2>1 DEF OpenedFirst
<1> QED
  BY <1>1, <1>2, <1>3, <1>4, <1>5 DEF Caller, InCall

(* The ids that new_fd() gives to a slot have had no OPEN message.         *)
LEMMA NewIds ==
  ASSUME Base, Settled, OpenedFirst, OpenSocket \/ Accept
  PROVE  id' \notin opened /\ id' = lastId' /\ protocol' = "TCP" /\ sending' = 0
<1>1. CASE OpenSocket
  <2>1. Head(pipe).op = "O" /\ pipe # <<>> /\ pipe' = Tail(pipe) /\ type = "RESERVE"
    BY <1>1 DEF OpenSocket, Command
  <2>2. Head(pipe).id = lastId
    BY <2>1, Taking DEF Base, Settled, Reserving
  <2> QED
    BY <1>1, <2>1, <2>2 DEF OpenSocket, NewFd, OpenedFirst
<1>2. CASE Accept
  <2>1. lastId' = lastId + 1 /\ lastId \in Nat /\ opened \subseteq 1 .. lastId
    BY <1>2 DEF Accept, Base, SlotTyped, Settled, IdsKnown
  <2>2. lastId' \notin opened
    BY <2>1
  <2> QED
    BY <1>2, <2>2 DEF Accept, NewFd
<1> QED
  BY <1>1, <1>2

(* A step of the socket thread: keeps OpenedFirst.                         *)
LEMMA PollOpened ==
  ASSUME Base, Settled, OpenedFirst,
         Poll \/ WaitWrite \/ WaitEof \/ Accept \/ PeerCloses
  PROVE  OpenedFirst'
<1>1. CASE OpenSocket \/ Accept
  <2>1. id' \notin opened /\ id' = lastId'
    BY <1>1, NewIds
  <2>2. /\ sent' = sent /\ poll' = poll /\ poll = "loop"
        /\ opened' = opened \/ (opened' = opened \cup {id'} /\ type' = "CONNECTED")
        /\ type' # "RESERVE"
    BY <1>1 DEF OpenSocket, Command, NewFd, Opens, Accept
  <2> QED
    BY <2>1, <2>2 DEF OpenedFirst
<1>2. CASE StartSocket
  <2>1. /\ sent' = sent /\ poll' \in {"loop", "clear"} /\ id' = id /\ lastId' = lastId
        /\ \/ opened' = opened /\ type' \in {type, "CONNECTED"}
           \/ opened' = opened \cup {id} /\ type' = "CONNECTED"
    BY <1>2 DEF StartSocket, Command, Tells, Opens, Gone
  <2> QED
    BY <2>1 DEF OpenedFirst
<1>3. CASE TellConnected
  <2>1. /\ sent' = sent /\ poll' = "loop" /\ id' = id /\ lastId' = lastId
        /\ opened' = opened \cup {id} /\ type' = type
    BY <1>3 DEF TellConnected, Opens
  <2>2. type = "CONNECTED"
    BY <1>3 DEF TellConnected, Settled, OnResult
  <2> QED
    BY <2>1, <2>2 DEF OpenedFirst
<1>4. CASE ReportConnect
  BY <1>4 DEF ReportConnect, OpenedFirst
<1>5. CASE \/ OpenFails \/ (\E op \in {"D", "P"} : SendSocket(op))
           \/ (\E op \in {"K", "K1"} : CloseSocket(op)) \/ Decide \/ CloseFd
           \/ ClearClosedEvent \/ LockForSend \/ SendBuffer \/ WriteFails
           \/ EventEof \/ EventWrite \/ ConnectFails \/ NoCommand \/ WaitPipe
           \/ WaitWrite \/ WaitEof \/ PeerCloses
  <2>1. /\ UNCHANGED <<sent, opened, id, lastId>>
        /\ type' \in {type, "INVALID", "HALFCLOSE"}
        /\ poll' = poll \/ poll' \notin {"quiet", "opened"}
    <3>1. CASE \/ OpenFails \/ (\E op \in {"D", "P"} : SendSocket(op))
               \/ (\E op \in {"K", "K1"} : CloseSocket(op)) \/ Decide \/ CloseFd
               \/ ClearClosedEvent
      BY <3>1 DEF OpenFails, SendSocket, CloseSocket, Decide, CloseFd, ClearClosedEvent, Tells
    <3>2. CASE LockForSend \/ SendBuffer \/ WriteFails
      BY <3>2 DEF LockForSend, SendBuffer, WriteFails, Tells, NextAfterSend
    <3>3. CASE \/ EventEof \/ EventWrite \/ ConnectFails \/ NoCommand \/ WaitPipe
               \/ WaitWrite \/ WaitEof \/ PeerCloses
      BY <3>3 DEF EventEof, EventWrite, ConnectFails, NoCommand, WaitPipe, WaitWrite,
         WaitEof, Wait, PeerCloses
    <3> QED
      BY <1>5, <3>1, <3>2, <3>3
  <2> QED
    BY <2>1 DEF OpenedFirst
<1> QED
  BY <1>1, <1>2, <1>3, <1>4, <1>5 DEF Poll, Commanded, Continued, Dispatched

(* OpenedFirst is inductive.                                               *)
LEMMA OpenedKept ==
  ASSUME EarlySend = FALSE, Base, Settled, OpenedFirst, [Next]_vars
  PROVE  OpenedFirst'
<1>1. UNCHANGED vars => OpenedFirst'
  BY DEF vars, OpenedFirst
<1> QED
  BY <1>1, CallerOpened, PollOpened DEF Next

-----------------------------------------------------------------------------
(* On its way: in the pipe, or in the hand of a caller that has counted it.*)
Pending(c) == InPipe(c) \/ (pc[c.by] = "push" /\ call[c.by] = c)

(* The sends on their way are buffers that were given to send().           *)
LEMMA PendingSent ==
  ASSUME Base, NEW c \in Messages, Pending(c)
  PROVE  c \in sent
<1>1. c.op \in {"D", "P"} /\ c.by \in Threads
  BY DEF Messages, Calls
<1>2. CASE InPipe(c)
  BY <1>1, <1>2, PipeDomain DEF InPipe, Base, PipeTyped
<1>3. CASE pc[c.by] = "push" /\ call[c.by] = c
  BY <1>1, <1>3 DEF Base, HandsSound, Hand, Sends
<1> QED
  BY <1>2, <1>3 DEF Pending

(* The sends of a connection are those on their way.                       *)
LEMMA SendsPending == \A i : SendsOf(i) = {c \in Messages : c.id = i /\ Pending(c)}
  BY DEF SendsOf, Pending, InPipe, At

(* A step that leaves what is on its way: keeps Counted.                   *)
LEMMA PendingKept ==
  ASSUME Counted, UNCHANGED <<id, protocol, sending>>,
         \A c \in Messages : Pending(c)' <=> Pending(c)
  PROVE  Counted'
<1>1. SendsOf(id)' = SendsOf(id)
  BY DEF SendsOf, Pending, InPipe, At
<1> QED
  BY <1>1 DEF Counted

(* A step of one caller, not into or out of "push".                        *)
LEMMA HandPending ==
  ASSUME Base, NEW t \in Threads, UNCHANGED <<pipe>>,
         \A r \in Threads \ {t} : pc'[r] = pc[r] /\ call'[r] = call[r],
         pc[t] # "push", pc'[t] # "push"
  PROVE  \A c \in Messages : Pending(c)' <=> Pending(c)
<1> SUFFICES ASSUME NEW c \in Messages  PROVE Pending(c)' <=> Pending(c)
  OBVIOUS
<1>1. c.by \in Threads
  BY DEF Messages, Calls
<1>2. InPipe(c)' <=> InPipe(c)
  BY DEF InPipe
<1> QED
  BY <1>1, <1>2 DEF Pending

(* The steps of a caller that do not count: keep Counted.                  *)
LEMMA CallerCounted ==
  ASSUME Base, Settled, Streams, Counted, NEW t \in Threads, Caller(t)
  PROVE  Counted'
<1> USE DEF At
<1>0. /\ pc \in [Threads -> PcPlaces]
      /\ call \in [Threads -> Calls \cup {NoResult}]
  BY DEF Base, HandsTyped
<1>1. CASE NameSlot(t)
  BY <1>1 DEF NameSlot, Counted
<1>2. CASE SendGone(t)
  <2>1. UNCHANGED <<id, protocol, sending, pipe, pc, call>>
    BY <1>2 DEF SendGone
  <2> QED
    BY <2>1, PendingKept DEF Pending, InPipe
<1>3. CASE \/ Reserve(t) \/ Send(t) \/ FirstTest(t) \/ TryLock(t) \/ SecondTest(t)
           \/ DirectWrite(t) \/ NoDirectWrite(t) \/ Unlock(t)
  <2>1. /\ UNCHANGED <<id, protocol, sending, pipe>>
        /\ \A r \in Threads \ {t} : pc'[r] = pc[r] /\ call'[r] = call[r]
        /\ pc[t] # "push" /\ pc'[t] # "push"
    <3>1. CASE Reserve(t) \/ Send(t)
      BY <1>0, <3>1 DEF Reserve, Send, Begins, Enters
    <3>2. CASE FirstTest(t) \/ SecondTest(t) \/ TryLock(t)
      BY <1>0, <3>2 DEF FirstTest, TryLock, SecondTest, ReadsLists, GoesTo
    <3>3. CASE DirectWrite(t) \/ NoDirectWrite(t) \/ Unlock(t)
      BY <1>0, <3>3 DEF DirectWrite, NoDirectWrite, Unlock, GoesTo, Returns
    <3> QED
      BY <1>3, <3>1, <3>2, <3>3
  <2> QED
    BY <2>1, HandPending, PendingKept
<1>4. CASE SendOpen(t)
  <2>1. /\ pc[t] = "open" /\ call[t] \in Calls /\ call[t].op = "O" /\ pipe' = Append(pipe, call[t])
        /\ UNCHANGED <<id, protocol, sending>>
        /\ pc' = [pc EXCEPT ![t] = "out"] /\ call' = [call EXCEPT ![t] = NoResult]
    BY <1>4 DEF SendOpen, Returns, Base, HandsSound, Hand
  <2>2. ASSUME NEW c \in Messages  PROVE Pending(c)' <=> Pending(c)
    <3>1. c # call[t] /\ c.by \in Threads
      BY <2>1 DEF Messages, Calls
    <3>2. InPipe(c)' <=> InPipe(c)
      BY <2>1, <3>1, PipeGrows
    <3> QED
      BY <1>0, <2>1, <3>1, <3>2 DEF Pending
  <2> QED
    BY <2>1, <2>2, PendingKept
<1>5. CASE Request(t)
  <2>1. PICK op \in {"S", "K", "K1"}, i \in known :
          Begins(t, op) /\ pipe' = Append(pipe, NewCall(t, op, i))
    BY <1>5 DEF Request
  <2>2. UNCHANGED <<id, protocol, sending, pc, call>>
    BY <1>5 DEF Request
  <2>3. NewCall(t, op, i) \in Calls /\ NewCall(t, op, i).op = op
    <3>1. i \in Ids /\ HandsTyped
      BY DEF Base, ToldTyped
    <3> QED
      BY <2>1, <3>1, NewCallTyped
  <2>4. ASSUME NEW c \in Messages  PROVE Pending(c)' <=> Pending(c)
    <3>1. c # NewCall(t, op, i)
      BY <2>3 DEF Messages
    <3>2. InPipe(c)' <=> InPipe(c)
      BY <2>1, <2>3, <3>1, PipeGrows
    <3> QED
      BY <2>2, <3>2 DEF Pending
  <2> QED
    BY <2>2, <2>4, PendingKept
<1>6. CASE PushSend(t)
  <2>1. /\ pc[t] = "push" /\ call[t] \in Calls /\ call[t].by = t /\ pipe' = Append(pipe, call[t])
        /\ UNCHANGED <<id, protocol, sending>>
        /\ pc' = [pc EXCEPT ![t] = "out"] /\ call' = [call EXCEPT ![t] = NoResult]
    BY <1>6 DEF PushSend, Returns, Base, HandsSound, Hand
  <2>2. ASSUME NEW c \in Messages  PROVE Pending(c)' <=> Pending(c)
    <3>1. c.by \in Threads
      BY DEF Messages, Calls
    <3>2. InPipe(c)' <=> InPipe(c) \/ c = call[t]
      BY <2>1, PipeGrows
    <3>3. CASE c.by = t
      BY <1>0, <2>1, <3>2, <3>3 DEF Pending
    <3>4. CASE c.by # t
      BY <1>0, <2>1, <3>1, <3>2, <3>4 DEF Pending
    <3> QED
      BY <3>3, <3>4
  <2> QED
    BY <2>1, <2>2, PendingKept
<1>7. CASE IncSendingRef(t)
  <2>1. /\ pc[t] = "ref" /\ call[t] \in Calls /\ call[t].by = t /\ call[t] \in sent
        /\ pipe' = pipe /\ call' = call /\ pc' = [pc EXCEPT ![t] = "push"]
        /\ UNCHANGED <<id, protocol>>
        /\ sending' = IF RefThisId(call[t]) THEN sending + 1 ELSE sending
    BY <1>7 DEF IncSendingRef, GoesTo, Base, HandsSound, Hand, Sends
  <2> DEFINE m == call[t]
  <2>2. m \in Messages /\ ~InPipe(m)
    <3>1. m \in Messages
      BY <2>1 DEF Base, ListsTyped
    <3>2. InHand(m)
      BY <2>1 DEF InHand
    <3> QED
      BY <2>1, <3>1, <3>2 DEF Streams, Owned
  <2>3. ASSUME NEW c \in Messages  PROVE Pending(c)' <=> Pending(c) \/ c = m
    <3>1. c.by \in Threads
      BY DEF Messages, Calls
    <3>2. InPipe(c)' <=> InPipe(c)
      BY <2>1 DEF InPipe
    <3>3. CASE c.by = t
      BY <1>0, <2>1, <3>2, <3>3 DEF Pending
    <3>4. CASE c.by # t
      BY <1>0, <2>1, <3>1, <3>2, <3>4 DEF Pending
    <3> QED
      BY <3>3, <3>4
  <2>4. ~Pending(m)
    BY <2>1, <2>2 DEF Pending
  <2>5. SendsOf(id)' = {c \in Messages : c.id = id /\ (Pending(c) \/ c = m)}
    <3>1. SendsOf(id)' = {c \in Messages : c.id = id /\ Pending(c)'}
      BY <2>1 DEF SendsOf, Pending, InPipe
    <3> QED
      BY <2>3, <3>1
  <2>6. SendsOf(id) = {c \in Messages : c.id = id /\ Pending(c)}
    BY SendsPending
  <2> HIDE DEF m
  <2>7. CASE protocol = "TCP" /\ m.id = id
    <3>1. SendsOf(id)' = SendsOf(id) \cup {m} /\ m \notin SendsOf(id)
      BY <2>2, <2>4, <2>5, <2>6, <2>7
    <3>2. sending' = sending + 1
      BY <2>1, <2>7 DEF RefThisId, Settled, Tagged, m
    <3>3. IsFiniteSet(SendsOf(id)) /\ sending = Cardinality(SendsOf(id))
      BY <2>7 DEF Counted
    <3>4. IsFiniteSet(SendsOf(id)') /\ Cardinality(SendsOf(id)') = sending + 1
      BY <3>1, <3>3, FS_AddElement
    <3> QED
      BY <2>1, <3>2, <3>4 DEF Counted
  <2>8. CASE protocol = "TCP" /\ m.id # id
    <3>1. SendsOf(id)' = SendsOf(id)
      BY <2>5, <2>6, <2>8
    <3>2. sending' = sending
      BY <2>1, <2>8 DEF RefThisId, Settled, Tagged, m
    <3> QED
      BY <2>1, <2>8, <3>1, <3>2 DEF Counted
  <2> QED
    BY <2>1, <2>7, <2>8 DEF Counted
<1> QED
  BY <1>1, <1>2, <1>3, <1>4, <1>5, <1>6, <1>7 DEF Caller, InCall

(* A step of the socket thread: keeps Counted; the assertion of            *)
(* dec_sending_ref() holds in every state where it is evaluated.           *)
LEMMA SendSocketCounted ==
  ASSUME Base, Settled, Streams, Counted, NEW op \in {"D", "P"}, SendSocket(op)
  PROVE  Counted'
<1>0. /\ Head(pipe) \in sent /\ pipe # <<>> /\ pipe' = Tail(pipe)
  BY CommandTyped DEF SendSocket, Command
<1> PICK c \in sent : c = Head(pipe)
  BY <1>0
<1>1. c.by \in Threads
  BY SentTyped
<1>2. /\ UNCHANGED <<pc, call, id, protocol, sent>>
      /\ sending' = IF id = c.id /\ protocol = "TCP" THEN sending - 1 ELSE sending
  BY DEF SendSocket
<1>3. c \in Messages
  BY DEF Base, ListsTyped
<1>4. /\ \A m : InPipe(m) <=> InPipe(m)' \/ m = c
      /\ ~InPipe(c)'
  <2>1. PipeOnce
    BY DEF Streams
  <2> QED
    BY <1>0, <1>2, <2>1, PipeShrinks
<1>5. Pending(c) /\ ~Pending(c)'
  <2>1. InPipe(c) /\ ~InHand(c)
    BY <1>4 DEF Streams, Owned
  <2> QED
    BY <1>2, <1>4, <2>1 DEF Pending, InHand, At
<1>6. ASSUME NEW m \in Messages, m # c  PROVE Pending(m)' <=> Pending(m)
  BY <1>2, <1>4, <1>6 DEF Pending
<1>7. SendsOf(id)' = {m \in Messages : m.id = id /\ Pending(m)'}
  BY <1>2 DEF SendsOf, Pending, InPipe, At
<1>8. SendsOf(id) = {m \in Messages : m.id = id /\ Pending(m)}
  BY SendsPending
<1>9. CASE protocol = "TCP" /\ c.id = id
  <2>1. SendsOf(id)' = SendsOf(id) \ {c} /\ c \in SendsOf(id)
    BY <1>3, <1>5, <1>6, <1>7, <1>8, <1>9
  <2>2. IsFiniteSet(SendsOf(id)) /\ sending = Cardinality(SendsOf(id))
    BY <1>9 DEF Counted
  <2>3. /\ IsFiniteSet(SendsOf(id) \ {c})
        /\ Cardinality(SendsOf(id) \ {c}) = Cardinality(SendsOf(id)) - 1
    BY <2>1, <2>2, FS_RemoveElement
  <2>4. IsFiniteSet(SendsOf(id)') /\ Cardinality(SendsOf(id)') = sending - 1
    BY <2>1, <2>2, <2>3
  <2> QED
    BY <1>2, <1>9, <2>4 DEF Counted
<1>10. CASE protocol = "TCP" /\ c.id # id
  <2>1. SendsOf(id)' = SendsOf(id)
    BY <1>5, <1>6, <1>7, <1>8, <1>10
  <2> QED
    BY <1>2, <1>10, <2>1 DEF Counted
<1> QED
  BY <1>2, <1>9, <1>10 DEF Counted

(* No send is on its way to a connection that new_fd() makes.              *)
LEMMA NewFdCounted ==
  ASSUME Base, Settled, Streams, OpenedFirst, Counted, OpenSocket \/ Accept
  PROVE  Counted'
<1>1. id' \notin opened /\ sending' = 0
  BY NewIds
<1>2. /\ UNCHANGED <<pc, call, sent>>
      /\ pipe' = pipe \/ (pipe # <<>> /\ pipe' = Tail(pipe) /\ Head(pipe).op = "O")
  BY DEF OpenSocket, Accept, Command
<1>3. \A m \in sent : InPipe(m)' <=> InPipe(m)
  BY <1>2, NoneTaken DEF Streams
<1>4. ASSUME NEW c \in Messages, c.id = id', InPipe(c)' \/ (pc'[c.by] = "push" /\ call'[c.by] = c)
      PROVE  FALSE
  <2>1. c \in sent => FALSE
    BY <1>1, <1>4 DEF OpenedFirst
  <2>2. CASE InPipe(c)'
    <3>1. InPipe(c)
      <4>1. CASE pipe' = pipe
        BY <2>2, <4>1 DEF InPipe
      <4>2. CASE pipe # <<>> /\ pipe' = Tail(pipe)
        BY <2>2, <4>2, PipeShrinks, <1>2 DEF Streams
      <4> QED
        BY <1>2, <4>1, <4>2
    <3> QED
      BY <2>1, <3>1, PendingSent DEF Pending
  <2> QED
    BY <1>2, <1>4, <2>1, <2>2, PendingSent DEF Pending
<1>5. SendsOf(id)' = {}
  <2>1. SendsOf(id)' = {c \in Messages : c.id = id' /\ (InPipe(c)' \/ (pc'[c.by] = "push" /\ call'[c.by] = c))}
    BY DEF SendsOf, InPipe, At
  <2> QED
    BY <1>4, <2>1
<1>6. IsFiniteSet(SendsOf(id)') /\ Cardinality(SendsOf(id)') = 0
  BY <1>5, FS_EmptySet
<1> QED
  BY <1>1, <1>6 DEF Counted

(* A step of the socket thread: keeps Counted.                             *)
LEMMA PollCounted ==
  ASSUME Base, Settled, Streams, OpenedFirst, Counted,
         Poll \/ WaitWrite \/ WaitEof \/ Accept \/ PeerCloses
  PROVE  Counted'
<1>1. CASE \/ OpenFails \/ StartSocket \/ (\E op \in {"K", "K1"} : CloseSocket(op))
           \/ Decide \/ CloseFd \/ ClearClosedEvent \/ LockForSend \/ SendBuffer
           \/ WriteFails \/ TellConnected \/ Dispatched \/ NoCommand \/ WaitPipe
           \/ WaitWrite \/ WaitEof \/ PeerCloses
  <2>1. /\ UNCHANGED <<id, protocol, sending, pc, call, sent>>
        /\ pipe' = pipe \/ (pipe # <<>> /\ pipe' = Tail(pipe) /\ Head(pipe).op \notin {"D", "P"})
    <3>1. CASE OpenFails \/ StartSocket \/ (\E op \in {"K", "K1"} : CloseSocket(op))
      BY <3>1 DEF OpenFails, StartSocket, CloseSocket, Command
    <3>2. CASE Decide \/ CloseFd \/ ClearClosedEvent \/ LockForSend \/ TellConnected
      BY <3>2 DEF Decide, CloseFd, ClearClosedEvent, LockForSend, TellConnected
    <3>3. CASE SendBuffer \/ WriteFails
      BY <3>3 DEF SendBuffer, WriteFails
    <3>4. CASE Dispatched
      BY <3>4 DEF Dispatched, EventEof, EventWrite, ReportConnect, ConnectFails
    <3>5. CASE NoCommand \/ WaitPipe \/ WaitWrite \/ WaitEof \/ PeerCloses
      BY <3>5 DEF NoCommand, WaitPipe, WaitWrite, WaitEof, Wait, PeerCloses
    <3> QED
      BY <1>1, <3>1, <3>2, <3>3, <3>4, <3>5
  <2>2. ASSUME NEW c \in Messages  PROVE InPipe(c)' <=> InPipe(c)
    <3>1. CASE pipe' = pipe
      BY <3>1 DEF InPipe
    <3>2. CASE pipe # <<>> /\ pipe' = Tail(pipe) /\ Head(pipe).op \notin {"D", "P"}
      <4>1. c # Head(pipe)
        BY <3>2 DEF Messages
      <4> QED
        BY <2>1, <3>2, <4>1, PipeShrinks DEF Streams
    <3> QED
      BY <2>1, <3>1, <3>2
  <2> QED
    BY <2>1, <2>2, PendingKept DEF Pending
<1> QED
  BY <1>1, SendSocketCounted, NewFdCounted DEF Poll, Commanded, Continued

(* Counted is inductive.                                                   *)
LEMMA CountedKept ==
  ASSUME Base, Settled, Streams, OpenedFirst, Counted, [Next]_vars
  PROVE  Counted'
<1>1. UNCHANGED vars => Counted'
  <2> SUFFICES ASSUME UNCHANGED vars  PROVE Counted'
    OBVIOUS
  <2>1. UNCHANGED <<id, protocol, sending, pc, call, pipe>>
    BY DEF vars
  <2> QED
    BY <2>1, PendingKept DEF Pending, InPipe
<1> QED
  BY <1>1, CallerCounted, PollCounted DEF Next

-----------------------------------------------------------------------------
(* A step of a caller: keeps Watched.                                      *)
LEMMA CallerWatched ==
  ASSUME Base, Settled, Watched, NEW t \in Threads, Caller(t)
  PROVE  Watched'
<1>1. CASE Reserve(t)
  BY <1>1 DEF Reserve, Watched, DataIsWatched, Alive
<1>2. CASE NameSlot(t)
  <2>1. type = "RESERVE" /\ type' = type
    BY <1>2 DEF NameSlot, At, Settled, Reserving, Reserves
  <2> QED
    BY <2>1 DEF Watched, DataIsWatched, Alive
<1>3. CASE DirectWrite(t)
  <2>1. PICK n \in 0 .. Size : /\ dwBuffer' = Left(Units(call[t]), n)
                               /\ watch' = AskForRest(n)
    BY <1>3 DEF DirectWrite
  <2>2. /\ UNCHANGED <<type, high, low, poll>>
        /\ type = "CONNECTED" /\ dwBuffer = <<>>
    BY <1>3 DEF DirectWrite, DirectOnRest
  <2>3. CASE n = Size
    <3>1. Units(call[t]) \in Seq({call[t]} \X (1 .. Size)) /\ Len(Units(call[t])) = Size
      BY UnitsOf
    <3>2. Left(Units(call[t]), n) \in Seq({call[t]} \X (1 .. Size)) /\ Len(Left(Units(call[t]), n)) = 0
      BY <2>3, <3>1, Cut
    <3>3. dwBuffer' = <<>>
      BY <2>1, <3>2
    <3>a. ~(n < Size)
      BY <2>3
    <3>4. watch' = watch
      BY <2>1, <3>a DEF AskForRest
    <3> QED
      BY <2>2, <3>3, <3>4 DEF Watched, DataIsWatched, Alive, SendBufferEmpty
  <2>4. CASE n # Size
    <3>1. n < Size
      BY <2>4
    <3> QED
      BY <2>1, <2>2, <3>1 DEF AskForRest, SpWrite, Watched, DataIsWatched, Alive
  <2> QED
    BY <2>3, <2>4
<1>4. CASE \/ SendGone(t) \/ Send(t) \/ SendOpen(t) \/ Request(t) \/ FirstTest(t)
           \/ TryLock(t) \/ SecondTest(t) \/ NoDirectWrite(t) \/ Unlock(t)
           \/ IncSendingRef(t) \/ PushSend(t)
  <2>1. UNCHANGED <<type, poll, watch, high, low, dwBuffer>>
    BY <1>4 DEF SendGone, Send, SendOpen, Request, FirstTest, TryLock, SecondTest, ReadsLists,
       NoDirectWrite, Unlock, IncSendingRef, PushSend
  <2> QED
    BY <2>1 DEF Watched, DataIsWatched, Alive, SendBufferEmpty
<1> QED
  BY <1>1, <1>2, <1>3, <1>4 DEF Caller, InCall

(* A poll of the connection writes all that waits, or goes on waiting.     *)
LEMMA SendBufferWatched ==
  ASSUME Base, Settled, Watched, SendBuffer
  PROVE  Watched'
<1>1. PICK k \in 0 .. Len(BeforeHigh \o low) :
        k \in Writable(Len(BeforeHigh \o low)) /\ Goes(k)
  BY SendBufferGoes DEF Base
<1>2. dwBuffer' = <<>> /\ poll = "send" /\ poll # "kill"
  BY DEF SendBuffer
<1>3. CASE k # Len(BeforeHigh \o low)
  <2>1. UNCHANGED <<type, watch>>
    BY <1>1, <1>3 DEF Goes
  <2>2. ~SendBufferEmpty \/ dwBuffer # <<>>
    <3>1. Len(BeforeHigh \o low) # 0
      BY <1>3
    <3> QED
      BY <3>1, NothingWaits DEF SendBufferEmpty
  <2> QED
    BY <1>2, <2>1, <2>2 DEF Watched, DataIsWatched, Alive
<1>4. CASE k = Len(BeforeHigh \o low)
  <2>2. high' = <<>> /\ low' = <<>>
    BY <1>1, <1>4, AllWritten DEF Base, Goes
  <2>3. type' = "INVALID" \/ (type' = type /\ watch' = SpWrite(FALSE))
    <3>1. ~(Len(BeforeHigh \o low) < Len(BeforeHigh \o low))
      BY AllTyped DEF Base
    <3> QED
      BY <1>1, <1>4, <3>1 DEF Goes
  <2> QED
    BY <1>2, <2>2, <2>3 DEF SpWrite, Watched, DataIsWatched, Alive, SendBufferEmpty
<1> QED
  BY <1>3, <1>4

(* A step of the socket thread: keeps Watched.                             *)
LEMMA PollWatched ==
  ASSUME Base, Settled, OpenedFirst, Watched,
         Poll \/ WaitWrite \/ WaitEof \/ Accept \/ PeerCloses
  PROVE  Watched'
<1>1. CASE OpenSocket \/ Accept
  <2>1. /\ SendBufferEmpty /\ dwBuffer' = <<>> /\ UNCHANGED <<high, low>>
        /\ type' \in {"CONNECTED", "CONNECTING"} => watch' # "no"
    BY <1>1 DEF OpenSocket, Accept, NewFd
  <2> QED
    BY <2>1 DEF Watched, DataIsWatched, SendBufferEmpty
<1>2. CASE StartSocket
  <2>1. UNCHANGED <<high, low, dwBuffer, id>> /\ poll = "loop"
    BY <1>2 DEF StartSocket, Command
  <2>2. CASE type = "PACCEPT" /\ type' = "CONNECTED"
    <3>1. high = <<>> /\ low = <<>> /\ dwBuffer = <<>>
      BY <2>2, NothingYet DEF Live, OpenedFirst
    <3>2. watch' = "read"
      BY <1>2, <2>2 DEF StartSocket, Gone
    <3> QED
      BY <2>1, <3>1, <3>2 DEF Watched, DataIsWatched, SendBufferEmpty
  <2>3. CASE ~(type = "PACCEPT" /\ type' = "CONNECTED")
    <3>1. UNCHANGED <<type, watch>>
      BY <1>2, <2>3 DEF StartSocket
    <3> QED
      BY <2>1, <3>1 DEF Watched, DataIsWatched, SendBufferEmpty, Alive
  <2> QED
    BY <2>2, <2>3
<1>3. CASE \E op \in {"D", "P"} : SendSocket(op)
  <2>1. PICK op \in {"D", "P"} : SendSocket(op)
    BY <1>3
  <2>2. UNCHANGED <<type, poll, dwBuffer>> /\ poll = "loop"
    BY <2>1 DEF SendSocket, Command
  <2>3. CASE Dropped(Head(pipe))
    <3>1. UNCHANGED <<high, low, watch>>
      BY <2>1, <2>3 DEF SendSocket
    <3> QED
      BY <2>2, <3>1 DEF Watched, DataIsWatched, SendBufferEmpty, Alive
  <2>4. CASE ~Dropped(Head(pipe))
    <3>1. watch' = WatchFirst(SendBufferEmpty /\ type = "CONNECTED")
      BY <2>1, <2>4 DEF SendSocket
    <3>2. type \notin {"INVALID", "HALFCLOSE", "PACCEPT"}
      BY <2>4 DEF Dropped, Gone
    <3> QED
      BY <2>2, <3>1, <3>2 DEF Watched, DataIsWatched, SendBufferEmpty, Alive, WatchFirst, SpWrite
  <2> QED
    BY <2>3, <2>4
<1>4. CASE Decide
  <2>1. UNCHANGED dwBuffer /\ poll = "decide" /\ Live
    BY <1>4 DEF Decide, Settled, OnResult, Base, PollTyped
  <2>2. CASE poll' = "kill"
    BY <2>2 DEF Watched, DataIsWatched, Alive
  <2>3. CASE poll' # "kill"
    <3>1. type' = "HALFCLOSE" /\ UNCHANGED <<high, low, watch>>
      BY <1>4, <2>3 DEF Decide
    <3>2. CASE id \in opened
      <4>1. type \in {"CONNECTED", "HALFCLOSE"}
        BY <2>1, <3>2 DEF OpenedFirst, Live, Base, SlotTyped
      <4> QED
        BY <2>1, <3>1, <4>1 DEF Watched, DataIsWatched, SendBufferEmpty, Alive
    <3>3. CASE id \notin opened
      <4>1. high = <<>> /\ low = <<>> /\ dwBuffer = <<>>
        BY <2>1, <3>3, NothingYet
      <4> QED
        BY <2>1, <3>1, <4>1 DEF Watched, DataIsWatched, SendBufferEmpty
    <3> QED
      BY <3>2, <3>3
  <2> QED
    BY <2>2, <2>3
<1>5. CASE ReportConnect
  <2>1. /\ type = "CONNECTING" /\ poll # "kill" /\ type' = "CONNECTED"
        /\ UNCHANGED <<high, low, dwBuffer, watch>>
    BY <1>5 DEF ReportConnect, Dispatch, Dispatches
  <2>2. high = <<>> /\ low = <<>> /\ dwBuffer = <<>>
    BY <2>1, NothingYet DEF Live, OpenedFirst
  <2> QED
    BY <2>1, <2>2 DEF Watched, DataIsWatched, SendBufferEmpty, Alive
<1>6. CASE TellConnected
  <2>1. /\ poll \in {"quiet", "opened"} /\ type' = type /\ UNCHANGED <<high, low, dwBuffer>>
        /\ watch' \in {watch, SpWrite(FALSE)}
    BY <1>6 DEF TellConnected
  <2>2. high = <<>> /\ low = <<>> /\ dwBuffer = <<>>
    BY <2>1, NothingYet DEF Live, OpenedFirst, Settled, OnResult
  <2> QED
    BY <2>1, <2>2 DEF Watched, DataIsWatched, SendBufferEmpty, Alive, SpWrite
<1>7. CASE OpenFails \/ CloseFd \/ WriteFails \/ EventEof \/ ConnectFails
  <2>1. type' = "INVALID" \/ poll' = "kill"
    BY <1>7 DEF OpenFails, CloseFd, WriteFails, EventEof, ConnectFails
  <2> QED
    BY <2>1 DEF Watched, DataIsWatched, Alive
<1>8. CASE \/ (\E op \in {"K", "K1"} : CloseSocket(op)) \/ ClearClosedEvent \/ LockForSend
           \/ EventWrite \/ NoCommand \/ WaitPipe \/ WaitWrite \/ WaitEof \/ PeerCloses
  <2>1. UNCHANGED <<type, watch, high, low, dwBuffer>> /\ (poll = "kill" => poll' = "kill")
    BY <1>8 DEF CloseSocket, Command, ClearClosedEvent, LockForSend, EventWrite, Dispatch,
       Dispatches, NoCommand, WaitPipe, WaitWrite, WaitEof, Wait, Waits, PeerCloses
  <2> QED
    BY <2>1 DEF Watched, DataIsWatched, SendBufferEmpty, Alive
<1> QED
  BY <1>1, <1>2, <1>3, <1>4, <1>5, <1>6, <1>7, <1>8, SendBufferWatched
     DEF Poll, Commanded, Continued, Dispatched

(* Watched is inductive.                                                   *)
LEMMA WatchedKept ==
  ASSUME Base, Settled, OpenedFirst, Watched, [Next]_vars
  PROVE  Watched'
<1>1. UNCHANGED vars => Watched'
  BY DEF vars, Watched, DataIsWatched, Alive, SendBufferEmpty
<1> QED
  BY <1>1, CallerWatched, PollWatched DEF Next

-----------------------------------------------------------------------------
(* A step that leaves the pipe alone: keeps Queue.                         *)
LEMMA QueueSame ==
  ASSUME Base, Streams, Queue, pipe' = pipe,
         \A r \in Threads : pc'[r] \in Sends =>
           \/ pc[r] \in Sends /\ calls'[r] = calls[r]
           \/ calls'[r] = calls[r] + 1
  PROVE  Queue'
<1>1. \A k : Carries(k)' <=> Carries(k)
  BY DEF Carries
<1>2. ASSUME NEW k \in 1 .. Len(pipe), Carries(k), pc'[pipe[k].by] \in Sends
      PROVE  pipe[k].nth < calls'[pipe[k].by]
  <2>1. pipe[k] \in sent /\ pipe[k].by \in Threads
    BY <1>2, SentTyped DEF Carries, Base, PipeTyped
  <2>2. pipe[k].nth <= calls[pipe[k].by] /\ calls[pipe[k].by] \in Nat /\ pipe[k].nth \in Nat
    <3>1. pipe[k].nth \in Nat
      <4>1. pipe[k] \in Calls /\ MostCalls \subseteq Nat
        BY <2>1, SentTyped DEF MostCalls
      <4> QED
        BY <4>1 DEF Calls
    <3> QED
      BY <2>1, <3>1 DEF Streams, Numbered, Base, HandsTyped
  <2>3. CASE pc[pipe[k].by] \in Sends /\ calls'[pipe[k].by] = calls[pipe[k].by]
    BY <1>2, <2>3 DEF Queue
  <2>4. CASE calls'[pipe[k].by] = calls[pipe[k].by] + 1
    BY <2>2, <2>4
  <2> QED
    BY <1>2, <2>1, <2>3, <2>4
<1> QED
  BY <1>1, <1>2 DEF Queue

(* Another command in the pipe: keeps Queue when it is the last send of    *)
(* its caller, or no send.                                                 *)
LEMMA QueueGrows ==
  ASSUME Base, Queue, NEW c \in Calls, pipe' = Append(pipe, c),
         \A r \in Threads : pc'[r] \in Sends => pc[r] \in Sends /\ calls'[r] = calls[r],
         c.op \in {"D", "P"} => /\ pc'[c.by] \notin Sends
                                /\ pc[c.by] \in Sends /\ c.nth = calls[c.by]
  PROVE  Queue'
<1>1. /\ Len(pipe) \in Nat
      /\ \A k \in 1 .. Len(pipe) : pipe'[k] = pipe[k]
      /\ pipe'[Len(pipe) + 1] = c
      /\ \A k \in 1 .. Len(pipe') : k \in 1 .. Len(pipe) \/ k = Len(pipe) + 1
  BY Appended DEF Base
<1>2. \A k \in 1 .. Len(pipe) : Carries(k)' <=> Carries(k)
  BY <1>1 DEF Carries
<1>3. \A k : k = Len(pipe) + 1 /\ Carries(k)' => c.op \in {"D", "P"}
  BY <1>1 DEF Carries
<1>4. \A k \in 1 .. Len(pipe) : pipe[k].by \in Threads
  <2>1. \A k \in 1 .. Len(pipe) : pipe[k] \in Calls
    BY DEF Base, PipeTyped
  <2> QED
    BY <2>1 DEF Calls
<1>5. ASSUME NEW j \in 1 .. Len(pipe'), NEW k \in 1 .. Len(pipe'), Carries(j)', Carries(k)',
             j < k, pipe'[j].by = pipe'[k].by
      PROVE  pipe'[j].nth < pipe'[k].nth
  <2>1. j \in 1 .. Len(pipe)
    BY <1>1, <1>5
  <2>2. Carries(j) /\ pipe'[j] = pipe[j]
    BY <1>1, <1>2, <1>5, <2>1
  <2>3. CASE k \in 1 .. Len(pipe)
    <3>1. Carries(k) /\ pipe'[k] = pipe[k]
      BY <1>1, <1>2, <1>5, <2>3
    <3> QED
      BY <1>5, <2>1, <2>2, <2>3, <3>1 DEF Queue
  <2>4. CASE k = Len(pipe) + 1
    <3>1. c.op \in {"D", "P"} /\ pipe'[k] = c
      BY <1>1, <1>3, <1>5, <2>4
    <3>2. pipe[j].nth < calls[pipe[j].by]
      BY <1>5, <2>1, <2>2, <3>1 DEF Queue
    <3> QED
      BY <1>5, <2>2, <3>1, <3>2
  <2> QED
    BY <1>1, <2>3, <2>4
<1>6. ASSUME NEW k \in 1 .. Len(pipe'), Carries(k)', pc'[pipe'[k].by] \in Sends
      PROVE  pipe'[k].nth < calls'[pipe'[k].by]
  <2>1. k # Len(pipe) + 1
    BY <1>1, <1>3, <1>6
  <2>2. k \in 1 .. Len(pipe)
    BY <1>1, <2>1
  <2>3. Carries(k) /\ pipe'[k] = pipe[k] /\ pipe[k].by \in Threads
    BY <1>1, <1>2, <1>4, <1>6, <2>2
  <2> QED
    BY <1>6, <2>2, <2>3 DEF Queue
<1> QED
  BY <1>5, <1>6 DEF Queue

(* A command taken from the pipe: keeps Queue.                             *)
LEMMA QueueTaken ==
  ASSUME Base, Queue, pipe # <<>>, pipe' = Tail(pipe), UNCHANGED <<pc, calls>>
  PROVE  Queue'
<1>1. /\ Len(pipe) \in Nat /\ Len(pipe') = Len(pipe) - 1
      /\ \A k \in 1 .. Len(pipe') : pipe'[k] = pipe[k + 1] /\ k + 1 \in 1 .. Len(pipe)
  BY Taking DEF Base
<1>2. \A k \in 1 .. Len(pipe') : Carries(k)' => Carries(k + 1)
  BY <1>1 DEF Carries
<1>3. ASSUME NEW j \in 1 .. Len(pipe'), NEW k \in 1 .. Len(pipe'), Carries(j)', Carries(k)',
             j < k, pipe'[j].by = pipe'[k].by
      PROVE  pipe'[j].nth < pipe'[k].nth
  <2>1. /\ Carries(j + 1) /\ Carries(k + 1) /\ pipe'[j] = pipe[j + 1] /\ pipe'[k] = pipe[k + 1]
        /\ j + 1 \in 1 .. Len(pipe) /\ k + 1 \in 1 .. Len(pipe)
    BY <1>1, <1>2, <1>3
  <2>2. j + 1 < k + 1
    BY <1>1, <1>3
  <2> QED
    BY <1>3, <2>1, <2>2 DEF Queue
<1>4. ASSUME NEW k \in 1 .. Len(pipe'), Carries(k)', pc[pipe'[k].by] \in Sends
      PROVE  pipe'[k].nth < calls[pipe'[k].by]
  BY <1>1, <1>2, <1>4 DEF Queue
<1> QED
  BY <1>3, <1>4 DEF Queue

(* A step of a caller: keeps Queue.                                        *)
LEMMA CallerQueue ==
  ASSUME Base, Settled, Streams, Queue, NEW t \in Threads, Caller(t)
  PROVE  Queue'
<1> USE DEF At
<1>0. /\ pc \in [Threads -> PcPlaces] /\ calls \in [Threads -> Nat]
      /\ call \in [Threads -> Calls \cup {NoResult}]
  BY DEF Base, HandsTyped
<1>1. CASE Request(t)
  <2>1. PICK op \in {"S", "K", "K1"}, i \in known :
          Begins(t, op) /\ pipe' = Append(pipe, NewCall(t, op, i))
    BY <1>1 DEF Request
  <2>2. pc' = pc /\ pc[t] = "out" /\ calls' = [calls EXCEPT ![t] = @ + 1]
    BY <1>1 DEF Request, Begins
  <2>3. NewCall(t, op, i) \in Calls /\ NewCall(t, op, i).op = op
    <3>1. i \in Ids /\ HandsTyped
      BY DEF Base, ToldTyped
    <3> QED
      BY <2>1, <3>1, NewCallTyped
  <2>4. \A r \in Threads : pc'[r] \in Sends => pc[r] \in Sends /\ calls'[r] = calls[r]
    BY <1>0, <2>2 DEF Sends, Direct, HoldsLock
  <2> QED
    BY <2>1, <2>3, <2>4, QueueGrows
<1>2. CASE SendOpen(t) \/ PushSend(t)
  <2>1. /\ pc[t] \in {"open", "push"} /\ call[t] \in Calls /\ call[t].by = t
        /\ call[t].nth = calls[t] /\ pipe' = Append(pipe, call[t])
        /\ pc' = [pc EXCEPT ![t] = "out"] /\ calls' = calls
        /\ pc[t] = "open" => call[t].op = "O"
    BY <1>2 DEF SendOpen, PushSend, Returns, Base, HandsSound, Hand
  <2>2. \A r \in Threads : pc'[r] \in Sends => pc[r] \in Sends /\ calls'[r] = calls[r]
    BY <1>0, <2>1 DEF Sends, Direct, HoldsLock
  <2>3. pc'[t] \notin Sends /\ (pc[t] = "push" => pc[t] \in Sends)
    BY <1>0, <2>1 DEF Sends, Direct, HoldsLock
  <2> QED
    BY <2>1, <2>2, <2>3, QueueGrows
<1>3. CASE \/ Reserve(t) \/ NameSlot(t) \/ SendGone(t) \/ Send(t) \/ FirstTest(t)
           \/ TryLock(t) \/ SecondTest(t) \/ DirectWrite(t) \/ NoDirectWrite(t)
           \/ Unlock(t) \/ IncSendingRef(t)
  <2>1. /\ pipe' = pipe
        /\ \A r \in Threads : pc'[r] \in Sends =>
             \/ pc[r] \in Sends /\ calls'[r] = calls[r]
             \/ calls'[r] = calls[r] + 1
    <3> USE DEF Sends, Direct, HoldsLock
    <3>1. CASE Reserve(t) \/ NameSlot(t) \/ SendGone(t) \/ Send(t)
      <4>1. CASE Reserve(t)
        BY <1>0, <4>1 DEF Reserve, Begins, Enters
      <4>2. CASE NameSlot(t) \/ SendGone(t)
        BY <1>0, <4>2 DEF NameSlot, SendGone, Begins, GoesTo
      <4>3. CASE Send(t)
        BY <1>0, <4>3 DEF Send, Begins, Enters
      <4> QED
        BY <3>1, <4>1, <4>2, <4>3
    <3>2. CASE FirstTest(t) \/ SecondTest(t) \/ TryLock(t)
      BY <1>0, <3>2 DEF FirstTest, TryLock, SecondTest, ReadsLists, GoesTo
    <3>3. CASE DirectWrite(t) \/ NoDirectWrite(t) \/ Unlock(t) \/ IncSendingRef(t)
      BY <1>0, <3>3 DEF DirectWrite, NoDirectWrite, Unlock, IncSendingRef, GoesTo, Returns
    <3> QED
      BY <1>3, <3>1, <3>2, <3>3
  <2> QED
    BY <2>1, QueueSame
<1> QED
  BY <1>1, <1>2, <1>3 DEF Caller, InCall

(* Queue is inductive.                                                     *)
LEMMA QueueKept ==
  ASSUME Base, Settled, Streams, Queue, [Next]_vars
  PROVE  Queue'
<1>1. CASE Poll \/ WaitWrite \/ WaitEof \/ Accept \/ PeerCloses
  <2>1. /\ UNCHANGED <<pc, calls>>
        /\ pipe' = pipe \/ (pipe # <<>> /\ pipe' = Tail(pipe))
    <3>1. CASE Commanded
      BY <3>1 DEF Commanded, OpenSocket, OpenFails, StartSocket, SendSocket, CloseSocket, Command
    <3>2. CASE Continued
      BY <3>2 DEF Continued, Decide, CloseFd, ClearClosedEvent, LockForSend, SendBuffer,
         WriteFails, TellConnected
    <3>3. CASE Dispatched
      BY <3>3 DEF Dispatched, EventEof, EventWrite, ReportConnect, ConnectFails
    <3>4. CASE NoCommand \/ WaitPipe \/ WaitWrite \/ WaitEof \/ Accept \/ PeerCloses
      BY <3>4 DEF NoCommand, WaitPipe, WaitWrite, WaitEof, Wait, Accept, PeerCloses
    <3> QED
      BY <1>1, <3>1, <3>2, <3>3, <3>4 DEF Poll
  <2>2. pipe' = pipe => Queue'
    BY <2>1, QueueSame
  <2> QED
    BY <2>1, <2>2, QueueTaken
<1>2. CASE UNCHANGED vars
  BY <1>2, QueueSame DEF vars
<1> QED
  BY <1>1, <1>2, CallerQueue DEF Next

-----------------------------------------------------------------------------
(* The part of the low list that is left.                                  *)
LEMMA LowLeft ==
  ASSUME ListsTyped, NEW k \in 0 .. Len(Waiting), Wrote(k)
  PROVE  Msgs(low') \subseteq Msgs(low)
<1> DEFINE rest == Left(Waiting, k)
<1>1. CASE k < Len(BeforeHigh)
  BY <1>1 DEF Wrote, Waiting
<1>2. CASE ~(k < Len(BeforeHigh))
  <2>1. low' = Left(rest, Raised(rest))
    BY <1>2 DEF Wrote, Waiting
  <2>2. /\ k - Len(BeforeHigh) \in 0 .. Len(low)
        /\ rest = Left(low, k - Len(BeforeHigh))
    <3>1. k >= Len(BeforeHigh)
      BY <1>2, AllTyped DEF Waiting
    <3> QED
      BY <3>1, RestIsLow DEF Waiting
  <2> HIDE DEF rest
  <2>3. low \in Seq(Buffer) /\ Blocks(low)
    BY DEF ListsTyped
  <2>4. rest \in Seq(Buffer) /\ Msgs(rest) \subseteq Msgs(low)
    BY <2>2, <2>3, Cut, MsgsCut
  <2>5. Raised(rest) \in 0 .. Len(rest)
    BY <2>2, <2>3, RaisedFits DEF Buffer
  <2>6. Msgs(Left(rest, Raised(rest))) \subseteq Msgs(rest)
    BY <2>4, <2>5, MsgsCut
  <2> QED
    BY <2>1, <2>4, <2>6
<1> QED
  BY <1>1, <1>2

(* LowIsLow is inductive.                                                  *)
LEMMA LowKept ==
  ASSUME Base, LowIsLow, [Next]_vars
  PROVE  LowIsLow'
<1>1. CASE \E op \in {"D", "P"} : SendSocket(op)
  <2>1. PICK op \in {"D", "P"} : SendSocket(op)
    BY <1>1
  <2>2. Head(pipe).op = op /\ Head(pipe) \in sent
    BY <2>1, CommandTyped DEF SendSocket
  <2>3. low' = low \/ (op = "P" /\ low' = low \o Units(Head(pipe)))
    BY <2>1 DEF SendSocket
  <2>4. CASE op = "P" /\ low' = low \o Units(Head(pipe))
    <3>1. low \in Seq(Buffer) /\ Units(Head(pipe)) \in Seq(Buffer)
      BY <2>2, ListsAre, UnitsTyped
    <3>2. Msgs(low') = Msgs(low) \cup Msgs(Units(Head(pipe)))
      BY <2>4, <3>1, MsgsJoin
    <3>3. Msgs(Units(Head(pipe))) = {Head(pipe)}
      BY MsgsOfUnits
    <3> QED
      BY <2>2, <2>4, <3>2, <3>3 DEF LowIsLow
  <2> QED
    BY <2>3, <2>4 DEF LowIsLow, Msgs
<1>2. CASE SendBuffer
  <2>1. PICK k \in 0 .. Len(Waiting) : Wrote(k)
    BY <1>2, SendBufferWrote DEF Base, Waiting
  <2>2. Msgs(low') \subseteq Msgs(low)
    BY <2>1, LowLeft DEF Base
  <2>3. Msgs(low)' = Msgs(low')
    BY DEF Msgs
  <2> QED
    BY <2>2, <2>3 DEF LowIsLow
<1>3. CASE ~SendBuffer /\ ~(\E op \in {"D", "P"} : SendSocket(op))
  <2>1. low' = low \/ low' = <<>>
    <3>1. CASE UNCHANGED vars
      BY <3>1 DEF vars
    <3>2. CASE \E t \in Threads : Caller(t)
      BY <3>2 DEF Caller, InCall, Reserve, NameSlot, SendOpen, Request, SendGone, Send,
         FirstTest, TryLock, SecondTest, ReadsLists, DirectWrite, NoDirectWrite, Unlock,
         IncSendingRef, PushSend
    <3>3. CASE Commanded
      BY <1>3, <3>3 DEF Commanded, OpenSocket, OpenFails, StartSocket, CloseSocket
    <3>4. CASE Continued
      BY <1>3, <3>4 DEF Continued, Decide, FreeLists, CloseFd, ClearClosedEvent, LockForSend,
         WriteFails, TellConnected
    <3>5. CASE Dispatched
      BY <3>5 DEF Dispatched, EventEof, FreeLists, EventWrite, ReportConnect, ConnectFails
    <3>6. CASE NoCommand \/ WaitPipe \/ WaitWrite \/ WaitEof \/ Accept \/ PeerCloses
      BY <3>6 DEF NoCommand, WaitPipe, WaitWrite, WaitEof, Wait, Accept, PeerCloses
    <3> QED
      BY <3>1, <3>2, <3>3, <3>4, <3>5, <3>6 DEF Next, Poll
  <2>2. low' = <<>> => Msgs(low') = {}
    BY MsgsOfNone
  <2> QED
    BY <2>1, <2>2 DEF LowIsLow, Msgs
<1> QED
  BY <1>1, <1>2, <1>3

-----------------------------------------------------------------------------
(* When sending is 0, no send to the connection is in the pipe.            *)
LEMMA NoneSending ==
  ASSUME Base, Settled, Counted, sending = 0, type = "CONNECTED"
  PROVE  \A m \in sent : m.id = id => ~InPipe(m)
<1>1. protocol = "TCP"
  BY DEF Settled, Tagged, Live
<1>2. IsFiniteSet(SendsOf(id)) /\ Cardinality(SendsOf(id)) = 0
  BY <1>1 DEF Counted
<1>3. SendsOf(id) = {}
  BY <1>2, FS_EmptySet
<1>4. ASSUME NEW m \in sent, m.id = id, InPipe(m)  PROVE FALSE
  <2>1. m \in Messages
    BY DEF Base, ListsTyped
  <2>2. m \in SendsOf(id)
    BY <1>4, <2>1 DEF SendsOf, InPipe
  <2> QED
    BY <1>3, <2>2
<1> QED
  BY <1>4

(* A step that puts no send in the pipe or the high list, nor a caller     *)
(* under the lock: keeps NothingAhead.                                     *)
LEMMA AheadSame ==
  ASSUME NothingAhead,
         \A t \in Threads : /\ pc'[t] \in {"locked", "lockedrest"} =>
                                 /\ pc[t] \in {"locked", "lockedrest"}
                                 /\ call'[t] = call[t] /\ id' = id
                                 /\ \A m \in sent' : m \notin sent => m.by # t
                                 /\ \A m \in sent : m.by = t /\ m.op = "D" /\ InPipe(m)' => InPipe(m)
                            /\ pc'[t] = "lockedrest" =>
                                 \/ pc[t] = "lockedrest" /\ high' = high
                                 \/ high' = <<>>
  PROVE  NothingAhead'
<1> SUFFICES ASSUME NEW t \in Threads
             PROVE  /\ pc'[t] \in {"locked", "lockedrest"} /\ call'[t].id = id' =>
                         \A m \in sent' : m.op = "D" /\ m.by = t /\ m.id = id' => ~InPipe(m)'
                    /\ pc'[t] = "lockedrest" =>
                         \A m \in Msgs(high') : ~(m.op = "D" /\ m.by = t)
  BY DEF NothingAhead, Msgs
<1>1. ASSUME pc'[t] \in {"locked", "lockedrest"}, call'[t].id = id', NEW m \in sent',
             m.op = "D", m.by = t, m.id = id', InPipe(m)'
      PROVE  FALSE
  <2>1. m \in sent /\ InPipe(m) /\ pc[t] \in {"locked", "lockedrest"} /\ call[t].id = id /\ m.id = id
    BY <1>1
  <2> QED
    BY <1>1, <2>1 DEF NothingAhead
<1>2. ASSUME pc'[t] = "lockedrest"  PROVE \A m \in Msgs(high') : ~(m.op = "D" /\ m.by = t)
  BY <1>2, MsgsOfNone DEF NothingAhead
<1> QED
  BY <1>1, <1>2

(* A step of a caller: keeps NothingAhead.                                 *)
LEMMA CallerAhead ==
  ASSUME Base, Settled, Counted, NothingAhead, NEW t \in Threads, Caller(t)
  PROVE  NothingAhead'
<1> USE DEF At
<1>0. /\ pc \in [Threads -> PcPlaces]
      /\ call \in [Threads -> Calls \cup {NoResult}]
  BY DEF Base, HandsTyped
<1>1. CASE NameSlot(t)
  <2>1. type = "RESERVE" /\ pc' = [pc EXCEPT ![t] = "open"]
    BY <1>1 DEF NameSlot, GoesTo, Settled, Reserving, Reserves
  <2>2. \A r \in Threads : pc'[r] \notin {"locked", "lockedrest"}
    BY <1>0, <2>1 DEF Settled, Held
  <2> QED
    BY <2>2 DEF NothingAhead
<1>2. CASE TryLock(t) /\ TestAndLock
  <2>1. /\ sending = 0 /\ type = "CONNECTED" /\ pc' = [pc EXCEPT ![t] = "locked"]
        /\ UNCHANGED <<call, id, high, pipe, sent>>
    BY <1>2 DEF TryLock, TestAndLock, DirectOnRest, GoesTo
  <2>2. \A m \in sent : m.id = id => ~InPipe(m)
    BY <2>1, NoneSending
  <2>3. ASSUME NEW r \in Threads
        PROVE  /\ pc'[r] \in {"locked", "lockedrest"} /\ call'[r].id = id' =>
                    \A m \in sent' : m.op = "D" /\ m.by = r /\ m.id = id' => ~InPipe(m)'
               /\ pc'[r] = "lockedrest" =>
                    \A m \in Msgs(high') : ~(m.op = "D" /\ m.by = r)
    <3>1. \A m : InPipe(m)' <=> InPipe(m)
      BY <2>1 DEF InPipe
    <3>2. pc'[r] = "lockedrest" => pc[r] = "lockedrest"
      BY <1>0, <2>1
    <3> QED
      BY <2>1, <2>2, <3>1, <3>2 DEF NothingAhead
  <2> QED
    BY <2>3 DEF NothingAhead, Msgs
<1>3. CASE PushSend(t) \/ SendOpen(t)
  <2>1. /\ call[t] \in Calls /\ call[t].by = t /\ pipe' = Append(pipe, call[t])
        /\ pc' = [pc EXCEPT ![t] = "out"] /\ call' = [call EXCEPT ![t] = NoResult]
        /\ UNCHANGED <<id, high, sent>>
    BY <1>3 DEF PushSend, SendOpen, Returns, Base, HandsSound, Hand
  <2>2. \A m : InPipe(m)' <=> InPipe(m) \/ m = call[t]
    BY <2>1, PipeGrows
  <2> QED
    BY <1>0, <2>1, <2>2, AheadSame
<1>4. CASE Request(t)
  <2>1. PICK op \in {"S", "K", "K1"}, i \in known :
          Begins(t, op) /\ pipe' = Append(pipe, NewCall(t, op, i))
    BY <1>4 DEF Request
  <2>2. UNCHANGED <<id, high, sent, pc, call>>
    BY <1>4 DEF Request
  <2>3. NewCall(t, op, i) \in Calls /\ NewCall(t, op, i).op = op
    <3>1. i \in Ids /\ HandsTyped
      BY DEF Base, ToldTyped
    <3> QED
      BY <2>1, <3>1, NewCallTyped
  <2>4. \A m : InPipe(m)' <=> InPipe(m) \/ m = NewCall(t, op, i)
    BY <2>1, <2>3, PipeGrows
  <2> QED
    BY <2>2, <2>3, <2>4, AheadSame
<1>5. CASE SendGone(t) \/ Send(t)
  <2>1. PICK op \in {"D", "P"}, i \in SendTo : sent' = sent \cup {NewCall(t, op, i)}
    BY <1>5 DEF SendGone, Send
  <2>2. NewCall(t, op, i).by = t
    BY DEF NewCall
  <2>3. /\ UNCHANGED <<id, high, pipe>> /\ pc[t] = "out"
        /\ pc'[t] \notin {"locked", "lockedrest"}
        /\ \A r \in Threads \ {t} : pc'[r] = pc[r] /\ call'[r] = call[r]
    BY <1>0, <1>5 DEF SendGone, Send, Begins, Enters
  <2> QED
    BY <2>1, <2>2, <2>3, AheadSame DEF InPipe
<1>6. CASE \/ Reserve(t) \/ FirstTest(t) \/ (TryLock(t) /\ ~TestAndLock) \/ SecondTest(t)
           \/ DirectWrite(t) \/ NoDirectWrite(t) \/ Unlock(t) \/ IncSendingRef(t)
  <2>1. /\ UNCHANGED <<id, high, pipe, sent>>
        /\ \A r \in Threads \ {t} : pc'[r] = pc[r] /\ call'[r] = call[r]
        /\ pc'[t] \in {"locked", "lockedrest"} =>
             pc[t] = "locked" /\ call'[t] = call[t] /\ high = <<>>
    <3>1. CASE Reserve(t)
      BY <1>0, <3>1 DEF Reserve, Enters
    <3>2. CASE FirstTest(t) \/ SecondTest(t) \/ (TryLock(t) /\ ~TestAndLock)
      BY <1>0, <3>2 DEF FirstTest, TryLock, SecondTest, ReadsLists, GoesTo, DirectOnLists,
         SendBufferEmpty
    <3>3. CASE DirectWrite(t) \/ NoDirectWrite(t) \/ Unlock(t) \/ IncSendingRef(t)
      BY <1>0, <3>3 DEF DirectWrite, NoDirectWrite, Unlock, IncSendingRef, GoesTo, Returns
    <3> QED
      BY <1>6, <3>1, <3>2, <3>3
  <2> QED
    BY <2>1, AheadSame DEF InPipe
<1> QED
  BY <1>1, <1>2, <1>3, <1>4, <1>5, <1>6 DEF Caller, InCall

(* A step of the socket thread: keeps NothingAhead.                        *)
LEMMA PollAhead ==
  ASSUME Base, Settled, Streams, NothingAhead,
         Poll \/ WaitWrite \/ WaitEof \/ Accept \/ PeerCloses
  PROVE  NothingAhead'
<1>1. CASE OpenSocket \/ Accept \/ SendBuffer \/ WriteFails
  <2>1. /\ UNCHANGED <<pc, call>>
        /\ type \in {"RESERVE", "INVALID"} \/ poll = "send"
    BY <1>1 DEF OpenSocket, Accept, SendBuffer, WriteFails
  <2>2. ASSUME NEW t \in Threads  PROVE pc'[t] \notin {"locked", "lockedrest"}
    <3>1. CASE type \in {"RESERVE", "INVALID"}
      BY <2>1, <3>1 DEF Settled, Held
    <3>2. CASE poll = "send"
      <4>1. lock = "server" /\ t # "server"
        BY <3>2 DEF Base, Locked
      <4> QED
        BY <2>1, <4>1 DEF Base, Locked, HoldsLock
    <3> QED
      BY <2>1, <3>1, <3>2
  <2> QED
    BY <2>2 DEF NothingAhead
<1>2. CASE \E op \in {"D", "P"} : SendSocket(op)
  <2>1. PICK op \in {"D", "P"} : SendSocket(op)
    BY <1>2
  <2>2. /\ Head(pipe) \in sent /\ pipe # <<>> /\ pipe' = Tail(pipe)
        /\ UNCHANGED <<pc, call, id, sent>> /\ Head(pipe).op = op
    BY <2>1, CommandTyped DEF SendSocket, Command
  <2>3. PICK c \in sent : c = Head(pipe)
    BY <2>2
  <2>4. \A m : InPipe(m) <=> InPipe(m)' \/ m = c
    BY <2>2, <2>3, PipeShrinks DEF Streams
  <2>5. ASSUME NEW t \in Threads, pc[t] = "lockedrest", NEW m \in Msgs(high'),
               m.op = "D", m.by = t
        PROVE  FALSE
    <3>1. m \notin Msgs(high) /\ call[t].id = id
      BY <2>5 DEF NothingAhead, Settled, Held
    <3>2. high' = high \/ (high' = high \o Units(c) /\ ~Dropped(c))
      BY <2>1, <2>3 DEF SendSocket
    <3>3. CASE high' = high \o Units(c) /\ ~Dropped(c)
      <4>1. high \in Seq(Buffer) /\ Units(c) \in Seq(Buffer)
        BY ListsAre, UnitsTyped
      <4>2. Msgs(high') = Msgs(high) \cup {c}
        BY <3>3, <4>1, MsgsJoin, MsgsOfUnits
      <4>3. m = c /\ c.id = id /\ InPipe(c)
        BY <2>4, <2>5, <3>1, <3>3, <4>2 DEF Dropped, Gone
      <4> QED
        BY <2>5, <3>1, <4>3 DEF NothingAhead
    <3> QED
      BY <2>5, <3>1, <3>2, <3>3
  <2>6. ASSUME NEW t \in Threads
        PROVE  /\ pc'[t] \in {"locked", "lockedrest"} /\ call'[t].id = id' =>
                    \A m \in sent' : m.op = "D" /\ m.by = t /\ m.id = id' => ~InPipe(m)'
               /\ pc'[t] = "lockedrest" =>
                    \A m \in Msgs(high') : ~(m.op = "D" /\ m.by = t)
    BY <2>2, <2>4, <2>5 DEF NothingAhead
  <2> QED
    BY <2>6 DEF NothingAhead, Msgs
<1>3. CASE \/ OpenFails \/ StartSocket \/ (\E op \in {"K", "K1"} : CloseSocket(op))
           \/ Decide \/ CloseFd \/ ClearClosedEvent \/ LockForSend \/ TellConnected
           \/ Dispatched \/ NoCommand \/ WaitPipe \/ WaitWrite \/ WaitEof \/ PeerCloses
  <2>1. /\ UNCHANGED <<id, pc, call, sent>> /\ high' \in {high, <<>>}
        /\ pipe' = pipe \/ (pipe # <<>> /\ pipe' = Tail(pipe))
    <3>1. CASE OpenFails \/ StartSocket \/ (\E op \in {"K", "K1"} : CloseSocket(op))
      BY <3>1 DEF OpenFails, StartSocket, CloseSocket, Command
    <3>2. CASE Decide \/ CloseFd \/ ClearClosedEvent \/ LockForSend \/ TellConnected
      BY <3>2 DEF Decide, FreeLists, CloseFd, ClearClosedEvent, LockForSend, TellConnected
    <3>3. CASE Dispatched
      BY <3>3 DEF Dispatched, EventEof, FreeLists, EventWrite, ReportConnect, ConnectFails
    <3>4. CASE NoCommand \/ WaitPipe \/ WaitWrite \/ WaitEof \/ PeerCloses
      BY <3>4 DEF NoCommand, WaitPipe, WaitWrite, WaitEof, Wait, PeerCloses
    <3> QED
      BY <1>3, <3>1, <3>2, <3>3, <3>4
  <2>2. \A m : InPipe(m)' => InPipe(m)
    <3>1. CASE pipe' = pipe
      BY <3>1 DEF InPipe
    <3>2. CASE pipe # <<>> /\ pipe' = Tail(pipe)
      BY <2>1, <3>2, PipeShrinks DEF Streams
    <3> QED
      BY <2>1, <3>1, <3>2
  <2> QED
    BY <2>1, <2>2, AheadSame
<1> QED
  BY <1>1, <1>2, <1>3 DEF Poll, Commanded, Continued

(* NothingAhead is inductive.                                              *)
LEMMA AheadKept ==
  ASSUME Base, Settled, Streams, Counted, NothingAhead, [Next]_vars
  PROVE  NothingAhead'
<1>1. UNCHANGED vars => NothingAhead'
  <2> SUFFICES ASSUME UNCHANGED vars  PROVE NothingAhead'
    OBVIOUS
  <2>1. UNCHANGED <<id, pc, call, sent, high, pipe>>
    BY DEF vars
  <2> QED
    BY <2>1, AheadSame DEF InPipe
<1> QED
  BY <1>1, CallerAhead, PollAhead DEF Next

-----------------------------------------------------------------------------
(* A buffer has ended where its last unit is.                              *)
LEMMA EndsAt ==
  ASSUME NEW S, NEW s \in Seq(S \X (1 .. Size)), NEW m
  PROVE  m \in Whole(s) <=> \E q \in 1 .. Len(s) : s[q] = <<m, Size>>
<1>1. DOMAIN s = 1 .. Len(s) /\ \A q \in 1 .. Len(s) : s[q] \in S \X (1 .. Size)
  OBVIOUS
<1>2. \A q \in 1 .. Len(s) : s[q][1] = m /\ s[q][2] = Size <=> s[q] = <<m, Size>>
  BY <1>1
<1> QED
  BY <1>1, <1>2 DEF Whole

(* The front of what is in order.                                          *)
LEMMA OrderFront ==
  ASSUME NEW S, NEW s \in Seq(S), NEW u \in Seq(S), NEW ms, InOrder(s \o u, ms)
  PROVE  InOrder(s, ms)
<1> DEFINE r == s \o u
<1>1. \A p \in 1 .. Len(s) : p \in 1 .. Len(r) /\ r[p] = s[p]
  BY JoinIn
<1>2. InOrder(r, ms)
  OBVIOUS
<1> HIDE DEF r
<1> SUFFICES ASSUME NEW p \in 1 .. Len(s), NEW m \in ms, m.op = "D", Before(m, s[p][1])
             PROVE  \E q \in 1 .. p - 1 : s[q] = <<m, Size>>
  BY DEF InOrder
<1>3. PICK q \in 1 .. p - 1 : r[q] = <<m, Size>>
  BY <1>1, <1>2 DEF InOrder
<1>4. q \in 1 .. Len(s)
  <2>1. Len(s) \in Nat
    OBVIOUS
  <2> QED
    BY <2>1
<1> QED
  BY <1>1, <1>3, <1>4

(* Of two places behind the same a units, the smaller comes first.         *)
LEMMA PlaceBehind ==
  ASSUME NEW a \in Nat, NEW i \in Nat, NEW j \in Nat, i > 0, i < j
  PROVE  a + i \in 1 .. (a + j) - 1
  OBVIOUS

(* A buffer whose earlier ones have ended in front of it.                  *)
LEMMA OrderInsert ==
  ASSUME NEW S, NEW s \in Seq(S \X (1 .. Size)), NEW u \in Seq(S \X (1 .. Size)),
         NEW v \in Seq(S \X (1 .. Size)), NEW ms, InOrder(s \o v, ms),
         \A c \in Msgs(u) : \A m \in ms : m.op = "D" /\ Before(m, c) => m \in Whole(s)
  PROVE  InOrder((s \o u) \o v, ms)
<1> DEFINE o == s \o v
           w == s \o u
           r == w \o v
<1>1. /\ \A p \in 1 .. Len(s) : p \in 1 .. Len(o) /\ o[p] = s[p]
      /\ \A q \in 1 .. Len(v) : Len(s) + q \in 1 .. Len(o) /\ o[Len(s) + q] = v[q]
      /\ \A p \in 1 .. Len(o) : \/ p \in 1 .. Len(s) /\ o[p] = s[p]
                                \/ \E q \in 1 .. Len(v) : p = Len(s) + q /\ o[p] = v[q]
  BY InJoin, JoinIn
<1>2. /\ w \in Seq(S \X (1 .. Size)) /\ Len(w) = Len(s) + Len(u)
      /\ \A p \in 1 .. Len(s) : p \in 1 .. Len(w) /\ w[p] = s[p]
      /\ \A p \in 1 .. Len(w) : \/ p \in 1 .. Len(s) /\ w[p] = s[p]
                                \/ \E q \in 1 .. Len(u) : p = Len(s) + q /\ w[p] = u[q]
  BY InJoin, JoinIn, Joined
<1> HIDE DEF w
<1>3. /\ \A p \in 1 .. Len(w) : p \in 1 .. Len(r) /\ r[p] = w[p]
      /\ \A q \in 1 .. Len(v) : Len(w) + q \in 1 .. Len(r) /\ r[Len(w) + q] = v[q]
      /\ \A p \in 1 .. Len(r) : \/ p \in 1 .. Len(w) /\ r[p] = w[p]
                                \/ \E q \in 1 .. Len(v) : p = Len(w) + q /\ r[p] = v[q]
  <2> DEFINE T == S \X (1 .. Size)
  <2>1. w \in Seq(T) /\ v \in Seq(T)
    BY <1>2
  <2> HIDE DEF T
  <2>2. /\ \A p \in 1 .. Len(w) : p \in 1 .. Len(r) /\ r[p] = w[p]
        /\ \A q \in 1 .. Len(v) : Len(w) + q \in 1 .. Len(r) /\ r[Len(w) + q] = v[q]
    BY <2>1, JoinIn
  <2>3. \A p \in 1 .. Len(r) : \/ p \in 1 .. Len(w) /\ r[p] = w[p]
                               \/ \E q \in 1 .. Len(v) : p = Len(w) + q /\ r[p] = v[q]
    BY <2>1, InJoin
  <2> QED
    BY <2>2, <2>3
<1>4. InOrder(o, ms)
  OBVIOUS
<1>5. Len(s) \in Nat /\ Len(u) \in Nat /\ Len(v) \in Nat /\ Len(w) \in Nat
  BY <1>2
<1> HIDE DEF o, r
<1>6. ASSUME NEW m, m \in Whole(s)  PROVE \E q \in 1 .. Len(s) : s[q] = <<m, Size>>
  BY <1>6, EndsAt
<1> SUFFICES ASSUME NEW p \in 1 .. Len(r), NEW m \in ms, m.op = "D", Before(m, r[p][1])
             PROVE  \E q \in 1 .. p - 1 : r[q] = <<m, Size>>
  BY DEF InOrder, r, w
<1>7. CASE p \in 1 .. Len(s)
  <2>1. r[p] = o[p] /\ p \in 1 .. Len(o)
    BY <1>1, <1>2, <1>3, <1>7
  <2>2. PICK q \in 1 .. p - 1 : o[q] = <<m, Size>>
    BY <1>4, <2>1 DEF InOrder
  <2>3. q \in 1 .. Len(s)
    BY <1>5, <1>7
  <2>4. r[q] = <<m, Size>>
    BY <1>1, <1>2, <1>3, <2>2, <2>3
  <2> QED
    BY <2>4
<1>8. CASE \E j \in 1 .. Len(u) : p = Len(s) + j /\ r[p] = u[j]
  <2>1. PICK j \in 1 .. Len(u) : p = Len(s) + j /\ r[p] = u[j]
    BY <1>8
  <2>2. r[p][1] \in Msgs(u)
    BY <2>1 DEF Msgs
  <2>3. PICK q \in 1 .. Len(s) : s[q] = <<m, Size>>
    BY <1>6, <2>2
  <2>4. r[q] = <<m, Size>>
    BY <1>2, <1>3, <2>3
  <2>5. q \in 1 .. p - 1
    BY <1>5, <2>1
  <2> QED
    BY <2>4, <2>5
<1>9. CASE \E j \in 1 .. Len(v) : p = Len(w) + j /\ r[p] = v[j]
  <2>1. PICK j \in 1 .. Len(v) : p = Len(w) + j /\ r[p] = v[j]
    BY <1>9
  <2>2. o[Len(s) + j] = v[j] /\ Len(s) + j \in 1 .. Len(o)
    BY <1>1
  <2>3. PICK q \in 1 .. (Len(s) + j) - 1 : o[q] = <<m, Size>>
    BY <1>4, <2>1, <2>2 DEF InOrder
  <2>4. q \in 1 .. Len(o)
    BY <1>5, <2>2
  <2>5. CASE q \in 1 .. Len(s) /\ o[q] = s[q]
    <3>1. r[q] = <<m, Size>>
      BY <1>2, <1>3, <2>3, <2>5
    <3>2. q \in 1 .. p - 1
      BY <1>2, <1>5, <2>1, <2>5
    <3> QED
      BY <3>1, <3>2
  <2>6. CASE \E i \in 1 .. Len(v) : q = Len(s) + i /\ o[q] = v[i]
    <3>1. PICK i \in 1 .. Len(v) : q = Len(s) + i /\ o[q] = v[i]
      BY <2>6
    <3>2. r[Len(w) + i] = <<m, Size>>
      BY <1>3, <2>3, <3>1
    <3> HIDE DEF w
    <3>3. i \in Nat /\ j \in Nat /\ i > 0
      BY <1>5, <2>1, <3>1
    <3>4. i < j
      BY <1>5, <3>1, <3>3
    <3>5. Len(w) + i \in 1 .. (Len(w) + j) - 1
      BY <1>5, <3>3, <3>4, PlaceBehind
    <3> QED
      BY <2>1, <3>2, <3>5
  <2> QED
    BY <1>1, <2>4, <2>5, <2>6
<1>10. \/ p \in 1 .. Len(s)
       \/ \E j \in 1 .. Len(u) : p = Len(s) + j /\ r[p] = u[j]
       \/ \E j \in 1 .. Len(v) : p = Len(w) + j /\ r[p] = v[j]
  <2>1. CASE p \in 1 .. Len(w) /\ r[p] = w[p]
    BY <1>2, <2>1
  <2> QED
    BY <1>3, <2>1
<1> QED
  BY <1>7, <1>8, <1>9, <1>10

(* The same at the end.                                                    *)
LEMMA OrderBehind ==
  ASSUME NEW S, NEW s \in Seq(S \X (1 .. Size)), NEW u \in Seq(S \X (1 .. Size)),
         NEW ms, InOrder(s, ms),
         \A c \in Msgs(u) : \A m \in ms : m.op = "D" /\ Before(m, c) => m \in Whole(s)
  PROVE  InOrder(s \o u, ms)
<1> DEFINE e == <<>>
<1>1. e \in Seq(S \X (1 .. Size)) /\ s \o e = s /\ s \o u \in Seq(S \X (1 .. Size))
  BY ConcatEmptySeq
<1>2. (s \o u) \o e = s \o u
  BY <1>1, ConcatEmptySeq
<1> HIDE DEF e
<1>3. InOrder((s \o u) \o e, ms)
  BY <1>1, OrderInsert
<1> QED
  BY <1>2, <1>3

(* A buffer of a new call is not earlier than any.                         *)
LEMMA OrderNew ==
  ASSUME Base, Streams, NEW s \in Seq(Buffer), NEW c, c.by \in Threads,
         c.nth = calls[c.by] + 1, InOrder(s, sent)
  PROVE  InOrder(s, sent \cup {c})
<1>1. ASSUME NEW p \in 1 .. Len(s), Before(c, s[p][1])  PROVE FALSE
  <2> PICK b \in sent : b = s[p][1]
    BY DEF Buffer
  <2>1. b.by = c.by /\ c.nth < b.nth /\ b.nth <= calls[c.by]
    BY <1>1 DEF Before, Streams, Numbered
  <2>2. calls[c.by] \in Nat
    BY DEF Base, HandsTyped
  <2>3. b.nth \in Nat
    <3>1. b \in Calls /\ MostCalls \subseteq Nat
      BY SentTyped DEF MostCalls
    <3> QED
      BY <3>1 DEF Calls
  <2> QED
    BY <2>1, <2>2, <2>3
<1> QED
  BY <1>1 DEF InOrder

-----------------------------------------------------------------------------
(* A step that leaves the units and the freed buffers alone: keeps Ordered.*)
LEMMA OrderedSame ==
  ASSUME Ordered, UNCHANGED <<wire, dwBuffer, high, sent, freed, id>>,
         Alive' => Alive /\ (type' # "HALFCLOSE" => type # "HALFCLOSE"),
         \A t \in Threads : pc'[t] = "written" => pc[t] = "written" /\ call'[t] = call[t]
  PROVE  Ordered'
<1> SUFFICES ASSUME Alive'
             PROVE  /\ InOrder(wire' \o BeforeHigh', sent')
                    /\ type' # "HALFCLOSE" => \A m \in freed' : m.id = id' => m \in Whole(wire')
                    /\ \A t \in Threads : pc'[t] = "written" /\ call'[t].id = id' =>
                         call'[t] \in Whole(wire')
  BY DEF Ordered, InOrder, Before, Whole
<1>1. BeforeHigh' = BeforeHigh
  BY DEF BeforeHigh
<1> QED
  BY <1>1 DEF Ordered

(* The units of a direct write come behind the wire, before the high list. *)
LEMMA DirectUnits ==
  ASSUME Base, NEW t \in Threads, DirectWrite(t), NEW c, c = call[t]
  PROVE  /\ c \in sent /\ c.by = t /\ wire \o BeforeHigh = wire \o high
         /\ wire' \o BeforeHigh' = (wire \o Units(c)) \o high
         /\ Whole(wire) \subseteq Whole(wire')
         /\ pc' = [pc EXCEPT ![t] = pc'[t]] /\ call' = call
         /\ pc'[t] = "written" => c \in Whole(wire')
<1>1. /\ HandsTyped /\ Hand(t) /\ pc[t] = "lockedrest"
      /\ c \in sent /\ c.by = t /\ dwBuffer = <<>>
  BY DEF Base, HandsSound, Hand, DirectWrite, DirectOnRest, At, Sends, Direct, HoldsLock
<1>2. PICK n \in 0 .. Size :
        /\ wire' = wire \o Taken(Units(c), n)
        /\ dwBuffer' = Left(Units(c), n)
        /\ GoesTo(t, IF n = Size THEN "written" ELSE "left")
  BY DEF DirectWrite
<1> DEFINE u == Units(c)
<1>3. u \in Seq(Buffer) /\ Len(u) = Size /\ Msgs(u) = {c} /\ Blocks(u)
  BY <1>1, UnitsOf, UnitsTyped, MsgsOfUnits, UnitsBlocks
<1>4. wire \in Seq(Buffer) /\ high \in Seq(Buffer)
  BY ListsAre
<1> HIDE DEF u
<1>5. /\ Taken(u, n) \in Seq(Buffer) /\ Left(u, n) \in Seq(Buffer)
      /\ Taken(u, n) \o Left(u, n) = u
  <2>1. n \in 0 .. Len(u) /\ u \in Seq(Buffer)
    BY <1>2, <1>3
  <2> QED
    BY <2>1, TakenLeft, Cut
<1>6. wire' = wire \o Taken(u, n) /\ dwBuffer' = Left(u, n) /\ high' = high
  BY <1>2 DEF u, DirectWrite
<1>7. BeforeHigh = high
  BY <1>1, <1>4, ConcatEmptySeq DEF BeforeHigh
<1>8. wire' \o dwBuffer' = wire \o u
  <2>1. Assocs(wire, Taken(u, n), Left(u, n))
    BY <1>4, <1>5, AllAssoc
  <2> QED
    BY <1>5, <1>6, <2>1 DEF Assocs
<1>9. wire' \in Seq(Buffer) /\ Whole(wire') = Whole(wire) \cup Whole(Taken(u, n))
  BY <1>4, <1>5, <1>6, MsgsJoin
<1>10. wire' \o BeforeHigh' = (wire \o u) \o high
  <2>1. Assocs(wire', dwBuffer', high)
    BY <1>4, <1>5, <1>6, <1>9, AllAssoc
  <2> QED
    BY <1>6, <1>8, <2>1 DEF Assocs, BeforeHigh
<1>11. pc' = [pc EXCEPT ![t] = pc'[t]] /\ call' = call /\ (pc'[t] = "written" => n = Size)
  BY <1>1, <1>2 DEF HandsTyped, GoesTo
<1>12. ASSUME n = Size  PROVE c \in Whole(wire')
  <2>1. Taken(u, n) = u
    <3>1. u \in Seq(Buffer) /\ n = Len(u)
      BY <1>3, <1>12
    <3> QED
      BY <3>1 DEF Taken
  <2>2. Msgs(u) \subseteq Whole(u)
    BY <1>3, BlocksWhole DEF Buffer
  <2> QED
    BY <1>3, <1>9, <2>1, <2>2
<1> QED
  BY <1>1, <1>7, <1>9, <1>10, <1>11, <1>12 DEF u

(* A direct write passes over no earlier send() of its caller: keeps       *)
(* Ordered.                                                                *)
LEMMA DirectWriteOrdered ==
  ASSUME Base, Settled, Streams, Counted, LowIsLow, NothingAhead, Ordered,
         NEW t \in Threads, DirectWrite(t)
  PROVE  Ordered'
<1>1. PICK c : c = call[t]
  OBVIOUS
<1>2. /\ c \in sent /\ c.by = t /\ wire \o BeforeHigh = wire \o high
      /\ wire' \o BeforeHigh' = (wire \o Units(c)) \o high
      /\ Whole(wire) \subseteq Whole(wire')
      /\ pc' = [pc EXCEPT ![t] = pc'[t]] /\ call' = call
      /\ pc'[t] = "written" => c \in Whole(wire')
  BY <1>1, DirectUnits
<1>3. /\ pc[t] = "lockedrest" /\ dwBuffer = <<>> /\ sending = 0 /\ type = "CONNECTED"
      /\ UNCHANGED <<id, type, poll, sent, freed>>
  BY DEF DirectWrite, DirectOnRest, At
<1>4. c.id = id
  BY <1>1, <1>3 DEF Settled, Held
<1> SUFFICES ASSUME Alive
             PROVE  /\ InOrder(wire' \o BeforeHigh', sent)
                    /\ \A m \in freed : m.id = id => m \in Whole(wire')
                    /\ \A r \in Threads : pc'[r] = "written" /\ call'[r].id = id =>
                         call'[r] \in Whole(wire')
  BY <1>3 DEF Alive, Ordered, InOrder, Before, Whole
<1>5. /\ InOrder(wire \o high, sent)
      /\ \A m \in freed : m.id = id => m \in Whole(wire)
      /\ \A r \in Threads : pc[r] = "written" /\ call[r].id = id => call[r] \in Whole(wire)
  BY <1>2, <1>3 DEF Ordered
<1>6. ASSUME NEW m \in sent, m.op = "D", Before(m, c)  PROVE m \in Whole(wire)
  <2>1. m.by = t /\ m.id = id /\ m # c
    <3>1. m.nth < c.nth /\ m.nth \in Nat /\ c.nth \in Nat
      <4>1. m \in Calls /\ c \in Calls /\ MostCalls \subseteq Nat
        BY <1>2, SentTyped DEF MostCalls
      <4> QED
        BY <1>6, <4>1 DEF Calls, Before
    <3>2. m # c
      BY <3>1
    <3> QED
      BY <1>2, <1>4, <1>6, <3>2 DEF Before
  <2>2. ~InPipe(m)
    BY <1>3, <2>1, NoneSending
  <2>3. ~InHand(m)
    BY <1>1, <2>1 DEF InHand
  <2>4. m \notin Msgs(dwBuffer) /\ m \notin Msgs(low) /\ m \notin Msgs(high)
    BY <1>3, <1>6, <2>1, MsgsOfNone DEF LowIsLow, NothingAhead
  <2>5. m \in freed
    BY <2>2, <2>3, <2>4 DEF Streams, Owned, Listed
  <2> QED
    BY <1>5, <2>1, <2>5
<1>7. InOrder((wire \o Units(c)) \o high, sent)
  <2>1. wire \in Seq(Buffer) /\ Units(c) \in Seq(Buffer) /\ high \in Seq(Buffer)
    BY <1>2, ListsAre, UnitsTyped
  <2>2. Msgs(Units(c)) = {c}
    BY MsgsOfUnits
  <2>3. \A d \in Msgs(Units(c)) : \A m \in sent : m.op = "D" /\ Before(m, d) => m \in Whole(wire)
    BY <1>6, <2>2
  <2> QED
    BY <1>5, <2>1, <2>3, OrderInsert DEF Buffer
<1>8. \A r \in Threads : pc'[r] = "written" /\ call'[r].id = id => call'[r] \in Whole(wire')
  <2> TAKE r \in Threads
  <2>1. r # t => pc'[r] = pc[r]
    BY <1>2 DEF Base, HandsTyped
  <2> QED
    BY <1>1, <1>2, <1>5, <2>1
<1> QED
  BY <1>2, <1>5, <1>7, <1>8

(* A send() that finds its connection: keeps Ordered.                      *)
LEMMA SendOrdered ==
  ASSUME Base, Streams, Ordered, NEW t \in Threads, SendGone(t) \/ Send(t)
  PROVE  Ordered'
<1> USE DEF At
<1>1. PICK op \in {"D", "P"}, i \in SendTo :
        /\ sent' = sent \cup {NewCall(t, op, i)}
        /\ \/ freed' = freed
           \/ freed' = freed \cup {NewCall(t, op, i)} /\ (id # i \/ type = "INVALID")
  BY DEF SendGone, Send, Free
<1>2. PICK c : c = NewCall(t, op, i)
  OBVIOUS
<1>3. c.by = t /\ c.nth = calls[t] + 1 /\ c.id = i
  BY <1>2 DEF NewCall
<1>4. /\ UNCHANGED <<wire, dwBuffer, high, id, type, poll>>
      /\ pc[t] = "out" /\ pc'[t] # "written"
      /\ \A r \in Threads \ {t} : pc'[r] = pc[r] /\ call'[r] = call[r]
  BY DEF SendGone, Send, Begins, Enters, Base, HandsTyped
<1>5. BeforeHigh' = BeforeHigh /\ wire \o BeforeHigh \in Seq(Buffer)
  BY <1>4, ListsAre, Joined DEF BeforeHigh
<1>6. InOrder(wire \o BeforeHigh, sent) => InOrder(wire \o BeforeHigh, sent \cup {c})
  BY <1>3, <1>5, OrderNew
<1>7. Alive' => Alive /\ type # "INVALID"
  BY <1>4 DEF Alive
<1> SUFFICES ASSUME Alive'
             PROVE  /\ InOrder(wire' \o BeforeHigh', sent')
                    /\ type' # "HALFCLOSE" => \A m \in freed' : m.id = id' => m \in Whole(wire')
                    /\ \A r \in Threads : pc'[r] = "written" /\ call'[r].id = id' =>
                         call'[r] \in Whole(wire')
  BY DEF Ordered, InOrder, Before, Whole
<1>8. InOrder(wire' \o BeforeHigh', sent')
  BY <1>1, <1>2, <1>4, <1>5, <1>6, <1>7 DEF Ordered
<1>9. type' # "HALFCLOSE" => \A m \in freed' : m.id = id' => m \in Whole(wire')
  BY <1>1, <1>2, <1>3, <1>4, <1>7 DEF Ordered
<1>10. \A r \in Threads : pc'[r] = "written" /\ call'[r].id = id' => call'[r] \in Whole(wire')
  BY <1>4, <1>7 DEF Ordered
<1> QED
  BY <1>8, <1>9, <1>10

(* A step of a caller: keeps Ordered.                                      *)
LEMMA CallerOrdered ==
  ASSUME Base, Settled, Streams, Counted, LowIsLow, NothingAhead, Ordered,
         NEW t \in Threads, Caller(t)
  PROVE  Ordered'
<1> USE DEF At
<1>0. /\ pc \in [Threads -> PcPlaces]
      /\ call \in [Threads -> Calls \cup {NoResult}]
  BY DEF Base, HandsTyped
<1>1. CASE Reserve(t) \/ NameSlot(t)
  <2>1. type' = "RESERVE"
    BY <1>1 DEF Reserve, NameSlot, Settled, Reserving, Reserves
  <2> QED
    BY <2>1 DEF Ordered, Alive
<1>2. CASE Unlock(t)
  <2>1. /\ UNCHANGED <<wire, dwBuffer, high, sent, id, type, poll>>
        /\ freed' = freed \cup (IF pc[t] = "written" THEN {call[t]} ELSE {})
        /\ pc'[t] \in {"ref", "out"}
        /\ \A r \in Threads \ {t} : pc'[r] = pc[r] /\ call'[r] = call[r]
    BY <1>0, <1>2 DEF Unlock, Free, GoesTo, Returns
  <2>2. BeforeHigh' = BeforeHigh
    BY <2>1 DEF BeforeHigh
  <2> SUFFICES ASSUME Alive'
               PROVE  /\ InOrder(wire' \o BeforeHigh', sent')
                      /\ type' # "HALFCLOSE" => \A m \in freed' : m.id = id' => m \in Whole(wire')
                      /\ \A r \in Threads : pc'[r] = "written" /\ call'[r].id = id' =>
                           call'[r] \in Whole(wire')
    BY DEF Ordered, InOrder, Before, Whole
  <2>3. Alive
    BY <2>1 DEF Alive
  <2> QED
    BY <2>1, <2>2, <2>3 DEF Ordered
<1>3. CASE \/ SendOpen(t) \/ Request(t) \/ FirstTest(t) \/ TryLock(t) \/ SecondTest(t)
           \/ NoDirectWrite(t) \/ IncSendingRef(t) \/ PushSend(t)
  <2>1. /\ UNCHANGED <<wire, dwBuffer, high, sent, freed, id, type, poll>>
        /\ \A r \in Threads : pc'[r] = "written" => pc[r] = "written" /\ call'[r] = call[r]
    <3>1. CASE SendOpen(t) \/ Request(t) \/ PushSend(t)
      BY <1>0, <3>1 DEF SendOpen, Request, PushSend, Returns
    <3>2. CASE FirstTest(t) \/ SecondTest(t) \/ TryLock(t)
      BY <1>0, <3>2 DEF FirstTest, TryLock, SecondTest, ReadsLists, GoesTo
    <3>3. CASE NoDirectWrite(t) \/ IncSendingRef(t)
      BY <1>0, <3>3 DEF NoDirectWrite, IncSendingRef, GoesTo
    <3> QED
      BY <1>3, <3>1, <3>2, <3>3
  <2> QED
    BY <2>1, OrderedSame DEF Alive
<1> QED
  BY <1>1, <1>2, <1>3, DirectWriteOrdered, SendOrdered DEF Caller, InCall

(* A new connection starts with nothing written: keeps Ordered.            *)
LEMMA NewFdOrdered ==
  ASSUME Base, Settled, OpenedFirst, Ordered, OpenSocket \/ Accept
  PROVE  Ordered'
<1>1. id' \notin opened
  BY NewIds
<1>2. /\ wire' = <<>> /\ dwBuffer' = <<>> /\ high' = <<>>
      /\ UNCHANGED <<sent, freed, pc, call>>
  BY DEF OpenSocket, Accept, NewFd, SendBufferEmpty
<1>3. ASSUME NEW m \in sent  PROVE m.id # id'
  BY <1>1 DEF OpenedFirst
<1>4. freed \subseteq sent /\ \A t \in Threads : pc[t] = "written" => call[t] \in sent
  BY DEF Base, ListsTyped, HandsSound, Hand, Sends, Direct, HoldsLock
<1>5. InOrder(wire' \o BeforeHigh', sent')
  <2>1. wire' \o BeforeHigh' = <<>>
    BY <1>2 DEF BeforeHigh
  <2>2. Len(wire' \o BeforeHigh') = 0
    BY <2>1
  <2> QED
    BY <2>2 DEF InOrder
<1> SUFFICES ASSUME Alive'
             PROVE  /\ \A m \in freed' : m.id # id'
                    /\ \A t \in Threads : pc'[t] = "written" => call'[t].id # id'
  BY <1>5 DEF Ordered, InOrder, Before, Whole
<1> QED
  BY <1>2, <1>3, <1>4

(* An earlier send() of the caller has ended when send_socket() takes the  *)
(* command of the next one.                                                *)
LEMMA EarlierEnded ==
  ASSUME Base, Settled, Streams, Queue, LowIsLow, Ordered, Alive, type # "HALFCLOSE",
         pipe # <<>>, NEW c \in sent, c = Head(pipe), c.id = id,
         NEW m \in sent, m.op = "D", Before(m, c)
  PROVE  m \in Whole(wire \o BeforeHigh)
<1>1. /\ m.by = c.by /\ m.id = id /\ c.op = "D" /\ m.nth < c.nth
      /\ m.nth \in Nat /\ c.nth \in Nat /\ m.by \in Threads /\ m # NoResult
  <2>1. m \in Calls /\ c \in Calls /\ m.by \in Threads /\ m # NoResult /\ MostCalls \subseteq Nat
    BY SentTyped DEF MostCalls
  <2> QED
    BY <2>1 DEF Calls, Before
<1>2. Carries(1) /\ pipe[1] = c /\ 1 \in 1 .. Len(pipe) /\ Len(pipe) \in Nat
  <2>1. pipe \in Seq(Calls)
    BY DEF Base, PipeTyped
  <2>2. Len(pipe) \in Nat /\ Len(pipe) > 0 /\ Head(pipe) = pipe[1]
    BY <2>1
  <2> QED
    BY <1>1, <2>2 DEF Carries
<1>3. ~InPipe(m)
  <2> SUFFICES ASSUME InPipe(m)  PROVE FALSE
    OBVIOUS
  <2>1. PICK k \in 1 .. Len(pipe) : pipe[k] = m
    BY PipeDomain DEF Base, InPipe
  <2>2. k # 1
    BY <1>1, <1>2, <2>1
  <2>3. Carries(k) /\ 1 < k
    BY <1>2, <2>1, <2>2 DEF Carries
  <2>4. c.nth < m.nth
    BY <1>1, <1>2, <2>1, <2>3 DEF Queue
  <2> QED
    BY <1>1, <2>4
<1>4. ~InHand(m)
  <2> SUFFICES ASSUME InHand(m)  PROVE FALSE
    OBVIOUS
  <2>1. call[m.by] = m /\ Hand(m.by) /\ pc[m.by] \in PcPlaces
    BY <1>1 DEF InHand, Base, HandsSound, HandsTyped
  <2>2. pc[m.by] \notin {"out", "reserved", "open"} /\ m.nth = calls[m.by]
    BY <1>1, <2>1 DEF Hand
  <2>3. pc[m.by] \in Sends
    BY <2>1, <2>2 DEF PcPlaces, Sends, Direct, HoldsLock
  <2>4. c.nth < calls[m.by]
    BY <1>1, <1>2, <2>3 DEF Queue
  <2> QED
    BY <1>1, <2>2, <2>4
<1>5. /\ wire \in Seq(Buffer) /\ BeforeHigh \in Seq(Buffer)
      /\ Msgs(BeforeHigh) = Msgs(dwBuffer) \cup Msgs(high)
  BY ListsAre
<1>6. CASE m \in freed
  <2>1. m \in Whole(wire)
    BY <1>1, <1>6 DEF Ordered
  <2> QED
    BY <1>5, <2>1, MsgsJoin
<1>7. CASE Listed(m)
  <2>1. m \in Msgs(BeforeHigh)
    BY <1>5, <1>7 DEF Listed, LowIsLow
  <2>2. m \in Msgs(wire \o BeforeHigh) /\ wire \o BeforeHigh \in Seq(Buffer)
    BY <1>5, <2>1, MsgsJoin
  <2>3. Blocks(wire \o BeforeHigh)
    BY DEF Streams, Streamed
  <2> QED
    BY <2>2, <2>3, BlocksWhole DEF Buffer
<1> QED
  BY <1>3, <1>4, <1>6, <1>7 DEF Streams, Owned

(* send_socket(): keeps Ordered.                                           *)
LEMMA SendSocketOrdered ==
  ASSUME Base, Settled, Streams, OpenedFirst, Queue, LowIsLow, Ordered,
         NEW op \in {"D", "P"}, SendSocket(op)
  PROVE  Ordered'
<1>0. Head(pipe) \in sent /\ pipe # <<>>
  BY CommandTyped DEF SendSocket, Command
<1> PICK c \in sent : c = Head(pipe)
  BY <1>0
<1>1. UNCHANGED <<wire, dwBuffer, sent, id, type, poll, pc, call>>
  BY DEF SendSocket
<1>2. Alive' <=> Alive
  BY <1>1 DEF Alive
<1> SUFFICES ASSUME Alive
             PROVE  /\ InOrder(wire' \o BeforeHigh', sent')
                    /\ type' # "HALFCLOSE" => \A m \in freed' : m.id = id' => m \in Whole(wire')
                    /\ \A t \in Threads : pc'[t] = "written" /\ call'[t].id = id' =>
                         call'[t] \in Whole(wire')
  BY <1>2 DEF Ordered, InOrder, Before, Whole
<1>3. CASE Dropped(c)
  <2>1. freed' = freed \cup {c} /\ high' = high
    BY <1>3 DEF SendSocket, Free
  <2>2. type # "HALFCLOSE" => c.id # id
    <3>1. type = "PACCEPT" => id \notin opened
      BY DEF OpenedFirst
    <3> QED
      BY <1>3, <3>1 DEF Dropped, Gone, Alive, OpenedFirst
  <2>3. BeforeHigh' = BeforeHigh
    BY <1>1, <2>1 DEF BeforeHigh
  <2> QED
    BY <1>1, <2>1, <2>2, <2>3 DEF Ordered
<1>4. CASE ~Dropped(c)
  <2>1. freed' = freed /\ (high' = high \/ high' = high \o Units(c))
    BY <1>4 DEF SendSocket
  <2>2. c.id = id /\ type # "HALFCLOSE"
    BY <1>4 DEF Dropped, Gone
  <2>3. InOrder(wire' \o BeforeHigh', sent)
    <3>1. CASE high' = high
      <4>1. BeforeHigh' = BeforeHigh
        BY <1>1, <3>1 DEF BeforeHigh
      <4> QED
        BY <1>1, <4>1 DEF Ordered
    <3>2. CASE high' = high \o Units(c)
      <4> DEFINE u == Units(c)
      <4>1. /\ u \in Seq(Buffer) /\ Msgs(u) = {c}
            /\ high \in Seq(Buffer) /\ low \in Seq(Buffer) /\ dwBuffer \in Seq(Buffer)
            /\ wire \in Seq(Buffer) /\ BeforeHigh \in Seq(Buffer)
        BY ListsAre, UnitsTyped, MsgsOfUnits
      <4>a. high' = high \o u
        BY <3>2
      <4> HIDE DEF u
      <4>2. PushedHigh(wire, dwBuffer, high, low, u)
        BY <4>1, PushHigh
      <4>3. wire' \o BeforeHigh' = (wire \o BeforeHigh) \o u
        BY <1>1, <4>2, <4>a DEF BeforeHigh, PushedHigh
      <4>4. wire \o BeforeHigh \in Seq(Buffer)
        BY <4>1, Joined
      <4>5. \A d \in Msgs(u) : \A m \in sent :
              m.op = "D" /\ Before(m, d) => m \in Whole(wire \o BeforeHigh)
        BY <1>0, <2>2, <4>1, EarlierEnded
      <4>6. InOrder(wire \o BeforeHigh, sent)
        BY DEF Ordered
      <4> DEFINE W == wire \o BeforeHigh
      <4>7. W \in Seq(Buffer) /\ InOrder(W, sent)
            /\ \A d \in Msgs(u) : \A m \in sent : m.op = "D" /\ Before(m, d) => m \in Whole(W)
        BY <4>4, <4>5, <4>6
      <4> HIDE DEF W
      <4>8. InOrder(W \o u, sent)
        BY <4>1, <4>7, OrderBehind DEF Buffer
      <4> QED
        BY <4>3, <4>8 DEF W
    <3> QED
      BY <2>1, <3>1, <3>2
  <2> QED
    BY <1>1, <2>1, <2>3 DEF Ordered
<1> QED
  BY <1>3, <1>4

(* send_buffer() moves units from the lists to the wire, in their order.   *)
LEMMA WroteUnits ==
  ASSUME Base, NEW k \in 0 .. Len(Waiting), Wrote(k), dwBuffer' = <<>>
  PROVE  /\ wire' \in Seq(Buffer) /\ high' \in Seq(Buffer) /\ low' \in Seq(Buffer)
         /\ BeforeHigh' = high'
         /\ (wire' \o BeforeHigh') \o low' = (wire \o BeforeHigh) \o low
         /\ Whole(wire') = Whole(wire) \cup Whole(Taken(Waiting, k))
<1> DEFINE T == Taken(Waiting, k)
           L == Left(Waiting, k)
<1>1. ListsTyped
  BY DEF Base
<1>2. /\ high' \in Seq(Buffer) /\ low' \in Seq(Buffer) /\ wire' = wire \o T
  BY <1>1, ListsLeft DEF Wrote, Waiting
<1>3. high' \o low' = L
  BY <1>1, WroteStream
<1>4. /\ wire \in Seq(Buffer) /\ BeforeHigh \in Seq(Buffer) /\ low \in Seq(Buffer)
      /\ Waiting \in Seq(Buffer) /\ Waiting = BeforeHigh \o low
  BY ListsAre DEF Waiting
<1>5. T \in Seq(Buffer) /\ L \in Seq(Buffer) /\ T \o L = Waiting
  BY <1>4, Cut, TakenLeft
<1> HIDE DEF T, L
<1>6. wire' \in Seq(Buffer) /\ Whole(wire') = Whole(wire) \cup Whole(T)
  BY <1>2, <1>4, <1>5, MsgsJoin, Joined
<1>7. wire' \o (high' \o low') = wire \o Waiting
  <2>1. Assocs(wire, T, L)
    BY <1>4, <1>5, AllAssoc
  <2>2. (wire \o T) \o L = wire \o (T \o L)
    BY <2>1 DEF Assocs
  <2> QED
    BY <1>2, <1>3, <1>5, <2>2
<1>8. (wire' \o high') \o low' = wire' \o (high' \o low')
  <2>1. Assocs(wire', high', low')
    BY <1>2, <1>6, AllAssoc
  <2> QED
    BY <2>1 DEF Assocs
<1>9. (wire \o BeforeHigh) \o low = wire \o Waiting
  <2>1. Assocs(wire, BeforeHigh, low)
    BY <1>4, AllAssoc
  <2> QED
    BY <1>4, <2>1 DEF Assocs
<1>10. BeforeHigh' = high'
  BY <1>2 DEF BeforeHigh
<1> QED
  BY <1>2, <1>6, <1>7, <1>8, <1>9, <1>10 DEF T

(* send_buffer(): keeps Ordered.                                           *)
LEMMA SendBufferOrdered ==
  ASSUME Base, LowIsLow, Ordered, SendBuffer
  PROVE  Ordered'
<1>1. PICK k \in 0 .. Len(Waiting) : Goes(k)
  BY SendBufferGoes DEF Base, Waiting
<1>2. dwBuffer' = <<>> /\ poll = "send" /\ UNCHANGED <<sent, id, pc, call>> /\ Wrote(k)
  BY <1>1 DEF SendBuffer, Goes
<1>3. type' = type \/ type' = "INVALID"
  BY <1>1 DEF Goes
<1>4. Alive' => Alive /\ type' = type
  BY <1>2, <1>3 DEF Alive
<1>5. /\ wire' \in Seq(Buffer) /\ high' \in Seq(Buffer) /\ low' \in Seq(Buffer)
      /\ BeforeHigh' = high'
      /\ (wire' \o BeforeHigh') \o low' = (wire \o BeforeHigh) \o low
      /\ Whole(wire') = Whole(wire) \cup Whole(Taken(Waiting, k))
  BY <1>2, WroteUnits
<1>6. freed' = freed \cup Whole(Taken(Waiting, k))
  BY <1>2 DEF Wrote, Waiting
<1> SUFFICES ASSUME Alive'
             PROVE  /\ InOrder(wire' \o BeforeHigh', sent')
                    /\ type' # "HALFCLOSE" => \A m \in freed' : m.id = id' => m \in Whole(wire')
                    /\ \A t \in Threads : pc'[t] = "written" /\ call'[t].id = id' =>
                         call'[t] \in Whole(wire')
  BY DEF Ordered, InOrder, Before, Whole
<1>7. InOrder(wire' \o BeforeHigh', sent)
  <2> DEFINE W == wire \o BeforeHigh
             V == wire' \o BeforeHigh'
  <2>1. W \in Seq(Buffer) /\ low \in Seq(Buffer) /\ V \in Seq(Buffer)
    BY <1>5, ListsAre, Joined
  <2>2. InOrder(W, sent)
    BY <1>4 DEF Ordered
  <2>3. \A d \in Msgs(low) : \A m \in sent : m.op = "D" /\ Before(m, d) => m \in Whole(W)
    BY DEF LowIsLow, Before
  <2>4. V \o low' = W \o low
    BY <1>5
  <2> HIDE DEF W, V
  <2>5. InOrder(W \o low, sent)
    BY <2>1, <2>2, <2>3, OrderBehind DEF Buffer
  <2>6. InOrder(V, sent)
    BY <1>5, <2>1, <2>4, <2>5, OrderFront
  <2> QED
    BY <2>6 DEF V
<1> QED
  BY <1>2, <1>4, <1>5, <1>6, <1>7 DEF Ordered

(* A step of the socket thread: keeps Ordered.                             *)
LEMMA PollOrdered ==
  ASSUME Base, Settled, Streams, OpenedFirst, Queue, LowIsLow, Ordered,
         Poll \/ WaitWrite \/ WaitEof \/ Accept \/ PeerCloses
  PROVE  Ordered'
<1>1. CASE \/ OpenFails \/ CloseFd \/ WriteFails \/ EventEof \/ ConnectFails
           \/ (Decide /\ poll' = "kill")
  <2>1. type' = "INVALID" \/ poll' = "kill"
    BY <1>1 DEF OpenFails, CloseFd, WriteFails, EventEof, ConnectFails
  <2> QED
    BY <2>1 DEF Ordered, Alive
<1>2. CASE \/ StartSocket \/ (\E op \in {"K", "K1"} : CloseSocket(op))
           \/ (Decide /\ poll' # "kill") \/ ClearClosedEvent \/ LockForSend
           \/ TellConnected \/ EventWrite \/ ReportConnect
           \/ NoCommand \/ WaitPipe \/ WaitWrite \/ WaitEof \/ PeerCloses
  <2>1. /\ UNCHANGED <<wire, dwBuffer, high, sent, freed, id, pc, call>>
        /\ Alive' => Alive /\ (type' # "HALFCLOSE" => type # "HALFCLOSE")
    <3>1. CASE StartSocket \/ \E op \in {"K", "K1"} : CloseSocket(op)
      BY <3>1 DEF StartSocket, CloseSocket, Command, Alive
    <3>2. CASE Decide /\ poll' # "kill"
      BY <3>2 DEF Decide, Alive, Settled, OnResult, Live, Base, PollTyped
    <3>3. CASE ClearClosedEvent \/ LockForSend \/ TellConnected
      BY <3>3 DEF ClearClosedEvent, LockForSend, TellConnected, Alive
    <3>4. CASE EventWrite \/ ReportConnect
      BY <3>4 DEF EventWrite, ReportConnect, Dispatch, Dispatches, Alive
    <3>5. CASE NoCommand \/ WaitPipe \/ WaitWrite \/ WaitEof \/ PeerCloses
      BY <3>5 DEF NoCommand, WaitPipe, WaitWrite, WaitEof, Wait, Waits, PeerCloses, Alive
    <3> QED
      BY <1>2, <3>1, <3>2, <3>3, <3>4, <3>5
  <2> QED
    BY <2>1, OrderedSame
<1> QED
  BY <1>1, <1>2, NewFdOrdered, SendSocketOrdered, SendBufferOrdered
     DEF Poll, Commanded, Continued, Dispatched

(* Ordered is inductive.                                                   *)
LEMMA OrderedKept ==
  ASSUME Base, Settled, Streams, OpenedFirst, Counted, Queue, LowIsLow, NothingAhead,
         Ordered, [Next]_vars
  PROVE  Ordered'
<1>1. UNCHANGED vars => Ordered'
  BY OrderedSame DEF vars, Alive
<1> QED
  BY <1>1, CallerOrdered, PollOrdered DEF Next

-----------------------------------------------------------------------------
(* A step of a caller or of the socket thread: keeps Busy.                 *)
LEMMA BusyKept ==
  ASSUME Busy, [Next]_vars
  PROVE  Busy'
<1>1. ASSUME NEW t \in Threads, Caller(t)  PROVE Busy'
  <2>1. Reserve(t) => Busy'
    BY DEF Reserve, Busy
  <2>2. ~Reserve(t) => UNCHANGED <<type, poll>>
    BY <1>1 DEF Caller, InCall, NameSlot, SendOpen, Request, SendGone, Send, FirstTest,
       SecondTest, ReadsLists, TryLock, DirectWrite, NoDirectWrite, Unlock,
       IncSendingRef, PushSend
  <2> QED
    BY <2>1, <2>2 DEF Busy
<1>2. CASE Commanded
  <2>1. OpenSocket \/ OpenFails \/ StartSocket => Busy'
    BY DEF OpenSocket, OpenFails, StartSocket, Command, Busy
  <2>2. (\E op \in {"D", "P"} : SendSocket(op)) => Busy'
    BY DEF SendSocket, Command, Busy
  <2>3. (\E op \in {"K", "K1"} : CloseSocket(op)) => Busy'
    BY DEF CloseSocket, Command, Gone, Busy
  <2> QED
    BY <1>2, <2>1, <2>2, <2>3 DEF Commanded
<1>3. CASE Continued
  <2>1. Decide \/ CloseFd \/ ClearClosedEvent \/ LockForSend => Busy'
    BY DEF Decide, CloseFd, ClearClosedEvent, LockForSend, NextAfterSend, Busy
  <2>2. SendBuffer => Busy'
    BY DEF SendBuffer, NextAfterSend, Busy
  <2>3. WriteFails \/ TellConnected => Busy'
    BY DEF WriteFails, TellConnected, Busy
  <2> QED
    BY <1>3, <2>1, <2>2, <2>3 DEF Continued
<1>4. CASE Dispatched
  BY <1>4 DEF Dispatched, EventEof, EventWrite, ReportConnect, ConnectFails, Dispatch, Dispatches, Busy
<1>5. NoCommand \/ WaitPipe \/ WaitWrite \/ WaitEof \/ Accept \/ PeerCloses => Busy'
  BY DEF NoCommand, WaitPipe, WaitWrite, WaitEof, Waits, Wait, Accept, PeerCloses, Busy
<1>6. UNCHANGED vars => Busy'
  BY DEF vars, Busy
<1> QED
  BY <1>1, <1>2, <1>3, <1>4, <1>5, <1>6 DEF Next, Poll

(* The invariant together.                                                 *)
LEMMA InitOrder == Init => Order
<1> SUFFICES ASSUME Init  PROVE Order
  OBVIOUS
<1>1. /\ type = "INVALID" /\ protocol = "UNKNOWN" /\ poll = "loop"
      /\ low = <<>> /\ pipe = <<>> /\ sent = {}
      /\ \A t \in Threads : pc[t] = "out"
  BY DEF Init
<1>2. OpenedFirst
  BY <1>1 DEF OpenedFirst
<1>3. Counted
  BY <1>1 DEF Counted
<1>4. Watched /\ Ordered
  BY <1>1 DEF Watched, DataIsWatched, Ordered, Alive
<1>5. Queue
  <2>1. 1 .. Len(pipe) = {}
    BY <1>1
  <2> QED
    BY <2>1 DEF Queue
<1>6. LowIsLow
  BY <1>1 DEF LowIsLow, Msgs
<1>7. NothingAhead
  BY <1>1 DEF NothingAhead
<1>8. Busy
  BY <1>1 DEF Busy
<1> QED
  BY <1>2, <1>3, <1>4, <1>5, <1>6, <1>7, <1>8 DEF Order

(* Every step keeps it.                                                    *)
LEMMA OrderKept ==
  ASSUME EarlySend = FALSE, Base, Settled, Streams, Order, [Next]_vars
  PROVE  Order'
<1>1. /\ OpenedFirst /\ Counted /\ Watched
      /\ Queue /\ LowIsLow /\ NothingAhead /\ Ordered /\ Busy
  BY DEF Order
<1>2. OpenedFirst' /\ Counted' /\ Watched'
  BY <1>1, OpenedKept, CountedKept, WatchedKept
<1>3. Queue' /\ LowIsLow' /\ NothingAhead' /\ Ordered'
  BY <1>1, QueueKept, LowKept, AheadKept, OrderedKept
<1>4. Busy'
  BY <1>1, BusyKept
<1> QED
  BY <1>2, <1>3, <1>4 DEF Order

(* It holds in every state, without stale commands or without a slot that  *)
(* is used twice.                                                          *)
LEMMA OrderTheorem ==
  ASSUME EarlySend = FALSE
  PROVE  /\ SettledSpec => [](Base /\ Settled /\ Streams /\ Order)
         /\ OneUse => (Spec => [](Base /\ Settled /\ Streams /\ Order))
<1>1. Base /\ Settled /\ Streams /\ Order /\ [Next]_vars => Order'
  BY OrderKept
<1>2. [Next /\ ~StaleCommand]_vars => [Next]_vars
  OBVIOUS
<1>3. SettledSpec => [](Base /\ Settled /\ Streams /\ Order)
  BY <1>1, <1>2, InitOrder, StreamsTheorem, PTL DEF SettledSpec
<1>4. OneUse => (Spec => [](Base /\ Settled /\ Streams /\ Order))
  <2>1. CASE OneUse
    <3>1. Spec => [](Base /\ Settled /\ Streams)
      BY <2>1, StreamsTheorem
    <3> QED
      BY <1>1, <3>1, InitOrder, PTL DEF Spec
  <2> QED
    BY <2>1
<1> QED
  BY <1>3, <1>4

-----------------------------------------------------------------------------
(* In such a state no unit was written before the end of an earlier send() *)
(* of the same caller to the same connection.                              *)
LEMMA OrderOnWire ==
  ASSUME Base, Ordered
  PROVE  SenderOrder
<1> SUFFICES ASSUME Alive, NEW p \in DOMAIN wire,
                    NEW m \in sent, m.op = "D", Before(m, wire[p][1])
             PROVE  \E q \in 1 .. p - 1 : wire[q] = <<m, Size>>
  BY DEF SenderOrder
<1>1. wire \in Seq(Buffer) /\ BeforeHigh \in Seq(Buffer)
  BY ListsAre
<1>2. InOrder(wire \o BeforeHigh, sent)
  BY DEF Ordered
<1>3. InOrder(wire, sent)
  BY <1>1, <1>2, OrderFront
<1>4. p \in 1 .. Len(wire)
  BY <1>1
<1> QED
  BY <1>3, <1>4 DEF InOrder

(* No assertion of the socket thread fails: new_fd() finds a reserved slot *)
(* with empty lists, dec_sending_ref() a reference, a close no reserved    *)
(* slot, and send_buffer_() a low list that begins with a whole buffer     *)
(* and, when all is written, wb_size 0.  (Those of a reserved slot that    *)
(* gets an event fail; that it gets none is EventsAreFresh.)               *)
CommandAsserts(c) ==
  /\ c.op = "O" => type = "RESERVE" /\ SendBufferEmpty
  /\ c.op \in {"D", "P"} /\ id = c.id /\ protocol = "TCP" => sending # 0

AssertionsHold ==
  /\ poll = "loop" /\ checkctrl /\ pipe # <<>> => CommandAsserts(Head(pipe))
  /\ poll = "loop" /\ type = "INVALID" => SendBufferEmpty
  /\ poll = "decide" => type # "RESERVE"
  /\ poll = "send" /\ type # "RESERVE" =>
       ~Uncomplete(low) /\ WbSizeAfter(Len(BeforeHigh \o low)) = 0

(* What the socket thread asserts is so: an OPEN command finds the slot it *)
(* was reserved for, a send its reference, and send_buffer_() its lists.   *)
LEMMA OrderAsserts ==
  ASSUME Base, Settled, Streams, Order
  PROVE  AssertionsHold
<1>1. ASSUME pipe # <<>>  PROVE CommandAsserts(Head(pipe))
  <2>1. 1 \in 1 .. Len(pipe) /\ Head(pipe) = pipe[1]
    BY <1>1 DEF Base, PipeTyped
  <2> PICK c : c = Head(pipe)
    OBVIOUS
  <2>2. c.op = "O" => type = "RESERVE"
    BY <2>1 DEF Settled, Reserving
  <2>3. type = "RESERVE" => SendBufferEmpty
    BY DEF Settled, Idle, Live, SendBufferEmpty
  <2>4. ASSUME c.op \in {"D", "P"}, id = c.id, protocol = "TCP"  PROVE sending # 0
    <3>1. c \in Messages
      BY <2>1, <2>4 DEF Base, PipeTyped, ListsTyped
    <3>2. c \in SendsOf(id)
      BY <2>1, <2>4, <3>1, SendsPending DEF Pending, InPipe
    <3>3. IsFiniteSet(SendsOf(id)) /\ sending = Cardinality(SendsOf(id))
      BY <2>4 DEF Order, Counted
    <3> QED
      BY <3>2, <3>3, FS_EmptySet
  <2> QED
    BY <2>2, <2>3, <2>4 DEF CommandAsserts
<1>2. type = "INVALID" => SendBufferEmpty
  BY DEF Settled, Idle, Live, SendBufferEmpty
<1>3. poll = "decide" => type # "RESERVE"
  BY DEF Base, PollTyped, Settled, OnResult, Live
<1>4. ASSUME poll = "send", type # "RESERVE"
      PROVE  ~Uncomplete(low) /\ WbSizeAfter(Len(BeforeHigh \o low)) = 0
  <2>1. CASE Alive
    <3>1. wbSize = Len(high) + Len(low) /\ ~Uncomplete(low)
      BY <2>1, CountedInLists DEF ListsAccounted
    <3>2. /\ Len(high) \in Nat /\ Len(low) \in Nat /\ Len(dwBuffer) \in Nat
          /\ Len(BeforeHigh \o low) = (Len(dwBuffer) + Len(high)) + Len(low)
      BY ListsAre DEF BeforeHigh
    <3> QED
      BY <3>1, <3>2 DEF WbSizeAfter
  <2>2. Alive
    BY <1>4 DEF Order, Busy, Alive
  <2> QED
    BY <2>1, <2>2
<1> QED
  BY <1>1, <1>2, <1>3, <1>4 DEF AssertionsHold

(* sending of a TCP connection is the number of its sends that are with    *)
(* their callers or in the pipe, so that send_socket() never takes it      *)
(* below zero, and a direct write that finds it zero passes nothing by.    *)
(* Sends start after the OPEN message, and either no command is carried    *)
(* out on a slot that is being reserved, or the slot is used once.         *)
THEOREM SocketSendingCounts ==
  EarlySend = FALSE => /\ SettledSpec => []SendingCounts
                       /\ OneUse => (Spec => []SendingCounts)
<1> SUFFICES ASSUME EarlySend = FALSE
             PROVE  /\ SettledSpec => []SendingCounts
                    /\ OneUse => (Spec => []SendingCounts)
  OBVIOUS
<1>1. Base /\ Settled /\ Streams /\ Order => SendingCounts
  BY DEF Order, Counted, SendingCounts
<1>2. SettledSpec => []SendingCounts
  BY <1>1, OrderTheorem, PTL
<1>3. OneUse => (Spec => []SendingCounts)
  <2>1. CASE OneUse
    <3>1. Spec => [](Base /\ Settled /\ Streams /\ Order)
      BY <2>1, OrderTheorem
    <3> QED
      BY <1>1, <3>1, PTL
  <2> QED
    BY <2>1
<1> QED
  BY <1>2, <1>3

(* No connection has data and does not wait for a write event, whichever   *)
(* thread left the data behind, under the same conditions.                 *)
THEOREM SocketDataIsWatched ==
  EarlySend = FALSE => /\ SettledSpec => []DataIsWatched
                       /\ OneUse => (Spec => []DataIsWatched)
<1> SUFFICES ASSUME EarlySend = FALSE
             PROVE  /\ SettledSpec => []DataIsWatched
                    /\ OneUse => (Spec => []DataIsWatched)
  OBVIOUS
<1>1. Base /\ Settled /\ Streams /\ Order => DataIsWatched
  BY DEF Order, Watched
<1>2. SettledSpec => []DataIsWatched
  BY <1>1, OrderTheorem, PTL
<1>3. OneUse => (Spec => []DataIsWatched)
  <2>1. CASE OneUse
    <3>1. Spec => [](Base /\ Settled /\ Streams /\ Order)
      BY <2>1, OrderTheorem
    <3> QED
      BY <1>1, <3>1, PTL
  <2> QED
    BY <2>1
<1> QED
  BY <1>2, <1>3

(* What one thread sends with send() is written in the order of its calls, *)
(* directly, from the lists or through the pipe, and nothing is passed     *)
(* over, under the same conditions.                                        *)
THEOREM SocketSenderOrder ==
  EarlySend = FALSE => /\ SettledSpec => []SenderOrder
                       /\ OneUse => (Spec => []SenderOrder)
<1> SUFFICES ASSUME EarlySend = FALSE
             PROVE  /\ SettledSpec => []SenderOrder
                    /\ OneUse => (Spec => []SenderOrder)
  OBVIOUS
<1>1. Base /\ Settled /\ Streams /\ Order => SenderOrder
  BY OrderOnWire DEF Order
<1>2. SettledSpec => []SenderOrder
  BY <1>1, OrderTheorem, PTL
<1>3. OneUse => (Spec => []SenderOrder)
  <2>1. CASE OneUse
    <3>1. Spec => [](Base /\ Settled /\ Streams /\ Order)
      BY <2>1, OrderTheorem
    <3> QED
      BY <1>1, <3>1, PTL
  <2> QED
    BY <2>1
<1> QED
  BY <1>2, <1>3

(* No assertion of the socket thread fails that a command or a send leads  *)
(* to, such as that of dec_sending_ref(), under the same conditions: where *)
(* the model's steps have an assertion for a guard, the guard holds.       *)
THEOREM SocketAssertionsHold ==
  EarlySend = FALSE => /\ SettledSpec => []AssertionsHold
                       /\ OneUse => (Spec => []AssertionsHold)
<1> SUFFICES ASSUME EarlySend = FALSE
             PROVE  /\ SettledSpec => []AssertionsHold
                    /\ OneUse => (Spec => []AssertionsHold)
  OBVIOUS
<1>1. Base /\ Settled /\ Streams /\ Order => AssertionsHold
  BY OrderAsserts
<1>2. SettledSpec => []AssertionsHold
  BY <1>1, OrderTheorem, PTL
<1>3. OneUse => (Spec => []AssertionsHold)
  <2>1. CASE OneUse
    <3>1. Spec => [](Base /\ Settled /\ Streams /\ Order)
      BY <2>1, OrderTheorem
    <3> QED
      BY <1>1, <3>1, PTL
  <2> QED
    BY <2>1
<1> QED
  BY <1>2, <1>3

=============================================================================
