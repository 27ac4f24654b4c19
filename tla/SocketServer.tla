---------------------------- MODULE SocketServer ----------------------------
(***************************************************************************)
(* The TCP side of the socket server of open/opensocket.cpp, seen from one *)
(* slot of its table: the threads that call connect, start, send,          *)
(* sendLowpriority, close and shutdown, the control pipe, and the socket   *)
(* thread that polls.  Connection ids 1, 2, ... use the slot one after the *)
(* other, as ids that are equal modulo MAX_SOCKET do.                      *)
(*                                                                         *)
(* A call is a record; the buffer of a send is named by its call, and is   *)
(* Size units long.  A list of write buffers is the sequence of the units  *)
(* it still has to write: its first buffer was written in part when its    *)
(* first unit is not unit 1.                                               *)
(***************************************************************************)
EXTENDS Integers, Sequences, FiniteSets

CONSTANTS Threads,    (* the threads that call the socket API              *)
          MaxCalls,   (* bound: the calls each thread makes                *)
          MaxId,      (* bound: the connections that use the slot          *)
          Size,       (* the units of a buffer                             *)
          Ops,        (* the calls that are made, among Operations         *)
          EarlySend,  (* a thread may send before the OPEN message         *)
          Peer        (* what the other side does, among PeerActs          *)

(* The calls, by the letter of their command.  close() and shutdown() both *)
(* send a "K"; the one of shutdown(), whose flag is 1, is "K1" here.       *)
Operations == {"O", "S", "D", "P", "K", "K1"}
PeerActs == {"connects", "accepts", "refuses", "closes", "breaks"}

ASSUME ThreadsFinite == IsFiniteSet(Threads)
ASSUME Bounds == /\ MaxCalls \in [Threads -> Nat]
                 /\ MaxId \in Nat
                 /\ Size \in Nat \ {0}
ASSUME Usage == /\ Ops \subseteq Operations
                /\ EarlySend \in BOOLEAN
                /\ Peer \subseteq PeerActs
                /\ {"none", "server"} \cap Threads = {}

VARIABLES
  type, id, protocol, (* struct socket: what the slot is, for which id     *)
  tag, sending,       (* the two halves of sending                         *)
  high, low,          (* the two lists of write buffers                    *)
  wbSize,             (* wb_size                                           *)
  dwBuffer,           (* what a direct write has left for the poll         *)
  lock,               (* who holds dw_lock: a thread, "server" or "none"   *)
  watch,              (* the fd in epoll: "no", for "read", for "write" too*)
  pipe,               (* the control commands in flight                    *)
  checkctrl, event,   (* poll looks at the pipe first; the event in ev[]   *)
  poll, result,       (* where the socket thread is; the message it is on  *)
  pc, call, calls,    (* where each thread is, in which call, how many     *)
  wire,               (* the units written to the connection of the slot   *)
  sent, freed,        (* the buffers given to send, and those freed        *)
  known, opened,      (* ids given to the callers, and those with an OPEN  *)
  closed,             (* ids with a CLOSE or ERR message                   *)
  lastId, peerClosed  (* alloc_id; the other side has closed               *)

slotVars == <<type, id, protocol>>
refVars == <<tag, sending>>
listVars == <<high, low, wbSize>>
evVars == <<checkctrl, event>>
pollVars == <<poll, result>>
threadVars == <<pc, call, calls>>
bufVars == <<sent, freed>>
toldVars == <<known, opened, closed>>
linkVars == <<lastId, peerClosed>>
vars == <<slotVars, refVars, listVars, dwBuffer, lock, watch, pipe, evVars,
          pollVars, threadVars, wire, bufVars, toldVars, linkVars>>

-----------------------------------------------------------------------------
Ids == 1 .. MaxId
MostCalls == UNION {1 .. MaxCalls[t] : t \in Threads}
Calls == [by : Threads, nth : MostCalls, op : Operations, id : Ids]
Messages == {c \in Calls : c.op \in {"D", "P"}}

Units(m) == [i \in 1 .. Size |-> <<m, i>>]
Whole(units) == {units[i][1] : i \in {j \in DOMAIN units : units[j][2] = Size}}
Taken(units, k) == SubSeq(units, 1, k)
Left(units, k) == SubSeq(units, k + 1, Len(units))
Free(ms) == freed' = freed \cup ms

SendBufferEmpty == high = <<>> /\ low = <<>>
NoMoreSendingData == SendBufferEmpty /\ dwBuffer = <<>> /\ sending = 0

(* sp_write(): an fd that is not in epoll is not put there.                *)
SpWrite(on) == IF watch = "no" THEN "no" ELSE IF on THEN "write" ELSE "read"

NoEvent == [kind |-> "none", id |-> 0]
NoResult == [op |-> "none", id |-> 0]

Init ==
  /\ type = "INVALID" /\ id = 0 /\ protocol = "UNKNOWN"
  /\ tag = 0 /\ sending = 0
  /\ high = <<>> /\ low = <<>> /\ wbSize = 0
  /\ dwBuffer = <<>>
  /\ lock = "none"
  /\ watch = "no"
  /\ pipe = <<>>
  /\ checkctrl = TRUE /\ event = NoEvent
  /\ poll = "loop" /\ result = NoResult
  /\ pc = [t \in Threads |-> "out"]
  /\ call = [t \in Threads |-> NoResult]
  /\ calls = [t \in Threads |-> 0]
  /\ wire = <<>>
  /\ sent = {} /\ freed = {}
  /\ known = {} /\ opened = {} /\ closed = {}
  /\ lastId = 0 /\ peerClosed = FALSE

-----------------------------------------------------------------------------
(* The callers.                                                            *)

NewCall(t, op, i) == [by |-> t, nth |-> calls[t] + 1, op |-> op, id |-> i]

Begins(t, op) == /\ op \in Ops
                 /\ pc[t] = "out"
                 /\ calls[t] < MaxCalls[t]
                 /\ calls' = [calls EXCEPT ![t] = @ + 1]

Enters(t, c, place) == /\ call' = [call EXCEPT ![t] = c]
                       /\ pc' = [pc EXCEPT ![t] = place]

At(t, place) == pc[t] = place
GoesTo(t, place) == /\ pc' = [pc EXCEPT ![t] = place]
                    /\ UNCHANGED <<call, calls>>
Returns(t) == /\ pc' = [pc EXCEPT ![t] = "out"]
              /\ call' = [call EXCEPT ![t] = NoResult]
              /\ UNCHANGED calls

(* connect(): reserve_id() takes the slot first and names it afterwards.   *)
Reserve(t) ==
  /\ Begins(t, "O")
  /\ type = "INVALID"
  /\ lastId < MaxId
  /\ lastId' = lastId + 1
  /\ type' = "RESERVE"
  /\ Enters(t, NewCall(t, "O", lastId'), "reserved")
  /\ UNCHANGED <<id, protocol, refVars, listVars, dwBuffer, lock, watch, pipe,
                 evVars, pollVars, wire, bufVars, toldVars, peerClosed>>

NameSlot(t) ==
  /\ At(t, "reserved")
  /\ id' = call[t].id
  /\ protocol' = "UNKNOWN"
  /\ GoesTo(t, "open")
  /\ UNCHANGED <<type, refVars, listVars, dwBuffer, lock, watch, pipe, evVars,
                 pollVars, wire, bufVars, toldVars, linkVars>>

SendOpen(t) ==
  /\ At(t, "open")
  /\ pipe' = Append(pipe, call[t])
  /\ known' = known \cup {call[t].id}
  /\ Returns(t)
  /\ UNCHANGED <<slotVars, refVars, listVars, dwBuffer, lock, watch, evVars,
                 pollVars, wire, bufVars, opened, closed, linkVars>>

(* start(), close() and shutdown() only write a command to the pipe.       *)
Request(t) ==
  /\ \E op \in {"S", "K", "K1"}, i \in known :
       /\ Begins(t, op)
       /\ pipe' = Append(pipe, NewCall(t, op, i))
  /\ UNCHANGED <<slotVars, refVars, listVars, dwBuffer, lock, watch, evVars,
                 pollVars, pc, call, wire, bufVars, toldVars, linkVars>>

(* send() and sendLowpriority(): a socket that is not this one any more    *)
(* frees the buffer.                                                       *)
SendTo == IF EarlySend THEN known ELSE opened

SendGone(t) ==
  /\ \E op \in {"D", "P"}, i \in SendTo :
       /\ Begins(t, op)
       /\ id # i \/ type = "INVALID"
       /\ sent' = sent \cup {NewCall(t, op, i)}
       /\ Free({NewCall(t, op, i)})
  /\ UNCHANGED <<slotVars, refVars, listVars, dwBuffer, lock, watch, pipe,
                 evVars, pollVars, pc, call, wire, toldVars, linkVars>>

Send(t) ==
  /\ \E op \in {"D", "P"}, i \in SendTo :
       /\ Begins(t, op)
       /\ id = i /\ type # "INVALID"
       /\ sent' = sent \cup {NewCall(t, op, i)}
       /\ Enters(t, NewCall(t, op, i), IF op = "D" THEN "try" ELSE "ref")
  /\ UNCHANGED <<slotVars, refVars, listVars, dwBuffer, lock, watch, pipe,
                 evVars, pollVars, wire, freed, toldVars, linkVars>>

(* can_direct_write() reads the id and the lists first and dw_buffer,      *)
(* sending and type after them, while other threads change them all.       *)
DirectOnLists(c) == id = c.id /\ SendBufferEmpty
DirectOnRest == dwBuffer = <<>> /\ sending = 0 /\ type = "CONNECTED"

ReadsLists(t, place, next) ==
  /\ At(t, place)
  /\ GoesTo(t, IF DirectOnLists(call[t]) THEN next ELSE
               IF place = "try" THEN "ref" ELSE "refused")
  /\ UNCHANGED <<slotVars, refVars, listVars, dwBuffer, lock, watch, pipe,
                 evVars, pollVars, wire, bufVars, toldVars, linkVars>>

FirstTest(t) == ReadsLists(t, "try", "tryrest")

(* The rest of the first test, and socket_trylock().                       *)
OnlyLock == lock = "none"                         \* mutated
TestAndLock == DirectOnRest /\ lock = "none"

TryLock(t) ==
  /\ At(t, "tryrest")
  /\ IF TestAndLock
     THEN lock' = t /\ GoesTo(t, "locked")
     ELSE UNCHANGED lock /\ GoesTo(t, "ref")
  /\ UNCHANGED <<slotVars, refVars, listVars, dwBuffer, watch, pipe, evVars,
                 pollVars, wire, bufVars, toldVars, linkVars>>

(* The whole test again, under the lock.                                   *)
SecondTest(t) == ReadsLists(t, "locked", "lockedrest")

NotAsked(n) == watch                              \* mutated
AskForRest(n) == IF n < Size THEN SpWrite(TRUE) ELSE watch

DirectWrite(t) ==
  /\ At(t, "lockedrest")
  /\ DirectOnRest
  /\ \E n \in 0 .. Size :
       /\ wire' = wire \o Taken(Units(call[t]), n)
       /\ dwBuffer' = Left(Units(call[t]), n)
       /\ watch' = AskForRest(n)
       /\ GoesTo(t, IF n = Size THEN "written" ELSE "left")
  /\ UNCHANGED <<slotVars, refVars, listVars, lock, pipe, evVars, pollVars,
                 bufVars, toldVars, linkVars>>

NoDirectWrite(t) ==
  /\ At(t, "lockedrest")
  /\ ~DirectOnRest
  /\ GoesTo(t, "refused")
  /\ UNCHANGED <<slotVars, refVars, listVars, dwBuffer, lock, watch, pipe,
                 evVars, pollVars, wire, bufVars, toldVars, linkVars>>

Unlock(t) ==
  /\ pc[t] \in {"written", "left", "refused"}
  /\ lock' = "none"
  /\ Free(IF At(t, "written") THEN {call[t]} ELSE {})
  /\ IF At(t, "refused") THEN GoesTo(t, "ref") ELSE Returns(t)
  /\ UNCHANGED <<slotVars, refVars, listVars, dwBuffer, watch, pipe, evVars,
                 pollVars, wire, sent, toldVars, linkVars>>

(* inc_sending_ref(): only while the slot is a TCP socket of this id.      *)
RefAnyId(c) == protocol = "TCP"                   \* mutated
RefThisId(c) == protocol = "TCP" /\ tag = c.id

IncSendingRef(t) ==
  /\ At(t, "ref")
  /\ sending' = IF RefThisId(call[t]) THEN sending + 1 ELSE sending
  /\ GoesTo(t, "push")
  /\ UNCHANGED <<slotVars, tag, listVars, dwBuffer, lock, watch, pipe, evVars,
                 pollVars, wire, bufVars, toldVars, linkVars>>

PushSend(t) ==
  /\ At(t, "push")
  /\ pipe' = Append(pipe, call[t])
  /\ Returns(t)
  /\ UNCHANGED <<slotVars, refVars, listVars, dwBuffer, lock, watch, evVars,
                 pollVars, wire, bufVars, toldVars, linkVars>>

InCall(t) == \/ NameSlot(t) \/ SendOpen(t) \/ FirstTest(t) \/ TryLock(t)
             \/ SecondTest(t) \/ DirectWrite(t) \/ NoDirectWrite(t)
             \/ Unlock(t) \/ IncSendingRef(t) \/ PushSend(t)
Caller(t) == Reserve(t) \/ Request(t) \/ SendGone(t) \/ Send(t) \/ InCall(t)

-----------------------------------------------------------------------------
(* The socket thread: the commands.  An assertion of the code that fails   *)
(* stops the program: the step it guards is not taken.                     *)

Tells(i) == closed' = closed \cup {i} /\ UNCHANGED <<known, opened>>
Opens(i) == opened' = opened \cup {i} /\ UNCHANGED <<known, closed>>

Command(op) ==
  /\ poll = "loop"
  /\ checkctrl
  /\ pipe # <<>>
  /\ Head(pipe).op = op
  /\ pipe' = Tail(pipe)

OnlyInvalid(i) == type = "INVALID"                \* mutated
Gone(i) == type = "INVALID" \/ id # i

(* new_fd(): the same for a connection that opens and one that is accepted.*)
NewFd(i) ==
  /\ SendBufferEmpty                     (* check_wb_list()                *)
  /\ id' = i /\ protocol' = "TCP"
  /\ tag' = i /\ sending' = 0
  /\ wbSize' = 0
  /\ dwBuffer' = <<>>
  /\ wire' = <<>> /\ peerClosed' = FALSE

(* open_socket() connects at once, is connecting, or fails.                *)
OpenSocket ==
  LET i == Head(pipe).id IN
  /\ Command("O")
  /\ type = "RESERVE"
  /\ NewFd(i)
  /\ \/ /\ "connects" \in Peer
        /\ type' = "CONNECTED" /\ watch' = "read"
        /\ Opens(i)
     \/ /\ type' = "CONNECTING" /\ watch' = "write"
        /\ UNCHANGED toldVars
  /\ UNCHANGED <<high, low, lock, evVars, pollVars, threadVars, bufVars,
                 lastId>>

OpenFails ==
  /\ Command("O")
  /\ "refuses" \in Peer
  /\ type' = "INVALID"
  /\ Tells(Head(pipe).id)
  /\ poll' = "clear" /\ result' = Head(pipe)
  /\ UNCHANGED <<id, protocol, refVars, listVars, dwBuffer, lock, watch,
                 evVars, threadVars, wire, bufVars, linkVars>>

StartSocket ==
  LET i == Head(pipe).id IN
  /\ Command("S")
  /\ IF Gone(i)
     THEN /\ Tells(i)
          /\ poll' = "clear" /\ result' = Head(pipe)
          /\ UNCHANGED <<type, watch>>
     ELSE /\ type' = IF type = "PACCEPT" THEN "CONNECTED" ELSE type
          /\ watch' = IF type = "PACCEPT" THEN "read" ELSE watch
          /\ IF type' = "CONNECTED" THEN Opens(i) ELSE UNCHANGED toldVars
          /\ UNCHANGED pollVars
  /\ UNCHANGED <<id, protocol, refVars, listVars, dwBuffer, lock, evVars,
                 threadVars, wire, bufVars, linkVars>>

(* send_socket(), then dec_sending_ref().                                  *)
Dropped(c) == Gone(c.id) \/ type \in {"HALFCLOSE", "PACCEPT"}

NotWatched(first) == watch                        \* mutated
WatchFirst(first) == IF first THEN SpWrite(TRUE) ELSE watch

SendSocket(op) ==
  LET c == Head(pipe)
      first == SendBufferEmpty /\ type = "CONNECTED" IN
  /\ Command(op)
  /\ IF Dropped(c)
     THEN Free({c}) /\ UNCHANGED <<listVars, watch>>
     ELSE /\ IF first \/ op = "D"
             THEN high' = high \o Units(c) /\ UNCHANGED low
             ELSE low' = low \o Units(c) /\ UNCHANGED high
          /\ wbSize' = wbSize + Size
          /\ watch' = WatchFirst(first)
          /\ UNCHANGED freed
  /\ IF id = c.id /\ protocol = "TCP"
     THEN sending # 0 /\ sending' = sending - 1
     ELSE UNCHANGED sending
  /\ UNCHANGED <<slotVars, tag, dwBuffer, lock, evVars, pollVars, threadVars,
                 wire, sent, toldVars, linkVars>>

(* close_socket(): send what can be sent, then decide.                     *)
CloseSocket(op) ==
  /\ Command(op)
  /\ result' = Head(pipe)
  /\ IF Gone(Head(pipe).id)
     THEN poll' = "clear" /\ Tells(Head(pipe).id)
     ELSE /\ poll' = IF NoMoreSendingData THEN "decide" ELSE "flush"
          /\ UNCHANGED toldVars
  /\ UNCHANGED <<slotVars, refVars, listVars, dwBuffer, lock, watch, evVars,
                 threadVars, wire, bufVars, linkVars>>

(* force_close() frees the lists and leaves epoll before it has the lock.  *)
FreeLists == /\ type # "RESERVE"
             /\ high' = <<>> /\ low' = <<>>
             /\ Free(({high[i][1] : i \in DOMAIN high}
                      \cup {low[i][1] : i \in DOMAIN low}))
             /\ watch' = "no"

Decide ==
  /\ poll = "decide"
  /\ IF result.op = "K1" \/ NoMoreSendingData
     THEN poll' = "kill" /\ FreeLists /\ UNCHANGED type
     ELSE /\ type' = "HALFCLOSE"
          /\ poll' = "loop"
          /\ UNCHANGED <<high, low, watch, freed>>
  /\ result' = IF poll' = "kill" THEN result ELSE NoResult
  /\ UNCHANGED <<id, protocol, refVars, wbSize, dwBuffer, lock, pipe,
                 evVars, threadVars, wire, sent, toldVars, linkVars>>

NoBuffer == {}                                    \* mutated
DirectBuffer == {dwBuffer[i][1] : i \in DOMAIN dwBuffer}

CloseFd ==
  /\ poll = "kill"
  /\ lock = "none"
  /\ type' = "INVALID"
  /\ dwBuffer' = <<>>
  /\ Free(DirectBuffer)
  /\ Tells(result.id)
  /\ poll' = "clear"
  /\ UNCHANGED <<id, protocol, refVars, listVars, lock, watch, pipe, evVars,
                 result, threadVars, wire, sent, linkVars>>

(* clear_closed_event(): the events of the socket that was closed.         *)
KeepEvent == event                                \* mutated
ClearEvent == IF type = "INVALID" /\ id = result.id THEN NoEvent ELSE event

ClearClosedEvent ==
  /\ poll = "clear"
  /\ event' = ClearEvent
  /\ poll' = "loop" /\ result' = NoResult
  /\ UNCHANGED <<slotVars, refVars, listVars, dwBuffer, lock, watch, pipe,
                 checkctrl, threadVars, wire, bufVars, toldVars,
                 linkVars>>

-----------------------------------------------------------------------------
(* The socket thread: the events.                                          *)

(* send_buffer() for a write event, or for a close: socket_trylock().      *)
NextAfterSend == IF result = NoResult THEN "loop" ELSE "decide"

LockForSend ==
  /\ poll = "flush"
  /\ IF lock = "none"
     THEN lock' = "server" /\ poll' = "send"
     ELSE poll' = NextAfterSend /\ UNCHANGED lock
  /\ UNCHANGED <<slotVars, refVars, listVars, dwBuffer, watch, pipe, evVars,
                 result, threadVars, wire, bufVars, toldVars, linkVars>>

(* The direct write goes before the high list, the low list after it.  A   *)
(* write event means there is room for some of it, and what is not         *)
(* connected takes nothing.                                                *)
BehindHigh == high \o dwBuffer                    \* mutated
BeforeHigh == dwBuffer \o high

ListsOnly(k) == wbSize - k                        \* mutated
WbSizeAfter(k) == wbSize + Len(dwBuffer) - k

Progress == IF result = NoResult THEN 1 ELSE 0
Writable(n) == IF type = "CONNECTING" THEN {0}
               ELSE {k \in 0 .. n : k >= Progress \/ k = n}

(* raise_uncomplete(): a low buffer written in part becomes the high list. *)
Uncomplete(units) == units # <<>> /\ units[1][2] > 1
PartSize(units) == Size - units[1][2] + 1

NotRaised(units) == 0                             \* mutated
Raised(units) == IF Uncomplete(units) THEN PartSize(units) ELSE 0

SendBuffer ==
  LET first == BeforeHigh
      all == first \o low IN
  /\ poll = "send"
  /\ ~Uncomplete(low)
  /\ \E k \in Writable(Len(all)) :
       /\ wire' = wire \o Taken(all, k)
       /\ Free(Whole(Taken(all, k)))
       /\ wbSize' = WbSizeAfter(k)
       /\ IF k < Len(first)
          THEN high' = Left(first, k) /\ low' = low
          ELSE LET rest == Left(all, k) IN
               /\ high' = Taken(rest, Raised(rest))
               /\ low' = Left(rest, Raised(rest))
       /\ IF k < Len(all)
          THEN /\ poll' = NextAfterSend
               /\ UNCHANGED <<type, watch, result, toldVars>>
          ELSE IF type = "HALFCLOSE"
               THEN /\ type' = "INVALID" /\ watch' = "no"
                    /\ Tells(id)
                    /\ poll' = "clear" /\ result' = [NoResult EXCEPT !.id = id]
               ELSE /\ watch' = SpWrite(FALSE)
                    /\ poll' = NextAfterSend
                    /\ UNCHANGED <<type, result, toldVars>>
  /\ dwBuffer' = <<>>
  /\ lock' = "none"
  /\ UNCHANGED <<id, protocol, refVars, pipe, evVars, threadVars, sent,
                 linkVars>>

(* A write fails: force_close() under the lock that is held already.       *)
(* Nothing is written to what is still connecting.                         *)
WriteFails ==
  LET all == BeforeHigh \o low IN
  /\ poll = "send"
  /\ "breaks" \in Peer
  /\ \E k \in 0 .. Len(all) - 1 :
       /\ type = "CONNECTING" => k = 0
       /\ wire' = wire \o Taken(all, k)
       /\ wbSize' = WbSizeAfter(k)
  /\ Free({all[i][1] : i \in DOMAIN all})
  /\ high' = <<>> /\ low' = <<>> /\ dwBuffer' = <<>>
  /\ type' = "INVALID" /\ watch' = "no"
  /\ Tells(id)
  /\ poll' = "clear" /\ result' = [NoResult EXCEPT !.id = id]
  /\ lock' = "none"
  /\ UNCHANGED <<id, protocol, refVars, pipe, evVars, threadVars, sent,
                 linkVars>>

(* socket_server_poll(): has_cmd() found nothing; sp_wait(); an event.     *)
NoCommand ==
  /\ poll = "loop" /\ checkctrl /\ pipe = <<>>
  /\ checkctrl' = FALSE
  /\ UNCHANGED <<slotVars, refVars, listVars, dwBuffer, lock, watch, pipe,
                 event, pollVars, threadVars, wire, bufVars, toldVars,
                 linkVars>>

Waits == poll = "loop" /\ ~checkctrl /\ event = NoEvent

(* The first event of those that sp_wait() returns is taken at once, the   *)
(* others after the commands.                                              *)
Wait(kind) ==
  /\ Waits
  /\ checkctrl' = TRUE
  /\ event' = IF kind = "none" THEN NoEvent ELSE [kind |-> kind, id |-> id]
  /\ poll' \in IF kind = "none" THEN {"loop"} ELSE {"loop", "first"}
  /\ UNCHANGED <<slotVars, refVars, listVars, dwBuffer, lock, watch, pipe,
                 result, threadVars, wire, bufVars, toldVars, linkVars>>

WaitPipe == pipe # <<>> /\ Wait("none")
WaitWrite == watch = "write" /\ Wait("write")
WaitEof == watch # "no" /\ peerClosed /\ Wait("eof")

Dispatches == poll = "first" \/ (poll = "loop" /\ ~checkctrl)
Dispatch(kind) ==
  /\ Dispatches
  /\ event.kind = kind
  /\ event' = NoEvent

(* A read event after the other side has closed, and its force_close().    *)
EventEof ==
  /\ Dispatch("eof")
  /\ type \notin {"INVALID", "CONNECTING"}
  /\ FreeLists
  /\ poll' = "kill" /\ result' = [NoResult EXCEPT !.id = id]
  /\ UNCHANGED <<slotVars, refVars, wbSize, dwBuffer, lock, pipe,
                 checkctrl, threadVars, wire, sent, toldVars, linkVars>>

EventWrite ==
  /\ Dispatch("write")
  /\ type \notin {"INVALID", "CONNECTING"}
  /\ poll' = "flush"
  /\ UNCHANGED <<slotVars, refVars, listVars, dwBuffer, lock, watch, pipe,
                 checkctrl, result, threadVars, wire, bufVars, toldVars,
                 linkVars>>

(* report_connect() says connected, and then stops asking for write events *)
(* if it has found nothing to send.                                        *)
ReportConnect ==
  /\ \E kind \in {"write", "eof"} : Dispatch(kind)
  /\ type = "CONNECTING"
  /\ type' = "CONNECTED"
  /\ poll' = IF NoMoreSendingData THEN "quiet" ELSE "opened"
  /\ UNCHANGED <<id, protocol, refVars, listVars, dwBuffer, lock, watch, pipe,
                 checkctrl, result, threadVars, wire, bufVars, toldVars,
                 linkVars>>

TellConnected ==
  /\ poll \in {"quiet", "opened"}
  /\ watch' = IF poll = "quiet" THEN SpWrite(FALSE) ELSE watch
  /\ Opens(id)
  /\ poll' = "loop"
  /\ UNCHANGED <<slotVars, refVars, listVars, dwBuffer, lock, pipe, evVars,
                 result, threadVars, wire, bufVars, linkVars>>

ConnectFails ==
  /\ \E kind \in {"write", "eof"} : Dispatch(kind)
  /\ type = "CONNECTING"
  /\ "refuses" \in Peer
  /\ FreeLists
  /\ poll' = "kill" /\ result' = [NoResult EXCEPT !.id = id]
  /\ UNCHANGED <<slotVars, refVars, wbSize, dwBuffer, lock, pipe,
                 checkctrl, threadVars, wire, sent, toldVars, linkVars>>

(* report_accept(): an event of the listening socket, in another slot.     *)
Accept ==
  /\ "accepts" \in Peer
  /\ poll = "loop" /\ ~checkctrl
  /\ type = "INVALID"
  /\ lastId < MaxId
  /\ lastId' = lastId + 1
  /\ NewFd(lastId')
  /\ type' = "PACCEPT"
  /\ known' = known \cup {lastId'}
  /\ UNCHANGED <<high, low, lock, watch, pipe, evVars, pollVars, threadVars,
                 bufVars, opened, closed>>

PeerCloses ==
  /\ "closes" \in Peer
  /\ type \notin {"INVALID", "RESERVE", "CONNECTING"}
  /\ ~peerClosed
  /\ peerClosed' = TRUE
  /\ UNCHANGED <<slotVars, refVars, listVars, dwBuffer, lock, watch, pipe,
                 evVars, pollVars, threadVars, wire, bufVars, toldVars,
                 lastId>>

Commanded == \/ OpenSocket \/ OpenFails \/ StartSocket
             \/ (\E op \in {"D", "P"} : SendSocket(op))
             \/ (\E op \in {"K", "K1"} : CloseSocket(op))
Continued == \/ Decide \/ CloseFd \/ ClearClosedEvent \/ LockForSend
             \/ SendBuffer \/ WriteFails \/ TellConnected
Dispatched == EventEof \/ EventWrite \/ ReportConnect \/ ConnectFails
Poll == Commanded \/ Continued \/ Dispatched \/ NoCommand \/ WaitPipe

Next == \/ \E t \in Threads : Caller(t)
        \/ Poll \/ WaitWrite \/ WaitEof \/ Accept \/ PeerCloses

Spec == Init /\ [][Next]_vars

(* reserve_id() takes the slot before it names it, and until then the id   *)
(* of the last connection is still there: a command for that one, taken in *)
(* between, is carried out on the slot of the next.  SettledSpec is the    *)
(* socket server without that.                                             *)
StaleCommand == /\ \E t \in Threads : At(t, "reserved")
                /\ pipe # <<>> /\ Head(pipe).id = id
                /\ pipe' = Tail(pipe)
SettledSpec == Init /\ [][Next /\ ~StaleCommand]_vars

(* The threads and the socket thread go on; a call that was begun returns; *)
(* the other side reads, so that a write event that is asked for comes.    *)
FairSpec == /\ Spec
            /\ \A t \in Threads : WF_vars(InCall(t))
            /\ WF_vars(Poll)
            /\ SF_vars(WaitWrite)
            /\ SF_vars(WaitEof)

-----------------------------------------------------------------------------
(* What must hold.                                                         *)

(* Every variable keeps to the values its C type and use allow.            *)
TypeOK ==
  /\ type \in {"INVALID", "RESERVE", "CONNECTING", "CONNECTED", "PACCEPT",
               "HALFCLOSE"}
  /\ id \in 0 .. MaxId /\ protocol \in {"UNKNOWN", "TCP"}
  /\ tag \in 0 .. MaxId /\ sending \in Nat
  /\ {high, low, dwBuffer, wire} \subseteq Seq(Messages \X (1 .. Size))
  /\ wbSize \in Nat
  /\ lock \in Threads \cup {"server", "none"}
  /\ watch \in {"no", "read", "write"}
  /\ pipe \in Seq(Calls)
  /\ checkctrl \in BOOLEAN
  /\ event \in [kind : {"none", "write", "eof"}, id : 0 .. MaxId]
  /\ poll \in {"loop", "first", "flush", "send", "decide", "kill", "clear",
               "quiet", "opened"}
  /\ result \in Calls \cup [op : {"none"}, id : 0 .. MaxId]
  /\ pc \in [Threads -> {"out", "reserved", "open", "try", "tryrest",
                         "locked", "lockedrest", "written", "left", "refused",
                         "ref", "push"}]
  /\ call \in [Threads -> Calls \cup {NoResult}]
  /\ calls \in [Threads -> Nat]
  /\ sent \subseteq Messages /\ freed \subseteq sent
  /\ known \subseteq Ids /\ opened \subseteq Ids /\ closed \subseteq Ids
  /\ lastId \in 0 .. MaxId /\ peerClosed \in BOOLEAN

(* sending counts the sends of this connection whose command the socket    *)
(* thread has not taken yet: those in the pipe and those about to be put   *)
(* there.  The assertion of dec_sending_ref() rests on it, and so does the *)
(* order of a thread's sends: a direct write is made when it is 0.         *)
SendsOf(i) ==
  {c \in Messages : /\ c.id = i
                    /\ \/ \E k \in DOMAIN pipe : pipe[k] = c
                       \/ At(c.by, "push") /\ call[c.by] = c}
SendingCounts ==
  protocol = "TCP" /\ id = tag => sending = Cardinality(SendsOf(id))

(* The bytes of a buffer go out together and in order, and no buffer goes  *)
(* out twice, whichever thread writes it and however often a write stops   *)
(* in the middle: nothing is put between the parts.  (While force_close()  *)
(* is at work the connection is lost anyway.)                              *)
Alive == type \notin {"INVALID", "RESERVE"} /\ poll # "kill"

NoTornMessage ==
  Alive => \A p \in DOMAIN wire :
    /\ wire[p][2] = 1 => p = 1 \/ wire[p - 1][2] = Size
    /\ wire[p][2] > 1 => p > 1 /\ wire[p - 1] = <<wire[p][1], wire[p][2] - 1>>
    /\ \A q \in 1 .. p - 1 : wire[q] # wire[p]

(* What one thread sends to a connection with send() reaches the wire in   *)
(* the order of its calls, whether it was written directly, left for the   *)
(* poll or went through the pipe, and none is passed over.                 *)
Before(a, b) == a.by = b.by /\ a.id = b.id /\ a.op = b.op /\ a.nth < b.nth

SenderOrder ==
  Alive => \A p \in DOMAIN wire :
    \A m \in sent : m.op = "D" /\ Before(m, wire[p][1]) =>
      \E q \in 1 .. p - 1 : wire[q] = <<m, Size>>

(* A connection carries only what was sent to it: what is left of an       *)
(* earlier connection of the slot never gets out on a later one.  The tag  *)
(* is the id of the connection that new_fd() has made.                     *)
OwnMessages ==
  /\ \A p \in DOMAIN wire : wire[p][1].id = tag
  /\ type \notin {"INVALID", "RESERVE"} => tag = id

(* Every buffer given to send() has one owner: the caller, a command, a    *)
(* list or the direct write, until it is freed; one that was freed is      *)
(* nowhere.  So none is leaked, freed twice or used after it was freed.    *)
InPipe(m) == \E k \in DOMAIN pipe : pipe[k] = m
InUnits(m, units) == \E k \in DOMAIN units : units[k][1] = m
InHand(m) == call[m.by] = m /\ ~At(m.by, "left")

Places(m) == Cardinality({where \in {"pipe", "high", "low", "dw", "hand"} :
               CASE where = "pipe" -> InPipe(m)
                 [] where = "high" -> InUnits(m, high)
                 [] where = "low"  -> InUnits(m, low)
                 [] where = "dw"   -> InUnits(m, dwBuffer)
                 [] where = "hand" -> InHand(m)})
OwnedOnce == \A m \in sent : Places(m) = IF m \in freed THEN 0 ELSE 1

(* wb_size is what the lists hold, which send_buffer_() asserts when they  *)
(* are empty and the WARNING messages report; a low buffer that was        *)
(* written in part has always been moved to the high list.                 *)
ListsAccounted ==
  Alive => wbSize = Len(high) + Len(low) /\ ~Uncomplete(low)

(* What waits to be written is waited for: as long as the lists or the     *)
(* direct write hold something, epoll is asked for a write event.          *)
DataIsWatched ==
  (Alive /\ type \in {"CONNECTED", "HALFCLOSE"}
         /\ (~SendBufferEmpty \/ dwBuffer # <<>>)) => watch = "write"

(* An event is dispatched to the connection it was captured for: one that  *)
(* was closed meanwhile has left no event to its successor in the slot.    *)
EventsAreFresh ==
  Dispatches /\ event # NoEvent =>
    event.id = id /\ type \notin {"INVALID", "RESERVE"}

(* Every buffer is disposed of in the end, written or not.                 *)
BuffersFreed == (sent # freed) ~> (sent = freed)

(* "if s->type == SOCKET_TYPE_HALFCLOSE , SOCKET_CLOSE message will send   *)
(* later", start_socket().                                                 *)
HalfCloseEnds == \A i \in Ids : (type = "HALFCLOSE" /\ id = i) ~> i \in closed
=============================================================================
