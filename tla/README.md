# OpenMiniServer in TLA+

TLA+ modules, TLC configurations and TLAPS proofs about OpenMiniServer, a C++
actor and network library. Paths are relative to the repository's root, `src/`.

`tlc -config <run>.cfg <module>` runs a check (the module of each run is in the
table below and in `PROJECT.json`); `tlapm <module>.tla` checks the proofs of
`OpenThreadProofs`, `ThreadPoolProofs`, `ServersProofs`, `LibraryProofs`,
`SocketServerProofs`, `SocketStreamProofs`, `SocketOrderProofs` and
`HttpRelayProofs`.

## The system

| component | state | operations | hard part | modules |
|---|---|---|---|---|
| `OpenThread` (open/openthread.cpp) | `state_`, the linked list `queue_`, `queueCache_`, `msgCount_`, `isIdle_`, `mutex_`/`cond_` | `start`, `stop`, `send`, `run`, `waitIdle` | senders do not take `mutex_`; they spin on `isIdle_` and signal | `ActorQueue`, `OpenThread`, `OpenThreadRestart` |
| `OpenThreadPool`, `SafeMap` (openthread.cpp) | array of names and threads, `isInit_`, `isClearIng_`, `mutex_`, `mutex_close_` | `create`, `thread`, `send`, `stop`, `threadJoin`, `stopAll` | readers of the map take no lock | `ThreadPool` |
| `OpenThreadRef`, `OpenThreadWorker`, `OpenThreader` | a thread's slot; handlers by message type | `onMsg`, `send`, `canLoop` | message type errors end in assertions | `ThreadPool`, `Servers` |
| `OpenSync` | `isSleep_`, mutex, condition | `await`, `wakeup` | signal before the wait | `HttpClient` |
| socket server, TCP (open/opensocket.cpp) | 2^18 slots with type, id, reference count, two lists, a direct write; a control pipe; an array of events | callers: `connect`, `start`, `send`, `sendLowpriority`, `close`, `shutdown`; socket thread: commands and events | callers write to the fd themselves, under a spin lock only they and the write event take; slots and ids are reused | `SocketServer` |
| socket server, UDP | the same, with addresses | `udp`, `udpConnect`, `udpSend` | the same | none |
| `OpenServer`, its pool, `OpenApp` (open/openserver.cpp) | map of servers, two spin locks | `StartServer`, `RunServers`, `FindServer`, dispatch of socket messages | lock and unlock do not match on one path; servers find each other while they are started | `Servers` |
| `OpenTimerServer` | multimap of deadlines, `curTime` | `startTime`, `startInterval`, `timeLoop` | events are sent only while the mailbox is empty, by a clock that is not read | `Servers` |
| HTTP server, agent, client (open/server/https) | connections by fd | accept, hand over, request, response, stream, close | messages of one connection come from several threads | `HttpAgent`, `HttpClient`, `HttpRelay` |
| HTTP parser (openhttpslib.cpp) | head, body, chunk state | `requestData`, `responseData` | input is split anywhere | `HttpFraming` |
| `OpenFSM` (open/openfsm.cpp) | states, the one in focus and the next | `enterState`, `nextState`, `nextAction`, `update` | callbacks call the machine that calls them | `OpenFSM` |
| `OpenBuffer` (open/openbuffer.cpp) | memory, `size_`, `offset_`, `cap_` | push and pop at both ends | boundaries | `Bytes`, `OpenBuffer` |
| `OpenJson` (open/openjson.cpp) | a tree with cached values | read, assign, `encode`, `decode` | what was read before an assignment or an encoding | `OpenJson` |

An application thread or a server's thread calls `OpenThread::send` of another
one; that one's `run()` calls its handler. Threads are found by name or pid in
the pool, servers by name in the server pool. The socket thread turns what
happens on a connection into a message of the same kind to the server named by
the connection's `opaque` (`OpenApp::SocketFunc`). Servers call the socket
server directly, from their own threads, and the calls turn into commands on a
pipe, `send` excepted, which may write at once. So the two things everything
else stands on are the mailbox of a thread and the socket server. What makes
each part right:

* mailbox: an accepted message is handled once, in order, and in the end; no
  wakeup is lost; `send` returns; nothing is handled after a STOP;
* pool: a name has one thread, a thread in the map has its slot as its pid,
  `stopAll()` returns;
* socket server: bytes of a message go out together and in order, the order of
  a sender is kept, every buffer is freed once, what waits to be written is
  waited for, and nothing of a connection (commands, events, buffers,
  references) reaches the next one in its slot;
* servers and timer: no handler meets a half-made server, an earlier server
  can be told, a timer fires once, not before its deadline, and in the end;
* HTTP: a request gets one response, whole and in order, its author one answer,
  and the maps of connections agree with the connections;
* library: what is put in comes out, wherever a boundary falls.

## Modules

### Threads

`ActorQueue` is the promise of a thread to its senders: `pending`, `handled`,
`live`, and two actions.

`OpenThread` is one `OpenThread` between the `pthread_create` of `start()` and
the end of `run()`. An action is at most one access to what other threads use
at the same time; a section under the spin lock is one action. `cpc[c]` is where
a caller's `send()` or `stop()` is (test of `state_`, push, count, spin), `rpc`
where `run()` is. `Self`, if it is one of the callers, is this thread: its calls
are made inside its own callback. `isIdle_` is a `volatile bool` and not atomic:
with `TSO = TRUE` the store `isIdle_ = true` waits in a store buffer
(`idleBuffered`) and drains at any later time, at the latest with a locked
instruction (the spin lock of `popAll`, the unlock in `pthread_cond_wait`).
`AQ` maps it to `ActorQueue`: pending is the node in hand, the cache and the
list, in this order.

`OpenThreadRestart` adds a second `start()`. It may come as soon as `state_` is
STOP, with the end of the old `run()` (`leftover`) still going on.

`ThreadPool` is the pool and its map. A slot of `SafeMap` is a key and a value.
`pc[c]` is the line of the pool where a caller is, `look[c]` what it looks a
name up for (`thread()`, the first and the second look of `create()`), `at[c]`
the slot. Every access to a key, a value or a pid is a step of its own
(`ReadKey`, `ReadValue`, `SetValue`, `SetKey`, `SetPid`, `ClearKey`,
`ClearValue`), for readers take no lock, `create()` takes `mutex_` and
`stopAll()` takes `mutex_close_`. `Calls` says what each caller calls, `Home`
whose callback it is (`NoName` for a thread outside of the pool). What a thread
does between RUN and STOP is `OpenThread`'s business: here it `Runs` and it
`Ends`. A failed assertion is noted in `failed`, and the call goes on as it does
without assertions. `InitPool` is one step for the three stores of `init()`
(`isInit_`, `profile_`, the capacity): that a caller tests `isInit_` without the
lock in between, and reads vectors that are just getting their size, is left out.

### Sockets

`SocketServer` is the TCP side as one slot of the table sees it. Ids 1, 2, ...
use it one after the other, as ids equal modulo `MAX_SOCKET` do. The callers'
steps: `Reserve` and `NameSlot` are the two halves of `reserve_id`; `FirstTest`
/ `TryLock` and `SecondTest` / `DirectWrite` are `can_direct_write`, which reads
the id and the lists before `dw_buffer`, `sending` and `type`, before and under
`dw_lock`; `IncSendingRef` and `PushSend` the way through the pipe. The socket
thread takes a command (`OpenSocket`, `StartSocket`, `SendSocket`,
`CloseSocket`), goes on with a close (`Decide`, `CloseFd`), clears the events of
what it closed (`ClearClosedEvent`), or waits and dispatches an event
(`EventWrite`, `EventEof`, `ReportConnect`, `ConnectFails`): the first of those
that `sp_wait` returned at once, the others after the commands. A buffer has
`Size` units; a write takes any number of them. `high` and `low` are the
sequences of units still to write, so a buffer written in part is one whose
first unit is missing.

Simplifications of `SocketServer`: processing one command is atomic, except a
close, which other threads can observe at work; `send_buffer` is atomic under
`dw_lock`; the reads in `close_socket`'s test are one step; the fields of a slot
are not reordered (they are plain loads and stores; x86 orders them but for the
store buffer); epoll is level triggered and a write event means that at least
one unit can be written; one event is in `ev[]` at a time, which may be stale
when commands run before its dispatch; received data has no model beyond the
end of the stream. Failures of `malloc` and of adding an fd to epoll, UDP,
`listen`, `bind`, options, `EXIT` and WARNING messages are left out. A failed
assertion of the code is a step that is not taken: that it cannot fail is what
`SendingCounts`, `ListsAccounted` and `EventsAreFresh` are for. `Alive` is a
connection that `force_close()` is not at work on.

`reserve_id()` makes the type of a slot RESERVE and stores its id after that. In
between, a command for the last id of the slot is not found to be stale
(`StaleCommand`), and what follows is no good (see below). `SettledSpec` is
`Spec` without such a step, so that what else there is to say of slots that are
used again can be said. Nothing is lost for connections that are accepted, which
the socket thread makes in one go, nor for the first one of a slot: there no
command can be stale (`OneUse`, which `NothingStale` proves).

### Servers and timer

`Servers` is a program of servers. `Main` does one of the `Scripts`: it starts
the application, registers classes, starts servers (`StartServerLocks`,
`StartServerInserts`, `InitServer`: the lock, the maps, the thread and its pid
are steps of their own), runs the timer server and then all servers (`OnInit`,
`StartThread`, `StartPolls`). A server's thread comes to RUN and calls
`onStart()`, whose operations are in `duty` and are done one by one: look a
server up and send to it, ask for a timer, listen. `OnMsg` takes a message and
has a handler that answers who asked. The timer server has its mailbox, the
deadlines in `events`, and the place of `timeLoop()` in `phase`: `TimeLoop`
begins a round when the mailbox is empty, `Fire` sends what is due by `curTime`,
and after `GoToSleep` and `WakeUp` that clock has moved by one, whatever time
has passed. `Tick` is the real clock. `GetServers` is a thread outside that
waits for servers to exist. Mailboxes are queues, as `OpenThread` is proved to
implement; a thread that is not at RUN refuses (`refused`).

### HTTP

`HttpClient` is the client's thread and the authors of its requests. An action
of the thread takes one message of its mailbox and is the whole handler, with
`Client::close()` inside; `author` is where the author of a request is, in
`await()` for a synchronous one. `await()` has two steps, the store to
`isSleep_` and the wait; `wakeup()` is one, since what can come between its test
and its signal is one of those two, with the same result. A request whose host
has no address is a choice of `OnMsgProto`. A response is `Pieces` reads long;
where it ends is the parser's business.

`HttpAgent` is the agent's thread with the connections handed to it, the
listening server's `OnSocketAccept`, and handlers, which may answer with TRUE,
with `rep->send()` at any later time (`RepSend`), or both. `written` is what the
agent has given to `OpenSocket::send`. A failed assertion is noted in `failed`
and the handler goes on as it does without assertions, so that the other
properties are about both builds.

`HttpRelay` composes the two: it declares the variables of both, shares the
two mailboxes, and instantiates each module. A step is one of the agent's side
or one of the client's. Mailboxes are sequences that keep the order, which is
what `OpenThread` is proved to promise; the events of a connection come in the
order `SocketServer` reports them, and none comes after its end.

### Library

`HttpFraming` sends a message in pieces cut anywhere to `requestData()` and
`responseData()`. A byte is a hexadecimal digit, CR, LF or another one; a line of
the head is one byte that says whether the parser looks for it. A message has a
body in parts, which are its chunks if it is sent in chunks, and the digits of
the chunks' sizes. `parser` has the fields of `OpenHttp`. `Turn` is a turn of the
loop over chunks, at a size line (`TakeSize`) or at a chunk (`TakeChunk`), and
`TakeChunks` goes on until a turn returns. `BadCuts` names the cuts at which the
parser is lost (see below), and `clean` whether none was made.

`OpenJson` is the tree with what it caches: a node has its text, its segment
(the type and value it was last read or assigned as), its children, and whether
it has a box to keep them in. A program assigns (`SetNumber`, `SetBool`,
`SetChars`, `AddString`, `SetItem`), reads (`Look`), removes, encodes and
decodes, a copy of its own text (`DecodeOwn`) or the text of others
(`DecodeOther`); `want` is what it has put in, as it was put in, and how. A
program that uses one of the traps named below is no longer `careful`. The
assertions of `object()` and `array()` are in the model: `aborted`.

`OpenBuffer` is the memory with every byte of it; `bytes` are those in use, and
`Bytes` is the abstract buffer it implements, a sequence used at both ends.
Lengths and integers of variable length are written and read back. Nothing is
taken from a buffer that was never allocated, where the code asserts.

`OpenFSM` is the pool of states and a machine. `update()` is a loop with a step
for each state it comes to (`Update`, `UpdateState`, `EnterNext`, `Return`); in
it, or from outside, the program calls `enterState()`, `nextState()` or
`nextAction()` (`Call`), and on the way the `exit()` of the action that is left
and the `enter()` of the next may each ask once for a next state (`Callback`),
which is looked up in the order of the code. `doing` counts the entries of each action
less its exits.

`MCLibrary` puts the four beside each other for one run: they share nothing, and
a behaviour is about one of them.

The other `MC` modules give the bounds of their runs, and the modules whose
names end in `Proofs` have the proofs. `SocketServerProofs`, `SocketStreamProofs`
and `SocketOrderProofs` build on each other in this order.

## Runs

| run | module | what it asks | result |
|---|---|---|---|
| thread_tso | MCOpenThread | `TypeOK`, `IdsInOrder`, `MsgCountBalanced`, `KeepsQueuePromise`, store buffer on | holds |
| thread_live | MCOpenThread | `NoLostWakeup`, `HandlesInTheEnd`, `CallsReturn`, store buffer off | holds |
| thread_lost_wakeup | MCOpenThread | `NoLostWakeup`, store buffer on | violated |
| thread_restart | MCOpenThreadRestart | `NextIdHandled` | violated |
| pool | MCThreadPool | `TypeOK`, `PidIsSlot`, `OneThreadPerName`, `StopAllReturns` | holds |
| socket_data | MCSocketServer | `TypeOK`, `NoTornMessage`, `SenderOrder`, `ListsAccounted`, `DataIsWatched`, `BuffersFreed` | holds |
| socket_reuse | MCSocketServer | `SendingCounts`, `OwnMessages`, `OwnedOnce`, `EventsAreFresh` | holds |
| socket_halfclose | MCSocketServer | `HalfCloseEnds` | violated |
| servers | MCServers | `TypeOK`, `InitBeforeStart`, `EarlierReachable`, `TimersAccounted`, `FireNotEarly`, `TimersFire`, `LookupEnds` | holds |
| http | MCHttpRelay | `TypeOK`, `OneResponse`, `StreamIsRelayed`, `MapsFollowConnections`, `AnswerIsFinal`, `RequestsAreAnswered`, `WaitersComeBack`, `RequestsAreServed` | holds |
| http_stream_assert | MCHttpRelay | `StreamFindsClient` | violated |
| library | MCLibrary | `MachineSound`, `FramingSound`, `JsonSound`, `BufferSound` | holds |

### Bounds

The thread runs have two callers with two or three calls each. Two are needed
for one to be between push and count while another signals; two calls of one
caller for the order of its messages and for a node that waits in the cache
while another is pushed. In `thread_tso` one of the callers is the thread
itself.

`pool` has two threads outside, which create the same name at the same time,
and the callback of that name's thread, which stops itself or another, sends,
or calls `stopAll()`; one of the two outside calls `stopAll()` as well. Two
slots are a full map with one name more than the first, and three thread
objects let one of them be made in vain. A third caller outside would only
wait for the same locks.

`socket_data` has three calls of one thread and two of another, and buffers of
two units: enough for a direct write that stops in the middle, a command behind
it, a second buffer in the other list and a close. `socket_reuse` has two
connections in the slot; the calls are again three and two. No command is stale
in either, so they are about `Spec`.

`servers` has three programs: two servers with timers of which the second asks
the first; one with every mistake (a class twice, a server twice, run twice, a
class that is not registered); one without a timer server in which the first
server asks the second before it runs. The clock goes to 3: a deadline may pass
before its request comes, while `timeLoop()` is on its way, or after.

`http` has an asynchronous and a synchronous request, one connection of each
kind at the agent, responses of two reads, so that a connection can end before,
within and after a response, and streams of up to three. The authors of the
requests and the visitors of the agent meet only in the client's mailbox, and a
behaviour has the ones or the others (`Apart`).

`library` bounds each subject: all strings of two bytes over a capacity of two,
with groups of seven bits scaled to `Base = 4` and 2^32 to `Word = 512`; two
states of up to two actions in the machine, with numbers given or made up, whose
`enter()` and `exit()` call `nextState()` at most once each; messages with each
kind of body, in which a body looks like a size line or a line break, in up to two chunks, with and without leading zeros in their sizes, in pieces of
any size (no message is longer than `MaxPiece`); three calls, and any number of
encodings and decodings of the own text between them, on a tree of two keys, with
strings that have quotes, and texts of others that have blanks, stray commas,
escaped quotes and empty arrays.

The runs stop when the calls are used up, when `run()` waits for a message, no
request is left, or the program of the servers is at its end, so deadlock is not
checked; that nobody waits in vain is what the liveness properties say.

### What the violated properties show

* `thread_lost_wakeup`: `run()` has buffered `isIdle_ = true` and has seen an
  empty list and a zero count; a sender pushes, counts, reads `isIdle_` as
  false and returns; `run()` waits with the message queued. Without the store
  buffer this cannot happen (`WakeupTheorem`, for any number of callers).
* `thread_restart`: the old `run()` resets the ids of the list the new one
  already uses.
* `socket_halfclose`: a close between the reference and the command of a low
  priority send leaves a half closed socket with nothing to wake it.
* `http_stream_assert`: a visitor leaves while a client streams for him; the
  next notice of the client fails the agent's assertion.

### What the models show besides

Nothing in the repository says otherwise, so these are no runs, but whoever
changes the code should know of them.

* A `send()` between `connect()` and OPEN takes no reference. With
  `EarlySend = TRUE` TLC finds `SendingCounts` violated and then
  `dec_sending_ref()`'s assertion (`AssertionsHold`); `SenderOrder`, as a later
  direct write passes the uncounted command; and `DataIsWatched`, as
  `report_connect()` switches off the write event that a direct write has just
  asked for. Servers of the repository send after OPEN, which the passing runs
  and the theorems on these four assume.
* With `connect()` among the calls and `MaxId = 2`, TLC finds `OwnMessages`
  violated (`Ops = {"O", "D", "K"}`): of two closes the first is carried out,
  `connect()` of another thread takes the slot and has not stored its id when
  the second comes, and `close_socket()`, which finds the old id in a slot that
  is not INVALID, makes the reserved slot HALFCLOSE. A `shutdown()` comes to
  `assert(s->type != SOCKET_TYPE_RESERVE)` of `force_close()` instead.
* With `connect()`, `MaxId = 2` and a peer that closes, TLC finds
  `EventsAreFresh` violated as well: between `force_close()` and
  `clear_closed_event()` the slot is taken, is RESERVE and keeps its event,
  which is dispatched to it. A read event fails the same assertion, a write
  event `assert(send_buffer_empty(s) && s->wb_size == 0)`, as `wb_size` is still
  that of the connection before. No command is stale here. `reserve_id()` goes through all ids before it is back
  at a slot, so both take a full turn of 2^18 ids.
* A program that starts its first timer server after its servers loses timers:
  the timer server has its pid before its thread is at RUN, and
  `TimerPool::startTime()` sends to it (`TimersAccounted`, `EarlierReachable`).
* One that starts a server after `RunServers()` has it in `mapNameServer_` before
  it has its pid and, until the next `RunServers()`, without its `onInit()`
  (`InitBeforeStart`): the servers that run can look it up.
* A thread that is told to stop at once is at RUN for less than the interval
  at which `start()` polls, which then asserts (`"polled"` in `ThreadPool`).
* `WaitersComeBack` is about who waits before the answer. An answer that comes
  before `await()` or between its two steps is forgotten, and the author waits
  for ever.
* `StopAllReturns` has two exceptions: a callback that has come to wait for
  `mutex_close_` while `stopAll()` waits for its thread, and a thread that is
  started anew after it was told to stop.
* `startServer()` of a class that is not registered leaves with `spinSLock_`
  held, which is the exception of `LookupEnds`.
* A look-up in `SafeMap` that falls into `set()` finds a thread whose pid is
  still -1 and fails the assertion of `operator[]`; `PidIsSlot` says that it is
  in no other moment.
* HTTP framing: the parser is lost when the first piece has fewer than three
  bytes (`head_.size() - 3` wraps), when a chunk's size line is cut behind its
  first byte, and when the last chunk is cut between its size and its end (a
  request asserts, a response is over too early). A line of the head with a
  name of blanks swallows those behind it.
* JSON: reading a decoded number as a string or as bool changes what `encode()`
  writes, until it is read as a number again; a number or bool that is assigned
  to a decoded node is forgotten when the node is read as the other type;
  a decoded empty object or array fails `assert(box_)` (781, 749) when it is
  indexed, so `{"k":1}` whose key is removed cannot be filled again after
  `decode(encode())`; an assigned string comes back from `s()` with a backslash
  before each quote; assigning a `std::string` appends; reading a key that is not
  there leaves a stray comma; `true` with a blank behind it reads as false; the
  text of the least integer is wrong. `encode()` returns a reference to what
  `decode()` of the same tree clears, so a copy must be passed (the model passes
  one). `JsonSound` compares strings without those backslashes, and is about
  programs that keep out of the rest; TLC finds it violated as soon as one of
  the traps counts as careful.
* FSM: a relation to a state with a number of the machine's own fails before
  that state is found by name; `update()` zeroes the next state, so one that was
  asked for from outside is lost.
* `popVInt64()` collects into 32 bits, and `pushVInt64(0)` writes nothing.

### Fairness

`OpenThread`: every thread is scheduled, a call that was begun goes on (whether
one begins is up to the program), a store buffer drains; spurious wakeups may
happen and need not. Strong fairness is assumed only for the reader of
`while (isIdle_)`: it samples a flag that goes up and down, and does not only
ever see it up. `ThreadPool`: weak fairness for a call that was begun and for
each thread to begin and to end once it was told; whether a caller calls is up
to it. `SocketServer`: weak fairness for a call that was begun and for the
socket thread, strong for the write and end events, which epoll reports again as
long as the fd is ready and the other side reads. `Servers`: weak fairness for
main, for each server's thread, for the timer server, for the outside thread,
and for the clock; main holds a spin lock for a bounded number of times only.
`HttpRelay`: weak fairness for the two threads, for an author that has asked and
for a handler that owes a `rep->send()`; an attempt to connect is decided
(`SocketServer` tells OPEN or an error), and the server a request was made to
ends the connection, as the request's "connection: close" asks it to. Visitors
need not send, nor ever leave. The library is sequential and has no liveness.

## Proofs

`OpenThreadProofs` proves for every set of callers, every bound on their calls,
and with no assumption on what the callers do:

* `TypesHold`: `Spec => []TypeOK`. `Typed`, its inductive part, is proved first
  (`Typing`) and the other theorems cite it.
* `IdsTheorem`: `Spec => []IdsInOrder`. Inductive invariant: the ids of the node
  in hand, the cache and the list are consecutive, starting at `readId` and
  ending below `writeId`, until the reset of the ids.
* `MsgCountTheorem`: `Spec => []MsgCountBalanced`. It is inductive once the
  length of what is unhandled is the sum of its three parts (`CountInv`); it
  needs `Callers` to be finite, which `CallersFinite` assumes.
* `WakeupTheorem`: `TSO = FALSE => (Spec => []NoLostWakeup)`. While `run()` is
  between raising `isIdle_` and waiting, a node it has not seen has a caller
  that has not finished its spin; the invariant says so for each place in that
  interval separately, since what `run()` has seen grows on the way.
* `QueuePromise`: `Spec => KeepsQueuePromise`, the refinement: each step of
  `Next` is a step of `ActorQueue` or leaves its variables alone.

`ThreadPoolProofs` proves for every set of callers and names, every number of
slots and thread objects, and all calls that name threads or use pids within the
map (`CallsType`):

* `PoolTypes`: `Spec => []TypeOK`, the types and the account of the two locks:
  `mutex_` has exactly the callers between the second look of `create()` and its
  unlock, `mutex_close_` those in the sweep of `stopAll()`, one each at most.
* `PidsTheorem`: `Spec => []PidIsSlot`.

`PidIsSlot` is not inductive alone: with two callers in `SafeMap::set()`, the
one could put its thread into the slot of the other, which then sets the pid of
a thread in the wrong slot. That `mutex_` excludes it follows from the account
of the locks, and that from where each caller is (`Placed`) and from what is in
the map (`MapSound`: a thread in the map was constructed, so a new one is in no
second slot). Most steps are "calm": they only empty values of the map and
change no pid. `CalmStep` proves for all of them at once that the invariant is
kept, so that each action needs only what it does to its own caller and to the
locks; `SetValue`, `SetKey` and `SetPid` are proved on their own. `clear()`
under the other lock may empty what `set()` has just written; the invariant
allows it.

The last part is `NamesTheorem`: `Spec => []OneThreadPerName`. Until a
`stopAll()` begins the map only grows (`NamesSound`): a key has its value, which
`set()` has written first; no key is there twice, and there is no gap among
them; and what was given for a name is the value under it. For each place in
`create()` the invariant says what the caller knows (`Has`): what it has in hand
is under the name, and under `mutex_` the keys it has passed are not the name,
so that at the end of that search the name is nowhere. That the keys stand still
meanwhile is again the account of the locks.

`ServersProofs` proves five invariants of `Servers`, for any finite set of names
(`NamesFinite`), skews, bound of the clock and scripts of the form that
`ScriptsType` says; that `Timer` is none of the names (`TimerApart`) and that the
outside thread waits for names (`WantedNames`) are the other assumptions.

* `ServersTypes`: `Spec => []TypeOK`. With the types go that `vectServer_` has
  each key of `mapNameServer_` once and that no two threads have one `pid_`. For
  the last, `Types` adds that each pid is less than the number of threads made
  (`PidTypes`) and that the server in `init()` has none yet (`Place`); and for
  the events, that who asked for a timer is a server (`TimersFrom`).

* `EarlyTheorem`: `Spec => []FireNotEarly`. `timeLoop()` adds a unit to `curTime`
  after each `Sleep()` without a look at the clock. It is never ahead because it
  was behind the end of that `Sleep()` when it began (`SleepsOn`); and an event
  has the deadline of its message (`Typing`). Steps that touch neither clock nor
  events are proved at once (`QuietStep`).
* `AccountedTheorem`: `OrderedScripts => (Spec => []TimersAccounted)`. The timers
  of a server are numbers of members of three sequences (`Hits`), and each step
  puts a message in one of them or takes one out (`HitsPut`, `HitsAppend`,
  `HitsTail`, and `InsertPuts` for the multimap). None is refused on its way back,
  since whoever is owed a timer runs (`Owed`, `Alive`); and none on its way to
  the timer server, since a server has a thread only after a "run" of main
  (`RunFirst`), and main is in no other operation while the timer server starts
  (`FirstTimer`).
* `EarlierTheorem`: `OrderedScripts => (Spec => []EarlierReachable)`. Whoever
  has a thread has all that come before it in `vectServer_` at RUN (`InTurn`),
  for `start()` was waited for with each (`Waited`).
* `InitFirstTheorem`: `ServersFirst => (Spec => []InitBeforeStart)`. Where main is
  in `startServer()` and in the first loop of `runAllServers()` says who has a
  pid (`HasPid`) and whose `onInit()` is done (`InitSoFar`, `AllInited`); no
  server is new after a thread of one is made.

`OrderedScripts` and `ServersFirst` are about the program: it does not start its
first timer server after its servers, and starts no server of a registered class
after a `RunServers()`. The program of the repository's README keeps both, and
so do the scripts of the run `servers`. Without them TLC finds the invariants
violated (see above). The conjuncts of the three inductive invariants were
checked by TLC on the run's instance before they were proved.

`LibraryProofs` proves `FsmSound`: `Spec => []MachineSound` for any states,
numbers and bounds (`FsmAssumption`). The inductive invariant adds to
`MachineSound` what the pool and the machine are made of (`Formed`: states are
registered with lists of actions and related to registered states, the machine
has met registered ones only), on which what `getState()` finds depends
(`StateInFinds`).

`LibraryProofs` has `BufferTheorem`, too: `BufferSpec => BufferSound`, which is
that `OpenBuffer` implements `Bytes`, that no call leaves the memory (`InMemory`),
and that integers come back. It is for any set of bytes, bounds on sizes and
pushes, capacity `MiniCap` but 0 (`SizesNat`), and any word that five groups are
enough for (`WordFits`: 2^32 and groups of seven bits in the code). The inductive
invariant is `InMemory` and that the memory is a sequence of cells. The three
ways in which `pushBack()` finds room have one lemma (`PushedInto`): the bytes are
in some memory from some offset on, with room behind them. That the loop which
doubles `cap_` ends with enough needs that the doubling, a recursive function,
is defined (`Recursion`, `DoublingIs`) and passes every number (`DoublingGrows`); tlapm has no
induction that its provers can use, so each such fact is shown by the least number
for which it would fail (`HasLeast`). For integers, `VIntIs` says what the bytes
are, and `PopVIntIs` that the sum of `popVInt64()`, from the last group down, is
at each group what was left of the number there.

The third theorem of `LibraryProofs` is `FramingTheorem`:
`FramingSpec => []FramingSound`, for any messages (`MessagesType`: bodies in any
number of parts), any limits on pieces and on the head (`LimitsNat`), and sizes
that have any number of digits and tell the length of each part (`SizesTell`).
The inductive invariant `FramingInv` says that `wire` is the rest of the message
from some place `c` on, and, unless there was a bad cut or the head cannot be
read, that the parser is where `c` bytes take it (`Expected`):

* before the end of the head it has these bytes in `head_` and nothing else
  (`Searching`);
* in a body with a length or neither, it has what is behind the head in
  `body_`, and is finished as `PlainRead` says;
* among chunks it rests (`Rests`) before a size line of which at most a byte has
  come (`AtSize`), before the end of a chunk whose size it has read (`AtChunk`),
  or at the end (`AtEnd`).

The invariant needs to know where in the wire everything stands: `Headed` and
`Placed` say that the head, each size line, each chunk and its line break are
pieces of it, one behind the other, and `MessageHeaded` and `ChunksPlaced` that
they are. From this `EndOfHeadIs`, `EndOfLineIs` and `SizeOfIs` give what the
three searches find: no line break is in the lines of a head or the digits of a
size, whatever is in the body. A turn of the loop leads from one place among the
chunks to the next (`TurnAtSize`, `TurnAtChunk`) and takes two bytes or more of
`buffer_`, so the loop is at rest before it has made as many turns as
`TakeChunks` has (`ChunksTaken`). `CutGood` turns `BadCuts` into what the turn at
a size line needs: the line is whole, or has at most begun; behind the last of
them, everything has come. A piece then keeps the invariant in each of the three
phases (`FromSearch`, `FromChunks`, `FromBody`), the first of which may run
through all of them in one call. Joined parts, the loop and `strtol()` are
recursive functions; `Recursion` shows once that one whose values stay in a set
is defined, for these as for the doubling of `cap_`.

The three `Socket` modules prove what they prove for every set of callers, every
bound on their calls and on the ids, every size of a buffer (so every way to cut
a buffer by partial writes), everything the other side may do, and, except for
the last of them, with or without sends before OPEN.

`SocketServerProofs` has `SocketTypes`: `Spec => []TypeOK`. The inductive
invariant `Base` has more than types in it. `sending` and `wb_size` could fall
below zero, were it not that `dec_sending_ref()` asserts the one, and that
`wb_size` is at least what the lists hold. `raise_uncomplete()` moves the rest of
one buffer from the low to the high list; that this rest is there, whole, follows
from the low list being a sequence of whole buffers (`Blocks`, with lemmas on
how such sequences are put together and cut: `BlocksJoin`, `BlocksCut`,
`RaisedFits`). `Hand` says what the place of a caller says of its call, and
`Locked` that `dw_lock` has the holder that the places say.

Its second part is about a slot that is used again. `Settled` says whose the
slot is at each place of `connect()` (`Reserving`: RESERVE with one caller or one
OPEN command, which no command of the new id precedes), which ids anybody can know
(`IdsKnown`), that the tag of `sending` is the id of a connection (`Tagged`), that
what the socket thread goes on with is of this connection (`OnResult`), that a
caller under `dw_lock` has found a connection that cannot go away (`Held`), and
that what waits and what was written is of the tagged id (`Own`, `Idle`).

* `SocketOwnMessages`: `SettledSpec => []OwnMessages`, and
  `SocketOwnMessagesOneUse`: `OneUse => (Spec => []OwnMessages)`.
* `SocketEventsAreFresh`: `"O" \notin Ops => (Spec => []EventsAreFresh)`. With
  `connect()` it is false, as said above.

`SocketStreamProofs` is about bytes and buffers. No property of the wire is
inductive alone: `Streams` says of the wire, followed by what the direct write
has left and by the high list, that it is a sequence of whole buffers, and that
no unit comes twice in it and in the low list behind it (`Streamed`); a direct
write, which puts its buffer in the midst of it, is made when no buffer there is
written in part, and that this is still so when the write takes place is `Begun`
and the lock. `Owned` has the one owner of each buffer, `PipeOnce` and `Numbered`
that a buffer is not given twice, `Sized` what `wb_size` counts.

* `SocketNoTornMessage`, `SocketListsAccounted` and `SocketOwnedOnce`, each under
  `SettledSpec` and, with `OneUse`, under `Spec`.

`SocketOrderProofs` is about threads that send after OPEN (`EarlySend = FALSE`; the
four are false otherwise, as said above). `Order` joins what holds then. Since a
send is for a connection that was told to be open (`OpenedFirst`), none is under
way when `new_fd()` sets `sending` to 0, and from there `sending` is the number of
sends of the connection between their reference and their command (`Counted`). A
caller under `dw_lock` that has seen `sending` 0 and empty lists has no send of its
own in front of it, neither in the pipe nor in the high list (`NothingAhead`); its
commands are in the pipe in the order of its calls (`Queue`), and the low list has
only low priority sends, which promise no order (`LowIsLow`). So each unit that
is put behind the wire or the high list, or between them by a direct write,
finds the ends of the caller's earlier sends in front of it (`Ordered`, with
`OrderInsert` and `OrderBehind` for the two places). `Watched` is who is in epoll
for write events; a slot that the socket thread goes on with is in use (`Busy`).

* `SocketSendingCounts`, `SocketDataIsWatched`, `SocketSenderOrder` and
  `SocketAssertionsHold`, each under `SettledSpec` and, with `OneUse`, under `Spec`.

The model takes no step whose assertion fails in the code. `SocketAssertionsHold`
says that this hides nothing: where a step has such a guard, the guard holds.
(`AssertionsHold` is defined with the proof and is in no run.)

`HttpRelayProofs` is about an agent and a client that streams for it, for any
connections, requests, sizes of requests and lengths of responses
(`ConnsDiffer`, `RequestsDiffer`, `PiecesArePositive`), under `Spec`: a behaviour
may have visitors of the agent and authors of requests at once, which the run's
`Apart` keeps apart. The inductive invariant `RInv` has three parts.

* `AgentPart` and `ClientPart` are what each of the two keeps for itself: what
  may follow what in its mailbox (`AgentAfter`, `ClientAfter`: nothing is handed
  over twice, nothing comes after an end, pieces come in order), what a message
  says of the connection it is about (`Announced`, `Reported`), where each
  connection is (`Handed`, `Made`), and that a request has no effect before it is
  whole or asked for (`Unread`, `Untold`).
* `StreamPart` follows each stream from the other server's socket to the page's
  connection. `NoneMissing` says that every piece read so far is written, or in
  the agent's mailbox, or in the client's, and with `OnTheWay` that they are
  there in this order; so the next piece the agent takes is the one it has to
  write. `Over` says that a stream that is ended has neither a connection nor a
  message left, so that with `NoneMissing` all was written before the end.

What a mailbox keeps when a message is put in or taken is proved once, for any
mailbox, in `BoxAppend` and `BoxTail`; the steps only speak of sets of messages.

* `TypesTheorem`, `OneResponseTheorem`, `RelayTheorem`, `MapsTheorem`: `Spec =>`
  `[]TypeOK`, `[]OneResponse`, `[]StreamIsRelayed`, `[]MapsFollowConnections`.
* `FinalTheorem`: `Spec => AnswerIsFinal`, an action property: it needs of `RInv`
  that `isClosed_` is set as long as the entry of an answered request is there, and
  that a request is in the mailbox or new only before it is answered.

Only checked by TLC: liveness (`HandlesInTheEnd`, `CallsReturn`,
`StopAllReturns`, `BuffersFreed`, `HalfCloseEnds`, `TimersFire`, `LookupEnds`
and those of the HTTP modules), which is outside the prover's reach; and
`JsonSound`: the parser and the writer of `OpenJson` recur over trees of any
depth, as recursive operators, and what they compute together for every tree is
an induction over data.

## Not modelled

* UDP, `listen`, `bind`, options, `EXIT` and WARNING messages of the socket
  server; two ids that are equal modulo 2^18 and reserved at once. A
  `connect()` that returns -1 for a full table.
* TLS is OpenSSL behind a wrapper. `OpenSlice` is a pointer into a buffer.
  CSV, strings, time formatting and files are sequential text code without
  state. wepoll and socket_os are vendored for Windows.
* In the HTTP modules: cache files, several agents, spurious wakeups of
  `await()`, which does not look again.
* In `ThreadPool`: what a torn read of a `shared_ptr` does to its reference
  count; such a read gives the old or the new pointer.
* In `OpenFSM`: `enterState()` and `nextAction()` from `enter()` or `exit()` of an
  action, while the machine is between two states (`nextState()` is modelled).
* The demo servers are examples; `Servers` has the pattern of one of them.

## Plan

1. Done: the modules above.
2. `SocketServer`: WARNING messages, which the agent and the client assert not
   to get, and early sends with the events of `report_connect()`.
3. `HttpAgent`: several agents and the choice between them.
4. Proofs: `JsonSound`, with the text of a tree as a function of its nodes, and
   first for trees of the depth that the run has.
