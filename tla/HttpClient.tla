----------------------------- MODULE HttpClient -----------------------------
(***************************************************************************)
(* The HTTP client of open/server/https/openhttpclient.cpp: one thread     *)
(* that makes requests for others and for itself, each over a connection   *)
(* of its own, and OpenSync, on which the author of a synchronous request  *)
(* sleeps.                                                                 *)
(*                                                                         *)
(* A request names its connection and its entry in mapFdToClient_ too.     *)
(* Requests are of the three types of OpenHttpClientMsg: asynchronous ones *)
(* end in onHttp(), synchronous ones in a wakeup, and those that stream    *)
(* pass what they read on to an agent.  The mailboxes are in order, as     *)
(* OpenThread promises; the events of a connection are those that          *)
(* SocketServer reports.                                                   *)
(***************************************************************************)
EXTENDS Naturals, Sequences, FiniteSets

CONSTANTS AsyncRequests, SyncRequests, StreamRequests,
          Pieces        (* the reads that a whole response takes           *)

Requests == AsyncRequests \cup SyncRequests \cup StreamRequests

VARIABLES
  clientInbox,    (* the mailbox of the client's thread                    *)
  agentInbox,     (* the mailbox of the agent that streams are passed to   *)
  mapFdToClient,  (* the requests with an entry in the map                 *)
  isClosed,       (* Client::isClosed_                                     *)
  rep,            (* the pieces parsed of the response                     *)
  answered,       (* how often close() told the author of the request      *)
  author,         (* where the author of a request of one's own is         *)
  isSleep,        (* OpenSync::isSleep_                                    *)
  upSock,         (* the connection                                        *)
  upSent          (* the pieces the other side has sent                    *)

requestVars == <<mapFdToClient, isClosed, rep>>
toldVars == <<agentInbox, answered, author, isSleep>>
upVars == <<upSock, upSent>>
vars == <<clientInbox, requestVars, toldVars, upVars>>

-----------------------------------------------------------------------------
Own == AsyncRequests \cup SyncRequests
Places == {"new", "asked", "sleepy", "waiting", "back"}
Links == {"none", "connecting", "open", "closed"}

Msg(kind, fd, n) == [kind |-> kind, fd |-> fd, n |-> n]
ClientMessages ==
  [kind : {"request", "open", "data", "close", "error"}, fd : Requests,
   n : 0 .. Pieces + 1]

Init ==
  /\ clientInbox = <<>> /\ agentInbox = <<>>
  /\ mapFdToClient = {}
  /\ isClosed = [q \in Requests |-> FALSE]
  /\ rep = [q \in Requests |-> 0]
  /\ answered = [q \in Requests |-> 0]
  /\ author = [q \in Own |-> "new"]
  /\ isSleep = [q \in SyncRequests |-> FALSE]
  /\ upSock = [q \in Requests |-> "none"]
  /\ upSent = [q \in Requests |-> 0]

-----------------------------------------------------------------------------
(* The authors of requests.                                                *)

(* The author sends the message to the client's thread.                    *)
Ask(q) ==
  /\ author[q] = "new"
  /\ author' = [author EXCEPT ![q] = "asked"]
  /\ clientInbox' = Append(clientInbox, Msg("request", q, 0))
  /\ UNCHANGED <<agentInbox, answered, isSleep, requestVars, upVars>>

(* OpenSync::await(): isSleep_ is set without the mutex, the wait follows. *)
Await(q) ==
  /\ q \in SyncRequests
  /\ author[q] = "asked"
  /\ ~isSleep[q]
  /\ isSleep' = [isSleep EXCEPT ![q] = TRUE]
  /\ author' = [author EXCEPT ![q] = "sleepy"]
  /\ UNCHANGED <<clientInbox, agentInbox, answered, requestVars, upVars>>

CondWait(q) ==
  /\ author[q] = "sleepy"
  /\ author' = [author EXCEPT ![q] = "waiting"]
  /\ UNCHANGED <<clientInbox, agentInbox, answered, isSleep, requestVars, upVars>>

(* OpenSync::wakeup(), called by the client's thread: who has not set      *)
(* isSleep_ is not signalled, and a signal wakes only who waits.           *)
WakeupUnsignalled(q) ==
  isSleep' = [isSleep EXCEPT ![q] = FALSE] /\ UNCHANGED author
Wakeup(q) ==
  IF isSleep[q]
  THEN /\ isSleep' = [isSleep EXCEPT ![q] = FALSE]
       /\ author' = [author EXCEPT ![q] = IF @ = "waiting" THEN "back" ELSE @]
  ELSE UNCHANGED <<isSleep, author>>

-----------------------------------------------------------------------------
(* The client's thread.                                                    *)

NotifyFirst(notice) == agentInbox' = <<notice>> \o agentInbox
Notify(notice) == agentInbox' = Append(agentInbox, notice)

(* Client::close(): the author is told once, whatever the way it ends.     *)
NeverClosed(q) == FALSE
AlreadyClosed(q) == isClosed[q]
Close(q) ==
  IF AlreadyClosed(q) THEN UNCHANGED <<isClosed, toldVars>>
  ELSE /\ isClosed' = [isClosed EXCEPT ![q] = TRUE]
       /\ answered' = [answered EXCEPT ![q] = @ + 1]
       /\ IF q \in StreamRequests
          THEN Notify(Msg("streamEnd", q, 0)) ELSE UNCHANGED agentInbox
       /\ IF q \in SyncRequests
          THEN Wakeup(q) ELSE UNCHANGED <<isSleep, author>>

(* connect(), and a fresh entry of the map with Client::start().           *)
Connect(q) ==
  /\ upSock' = [upSock EXCEPT ![q] = "connecting"]
  /\ mapFdToClient' = mapFdToClient \cup {q}
  /\ isClosed' = [isClosed EXCEPT ![q] = FALSE]
  /\ rep' = [rep EXCEPT ![q] = 0]
  /\ UNCHANGED upSent

(* sendHttp(): a server derived from OpenHttpClient makes a request        *)
(* itself.  A host without an address makes it return false.               *)
SendHttp(q) ==
  /\ q \in AsyncRequests
  /\ author[q] = "new"
  /\ author' = [author EXCEPT ![q] = "asked"]
  /\ Connect(q) \/ UNCHANGED <<requestVars, upVars>>
  /\ UNCHANGED <<clientInbox, agentInbox, answered, isSleep>>

(* onMsgProto().  When the host has no address the author of a synchronous *)
(* request is woken at once, and the others are not told.                  *)
OnMsgProto(q) ==
  \/ Connect(q) /\ UNCHANGED toldVars
  \/ /\ IF q \in SyncRequests
        THEN Wakeup(q) /\ answered' = [answered EXCEPT ![q] = @ + 1]
        ELSE UNCHANGED <<isSleep, author, answered>>
     /\ UNCHANGED <<agentInbox, requestVars, upVars>>

(* An event of a connection that is not in the map: OpenSocket::close().   *)
CloseUnknown(q) ==
  /\ upSock' = [upSock EXCEPT ![q] = "closed"]
  /\ UNCHANGED <<requestVars, toldVars, upSent>>

(* onSocketOpen(): the request is written.                                 *)
OnSocketOpen(q) ==
  IF q \in mapFdToClient THEN UNCHANGED <<requestVars, toldVars, upVars>>
  ELSE CloseUnknown(q)

(* onSocketData(), update(), onData(): a stream is passed on, a response   *)
(* is parsed up to its end and ignored from there.                         *)
FinishedLate(n) == n > Pieces
IsFinish(n) == n = Pieces
Ignored(q) == isClosed[q] \/ (q \notin StreamRequests /\ IsFinish(rep[q]))
OnSocketData(q, n) ==
  IF q \notin mapFdToClient THEN CloseUnknown(q)
  ELSE /\ \/ Ignored(q) /\ UNCHANGED <<isClosed, rep, toldVars>>
          \/ /\ ~Ignored(q) /\ q \in StreamRequests
             /\ Notify(Msg("streamData", q, n))
             /\ UNCHANGED <<isClosed, rep, answered, author, isSleep>>
          \/ /\ ~Ignored(q) /\ q \notin StreamRequests
             /\ rep' = [rep EXCEPT ![q] = @ + 1]
             /\ IF IsFinish(rep'[q]) THEN Close(q)
                ELSE UNCHANGED <<isClosed, toldVars>>
       /\ UNCHANGED <<mapFdToClient, upVars>>

(* onSocketClose() and onSocketError().                                    *)
Forget(q) ==
  /\ IF q \in mapFdToClient THEN Close(q) ELSE UNCHANGED <<isClosed, toldVars>>
  /\ mapFdToClient' = mapFdToClient \ {q}
  /\ UNCHANGED <<rep, upVars>>
EraseOnly(q) == /\ mapFdToClient' = mapFdToClient \ {q}
                /\ UNCHANGED <<isClosed, toldVars, rep, upVars>>
CloseOnly(q) == Close(q) /\ UNCHANGED <<mapFdToClient, rep, upVars>>
OnSocketClose(q) == Forget(q)
OnSocketError(q) == Forget(q)

ClientTakes(kind) ==
  /\ clientInbox # <<>>
  /\ Head(clientInbox).kind = kind
Taken == Head(clientInbox).fd
Rest == clientInbox' = Tail(clientInbox)

HandleRequest == ClientTakes("request") /\ Rest /\ OnMsgProto(Taken)
HandleOpen == ClientTakes("open") /\ Rest /\ OnSocketOpen(Taken)
HandleData == /\ ClientTakes("data") /\ Rest
              /\ OnSocketData(Taken, Head(clientInbox).n)
HandleClose == ClientTakes("close") /\ Rest /\ OnSocketClose(Taken)
HandleError == ClientTakes("error") /\ Rest /\ OnSocketError(Taken)

ClientThread ==
  HandleRequest \/ HandleOpen \/ HandleData \/ HandleClose \/ HandleError

-----------------------------------------------------------------------------
(* The connections: the socket thread posts what happens to the client.    *)

Event(q, kind, n) ==
  /\ clientInbox' = Append(clientInbox, Msg(kind, q, n))
  /\ UNCHANGED <<requestVars, toldVars>>

(* connect() succeeds or fails.                                            *)
UpConnected(q) ==
  /\ upSock[q] = "connecting"
  /\ \/ upSock' = [upSock EXCEPT ![q] = "open"] /\ Event(q, "open", 0)
     \/ upSock' = [upSock EXCEPT ![q] = "closed"] /\ Event(q, "error", 0)
  /\ UNCHANGED upSent

(* The other side sends its response, and may send more than that.         *)
UpSends(q) ==
  /\ upSock[q] = "open"
  /\ upSent[q] <= Pieces
  /\ upSent' = [upSent EXCEPT ![q] = @ + 1]
  /\ Event(q, "data", upSent'[q])
  /\ UNCHANGED upSock

(* The connection ends, perhaps before the response is whole.              *)
UpEnds(q) ==
  /\ upSock[q] = "open"
  /\ upSock' = [upSock EXCEPT ![q] = "closed"]
  /\ \E kind \in {"close", "error"} : Event(q, kind, 0)
  /\ UNCHANGED upSent

Connections == \E q \in Requests : UpConnected(q) \/ UpSends(q) \/ UpEnds(q)
Authors == \E q \in Own : Ask(q) \/ Await(q) \/ CondWait(q) \/ SendHttp(q)

Next == Authors \/ ClientThread \/ Connections
Spec == Init /\ [][Next]_vars

(* Every thread is scheduled; a connection attempt is decided, and the     *)
(* other side ends the connection some day ("connection: close").          *)
ClientFairness ==
  /\ WF_vars(ClientThread)
  /\ \A q \in Requests : WF_vars(UpConnected(q) \/ UpEnds(q))
AuthorFairness == \A q \in SyncRequests : WF_vars(Await(q) \/ CondWait(q))
FairSpec == Spec /\ ClientFairness /\ AuthorFairness

-----------------------------------------------------------------------------
TypeOK ==
  /\ clientInbox \in Seq(ClientMessages)
  /\ mapFdToClient \subseteq Requests
  /\ isClosed \in [Requests -> BOOLEAN]
  /\ rep \in [Requests -> 0 .. Pieces]
  /\ answered \in [Requests -> Nat]
  /\ author \in [Own -> Places]
  /\ isSleep \in [SyncRequests -> BOOLEAN]
  /\ upSock \in [Requests -> Links]
  /\ upSent \in [Requests -> 0 .. Pieces + 1]

(* The author of a request is told once, although the end of the response, *)
(* the end of the connection and its errors all lead to close(), and the   *)
(* response is not written to any more when he has been told: he reads it  *)
(* in his own thread.                                                      *)
AnswerIsFinal ==
  [][\A q \in Requests :
       answered[q] > 0 => answered'[q] = answered[q] /\ rep'[q] = rep[q]]_vars

(* The map has an entry exactly as long as the connection lives or its end *)
(* is still in the mailbox: no event of a live connection meets a missing  *)
(* entry, whose connection would be closed, and no entry outlives its      *)
(* connection, whose id may come again.                                    *)
EndIsOnItsWay(q) ==
  \E i \in DOMAIN clientInbox : /\ clientInbox[i].fd = q
                                /\ clientInbox[i].kind \in {"close", "error"}
MapFollowsConnections ==
  \A q \in Requests :
    q \in mapFdToClient
      <=> (upSock[q] \in {"connecting", "open"} \/ EndIsOnItsWay(q))

(* An asynchronous request for which a connection was made, and every      *)
(* synchronous one, is answered in the end, by a response or an error.  (An*)
(* asynchronous one whose host has no address is not.)                     *)
RequestsAreAnswered ==
  /\ \A q \in AsyncRequests : q \in mapFdToClient ~> answered[q] = 1
  /\ \A q \in SyncRequests : author[q] # "new" ~> answered[q] = 1

(* Whoever waits for a synchronous request before it is answered comes     *)
(* back.  (One who is answered first waits for ever: wakeup() before       *)
(* await(), or between its two steps, is forgotten.)                       *)
WaitersComeBack ==
  \A q \in SyncRequests :
    (author[q] = "waiting" /\ answered[q] = 0) ~> author[q] = "back"
=============================================================================
