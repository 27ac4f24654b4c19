------------------------------ MODULE HttpAgent -----------------------------
(***************************************************************************)
(* The server side of open/server/https/openhttpserver.cpp: the listening  *)
(* server that hands over a connection, and one agent that reads the       *)
(* request and answers it, by itself, by a handler that calls rep->send(), *)
(* or by a client that streams what it gets from elsewhere.                *)
(*                                                                         *)
(* A connection names its entry in mapClient_ and, when its request has a  *)
(* "client" header and the server has clients (StreamConns), the request   *)
(* of the client made for it.  A "client" header without clients is        *)
(* answered at once, as a handler may do.                                  *)
(* A failed assertion is noted in failed and the handler goes on from      *)
(* there, as it does when assertions are compiled out.                     *)
(***************************************************************************)
EXTENDS Naturals, Sequences, FiniteSets

CONSTANTS PageConns, StreamConns,
          RequestPieces   (* the reads that a whole request takes          *)

Conns == PageConns \cup StreamConns

VARIABLES
  agentInbox,     (* the mailbox of the agent's thread                     *)
  clientInbox,    (* the mailbox of the client that streams                *)
  mapClient,      (* mapClient_: the connections with an entry             *)
  parsed,         (* the pieces parsed of the request                      *)
  isSendData,     (* Client::isSendData_                                   *)
  owed,           (* a handler will call rep->send()                       *)
  written,        (* what the agent has written to the connection          *)
  failed,         (* the assertions that failed                            *)
  downSock,       (* the connection                                        *)
  downSent        (* the pieces the other side has sent                    *)

entryVars == <<mapClient, parsed, isSendData>>
workVars == <<clientInbox, owed, written, failed>>
downVars == <<downSock, downSent>>
vars == <<agentInbox, entryVars, workVars, downVars>>

-----------------------------------------------------------------------------
DownLinks == {"none", "accepted", "starting", "open", "closed"}
Item(what, n) == [what |-> what, n |-> n]
Msg(kind, fd, n) == [kind |-> kind, fd |-> fd, n |-> n]

Init ==
  /\ agentInbox = <<>> /\ clientInbox = <<>>
  /\ mapClient = {}
  /\ parsed = [c \in Conns |-> 0]
  /\ isSendData = [c \in Conns |-> FALSE]
  /\ owed = {}
  /\ written = [c \in Conns |-> <<>>]
  /\ failed = {}
  /\ downSock = [c \in Conns |-> "none"]
  /\ downSent = [c \in Conns |-> 0]

-----------------------------------------------------------------------------
(* What the agent does with a connection.                                  *)

Write(c, item) == written' = [written EXCEPT ![c] = Append(@, item)]

(* Client::sendResponse().                                                 *)
SendAgain(c, already) ==
  isSendData' = [isSendData EXCEPT ![c] = TRUE] /\ Write(c, Item("response", 0))
SendResponse(c, already) ==
  /\ isSendData' = [isSendData EXCEPT ![c] = TRUE]
  /\ IF already THEN UNCHANGED written ELSE Write(c, Item("response", 0))

(* Client::processing(): the request is whole.  A handler returns TRUE,    *)
(* and the agent answers; or FALSE, and answers with rep->send(), now or   *)
(* from another thread later.  One may do both.                            *)
Processing(c) ==
  \/ /\ c \in StreamConns
     /\ clientInbox' = Append(clientInbox, Msg("request", c, 0))
     /\ isSendData' = [isSendData EXCEPT ![c] = FALSE]
     /\ UNCHANGED <<owed, written>>
  \/ /\ c \in PageConns
     /\ \E answers, sends \in BOOLEAN :
          /\ answers \/ sends
          /\ owed' = IF sends THEN owed \cup {c} ELSE owed
          /\ IF answers THEN SendResponse(c, FALSE)
             ELSE /\ isSendData' = [isSendData EXCEPT ![c] = FALSE]
                  /\ UNCHANGED written
     /\ UNCHANGED clientInbox

(* An event of a connection without an entry: OpenSocket::close().         *)
CloseUnknown(c) == /\ downSock' = [downSock EXCEPT ![c] = "closed"]
                   /\ UNCHANGED <<entryVars, workVars, downSent>>

(* OpenHttpNoticeMsg: the server has handed over a connection.             *)
OnNotice(c) ==
  /\ IF c \in mapClient
     THEN /\ failed' = failed \cup {"second notice"}
          /\ mapClient' = mapClient \ {c}
          /\ downSock' = [downSock EXCEPT ![c] = "closed"]
          /\ UNCHANGED parsed
     ELSE /\ mapClient' = mapClient \cup {c}
          /\ parsed' = [parsed EXCEPT ![c] = 0]
          /\ downSock' = [downSock EXCEPT ![c] = "starting"]
          /\ UNCHANGED failed
  /\ UNCHANGED <<isSendData, clientInbox, owed, written, downSent>>

(* OpenHttpSendResponseMsg: a handler has called rep->send().              *)
OnSendResponse(c) ==
  /\ IF c \in mapClient THEN SendResponse(c, isSendData[c])
     ELSE UNCHANGED <<isSendData, written>>
  /\ UNCHANGED <<mapClient, parsed, clientInbox, owed, failed, downVars>>

(* OpenHttpClientStreamNoticeMsg: data, or the end, of a stream.           *)
OnStream(c, item) ==
  /\ IF c \in mapClient THEN Write(c, item) /\ UNCHANGED failed
     ELSE failed' = failed \cup {"stream without client"} /\ UNCHANGED written
  /\ UNCHANGED <<entryVars, clientInbox, owed, downVars>>

OnSocketOpen(c) ==
  IF c \in mapClient THEN UNCHANGED <<entryVars, workVars, downVars>>
  ELSE CloseUnknown(c)

(* onSocketData(), update(), onData(): one request for a connection; what  *)
(* comes after it is ignored.                                              *)
FinishedLate(n) == n > RequestPieces
IsFinish(n) == n = RequestPieces
OnSocketData(c) ==
  IF c \notin mapClient THEN CloseUnknown(c)
  ELSE /\ IF IsFinish(parsed[c])
          THEN UNCHANGED <<parsed, isSendData, clientInbox, owed, written>>
          ELSE /\ parsed' = [parsed EXCEPT ![c] = @ + 1]
               /\ IF IsFinish(parsed'[c]) THEN Processing(c)
                  ELSE UNCHANGED <<isSendData, clientInbox, owed, written>>
       /\ UNCHANGED <<mapClient, failed, downVars>>

(* onSocketClose() and onSocketError().                                    *)
KeepEntry(c) == UNCHANGED <<entryVars, workVars, downVars>>
OnSocketEnd(c) ==
  /\ mapClient' = mapClient \ {c}
  /\ UNCHANGED <<parsed, isSendData, workVars, downVars>>

AgentTakes(kind) ==
  /\ agentInbox # <<>>
  /\ Head(agentInbox).kind = kind
Taken == Head(agentInbox).fd
Rest == agentInbox' = Tail(agentInbox)

HandleNotice == AgentTakes("notice") /\ Rest /\ OnNotice(Taken)
HandleSend == AgentTakes("send") /\ Rest /\ OnSendResponse(Taken)
HandleStreamData ==
  AgentTakes("streamData") /\ Rest /\ OnStream(Taken, Item("data", Head(agentInbox).n))
HandleStreamEnd ==
  AgentTakes("streamEnd") /\ Rest /\ OnStream(Taken, Item("end", 0))
HandleOpen == AgentTakes("open") /\ Rest /\ OnSocketOpen(Taken)
HandleData == AgentTakes("data") /\ Rest /\ OnSocketData(Taken)
HandleEnd == AgentTakes("end") /\ Rest /\ OnSocketEnd(Taken)

AgentThread == \/ HandleNotice \/ HandleSend \/ HandleStreamData
               \/ HandleStreamEnd \/ HandleOpen \/ HandleData \/ HandleEnd

-----------------------------------------------------------------------------
(* Other threads: the listening server, handlers, the socket thread.       *)

Post(kind, c) ==
  /\ agentInbox' = Append(agentInbox, Msg(kind, c, 0))
  /\ UNCHANGED <<entryVars, clientInbox, written, failed>>

(* OpenHttpServer::onSocketAccept().                                       *)
OnSocketAccept(c) ==
  /\ downSock[c] = "none"
  /\ downSock' = [downSock EXCEPT ![c] = "accepted"]
  /\ Post("notice", c)
  /\ UNCHANGED <<owed, downSent>>

(* OpenHttpResponse::send().                                               *)
RepSend(c) ==
  /\ c \in owed
  /\ owed' = owed \ {c}
  /\ Post("send", c)
  /\ UNCHANGED downVars

DownOpens(c) ==
  /\ downSock[c] = "starting"
  /\ downSock' = [downSock EXCEPT ![c] = "open"]
  /\ Post("open", c)
  /\ UNCHANGED <<owed, downSent>>

(* The other side sends its request, and may send more than that.          *)
DownSends(c) ==
  /\ downSock[c] = "open"
  /\ downSent[c] <= RequestPieces
  /\ downSent' = [downSent EXCEPT ![c] = @ + 1]
  /\ Post("data", c)
  /\ UNCHANGED <<owed, downSock>>

(* The other side, or an error, ends the connection at any time.           *)
DownEnds(c) ==
  /\ downSock[c] \in {"starting", "open"}
  /\ downSock' = [downSock EXCEPT ![c] = "closed"]
  /\ Post("end", c)
  /\ UNCHANGED <<owed, downSent>>

Others == \E c \in Conns : \/ OnSocketAccept(c) \/ RepSend(c)
                           \/ DownOpens(c) \/ DownSends(c) \/ DownEnds(c)

Next == AgentThread \/ Others
Spec == Init /\ [][Next]_vars

-----------------------------------------------------------------------------
TypeOK ==
  /\ mapClient \subseteq Conns
  /\ parsed \in [Conns -> 0 .. RequestPieces]
  /\ isSendData \in [Conns -> BOOLEAN]
  /\ owed \subseteq PageConns
  /\ downSock \in [Conns -> DownLinks]
  /\ downSent \in [Conns -> 0 .. RequestPieces + 1]
  /\ \A c \in Conns : written[c] \in Seq([what : {"response", "data", "end"}, n : Nat])
  /\ \A i \in DOMAIN agentInbox : agentInbox[i].fd \in Conns
=============================================================================
