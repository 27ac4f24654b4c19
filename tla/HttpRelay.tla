----------------------------- MODULE HttpRelay ------------------------------
(***************************************************************************)
(* An HttpAgent and the HttpClient that streams for it, two threads joined *)
(* by their mailboxes: a connection whose request has a "client" header is *)
(* answered with what the client reads from another server, passed on by   *)
(* OpenHttpClientStreamNoticeMsg.  The connection of the agent and the one *)
(* of the client end independently of each other.  The client also serves  *)
(* the requests of other authors, as HttpClient has them.                  *)
(***************************************************************************)
EXTENDS Naturals, Sequences, FiniteSets

CONSTANTS PageConns, StreamConns,       (* connections of the agent        *)
          AsyncRequests, SyncRequests,  (* of others, made by the client   *)
          RequestPieces, Pieces         (* the reads that a whole message takes *)

ASSUME ConnsDiffer == PageConns \cap StreamConns = {}
ASSUME RequestsDiffer == /\ AsyncRequests \cap SyncRequests = {}
                         /\ (AsyncRequests \cup SyncRequests) \cap StreamConns = {}
ASSUME PiecesArePositive == {RequestPieces, Pieces} \subseteq Nat \ {0}

VARIABLES agentInbox, clientInbox,
          mapClient, parsed, isSendData, owed, written, failed,
          downSock, downSent,
          mapFdToClient, isClosed, rep, answered, author, isSleep,
          upSock, upSent

Agent == INSTANCE HttpAgent
Client == INSTANCE HttpClient WITH StreamRequests <- StreamConns

agentVars == <<mapClient, parsed, isSendData, owed, written, failed,
               downSock, downSent>>
clientVars == <<mapFdToClient, isClosed, rep, answered, author, isSleep,
                upSock, upSent>>
vars == <<agentInbox, clientInbox, agentVars, clientVars>>

Init == Agent!Init /\ Client!Init
AgentSteps == Agent!Next /\ UNCHANGED clientVars
ClientSteps == Client!Next /\ UNCHANGED agentVars
Next == AgentSteps \/ ClientSteps
Spec == Init /\ [][Next]_vars

(* The fairness of the two threads and of what they are given.             *)
Fairness ==
  /\ WF_vars(Agent!AgentThread /\ UNCHANGED clientVars)
  /\ WF_vars(Client!ClientThread /\ UNCHANGED agentVars)
  /\ \A c \in PageConns : WF_vars(Agent!RepSend(c) /\ UNCHANGED clientVars)
  /\ \A q \in Client!Requests :
       WF_vars((Client!UpConnected(q) \/ Client!UpEnds(q)) /\ UNCHANGED agentVars)
  /\ \A q \in SyncRequests :
       WF_vars((Client!Await(q) \/ Client!CondWait(q)) /\ UNCHANGED agentVars)
FairSpec == Spec /\ Fairness

-----------------------------------------------------------------------------
Conns == PageConns \cup StreamConns
Count(c, what) ==
  Cardinality({i \in DOMAIN written[c] : written[c][i].what = what})

TypeOK == Agent!TypeOK /\ Client!TypeOK

(* A request gets one response, when it is whole, although a handler may   *)
(* both return TRUE and call rep->send(), and data may follow the request. *)
OneResponse ==
  /\ \A c \in PageConns :
       written[c] # <<>> => /\ written[c] = <<Agent!Item("response", 0)>>
                            /\ parsed[c] = RequestPieces
  /\ \A c \in StreamConns : Count(c, "response") = 0

(* What is written to a streaming connection is what the other server sent *)
(* to the client made for it, from its start, in order, and followed by    *)
(* the end only if nothing of it is missing, through two sockets and two   *)
(* mailboxes.                                                              *)
StreamIsRelayed ==
  \A c \in StreamConns :
    LET data == Count(c, "data") IN
    /\ \A i \in 1 .. data : written[c][i] = Agent!Item("data", i)
    /\ data <= upSent[c]
    /\ Count(c, "end") <= 1
    /\ Count(c, "end") = 1 => data = upSent[c] /\ upSock[c] = "closed"

(* Both maps have an entry exactly as long as the connection lives or its  *)
(* end is still in the mailbox; the agent is handed a connection once.     *)
EndIsOnItsWay(c) ==
  \E i \in DOMAIN agentInbox : agentInbox[i].kind = "end" /\ agentInbox[i].fd = c
MapsFollowConnections ==
  /\ \A c \in Conns :
       c \in mapClient
         <=> (downSock[c] \in {"starting", "open"} \/ EndIsOnItsWay(c))
  /\ "second notice" \notin failed
  /\ Client!MapFollowsConnections

(* What HttpClient promises the authors of its requests.                   *)
AnswerIsFinal == Client!AnswerIsFinal
RequestsAreAnswered == Client!RequestsAreAnswered
WaitersComeBack == Client!WaitersComeBack

(* A whole request is answered, whoever answers it, or its connection ends.*)
(* A stream is ended: once the client has a connection for it, its end is  *)
(* written, or there is nobody to write it to.                             *)
RequestsAreServed ==
  /\ \A c \in PageConns :
       parsed[c] = RequestPieces ~> (Count(c, "response") = 1 \/ c \notin mapClient)
  /\ \A c \in StreamConns :
       c \in mapFdToClient ~> (Count(c, "end") = 1 \/ c \notin mapClient)

(* The assertion of OpenHttpAgent::onMsgProto(): what a client streams     *)
(* finds the connection it is for.                                         *)
StreamFindsClient == "stream without client" \notin failed
=============================================================================
