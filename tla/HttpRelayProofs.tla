-------------------------- MODULE HttpRelayProofs --------------------------
(***************************************************************************)
(* The agent and the client of HttpRelay, for any connections, requests    *)
(* and sizes, and for visitors of the agent and authors of requests at the *)
(* same time.                                                              *)
(***************************************************************************)
EXTENDS HttpRelay, FiniteSetTheorems, TLAPS

Requests == Client!Requests
Own == Client!Own

(* A mailbox: what is in it, and which messages may follow which.          *)
Items(q) == {q[i] : i \in 1 .. Len(q)}
Follow(q, R) == \A i, j \in 1 .. Len(q) : i < j => <<q[i], q[j]>> \in R
Box(q, S, R) == q \in Seq(S) /\ Follow(q, R)

Events == {"open", "data", "end"}
Streams == {"streamData", "streamEnd"}
AgentMessage ==
  [kind : Events \cup {"notice"}, fd : Conns, n : {0}]
  \cup [kind : {"send"}, fd : PageConns, n : {0}]
  \cup [kind : Streams, fd : StreamConns, n : Nat]
Ends == {"close", "error"}
ClientMessage ==
  [kind : {"open", "close", "error", "request"}, fd : Requests, n : {0}]
  \cup [kind : {"data"}, fd : Requests, n : 1 .. Pieces + 1]

(* In the agent's mailbox a connection is handed over before all else, its *)
(* end is its last event, and the end of its stream the last of the stream,*)
(* whose pieces are in order.                                              *)
AgentAfter(a, b) ==
  a.fd = b.fd =>
    /\ a.kind # "notice" /\ b.kind # "notice"
    /\ a.kind = "end" => b.kind \notin Events
    /\ a.kind = "streamEnd" => b.kind \notin Streams
    /\ a.kind = "streamData" /\ b.kind = "streamData" => a.n < b.n
AgentOrder == {p \in AgentMessage \X AgentMessage : AgentAfter(p[1], p[2])}
ClientAfter(a, b) ==
  a.fd = b.fd =>
    /\ a.kind \in {"open", "data"} /\ b.kind # "request"
    /\ a.kind = "data" /\ b.kind = "data" => a.n < b.n
ClientOrder == {p \in ClientMessage \X ClientMessage : ClientAfter(p[1], p[2])}
AtAgent == Items(agentInbox)
AtClient == Items(clientInbox)
AgentBox == Box(agentInbox, AgentMessage, AgentOrder)
ClientBox == Box(clientInbox, ClientMessage, ClientOrder)

Written == [what : {"response", "data", "end"}, n : Nat]
AgentTypes ==
  /\ mapClient \subseteq Conns /\ owed \subseteq PageConns
  /\ parsed \in [Conns -> 0 .. RequestPieces]
  /\ isSendData \in [Conns -> BOOLEAN]
  /\ written \in [Conns -> Seq(Written)]
  /\ downSock \in [Conns -> {"none", "accepted", "starting", "open", "closed"}]
  /\ downSent \in [Conns -> 0 .. RequestPieces + 1]
ClientTypes ==
  /\ mapFdToClient \subseteq Requests
  /\ isClosed \in [Requests -> BOOLEAN]
  /\ rep \in [Requests -> 0 .. Pieces]
  /\ answered \in [Requests -> {0, 1}]
  /\ author \in [Own -> {"new", "asked", "sleepy", "waiting", "back"}]
  /\ isSleep \in [SyncRequests -> BOOLEAN]
  /\ upSock \in [Requests -> {"none", "connecting", "open", "closed"}]
  /\ upSent \in [Requests -> 0 .. Pieces + 1]

(* Where a connection of the agent is, and its messages.                   *)
Handed ==
  /\ "second notice" \notin failed
  /\ \A c \in Conns :
       /\ downSock[c] \in {"none", "accepted"} => c \notin mapClient /\ parsed[c] = 0
       /\ downSock[c] \in {"starting", "open"} => c \in mapClient
       /\ c \in mapClient /\ downSock[c] = "closed" =>
            \E m \in AtAgent : m.fd = c /\ m.kind = "end"
Announced ==
  \A m \in AtAgent :
    /\ m.kind = "notice" => downSock[m.fd] = "accepted"
    /\ m.kind \in Events => m.fd \in mapClient
    /\ m.kind = "end" => downSock[m.fd] = "closed"
(* A request that is not whole has had no effect.                          *)
Unread ==
  \A c \in Conns : parsed[c] # RequestPieces =>
    /\ written[c] = <<>> /\ ~isSendData[c] /\ c \notin owed
    /\ \A m \in AtAgent : m.fd = c => m.kind # "send"
Unasked ==
  \A c \in StreamConns : parsed[c] # RequestPieces =>
    upSock[c] = "none" /\ answered[c] = 0 /\ \A m \in AtClient : m.fd # c
Answered ==
  \A c \in PageConns :
    written[c] = IF isSendData[c] THEN <<Agent!Item("response", 0)>> ELSE <<>>

(* Where a request of the client is, and its messages.                     *)
Made ==
  \A q \in Requests :
    /\ upSock[q] = "none" => q \notin mapFdToClient /\ upSent[q] = 0
    /\ upSock[q] \in {"connecting", "open"} => q \in mapFdToClient
    /\ q \in mapFdToClient /\ upSock[q] = "closed" =>
         \E m \in AtClient : m.fd = q /\ m.kind \in Ends
    /\ q \in mapFdToClient => (isClosed[q] <=> answered[q] = 1)
    /\ q \in mapFdToClient /\ q \in StreamConns => ~isClosed[q]
Reported ==
  \A m \in AtClient :
    /\ m.kind = "request" => upSock[m.fd] = "none" /\ answered[m.fd] = 0
    /\ m.kind # "request" => m.fd \in mapFdToClient
    /\ m.kind \in Ends => upSock[m.fd] = "closed"
    /\ m.kind = "data" => m.n <= upSent[m.fd]
Untold ==
  \A q \in Own : author[q] = "new" =>
    upSock[q] = "none" /\ answered[q] = 0 /\ \A m \in AtClient : m.fd # q

(* What is written to a streaming connection: data from the first piece    *)
(* on, and the end when nothing of it is missing.                          *)
ShapeOf(s, last) ==
  \A i \in 1 .. Len(s) :
    \/ s[i] = Agent!Item("data", i) /\ i <= last
    \/ s[i] = Agent!Item("end", 0) /\ i = Len(s) /\ i = last + 1
Shape == \A c \in StreamConns : ShapeOf(written[c], upSent[c])
Ended(c) == \E i \in 1 .. Len(written[c]) : written[c][i] = Agent!Item("end", 0)
Ending(c) == \E m \in AtAgent : m.fd = c /\ m.kind = "streamEnd"
(* A stream that is ended has no connection any more, and no messages.     *)
Over ==
  \A c \in StreamConns :
    /\ Ended(c) \/ Ending(c) =>
         upSock[c] = "closed" /\ c \notin mapFdToClient /\ answered[c] = 1
    /\ Ended(c) => \A m \in AtAgent : m.fd = c => m.kind \notin Streams
(* The pieces on their way are later ones than those that are written, in  *)
(* order, and none is missing.                                             *)
OnTheWay ==
  /\ \A m \in AtAgent :
       /\ m.kind \in Streams => upSock[m.fd] # "none"
       /\ m.kind = "streamData" => m.n \in 1 .. upSent[m.fd]
  /\ \A m \in AtAgent : \A d \in AtClient :
       m.kind = "streamData" /\ d.kind = "data" /\ m.fd = d.fd => m.n < d.n
Later(c) ==
  /\ \A m \in AtAgent : m.fd = c /\ m.kind = "streamData" => Len(written[c]) < m.n
  /\ \A d \in AtClient : d.fd = c /\ d.kind = "data" => Len(written[c]) < d.n
Missing(c, k) ==
  /\ ~(k <= Len(written[c]))
  /\ Agent!Msg("streamData", c, k) \notin AtAgent
  /\ Client!Msg("data", c, k) \notin AtClient
NoneMissing ==
  \A c \in StreamConns \cap mapClient :
    Later(c) /\ \A k \in 1 .. upSent[c] : ~Missing(c, k)

AgentPart == AgentBox /\ AgentTypes /\ Handed /\ Announced /\ Unread /\ Answered
ClientPart == ClientBox /\ ClientTypes /\ Made /\ Reported /\ Untold
StreamPart == Unasked /\ Shape /\ Over /\ OnTheWay /\ NoneMissing
RInv == AgentPart /\ ClientPart /\ StreamPart

-----------------------------------------------------------------------------
(* Mailboxes.                                                              *)

(* Appending adds one item, and keeps an order in which it comes last.     *)
LEMMA BoxAppend ==
  ASSUME NEW S, NEW R, NEW q, Box(q, S, R), NEW m \in S,
         \A x \in Items(q) : <<x, m>> \in R
  PROVE  Box(Append(q, m), S, R) /\ Items(Append(q, m)) = Items(q) \cup {m}
<1> DEFINE r == Append(q, m)
<1>1. q \in Seq(S) /\ Follow(q, R)
  BY DEF Box
<1>2. r \in Seq(S) /\ Len(r) = Len(q) + 1 /\ Len(q) \in Nat
      /\ r[Len(q) + 1] = m /\ \A i \in 1 .. Len(q) : r[i] = q[i]
  BY <1>1
<1> HIDE DEF r
<1>3. Items(r) = Items(q) \cup {m}
  <2>1. ASSUME NEW x \in Items(r)  PROVE x \in Items(q) \cup {m}
    <3>1. PICK i \in 1 .. Len(r) : x = r[i]
      BY <2>1 DEF Items
    <3>2. i \in 1 .. Len(q) \/ i = Len(q) + 1
      BY <1>2, <3>1
    <3> QED BY <1>2, <3>1, <3>2 DEF Items
  <2>2. ASSUME NEW x \in Items(q)  PROVE x \in Items(r)
    <3>1. PICK i \in 1 .. Len(q) : x = q[i]
      BY <2>2 DEF Items
    <3>2. i \in 1 .. Len(r) /\ x = r[i]
      BY <1>2, <3>1
    <3> QED BY <3>2 DEF Items
  <2>3. m \in Items(r)
    <3>1. Len(q) + 1 \in 1 .. Len(r)
      BY <1>2
    <3> QED BY <3>1, <1>2 DEF Items
  <2> QED BY <2>1, <2>2, <2>3
<1>4. Follow(r, R)
  <2> SUFFICES ASSUME NEW i \in 1 .. Len(r), NEW j \in 1 .. Len(r), i < j
               PROVE  <<r[i], r[j]>> \in R
    BY DEF Follow
  <2>1. i \in 1 .. Len(q) /\ r[i] = q[i] /\ q[i] \in Items(q)
    BY <1>2 DEF Items
  <2>2. CASE j \in 1 .. Len(q)
    BY <2>1, <2>2, <1>1, <1>2 DEF Follow
  <2>3. CASE j = Len(q) + 1
    BY <2>1, <2>3, <1>2
  <2> QED BY <1>2, <2>2, <2>3
<1> QED BY <1>2, <1>3, <1>4 DEF Box, r

(* Taking the first item leaves the others, all of which follow it.        *)
LEMMA BoxTail ==
  ASSUME NEW S, NEW R, NEW q, Box(q, S, R), q # <<>>
  PROVE  /\ Box(Tail(q), S, R) /\ Head(q) \in S
         /\ Items(q) = Items(Tail(q)) \cup {Head(q)}
         /\ \A x \in Items(Tail(q)) : <<Head(q), x>> \in R
<1> DEFINE r == Tail(q)
           h == Head(q)
<1>1. q \in Seq(S) /\ Follow(q, R)
  BY DEF Box
<1>2. r \in Seq(S) /\ Len(r) = Len(q) - 1 /\ Len(q) \in Nat /\ Len(q) >= 1
      /\ h = q[1] /\ h \in S /\ \A i \in 1 .. Len(r) : r[i] = q[i + 1]
  BY <1>1
<1> HIDE DEF r, h
<1>3. Follow(r, R)
  <2> SUFFICES ASSUME NEW i \in 1 .. Len(r), NEW j \in 1 .. Len(r), i < j
               PROVE  <<r[i], r[j]>> \in R
    BY DEF Follow
  <2>1. i + 1 \in 1 .. Len(q) /\ j + 1 \in 1 .. Len(q) /\ i + 1 < j + 1
    BY <1>2
  <2> QED BY <2>1, <1>1, <1>2 DEF Follow
<1>4. \A x \in Items(r) : <<h, x>> \in R /\ x \in Items(q)
  <2> SUFFICES ASSUME NEW x \in Items(r)
               PROVE  <<h, x>> \in R /\ x \in Items(q)
    OBVIOUS
  <2>1. PICK i \in 1 .. Len(r) : x = r[i]
    BY DEF Items
  <2>2. 1 \in 1 .. Len(q) /\ i + 1 \in 1 .. Len(q) /\ 1 < i + 1 /\ x = q[i + 1]
    BY <1>2, <2>1
  <2> QED BY <2>2, <1>1, <1>2 DEF Follow, Items
<1>5. \A x \in Items(q) : x \in Items(r) \cup {h}
  <2> SUFFICES ASSUME NEW x \in Items(q), x # h  PROVE x \in Items(r)
    OBVIOUS
  <2>1. PICK i \in 1 .. Len(q) : x = q[i]
    BY DEF Items
  <2>2. i # 1
    BY <2>1, <1>2
  <2>3. i - 1 \in 1 .. Len(r) /\ r[i - 1] = q[i]
    <3>1. i - 1 \in 1 .. Len(r)
      BY <2>1, <2>2, <1>2
    <3>2. r[i - 1] = q[(i - 1) + 1]
      BY <3>1, <1>2
    <3> QED BY <3>1, <3>2
  <2> QED BY <2>1, <2>3 DEF Items
<1>6. h \in Items(q)
  <2>1. 1 \in 1 .. Len(q)
    BY <1>2
  <2> QED BY <2>1, <1>2 DEF Items
<1>7. Items(q) = Items(r) \cup {h}
  BY <1>4, <1>5, <1>6
<1> QED BY <1>1, <1>2, <1>3, <1>4, <1>7 DEF Box, r, h

(* What a mailbox holds has its type.                                      *)
LEMMA BoxTypes ==
  ASSUME NEW S, NEW R, NEW q, Box(q, S, R), NEW m \in Items(q)
  PROVE  m \in S
<1>1. q \in Seq(S)
  BY DEF Box
<1> QED BY <1>1 DEF Items

LEMMA BoxEmpty == \A S, R : Box(<<>>, S, R) /\ Items(<<>>) = {}
<1>1. Len(<<>>) = 0 /\ \A S : <<>> \in Seq(S)
  OBVIOUS
<1> QED BY <1>1 DEF Box, Items, Follow

(* The messages of each kind, and for whom they are.                       *)
AgentKinds(m) ==
  /\ m.kind \in Events \cup {"notice", "send"} \cup Streams
  /\ m.fd \in Conns
  /\ m.kind = "send" => m.fd \in PageConns
  /\ m.kind \in Streams => m.fd \in StreamConns /\ m.n \in Nat
ClientKinds(m) ==
  /\ m.kind \in {"open", "close", "error", "request", "data"}
  /\ m.fd \in Requests
  /\ m.kind = "data" => m.n \in 1 .. Pieces + 1
LEMMA Kinds ==
  /\ \A m \in AgentMessage : AgentKinds(m)
  /\ \A m \in ClientMessage : ClientKinds(m)
<1>1. ASSUME NEW m \in AgentMessage  PROVE AgentKinds(m)
  <2>1. CASE m \in [kind : Events \cup {"notice"}, fd : Conns, n : {0}]
    BY <2>1 DEF AgentKinds, Events, Streams
  <2>2. CASE m \in [kind : {"send"}, fd : PageConns, n : {0}]
    BY <2>2 DEF AgentKinds, Conns, Events, Streams
  <2>3. CASE m \in [kind : Streams, fd : StreamConns, n : Nat]
    BY <2>3 DEF AgentKinds, Conns, Events, Streams
  <2> QED BY <2>1, <2>2, <2>3 DEF AgentMessage
<1>2. ASSUME NEW m \in ClientMessage  PROVE ClientKinds(m)
  <2>1. CASE m \in [kind : {"open", "close", "error", "request"},
                    fd : Requests, n : {0}]
    BY <2>1 DEF ClientKinds
  <2>2. CASE m \in [kind : {"data"}, fd : Requests, n : 1 .. Pieces + 1]
    BY <2>2 DEF ClientKinds
  <2> QED BY <2>1, <2>2 DEF ClientMessage
<1> QED BY <1>1, <1>2

LEMMA AgentItems == ASSUME AgentBox, NEW m \in AtAgent  PROVE AgentKinds(m)
  BY BoxTypes, Kinds DEF AgentBox, AtAgent
LEMMA ClientItems == ASSUME ClientBox, NEW m \in AtClient  PROVE ClientKinds(m)
  BY BoxTypes, Kinds DEF ClientBox, AtClient

(* A step that sends a message to the agent, and one of the agent that     *)
(* takes one.                                                              *)
AgentGets(m) == AgentBox' /\ AtAgent' = AtAgent \cup {m}
LEMMA AgentPosts ==
  ASSUME AgentBox, NEW m, m \in AgentMessage, agentInbox' = Append(agentInbox, m),
         \A x \in AtAgent : AgentAfter(x, m)
  PROVE  AgentGets(m)
<1>1. \A x \in Items(agentInbox) : <<x, m>> \in AgentOrder
  <2> SUFFICES ASSUME NEW x \in Items(agentInbox)  PROVE <<x, m>> \in AgentOrder
    OBVIOUS
  <2>1. x \in AgentMessage /\ AgentAfter(x, m)
    BY BoxTypes DEF AgentBox, AtAgent
  <2> QED BY <2>1 DEF AgentOrder
<1>2. Box(agentInbox, AgentMessage, AgentOrder)
  BY DEF AgentBox
<1>3. Box(agentInbox', AgentMessage, AgentOrder)
      /\ Items(agentInbox') = Items(agentInbox) \cup {m}
  BY <1>1, <1>2, BoxAppend
<1> QED BY <1>3 DEF AgentGets, AgentBox, AtAgent
AgentTook(h) == /\ AgentBox' /\ AtAgent = AtAgent' \cup {h} /\ AgentKinds(h)
                /\ \A x \in AtAgent' : AgentAfter(h, x)
LEMMA AgentTakes ==
  ASSUME AgentBox, NEW k, Agent!AgentTakes(k), Agent!Rest
  PROVE  AgentTook(Head(agentInbox)) /\ Head(agentInbox).kind = k
<1>1. agentInbox # <<>> /\ agentInbox' = Tail(agentInbox)
      /\ Head(agentInbox).kind = k
  BY DEF Agent!AgentTakes, Agent!Rest
<1>2. Box(agentInbox, AgentMessage, AgentOrder)
  BY DEF AgentBox
<1>3. /\ Box(agentInbox', AgentMessage, AgentOrder)
      /\ Head(agentInbox) \in AgentMessage
      /\ Items(agentInbox) = Items(agentInbox') \cup {Head(agentInbox)}
      /\ \A x \in Items(agentInbox') : <<Head(agentInbox), x>> \in AgentOrder
  BY <1>1, <1>2, BoxTail
<1>4. \A x \in Items(agentInbox') : AgentAfter(Head(agentInbox), x)
  BY <1>3 DEF AgentOrder
<1> QED BY <1>1, <1>3, <1>4, Kinds DEF AgentTook, AgentBox, AtAgent

(* The same for the client.                                                *)
ClientGets(m) == ClientBox' /\ AtClient' = AtClient \cup {m}
LEMMA ClientPosts ==
  ASSUME ClientBox, NEW m, m \in ClientMessage, clientInbox' = Append(clientInbox, m),
         \A x \in AtClient : ClientAfter(x, m)
  PROVE  ClientGets(m)
<1>1. \A x \in Items(clientInbox) : <<x, m>> \in ClientOrder
  <2> SUFFICES ASSUME NEW x \in Items(clientInbox)
               PROVE  <<x, m>> \in ClientOrder
    OBVIOUS
  <2>1. x \in ClientMessage /\ ClientAfter(x, m)
    BY BoxTypes DEF ClientBox, AtClient
  <2> QED BY <2>1 DEF ClientOrder
<1>2. Box(clientInbox, ClientMessage, ClientOrder)
  BY DEF ClientBox
<1>3. Box(clientInbox', ClientMessage, ClientOrder)
      /\ Items(clientInbox') = Items(clientInbox) \cup {m}
  BY <1>1, <1>2, BoxAppend
<1> QED BY <1>3 DEF ClientGets, ClientBox, AtClient
ClientTook(h) == /\ ClientBox' /\ AtClient = AtClient' \cup {h} /\ ClientKinds(h)
                 /\ \A x \in AtClient' : ClientAfter(h, x)
LEMMA ClientTakes ==
  ASSUME ClientBox, NEW k, Client!ClientTakes(k), Client!Rest
  PROVE  ClientTook(Head(clientInbox)) /\ Head(clientInbox).kind = k
<1>1. clientInbox # <<>> /\ clientInbox' = Tail(clientInbox)
      /\ Head(clientInbox).kind = k
  BY DEF Client!ClientTakes, Client!Rest
<1>2. Box(clientInbox, ClientMessage, ClientOrder)
  BY DEF ClientBox
<1>3. /\ Box(clientInbox', ClientMessage, ClientOrder)
      /\ Head(clientInbox) \in ClientMessage
      /\ Items(clientInbox) = Items(clientInbox') \cup {Head(clientInbox)}
      /\ \A x \in Items(clientInbox') : <<Head(clientInbox), x>> \in ClientOrder
  BY <1>1, <1>2, BoxTail
<1>4. \A x \in Items(clientInbox') : ClientAfter(Head(clientInbox), x)
  BY <1>3 DEF ClientOrder
<1> QED BY <1>1, <1>3, <1>4, Kinds DEF ClientTook, ClientBox, AtClient

-----------------------------------------------------------------------------
(* What a step leaves alone.                                               *)

LEMMA ClientPartKept ==
  ASSUME ClientPart, UNCHANGED <<clientInbox, clientVars>>  PROVE ClientPart'
BY DEF ClientPart, clientVars, ClientBox, ClientTypes, Made, Reported, Untold,
       AtClient, Requests, Own, Client!Requests, Client!Own

(* The streams depend on their messages, on what is written to their       *)
(* connections, and on how far those of the client have come.              *)
StreamsGoOn ==
  /\ \A m : m.kind \in Streams => (m \in AtAgent' <=> m \in AtAgent)
  /\ \A d : d.kind = "data" /\ d.fd \in StreamConns =>
            (d \in AtClient' <=> d \in AtClient)
  /\ mapClient' \cap StreamConns \subseteq mapClient
  /\ \A c \in StreamConns :
       /\ written'[c] = written[c] /\ upSent'[c] = upSent[c]
       /\ upSock[c] # "none" => upSock'[c] # "none"
       /\ upSock[c] = "closed" /\ c \notin mapFdToClient /\ answered[c] = 1 =>
            upSock'[c] = "closed" /\ c \notin mapFdToClient' /\ answered'[c] = 1
LEMMA StreamsKept ==
  ASSUME AgentBox, StreamPart, StreamsGoOn
  PROVE  Shape' /\ Over' /\ OnTheWay' /\ NoneMissing'
<1>1. \A m : m.kind \in Streams => (m \in AtAgent' <=> m \in AtAgent)
  BY DEF StreamsGoOn
<1>2. Shape'
  BY DEF StreamPart, StreamsGoOn, Shape, ShapeOf
<1>3. Over'
  <2>1. \A c \in StreamConns : (Ended(c)' <=> Ended(c)) /\ (Ending(c)' <=> Ending(c))
    BY <1>1 DEF StreamsGoOn, Ended, Ending, Streams
  <2> QED BY <1>1, <2>1 DEF StreamPart, StreamsGoOn, Over
<1>4. OnTheWay'
  <2>1. ASSUME NEW m \in AtAgent', m.kind \in Streams
        PROVE  m \in AtAgent /\ m.fd \in StreamConns
    BY <1>1, <2>1, AgentItems DEF AgentKinds
  <2> QED BY <2>1 DEF StreamPart, StreamsGoOn, OnTheWay, Streams
<1>5. NoneMissing'
  <2> SUFFICES ASSUME NEW c \in StreamConns \cap mapClient'
               PROVE  Later(c)' /\ \A k \in 1 .. upSent[c] : ~Missing(c, k)'
    BY DEF NoneMissing, StreamsGoOn
  <2>1. c \in mapClient /\ written'[c] = written[c]
    BY DEF StreamsGoOn
  <2>2. Later(c) /\ \A k \in 1 .. upSent[c] : ~Missing(c, k)
    BY <2>1 DEF StreamPart, NoneMissing
  <2>3. Later(c)'
    BY <2>1, <2>2, <1>1 DEF Later, Streams, StreamsGoOn
  <2>4. ASSUME NEW k \in 1 .. upSent[c]  PROVE ~Missing(c, k)'
    <3>1. /\ Agent!Msg("streamData", c, k).kind \in Streams
          /\ Client!Msg("data", c, k).kind = "data" /\ Client!Msg("data", c, k).fd = c
      BY DEF Agent!Msg, Client!Msg, Streams
    <3> QED BY <2>1, <2>2, <1>1, <3>1 DEF Missing, StreamsGoOn
  <2> QED BY <2>3, <2>4
<1> QED BY <1>2, <1>3, <1>4, <1>5

(* A step of the agent that has nothing to do with streams.                *)
SameStreams ==
  /\ \A m : m.kind \in Streams => (m \in AtAgent' <=> m \in AtAgent)
  /\ mapClient' \cap StreamConns \subseteq mapClient
  /\ \A c \in StreamConns : written'[c] = written[c] /\ parsed'[c] = parsed[c]
LEMMA StreamPartKept ==
  ASSUME RInv, SameStreams, UNCHANGED <<clientInbox, clientVars>>
  PROVE  StreamPart'
<1>1. AtClient' = AtClient /\ UNCHANGED <<upSock, upSent, answered, mapFdToClient>>
  BY DEF AtClient, clientVars
<1>2. StreamsGoOn
  BY <1>1 DEF SameStreams, StreamsGoOn
<1>3. Shape' /\ Over' /\ OnTheWay' /\ NoneMissing'
  BY <1>2, StreamsKept DEF RInv, AgentPart
<1>4. Unasked'
  BY <1>1 DEF RInv, StreamPart, SameStreams, Unasked
<1> QED BY <1>3, <1>4 DEF StreamPart

(* Messages of a connection that has not been handed over, or whose        *)
(* request is not whole.                                                   *)
LEMMA NoMessages ==
  ASSUME RInv, NEW c \in Conns, NEW m \in AtAgent, m.fd = c
  PROVE  /\ downSock[c] # "none"
         /\ parsed[c] # RequestPieces => m.kind \in Events \cup {"notice"}
<1>1. AgentKinds(m)
  BY AgentItems DEF RInv, AgentPart
<1>2. parsed[c] # RequestPieces => m.kind \notin Streams \cup {"send"}
  <2>1. parsed[c] # RequestPieces => m.kind # "send"
    BY DEF RInv, AgentPart, Unread
  <2>2. parsed[c] # RequestPieces => m.kind \notin Streams
    BY <1>1 DEF RInv, StreamPart, OnTheWay, Unasked, AgentKinds
  <2> QED BY <2>1, <2>2
<1>3. downSock[c] = "none" => c \notin mapClient /\ parsed[c] # RequestPieces
  BY PiecesArePositive DEF RInv, AgentPart, Handed
<1>4. m.kind \in Events => c \in mapClient
  BY DEF RInv, AgentPart, Announced
<1>5. m.kind = "notice" => downSock[c] = "accepted"
  BY DEF RInv, AgentPart, Announced
<1> QED BY <1>1, <1>2, <1>3, <1>4, <1>5 DEF AgentKinds

-----------------------------------------------------------------------------
(* The other threads of the agent's side.                                  *)

LEMMA AcceptStep ==
  ASSUME RInv, NEW c \in Conns, Agent!OnSocketAccept(c), UNCHANGED clientVars
  PROVE  RInv'
<1> DEFINE m == Agent!Msg("notice", c, 0)
<1>1. /\ downSock[c] = "none" /\ downSock' = [downSock EXCEPT ![c] = "accepted"]
      /\ agentInbox' = Append(agentInbox, m)
      /\ UNCHANGED <<mapClient, parsed, isSendData, clientInbox, written, failed,
                     owed, downSent>>
  BY DEF Agent!OnSocketAccept, Agent!Post, Agent!entryVars
<1>2. m \in AgentMessage /\ m.kind = "notice" /\ m.fd = c
  BY DEF Agent!Msg, AgentMessage
<1> HIDE DEF m
<1>3. AgentGets(m)
  <2>1. \A x \in AtAgent : x.fd # c
    BY <1>1, NoMessages
  <2> QED BY <1>1, <1>2, <2>1, AgentPosts DEF RInv, AgentPart, AgentAfter
<1>4. AgentBox' /\ AtAgent' = AtAgent \cup {m}
  BY <1>3 DEF AgentGets
<1>5. AgentTypes'
  BY <1>1 DEF RInv, AgentPart, AgentTypes
<1>6. Handed'
  BY <1>1, <1>2, <1>4 DEF RInv, AgentPart, AgentTypes, Handed
<1>7. Announced'
  BY <1>1, <1>2, <1>4, AgentItems
     DEF RInv, AgentPart, AgentTypes, Announced, Events, AgentKinds
<1>8. Unread' /\ Answered'
  BY <1>1, <1>2, <1>4 DEF RInv, AgentPart, Unread, Answered
<1>9. ClientPart'
  BY <1>1, ClientPartKept DEF RInv
<1>10. StreamPart'
  BY <1>1, <1>2, <1>4, StreamPartKept DEF RInv, SameStreams, Streams
<1> QED BY <1>4, <1>5, <1>6, <1>7, <1>8, <1>9, <1>10 DEF RInv, AgentPart

LEMMA RepSendStep ==
  ASSUME RInv, NEW c \in Conns, Agent!RepSend(c), UNCHANGED clientVars
  PROVE  RInv'
<1> DEFINE m == Agent!Msg("send", c, 0)
<1>1. /\ c \in owed /\ owed' = owed \ {c}
      /\ agentInbox' = Append(agentInbox, m)
      /\ UNCHANGED <<mapClient, parsed, isSendData, clientInbox, written, failed,
                     downSock, downSent>>
  BY DEF Agent!RepSend, Agent!Post, Agent!entryVars, Agent!downVars
<1>2. m \in AgentMessage /\ m.kind = "send" /\ m.fd = c
  BY <1>1 DEF Agent!Msg, AgentMessage, RInv, AgentPart, AgentTypes
<1> HIDE DEF m
<1>3. parsed[c] = RequestPieces
  BY <1>1 DEF RInv, AgentPart, Unread
<1>4. AgentBox' /\ AtAgent' = AtAgent \cup {m}
  <2>1. downSock[c] # "accepted"
    BY <1>3, PiecesArePositive DEF RInv, AgentPart, Handed
  <2>2. \A x \in AtAgent : x.fd = c => x.kind # "notice"
    BY <2>1 DEF RInv, AgentPart, Announced
  <2> QED BY <1>1, <1>2, <2>2, AgentPosts
          DEF RInv, AgentPart, AgentAfter, AgentGets, Events, Streams
<1>5. AgentTypes'
  BY <1>1 DEF RInv, AgentPart, AgentTypes
<1>6. Handed'
  BY <1>1, <1>2, <1>4 DEF RInv, AgentPart, Handed
<1>7. Announced'
  BY <1>1, <1>2, <1>4 DEF RInv, AgentPart, Announced, Events
<1>8. Unread' /\ Answered'
  BY <1>1, <1>2, <1>3, <1>4 DEF RInv, AgentPart, Unread, Answered
<1>9. ClientPart'
  BY <1>1, ClientPartKept DEF RInv
<1>10. StreamPart'
  BY <1>1, <1>2, <1>4, StreamPartKept DEF RInv, SameStreams, Streams
<1> QED BY <1>4, <1>5, <1>6, <1>7, <1>8, <1>9, <1>10 DEF RInv, AgentPart

(* The events of the connection.                                           *)
LEMMA DownOpensStep ==
  ASSUME RInv, NEW c \in Conns, Agent!DownOpens(c), UNCHANGED clientVars
  PROVE  RInv'
<1> DEFINE m == Agent!Msg("open", c, 0)
<1>1. /\ downSock[c] = "starting" /\ downSock' = [downSock EXCEPT ![c] = "open"]
      /\ agentInbox' = Append(agentInbox, m)
      /\ UNCHANGED <<mapClient, parsed, isSendData, clientInbox, written, failed,
                     owed, downSent>>
  BY DEF Agent!DownOpens, Agent!Post, Agent!entryVars
<1>2. m \in AgentMessage /\ m.kind = "open" /\ m.fd = c
  BY DEF Agent!Msg, AgentMessage, Events
<1> HIDE DEF m
<1>3. c \in mapClient
  BY <1>1 DEF RInv, AgentPart, Handed
<1>4. AgentBox' /\ AtAgent' = AtAgent \cup {m}
  <2>1. \A x \in AtAgent : x.fd = c => x.kind \notin {"notice", "end"}
    BY <1>1 DEF RInv, AgentPart, Announced
  <2> QED BY <1>1, <1>2, <2>1, AgentPosts
          DEF RInv, AgentPart, AgentAfter, AgentGets, Streams
<1>5. AgentTypes'
  BY <1>1 DEF RInv, AgentPart, AgentTypes
<1>6. Handed'
  BY <1>1, <1>2, <1>3, <1>4 DEF RInv, AgentPart, AgentTypes, Handed
<1>7. Announced'
  BY <1>1, <1>2, <1>3, <1>4, AgentItems
     DEF RInv, AgentPart, AgentTypes, Announced, AgentKinds
<1>8. Unread' /\ Answered'
  BY <1>1, <1>2, <1>4 DEF RInv, AgentPart, Unread, Answered
<1>9. ClientPart'
  BY <1>1, ClientPartKept DEF RInv
<1>10. StreamPart'
  BY <1>1, <1>2, <1>4, StreamPartKept DEF RInv, SameStreams, Streams
<1> QED BY <1>4, <1>5, <1>6, <1>7, <1>8, <1>9, <1>10 DEF RInv, AgentPart

LEMMA DownSendsStep ==
  ASSUME RInv, NEW c \in Conns, Agent!DownSends(c), UNCHANGED clientVars
  PROVE  RInv'
<1> DEFINE m == Agent!Msg("data", c, 0)
<1>1. /\ downSock[c] = "open" /\ downSent[c] <= RequestPieces
      /\ downSent' = [downSent EXCEPT ![c] = @ + 1]
      /\ agentInbox' = Append(agentInbox, m)
      /\ UNCHANGED <<mapClient, parsed, isSendData, clientInbox, written, failed,
                     owed, downSock>>
  BY DEF Agent!DownSends, Agent!Post, Agent!entryVars
<1>2. m \in AgentMessage /\ m.kind = "data" /\ m.fd = c
  BY DEF Agent!Msg, AgentMessage, Events
<1> HIDE DEF m
<1>3. c \in mapClient
  BY <1>1 DEF RInv, AgentPart, Handed
<1>4. AgentBox' /\ AtAgent' = AtAgent \cup {m}
  <2>1. \A x \in AtAgent : x.fd = c => x.kind \notin {"notice", "end"}
    BY <1>1 DEF RInv, AgentPart, Announced
  <2> QED BY <1>1, <1>2, <2>1, AgentPosts
          DEF RInv, AgentPart, AgentAfter, AgentGets, Streams
<1>5. AgentTypes'
  BY <1>1, PiecesArePositive DEF RInv, AgentPart, AgentTypes
<1>6. Handed'
  BY <1>1, <1>2, <1>4 DEF RInv, AgentPart, Handed
<1>7. Announced'
  BY <1>1, <1>2, <1>3, <1>4 DEF RInv, AgentPart, Announced
<1>8. Unread' /\ Answered'
  BY <1>1, <1>2, <1>4 DEF RInv, AgentPart, Unread, Answered
<1>9. ClientPart'
  BY <1>1, ClientPartKept DEF RInv
<1>10. StreamPart'
  BY <1>1, <1>2, <1>4, StreamPartKept DEF RInv, SameStreams, Streams
<1> QED BY <1>4, <1>5, <1>6, <1>7, <1>8, <1>9, <1>10 DEF RInv, AgentPart

LEMMA DownEndsStep ==
  ASSUME RInv, NEW c \in Conns, Agent!DownEnds(c), UNCHANGED clientVars
  PROVE  RInv'
<1> DEFINE m == Agent!Msg("end", c, 0)
<1>1. /\ downSock[c] \in {"starting", "open"}
      /\ downSock' = [downSock EXCEPT ![c] = "closed"]
      /\ agentInbox' = Append(agentInbox, m)
      /\ UNCHANGED <<mapClient, parsed, isSendData, clientInbox, written, failed,
                     owed, downSent>>
  BY DEF Agent!DownEnds, Agent!Post, Agent!entryVars
<1>2. m \in AgentMessage /\ m.kind = "end" /\ m.fd = c
  BY DEF Agent!Msg, AgentMessage, Events
<1> HIDE DEF m
<1>3. c \in mapClient
  BY <1>1 DEF RInv, AgentPart, Handed
<1>4. AgentBox' /\ AtAgent' = AtAgent \cup {m}
  <2>1. \A x \in AtAgent : x.fd = c => x.kind \notin {"notice", "end"}
    BY <1>1 DEF RInv, AgentPart, Announced
  <2> QED BY <1>1, <1>2, <2>1, AgentPosts
          DEF RInv, AgentPart, AgentAfter, AgentGets, Streams
<1>5. AgentTypes'
  BY <1>1 DEF RInv, AgentPart, AgentTypes
<1>6. Handed'
  BY <1>1, <1>2, <1>3, <1>4 DEF RInv, AgentPart, AgentTypes, Handed
<1>7. Announced'
  BY <1>1, <1>2, <1>3, <1>4, AgentItems
     DEF RInv, AgentPart, AgentTypes, Announced, AgentKinds
<1>8. Unread' /\ Answered'
  BY <1>1, <1>2, <1>4 DEF RInv, AgentPart, Unread, Answered
<1>9. ClientPart'
  BY <1>1, ClientPartKept DEF RInv
<1>10. StreamPart'
  BY <1>1, <1>2, <1>4, StreamPartKept DEF RInv, SameStreams, Streams
<1> QED BY <1>4, <1>5, <1>6, <1>7, <1>8, <1>9, <1>10 DEF RInv, AgentPart

-----------------------------------------------------------------------------
(* The agent's thread.                                                     *)

LEMMA NoticeStep ==
  ASSUME RInv, Agent!HandleNotice, UNCHANGED clientVars
  PROVE  RInv'
<1> DEFINE h == Head(agentInbox)
           c == h.fd
<1>1. AgentTook(h) /\ h.kind = "notice"
  BY AgentTakes DEF Agent!HandleNotice, RInv, AgentPart
<1>2. c \in Conns /\ h \in AtAgent /\ AgentBox' /\ AtAgent = AtAgent' \cup {h}
      /\ \A x \in AtAgent' : x.fd # c
  BY <1>1 DEF AgentTook, AgentKinds, AgentAfter
<1>3. downSock[c] = "accepted" /\ c \notin mapClient /\ parsed[c] = 0
  BY <1>1, <1>2 DEF RInv, AgentPart, Announced, Handed
<1>4. /\ mapClient' = mapClient \cup {c} /\ parsed' = [parsed EXCEPT ![c] = 0]
      /\ downSock' = [downSock EXCEPT ![c] = "starting"]
      /\ UNCHANGED <<failed, isSendData, clientInbox, owed, written, downSent>>
  BY <1>3 DEF Agent!HandleNotice, Agent!OnNotice, Agent!Taken
<1> HIDE DEF c, h
<1>5. parsed' = parsed
  BY <1>2, <1>3, <1>4 DEF RInv, AgentPart, AgentTypes
<1>6. AgentTypes'
  BY <1>2, <1>4, <1>5 DEF RInv, AgentPart, AgentTypes
<1>7. Handed'
  BY <1>1, <1>2, <1>3, <1>4, <1>5 DEF RInv, AgentPart, AgentTypes, Handed, c
<1>8. Announced'
  BY <1>2, <1>4, AgentItems DEF RInv, AgentPart, AgentTypes, Announced, AgentKinds
<1>9. Unread' /\ Answered'
  BY <1>2, <1>4, <1>5 DEF RInv, AgentPart, Unread, Answered
<1>10. ClientPart'
  BY <1>4, ClientPartKept DEF RInv
<1>11. StreamPart'
  <2>1. CASE c \notin StreamConns
    <3>1. \A m : m.kind \in Streams => (m \in AtAgent' <=> m \in AtAgent)
      BY <1>1, <1>2 DEF Streams
    <3>2. SameStreams
      BY <2>1, <3>1, <1>4, <1>5 DEF SameStreams
    <3> QED BY <1>4, <3>2, StreamPartKept DEF RInv
  <2>2. CASE c \in StreamConns
    <3>1. /\ Unasked' /\ Shape' /\ Over' /\ OnTheWay'
      BY <1>1, <1>2, <1>4, <1>5
         DEF RInv, StreamPart, Unasked, Shape, ShapeOf, Over, Ended, Ending, OnTheWay,
             clientVars, AtClient
    <3>2. upSent[c] = 0
      <4>1. upSock[c] = "none"
        BY <2>2, <1>3, PiecesArePositive DEF RInv, StreamPart, Unasked
      <4>2. c \in Requests
        BY <2>2 DEF Requests, Client!Requests
      <4> QED BY <4>1, <4>2 DEF RInv, ClientPart, Made
    <3>3. \A d \in AtClient : d.fd # c
      BY <2>2, <1>3, PiecesArePositive DEF RInv, StreamPart, Unasked
    <3>4. ASSUME NEW b \in StreamConns \cap mapClient'
          PROVE  Later(b)' /\ \A k \in 1 .. upSent'[b] : ~Missing(b, k)'
      <4>1. CASE b = c
        BY <4>1, <1>2, <1>4, <3>2, <3>3 DEF Later, clientVars, AtClient
      <4>2. CASE b # c
        <5>1. b \in mapClient
          BY <4>2, <1>4
        <5>2. Later(b) /\ \A k \in 1 .. upSent[b] : ~Missing(b, k)
          BY <5>1 DEF RInv, StreamPart, NoneMissing
        <5>3. Later(b)'
          BY <5>2, <1>2, <1>4 DEF Later, clientVars, AtClient
        <5>4. ASSUME NEW k \in 1 .. upSent[b]  PROVE ~Missing(b, k)'
          <6>1. Agent!Msg("streamData", b, k) # h
            BY <4>2 DEF Agent!Msg, c
          <6> QED BY <5>2, <6>1, <1>2, <1>4 DEF Missing, AtClient
        <5> QED BY <5>3, <5>4 DEF clientVars
      <4> QED BY <4>1, <4>2
    <3>5. NoneMissing'
      BY <3>4 DEF NoneMissing
    <3> QED BY <3>1, <3>5 DEF StreamPart
  <2> QED BY <2>1, <2>2
<1> QED BY <1>2, <1>6, <1>7, <1>8, <1>9, <1>10, <1>11 DEF RInv, AgentPart

LEMMA SendStep ==
  ASSUME RInv, Agent!HandleSend, UNCHANGED clientVars
  PROVE  RInv'
<1> DEFINE h == Head(agentInbox)
           c == h.fd
<1>1. AgentTook(h) /\ h.kind = "send"
  BY AgentTakes DEF Agent!HandleSend, RInv, AgentPart
<1>2. c \in PageConns /\ c \in Conns /\ h \in AtAgent /\ AgentBox'
      /\ AtAgent = AtAgent' \cup {h}
  BY <1>1 DEF AgentTook, AgentKinds
<1>3. parsed[c] = RequestPieces
  BY <1>1, <1>2 DEF RInv, AgentPart, Unread
<1>4. /\ UNCHANGED <<mapClient, parsed, clientInbox, owed, failed, downSock, downSent>>
      /\ \/ UNCHANGED <<isSendData, written>>
         \/ UNCHANGED written /\ isSendData[c]
            /\ isSendData' = [isSendData EXCEPT ![c] = TRUE]
         \/ /\ ~isSendData[c]
            /\ isSendData' = [isSendData EXCEPT ![c] = TRUE]
            /\ written' = [written EXCEPT ![c] = Append(@, Agent!Item("response", 0))]
  BY DEF Agent!HandleSend, Agent!OnSendResponse, Agent!Taken, Agent!SendResponse,
         Agent!Write, Agent!downVars
<1> HIDE DEF c, h
<1>5. /\ isSendData' \in [Conns -> BOOLEAN] /\ written' \in [Conns -> Seq(Written)]
      /\ \A b \in Conns \ {c} : written'[b] = written[b] /\ isSendData'[b] = isSendData[b]
      /\ written'[c] = IF isSendData'[c] THEN <<Agent!Item("response", 0)>> ELSE <<>>
  <2>1. isSendData \in [Conns -> BOOLEAN] /\ written \in [Conns -> Seq(Written)]
    BY DEF RInv, AgentPart, AgentTypes
  <2>2. written[c] = IF isSendData[c] THEN <<Agent!Item("response", 0)>> ELSE <<>>
    BY <1>2 DEF RInv, AgentPart, Answered
  <2>3. Agent!Item("response", 0) \in Written
    BY DEF Agent!Item, Written
  <2>4. CASE UNCHANGED <<isSendData, written>>
    BY <2>1, <2>2, <2>4
  <2>5. CASE UNCHANGED written /\ isSendData[c]
             /\ isSendData' = [isSendData EXCEPT ![c] = TRUE]
    BY <2>1, <2>2, <2>5, <1>2
  <2>6. CASE /\ ~isSendData[c]
             /\ isSendData' = [isSendData EXCEPT ![c] = TRUE]
             /\ written' = [written EXCEPT ![c] = Append(@, Agent!Item("response", 0))]
    <3>1. written[c] = <<>>
      BY <2>2, <2>6
    <3>2. Append(<<>>, Agent!Item("response", 0)) = <<Agent!Item("response", 0)>>
      OBVIOUS
    <3> QED BY <2>1, <2>3, <2>6, <3>1, <3>2, <1>2
  <2> QED BY <1>4, <2>4, <2>5, <2>6
<1>6. AgentTypes'
  BY <1>4, <1>5 DEF RInv, AgentPart, AgentTypes
<1>7. Handed'
  BY <1>1, <1>2, <1>4 DEF RInv, AgentPart, Handed
<1>8. Announced'
  BY <1>2, <1>4 DEF RInv, AgentPart, Announced
<1>9. Unread' /\ Answered'
  BY <1>2, <1>3, <1>4, <1>5 DEF RInv, AgentPart, Unread, Answered, Conns
<1>10. ClientPart'
  BY <1>4, ClientPartKept DEF RInv
<1>11. StreamPart'
  <2>1. \A m : m.kind \in Streams => (m \in AtAgent' <=> m \in AtAgent)
    BY <1>1, <1>2 DEF Streams
  <2>2. SameStreams
    BY <2>1, <1>2, <1>4, <1>5, ConnsDiffer DEF SameStreams, Conns
  <2> QED BY <1>4, <2>2, StreamPartKept DEF RInv
<1> QED BY <1>2, <1>6, <1>7, <1>8, <1>9, <1>10, <1>11 DEF RInv, AgentPart

LEMMA OpenStep ==
  ASSUME RInv, Agent!HandleOpen, UNCHANGED clientVars
  PROVE  RInv'
<1> DEFINE h == Head(agentInbox)
           c == h.fd
<1>1. AgentTook(h) /\ h.kind = "open"
  BY AgentTakes DEF Agent!HandleOpen, RInv, AgentPart
<1>2. c \in Conns /\ h \in AtAgent /\ AgentBox' /\ AtAgent = AtAgent' \cup {h}
  BY <1>1 DEF AgentTook, AgentKinds
<1>3. c \in mapClient
  BY <1>1, <1>2 DEF RInv, AgentPart, Announced, Events
<1>4. UNCHANGED <<mapClient, parsed, isSendData, clientInbox, owed, written, failed,
                  downSock, downSent>>
  BY <1>3 DEF Agent!HandleOpen, Agent!OnSocketOpen, Agent!Taken, Agent!entryVars,
              Agent!workVars, Agent!downVars
<1> HIDE DEF c, h
<1>5. AgentTypes' /\ Handed' /\ Announced' /\ Unread' /\ Answered'
  BY <1>1, <1>2, <1>4
     DEF RInv, AgentPart, AgentTypes, Handed, Announced, Unread, Answered
<1>6. ClientPart'
  BY <1>4, ClientPartKept DEF RInv
<1>7. StreamPart'
  BY <1>1, <1>2, <1>4, StreamPartKept DEF RInv, SameStreams, Streams
<1> QED BY <1>2, <1>5, <1>6, <1>7 DEF RInv, AgentPart

LEMMA EndStep ==
  ASSUME RInv, Agent!HandleEnd, UNCHANGED clientVars
  PROVE  RInv'
<1> DEFINE h == Head(agentInbox)
           c == h.fd
<1>1. AgentTook(h) /\ h.kind = "end"
  BY AgentTakes DEF Agent!HandleEnd, RInv, AgentPart
<1>2. c \in Conns /\ h \in AtAgent /\ AgentBox' /\ AtAgent = AtAgent' \cup {h}
      /\ \A x \in AtAgent' : x.fd = c => x.kind \notin Events
  BY <1>1 DEF AgentTook, AgentKinds, AgentAfter
<1>3. downSock[c] = "closed"
  BY <1>1, <1>2 DEF RInv, AgentPart, Announced
<1>4. mapClient' = mapClient \ {c}
      /\ UNCHANGED <<parsed, isSendData, clientInbox, owed, written, failed,
                     downSock, downSent>>
  BY DEF Agent!HandleEnd, Agent!OnSocketEnd, Agent!Taken, Agent!workVars,
         Agent!downVars
<1> HIDE DEF c, h
<1>5. AgentTypes'
  BY <1>4 DEF RInv, AgentPart, AgentTypes
<1>6. Handed'
  BY <1>2, <1>3, <1>4 DEF RInv, AgentPart, Handed, c
<1>7. Announced'
  BY <1>2, <1>4 DEF RInv, AgentPart, Announced
<1>8. Unread' /\ Answered'
  BY <1>2, <1>4 DEF RInv, AgentPart, Unread, Answered
<1>9. ClientPart'
  BY <1>4, ClientPartKept DEF RInv
<1>10. StreamPart'
  BY <1>1, <1>2, <1>4, StreamPartKept DEF RInv, SameStreams, Streams
<1> QED BY <1>2, <1>5, <1>6, <1>7, <1>8, <1>9, <1>10 DEF RInv, AgentPart

(* A message of a stream is taken, whatever is written then.               *)
StreamTaken(h) ==
  /\ AgentTook(h) /\ h.kind \in Streams
  /\ UNCHANGED <<mapClient, parsed, isSendData, clientInbox, owed, downSock, downSent>>
  /\ failed' \in {failed, failed \cup {"stream without client"}}
  /\ written' \in [Conns -> Seq(Written)]
  /\ \A b \in Conns \ {h.fd} : written'[b] = written[b]
LEMMA StreamTakenAgent ==
  ASSUME RInv, NEW h, StreamTaken(h)  PROVE AgentPart' /\ parsed[h.fd] = RequestPieces
<1> DEFINE c == h.fd
<1>1. c \in StreamConns /\ c \in Conns /\ h \in AtAgent /\ AgentBox'
      /\ AtAgent = AtAgent' \cup {h}
  BY DEF StreamTaken, AgentTook, AgentKinds
<1>2. parsed[c] = RequestPieces
  BY <1>1, NoMessages DEF StreamTaken, Streams, Events
<1>3. AgentTypes'
  BY DEF RInv, AgentPart, AgentTypes, StreamTaken
<1>4. Handed' /\ Announced'
  BY <1>1 DEF RInv, AgentPart, Handed, Announced, StreamTaken, Streams
<1>5. Unread' /\ Answered'
  BY <1>1, <1>2, ConnsDiffer DEF RInv, AgentPart, Unread, Answered, StreamTaken, Conns
<1> QED BY <1>1, <1>2, <1>3, <1>4, <1>5 DEF AgentPart

LEMMA StreamTakenStreams ==
  ASSUME RInv, NEW h, StreamTaken(h), UNCHANGED clientVars,
         ShapeOf(written'[h.fd], upSent[h.fd]),
         Ended(h.fd)' => Ending(h.fd) \/ Ended(h.fd),
         Ended(h.fd)' => \A m \in AtAgent' : m.fd = h.fd => m.kind \notin Streams,
         h.fd \in mapClient =>
           Later(h.fd)' /\ \A k \in 1 .. upSent[h.fd] : ~Missing(h.fd, k)'
  PROVE  RInv'
<1> DEFINE c == h.fd
<1>1. c \in StreamConns /\ h \in AtAgent /\ AtAgent = AtAgent' \cup {h}
  BY DEF StreamTaken, AgentTook, AgentKinds
<1>2. /\ UNCHANGED <<clientInbox, upSock, upSent, answered, mapFdToClient, mapClient,
                     parsed>>
      /\ AtClient' = AtClient
      /\ \A b \in StreamConns : b # c => written'[b] = written[b]
  BY DEF clientVars, StreamTaken, AtClient, Conns
<1>3. AgentPart'
  BY StreamTakenAgent
<1>4. ClientPart'
  BY <1>2, ClientPartKept DEF RInv
<1>5. Unasked' /\ OnTheWay'
  BY <1>1, <1>2 DEF RInv, StreamPart, Unasked, OnTheWay
<1>6. Shape'
  BY <1>2 DEF RInv, StreamPart, Shape, ShapeOf
<1>7. Over'
  <2>1. \A b \in StreamConns : Ending(b)' => Ending(b)
    BY <1>1 DEF Ending
  <2>2. \A b \in StreamConns : Ended(b)' => Ending(b) \/ Ended(b)
    BY <1>2 DEF Ended
  <2>3. \A b \in StreamConns : Ended(b)' =>
          \A m \in AtAgent' : m.fd = b => m.kind \notin Streams
    <3> SUFFICES ASSUME NEW b \in StreamConns, b # c, Ended(b)'
                 PROVE  \A m \in AtAgent' : m.fd = b => m.kind \notin Streams
      OBVIOUS
    <3>1. Ended(b)
      BY <1>2 DEF Ended
    <3> QED BY <1>1, <3>1 DEF RInv, StreamPart, Over
  <2> QED BY <2>1, <2>2, <2>3, <1>2 DEF RInv, StreamPart, Over
<1>8. NoneMissing'
  <2> SUFFICES ASSUME NEW b \in StreamConns \cap mapClient
               PROVE  Later(b)' /\ \A k \in 1 .. upSent[b] : ~Missing(b, k)'
    BY <1>2 DEF NoneMissing
  <2>1. CASE b = c
    BY <2>1
  <2>2. CASE b # c
    <3>1. Later(b) /\ \A k \in 1 .. upSent[b] : ~Missing(b, k)
      BY DEF RInv, StreamPart, NoneMissing
    <3>2. Later(b)'
      BY <1>1, <1>2, <2>2, <3>1 DEF Later
    <3>3. ASSUME NEW k \in 1 .. upSent[b]  PROVE ~Missing(b, k)'
      <4>1. Agent!Msg("streamData", b, k) # h
        BY <2>2 DEF Agent!Msg
      <4> QED BY <3>1, <4>1, <1>1, <1>2, <2>2 DEF Missing
    <3> QED BY <3>2, <3>3
  <2> QED BY <2>1, <2>2
<1> QED BY <1>3, <1>4, <1>5, <1>6, <1>7, <1>8 DEF RInv, StreamPart

(* What is written grows by an item.                                       *)
LEMMA Grows ==
  ASSUME NEW s \in Seq(Written), NEW x \in Written
  PROVE  /\ Append(s, x) \in Seq(Written) /\ Len(Append(s, x)) = Len(s) + 1
         /\ Len(s) \in Nat /\ Append(s, x)[Len(s) + 1] = x
         /\ \A i \in 1 .. Len(s) : Append(s, x)[i] = s[i]
OBVIOUS
(* A stream that is not ended has only data written to it.                 *)
LEMMA DataOnly ==
  ASSUME RInv, NEW c \in StreamConns, ~Ended(c)
  PROVE  /\ written[c] \in Seq(Written) /\ Len(written[c]) \in Nat
         /\ upSent[c] \in Nat /\ Len(written[c]) <= upSent[c]
         /\ \A i \in 1 .. Len(written[c]) :
              written[c][i] = Agent!Item("data", i) /\ i <= upSent[c]
<1>1. written[c] \in Seq(Written) /\ Len(written[c]) \in Nat
  BY DEF RInv, AgentPart, AgentTypes, Conns
<1>2. upSent[c] \in Nat
  BY PiecesArePositive DEF RInv, ClientPart, ClientTypes, Requests, Client!Requests
<1>3. \A i \in 1 .. Len(written[c]) :
        written[c][i] = Agent!Item("data", i) /\ i <= upSent[c]
  BY DEF RInv, StreamPart, Shape, ShapeOf, Ended
<1>4. Len(written[c]) <= upSent[c]
  BY <1>1, <1>2, <1>3
<1> QED BY <1>1, <1>2, <1>3, <1>4

LEMMA StreamDataStep ==
  ASSUME RInv, Agent!HandleStreamData, UNCHANGED clientVars
  PROVE  RInv'
<1>0. PICK h : h = Head(agentInbox)
  OBVIOUS
<1> DEFINE c == h.fd
           x == Agent!Item("data", h.n)
<1>1. AgentTook(h) /\ h.kind = "streamData"
  BY <1>0, AgentTakes DEF Agent!HandleStreamData, RInv, AgentPart
<1>2. c \in StreamConns /\ c \in Conns /\ h.n \in Nat
      /\ h \in AtAgent /\ AtAgent = AtAgent' \cup {h}
  BY <1>1 DEF AgentTook, AgentKinds, Streams, Conns
<1>3. /\ UNCHANGED <<mapClient, parsed, isSendData, clientInbox, owed, downSock,
                     downSent>>
      /\ \/ /\ c \in mapClient /\ UNCHANGED failed
            /\ written' = [written EXCEPT ![c] = Append(@, x)]
         \/ /\ c \notin mapClient /\ UNCHANGED written
            /\ failed' = failed \cup {"stream without client"}
  BY <1>0 DEF Agent!HandleStreamData, Agent!OnStream, Agent!Taken, Agent!Write,
         Agent!entryVars, Agent!downVars
<1>4. x \in Written /\ x # Agent!Item("end", 0)
  BY <1>2 DEF Agent!Item, Written
<1> HIDE DEF c, x
<1>5. ~Ended(c)
  BY <1>1, <1>2 DEF RInv, StreamPart, Over, Streams, c
<1>6. /\ written[c] \in Seq(Written) /\ Len(written[c]) \in Nat /\ upSent[c] \in Nat
      /\ \A i \in 1 .. Len(written[c]) :
           written[c][i] = Agent!Item("data", i) /\ i <= upSent[c]
  BY <1>2, <1>5, DataOnly
<1>7. StreamTaken(h) /\ written \in [Conns -> Seq(Written)]
  <2>1. written \in [Conns -> Seq(Written)]
    BY DEF RInv, AgentPart, AgentTypes
  <2>2. Append(written[c], x) \in Seq(Written)
    BY <1>4, <1>6, Grows
  <2> QED BY <1>1, <1>2, <1>3, <2>1, <2>2 DEF StreamTaken, Streams, c
<1>8. CASE c \notin mapClient
  <2>1. ShapeOf(written'[c], upSent[c])
    BY <1>2, <1>3, <1>8 DEF RInv, StreamPart, Shape
  <2>2. ~Ended(c)'
    BY <1>3, <1>5, <1>8 DEF Ended
  <2> QED BY <1>7, <1>8, <2>1, <2>2, StreamTakenStreams DEF c
<1>9. CASE c \in mapClient
  <2>1. Later(c) /\ \A k \in 1 .. upSent[c] : ~Missing(c, k)
    BY <1>2, <1>9 DEF RInv, StreamPart, NoneMissing
  <2>2. h.n \in 1 .. upSent[c] /\ Len(written[c]) < h.n
    BY <1>1, <1>2, <2>1 DEF RInv, StreamPart, OnTheWay, Later, c
  <2>3. h.n = Len(written[c]) + 1
    <3> DEFINE k == Len(written[c]) + 1
    <3>1. k \in 1 .. upSent[c] /\ ~(k <= Len(written[c])) /\ k <= h.n
      BY <1>2, <1>6, <2>2
    <3> HIDE DEF k
    <3>2. CASE Agent!Msg("streamData", c, k) \in AtAgent
      <4>1. Agent!Msg("streamData", c, k) \in AtAgent' => h.n < k
        BY <1>1 DEF AgentTook, AgentAfter, Agent!Msg, c
      <4>2. Agent!Msg("streamData", c, k) = h => h.n = k
        BY DEF Agent!Msg
      <4>3. h.n <= k
        BY <3>2, <4>1, <4>2, <1>2, <3>1
      <4> QED BY <4>3, <3>1, <1>2 DEF k
    <3>3. CASE Client!Msg("data", c, k) \in AtClient
      <4>1. h.n < k
        BY <3>3, <1>1, <1>2 DEF RInv, StreamPart, OnTheWay, Client!Msg, c
      <4> QED BY <4>1, <3>1, <1>2
    <3> QED BY <2>1, <3>1, <3>2, <3>3 DEF Missing
  <2>4. /\ written'[c] \in Seq(Written) /\ Len(written'[c]) = h.n
        /\ written'[c][h.n] = x
        /\ \A i \in 1 .. Len(written[c]) : written'[c][i] = written[c][i]
    <3>1. written'[c] = Append(written[c], x)
      BY <1>2, <1>3, <1>7, <1>9
    <3> QED BY <3>1, <1>4, <1>6, <2>3, Grows
  <2>5. \A i \in 1 .. Len(written'[c]) :
          written'[c][i] = Agent!Item("data", i) /\ i <= upSent[c]
    <3> SUFFICES ASSUME NEW i \in 1 .. Len(written'[c])
                 PROVE  written'[c][i] = Agent!Item("data", i) /\ i <= upSent[c]
      OBVIOUS
    <3>1. CASE i = h.n
      BY <3>1, <2>2, <2>4, <1>6 DEF x
    <3>2. CASE i # h.n
      <4>1. i \in 1 .. Len(written[c])
        BY <3>2, <2>3, <2>4, <1>6
      <4> QED BY <4>1, <2>4, <1>6
    <3> QED BY <3>1, <3>2
  <2>6. ShapeOf(written'[c], upSent[c])
    BY <2>5 DEF ShapeOf
  <2>7. ~Ended(c)'
    <3>1. \A i : Agent!Item("data", i) # Agent!Item("end", 0)
      BY DEF Agent!Item
    <3> QED BY <2>5, <3>1 DEF Ended
  <2>8. Later(c)'
    <3>1. \A m \in AtAgent' : m.fd = c /\ m.kind = "streamData" => h.n < m.n
      BY <1>1 DEF AgentTook, AgentAfter, c
    <3>2. \A d \in AtClient : d.fd = c /\ d.kind = "data" => h.n < d.n
      BY <1>1, <1>2 DEF RInv, StreamPart, OnTheWay, c
    <3> QED BY <2>4, <3>1, <3>2, <1>3 DEF Later, AtClient
  <2>9. ASSUME NEW k \in 1 .. upSent[c]  PROVE ~Missing(c, k)'
    <3>1. CASE k <= Len(written[c])
      <4>1. k <= Len(written'[c])
        BY <3>1, <2>3, <2>4, <1>6
      <4> QED BY <4>1 DEF Missing
    <3>2. CASE Agent!Msg("streamData", c, k) \in AtAgent
      <4>1. Agent!Msg("streamData", c, k) = h => k <= Len(written'[c])
        BY <2>4 DEF Agent!Msg
      <4> QED BY <3>2, <4>1, <1>2 DEF Missing
    <3>3. CASE Client!Msg("data", c, k) \in AtClient
      BY <3>3, <1>3 DEF Missing, AtClient
    <3> QED BY <2>1, <3>1, <3>2, <3>3 DEF Missing
  <2> QED BY <1>7, <2>6, <2>7, <2>8, <2>9, StreamTakenStreams DEF c
<1> QED BY <1>8, <1>9

LEMMA StreamEndStep ==
  ASSUME RInv, Agent!HandleStreamEnd, UNCHANGED clientVars
  PROVE  RInv'
<1>0. PICK h : h = Head(agentInbox)
  OBVIOUS
<1> DEFINE c == h.fd
           x == Agent!Item("end", 0)
<1>1. AgentTook(h) /\ h.kind = "streamEnd"
  BY <1>0, AgentTakes DEF Agent!HandleStreamEnd, RInv, AgentPart
<1>2. c \in StreamConns /\ c \in Conns
      /\ h \in AtAgent /\ AtAgent = AtAgent' \cup {h}
      /\ \A m \in AtAgent' : m.fd = c => m.kind \notin Streams
  BY <1>1 DEF AgentTook, AgentKinds, AgentAfter, Streams, Conns
<1>3. /\ UNCHANGED <<mapClient, parsed, isSendData, clientInbox, owed, downSock,
                     downSent>>
      /\ \/ /\ c \in mapClient /\ UNCHANGED failed
            /\ written' = [written EXCEPT ![c] = Append(@, x)]
         \/ /\ c \notin mapClient /\ UNCHANGED written
            /\ failed' = failed \cup {"stream without client"}
  BY <1>0 DEF Agent!HandleStreamEnd, Agent!OnStream, Agent!Taken, Agent!Write,
         Agent!entryVars, Agent!downVars
<1>4. x \in Written
  BY DEF Agent!Item, Written
<1> HIDE DEF c, x
<1>5. ~Ended(c) /\ Ending(c)
  BY <1>1, <1>2 DEF RInv, StreamPart, Over, Streams, Ending, c
<1>6. /\ written[c] \in Seq(Written) /\ Len(written[c]) \in Nat /\ upSent[c] \in Nat
      /\ Len(written[c]) <= upSent[c]
      /\ \A i \in 1 .. Len(written[c]) :
           written[c][i] = Agent!Item("data", i) /\ i <= upSent[c]
  BY <1>2, <1>5, DataOnly
<1>7. StreamTaken(h) /\ written \in [Conns -> Seq(Written)]
  <2>1. written \in [Conns -> Seq(Written)]
    BY DEF RInv, AgentPart, AgentTypes
  <2>2. Append(written[c], x) \in Seq(Written)
    BY <1>4, <1>6, Grows
  <2> QED BY <1>1, <1>2, <1>3, <2>1, <2>2 DEF StreamTaken, Streams, c
<1>8. CASE c \notin mapClient
  <2>1. ShapeOf(written'[c], upSent[c])
    BY <1>2, <1>3, <1>8 DEF RInv, StreamPart, Shape
  <2> QED BY <1>2, <1>5, <1>7, <1>8, <2>1, StreamTakenStreams DEF c
<1>9. CASE c \in mapClient
  <2>1. Later(c) /\ \A k \in 1 .. upSent[c] : ~Missing(c, k)
    BY <1>2, <1>9 DEF RInv, StreamPart, NoneMissing
  <2>2. \A d \in AtClient : ~(d.fd = c /\ d.kind = "data")
    <3>1. c \notin mapFdToClient
      BY <1>2, <1>5 DEF RInv, StreamPart, Over
    <3> QED BY <3>1 DEF RInv, ClientPart, Reported
  <2>3. \A k \in 1 .. upSent[c] : k <= Len(written[c])
    <3> SUFFICES ASSUME NEW k \in 1 .. upSent[c]  PROVE k <= Len(written[c])
      OBVIOUS
    <3>1. Agent!Msg("streamData", c, k) \notin AtAgent
      BY <1>1, <1>2 DEF Agent!Msg, Streams
    <3>2. Client!Msg("data", c, k) \notin AtClient
      BY <2>2 DEF Client!Msg
    <3> QED BY <2>1, <3>1, <3>2 DEF Missing
  <2>4. Len(written[c]) = upSent[c]
    BY <2>3, <1>6
  <2>5. /\ Len(written'[c]) = upSent[c] + 1 /\ written'[c][upSent[c] + 1] = x
        /\ \A i \in 1 .. upSent[c] : written'[c][i] = written[c][i]
    <3>1. written'[c] = Append(written[c], x)
      BY <1>2, <1>3, <1>7, <1>9
    <3> QED BY <3>1, <1>4, <1>6, <2>4, Grows
  <2>6. ShapeOf(written'[c], upSent[c])
    <3> SUFFICES ASSUME NEW i \in 1 .. Len(written'[c])
                 PROVE  \/ written'[c][i] = Agent!Item("data", i) /\ i <= upSent[c]
                        \/ /\ written'[c][i] = Agent!Item("end", 0)
                           /\ i = Len(written'[c]) /\ i = upSent[c] + 1
      BY DEF ShapeOf
    <3>1. CASE i = upSent[c] + 1
      BY <3>1, <2>5 DEF x
    <3>2. CASE i # upSent[c] + 1
      <4>1. i \in 1 .. upSent[c]
        BY <3>2, <2>5, <1>6
      <4> QED BY <4>1, <2>4, <2>5, <1>6
    <3> QED BY <3>1, <3>2
  <2>7. Later(c)'
    <3>1. \A m \in AtAgent' : ~(m.fd = c /\ m.kind = "streamData")
      BY <1>2 DEF Streams
    <3> QED BY <3>1, <2>2, <1>3 DEF Later, AtClient
  <2>8. ASSUME NEW k \in 1 .. upSent[c]  PROVE ~Missing(c, k)'
    <3>1. k <= Len(written'[c])
      BY <2>5, <1>6
    <3> QED BY <3>1 DEF Missing
  <2> QED BY <1>2, <1>5, <1>7, <2>6, <2>7, <2>8, StreamTakenStreams DEF c
<1> QED BY <1>8, <1>9

(* The four things that a read of the agent can do.                        *)
LEMMA DataCases ==
  ASSUME RInv, Agent!HandleData
  PROVE  LET c == Head(agentInbox).fd IN
         /\ c \in mapClient /\ UNCHANGED <<mapClient, failed, downSock, downSent>>
         /\ \/ UNCHANGED <<parsed, isSendData, clientInbox, owed, written>>
            \/ /\ parsed[c] # RequestPieces
               /\ parsed' = [parsed EXCEPT ![c] = @ + 1] /\ parsed'[c] # RequestPieces
               /\ UNCHANGED <<isSendData, clientInbox, owed, written>>
            \/ /\ parsed[c] # RequestPieces
               /\ parsed' = [parsed EXCEPT ![c] = @ + 1] /\ parsed'[c] = RequestPieces
               /\ c \in StreamConns
               /\ clientInbox' = Append(clientInbox, Agent!Msg("request", c, 0))
               /\ isSendData' = [isSendData EXCEPT ![c] = FALSE]
               /\ UNCHANGED <<owed, written>>
            \/ /\ parsed[c] # RequestPieces
               /\ parsed' = [parsed EXCEPT ![c] = @ + 1] /\ parsed'[c] = RequestPieces
               /\ c \in PageConns
               /\ owed' \in {owed, owed \cup {c}}
               /\ \/ /\ isSendData' = [isSendData EXCEPT ![c] = TRUE]
                     /\ written' = [written EXCEPT ![c] =
                                      Append(@, Agent!Item("response", 0))]
                  \/ isSendData' = [isSendData EXCEPT ![c] = FALSE] /\ UNCHANGED written
               /\ UNCHANGED clientInbox
<1> DEFINE h == Head(agentInbox)
           c == h.fd
<1>1. AgentTook(h) /\ h.kind = "data" /\ Agent!OnSocketData(c)
  BY AgentTakes DEF Agent!HandleData, RInv, AgentPart, Agent!Taken
<1>2. c \in Conns /\ c \in mapClient
  BY <1>1 DEF AgentTook, AgentKinds, RInv, AgentPart, Announced, Events
<1> HIDE DEF h
<1>3. /\ UNCHANGED <<mapClient, failed, downSock, downSent>>
      /\ \/ UNCHANGED <<parsed, isSendData, clientInbox, owed, written>>
         \/ /\ parsed[c] # RequestPieces
            /\ parsed' = [parsed EXCEPT ![c] = @ + 1]
            /\ \/ /\ parsed'[c] # RequestPieces
                  /\ UNCHANGED <<isSendData, clientInbox, owed, written>>
               \/ parsed'[c] = RequestPieces /\ Agent!Processing(c)
  BY <1>1, <1>2 DEF Agent!OnSocketData, Agent!IsFinish, Agent!downVars
<1>4. ASSUME Agent!Processing(c), c \notin StreamConns
      PROVE  /\ c \in PageConns /\ owed' \in {owed, owed \cup {c}}
             /\ \/ /\ isSendData' = [isSendData EXCEPT ![c] = TRUE]
                   /\ written' = [written EXCEPT ![c] =
                                    Append(@, Agent!Item("response", 0))]
                \/ isSendData' = [isSendData EXCEPT ![c] = FALSE] /\ UNCHANGED written
             /\ UNCHANGED clientInbox
  BY <1>4 DEF Agent!Processing, Agent!SendResponse, Agent!Write
<1>5. ASSUME Agent!Processing(c), c \in StreamConns
      PROVE  /\ clientInbox' = Append(clientInbox, Agent!Msg("request", c, 0))
             /\ isSendData' = [isSendData EXCEPT ![c] = FALSE]
             /\ UNCHANGED <<owed, written>>
  BY <1>5, ConnsDiffer DEF Agent!Processing
<1> QED BY <1>2, <1>3, <1>4, <1>5 DEF h

LEMMA DataStep ==
  ASSUME RInv, Agent!HandleData, UNCHANGED clientVars
  PROVE  RInv'
<1>0. PICK h : h = Head(agentInbox)
  OBVIOUS
<1> DEFINE c == h.fd
           x == Agent!Item("response", 0)
           m == Agent!Msg("request", c, 0)
<1>1. AgentTook(h) /\ h.kind = "data"
  BY <1>0, AgentTakes DEF Agent!HandleData, RInv, AgentPart
<1>2. c \in Conns /\ h \in AtAgent /\ AgentBox' /\ AtAgent = AtAgent' \cup {h}
  BY <1>1 DEF AgentTook, AgentKinds
<1>3. /\ c \in mapClient /\ UNCHANGED <<mapClient, failed, downSock, downSent>>
      /\ \/ UNCHANGED <<parsed, isSendData, clientInbox, owed, written>>
         \/ /\ parsed[c] # RequestPieces
            /\ parsed' = [parsed EXCEPT ![c] = @ + 1] /\ parsed'[c] # RequestPieces
            /\ UNCHANGED <<isSendData, clientInbox, owed, written>>
         \/ /\ parsed[c] # RequestPieces
            /\ parsed' = [parsed EXCEPT ![c] = @ + 1] /\ parsed'[c] = RequestPieces
            /\ c \in StreamConns
            /\ clientInbox' = Append(clientInbox, m)
            /\ isSendData' = [isSendData EXCEPT ![c] = FALSE]
            /\ UNCHANGED <<owed, written>>
         \/ /\ parsed[c] # RequestPieces
            /\ parsed' = [parsed EXCEPT ![c] = @ + 1] /\ parsed'[c] = RequestPieces
            /\ c \in PageConns
            /\ owed' \in {owed, owed \cup {c}}
            /\ \/ /\ isSendData' = [isSendData EXCEPT ![c] = TRUE]
                  /\ written' = [written EXCEPT ![c] = Append(@, x)]
               \/ isSendData' = [isSendData EXCEPT ![c] = FALSE] /\ UNCHANGED written
            /\ UNCHANGED clientInbox
  BY <1>0, DataCases
<1>4. x \in Written /\ Append(<<>>, x) = <<x>>
  BY DEF Agent!Item, Written
<1>5. m.kind = "request" /\ m.fd = c /\ (c \in StreamConns => m \in ClientMessage)
  BY DEF Agent!Msg, ClientMessage, Requests, Client!Requests
<1> HIDE DEF c, x, m
<1>6. parsed \in [Conns -> 0 .. RequestPieces] /\ RequestPieces \in Nat \ {0}
      /\ written \in [Conns -> Seq(Written)] /\ isSendData \in [Conns -> BOOLEAN]
  BY PiecesArePositive DEF RInv, AgentPart, AgentTypes
<1>7. /\ parsed' \in [Conns -> 0 .. RequestPieces]
      /\ \A b \in Conns : b # c => parsed'[b] = parsed[b]
      /\ parsed[c] # RequestPieces \/ parsed' = parsed
  <2>1. CASE UNCHANGED parsed
    BY <2>1, <1>6
  <2>2. CASE parsed[c] # RequestPieces /\ parsed' = [parsed EXCEPT ![c] = @ + 1]
    <3>1. parsed[c] + 1 \in 0 .. RequestPieces
      BY <2>2, <1>2, <1>6
    <3> QED BY <2>2, <3>1, <1>2, <1>6
  <2> QED BY <1>3, <2>1, <2>2
<1>8. parsed[c] # RequestPieces => written[c] = <<>> /\ isSendData[c] = FALSE
  BY <1>2, <1>6 DEF RInv, AgentPart, Unread
<1>9. /\ written' \in [Conns -> Seq(Written)] /\ isSendData' \in [Conns -> BOOLEAN]
      /\ \A b \in Conns : b # c => written'[b] = written[b] /\ isSendData'[b] = isSendData[b]
      /\ c \in StreamConns => written'[c] = written[c]
      /\ parsed'[c] # RequestPieces => UNCHANGED <<written, isSendData>>
      /\ \/ written'[c] = <<x>> /\ isSendData'[c] = TRUE
         \/ written'[c] = written[c] /\ isSendData'[c] = isSendData[c]
  <2>1. CASE UNCHANGED <<isSendData, written>>
    BY <2>1, <1>6
  <2>2. CASE /\ parsed[c] # RequestPieces /\ parsed'[c] = RequestPieces
             /\ isSendData' = [isSendData EXCEPT ![c] = FALSE] /\ UNCHANGED written
    BY <2>2, <1>2, <1>6, <1>8
  <2>3. CASE /\ parsed[c] # RequestPieces /\ parsed'[c] = RequestPieces
             /\ c \in PageConns /\ isSendData' = [isSendData EXCEPT ![c] = TRUE]
             /\ written' = [written EXCEPT ![c] = Append(@, x)]
    <3>1. Append(written[c], x) = <<x>> /\ <<x>> \in Seq(Written)
      <4>1. written[c] = <<>>
        BY <2>3, <1>8
      <4>2. Append(written[c], x) = <<x>>
        BY <4>1, <1>4
      <4>3. <<x>> \in Seq(Written)
        BY <1>4
      <4> QED BY <4>2, <4>3
    <3>2. written'[c] = <<x>> /\ written' \in [Conns -> Seq(Written)]
          /\ \A b \in Conns : b # c => written'[b] = written[b]
      BY <2>3, <3>1, <1>2, <1>6
    <3>3. isSendData'[c] = TRUE /\ isSendData' \in [Conns -> BOOLEAN]
          /\ \A b \in Conns : b # c => isSendData'[b] = isSendData[b]
      BY <2>3, <1>2, <1>6
    <3> QED BY <2>3, <3>2, <3>3, ConnsDiffer
  <2> QED BY <1>3, <2>1, <2>2, <2>3
<1>10. AgentTypes'
  BY <1>3, <1>7, <1>9 DEF RInv, AgentPart, AgentTypes
<1>11. Handed' /\ Announced'
  BY <1>1, <1>2, <1>3, <1>7 DEF RInv, AgentPart, Handed, Announced
<1>12. Unread'
  <2> SUFFICES ASSUME NEW b \in Conns, parsed'[b] # RequestPieces
               PROVE  /\ written'[b] = <<>> /\ ~isSendData'[b] /\ b \notin owed'
                      /\ \A y \in AtAgent' : y.fd = b => y.kind # "send"
    BY DEF Unread
  <2>1. parsed[b] # RequestPieces
    BY <1>7
  <2>2. written[b] = <<>> /\ ~isSendData[b] /\ b \notin owed
        /\ \A y \in AtAgent : y.fd = b => y.kind # "send"
    BY <2>1 DEF RInv, AgentPart, Unread
  <2>3. b \notin owed'
    BY <2>2, <1>3
  <2> QED BY <2>2, <2>3, <1>2, <1>9
<1>13. Answered'
  <2> SUFFICES ASSUME NEW b \in PageConns
               PROVE  written'[b] = IF isSendData'[b] THEN <<x>> ELSE <<>>
    BY DEF Answered, x
  <2>1. written[b] = IF isSendData[b] THEN <<x>> ELSE <<>>
    BY DEF RInv, AgentPart, Answered, x
  <2> QED BY <2>1, <1>9 DEF Conns
<1>14. \/ UNCHANGED clientInbox
       \/ /\ c \in StreamConns /\ parsed[c] # RequestPieces
          /\ parsed'[c] = RequestPieces /\ clientInbox' = Append(clientInbox, m)
  BY <1>3
<1>15. CASE UNCHANGED clientInbox
  <2>1. ClientPart'
    BY <1>15, ClientPartKept DEF RInv
  <2>2. AtClient' = AtClient /\ UNCHANGED <<upSock, upSent, answered, mapFdToClient>>
    BY <1>15 DEF AtClient, clientVars
  <2>3. StreamsGoOn
    BY <1>1, <1>2, <1>3, <1>9, <2>2 DEF StreamsGoOn, Streams, Conns
  <2>4. Shape' /\ Over' /\ OnTheWay' /\ NoneMissing'
    BY <2>3, StreamsKept DEF RInv, AgentPart
  <2>5. Unasked'
    BY <1>7, <2>2 DEF RInv, StreamPart, Unasked, Conns
  <2> QED BY <1>2, <1>10, <1>11, <1>12, <1>13, <2>1, <2>4, <2>5
          DEF RInv, AgentPart, StreamPart
<1>16. CASE /\ c \in StreamConns /\ parsed[c] # RequestPieces
            /\ parsed'[c] = RequestPieces /\ clientInbox' = Append(clientInbox, m)
  <2>1. upSock[c] = "none" /\ answered[c] = 0 /\ \A d \in AtClient : d.fd # c
    BY <1>16 DEF RInv, StreamPart, Unasked
  <2>2. ClientBox' /\ AtClient' = AtClient \cup {m}
    BY <1>5, <1>16, <2>1, ClientPosts DEF RInv, ClientPart, ClientAfter, ClientGets
  <2>3. UNCHANGED <<upSock, upSent, answered, mapFdToClient, isClosed, rep, author,
                    isSleep>>
    BY DEF clientVars
  <2>4. ClientTypes' /\ Made'
    BY <2>2, <2>3 DEF RInv, ClientPart, ClientTypes, Made
  <2>5. Reported' /\ Untold'
    <3>1. c \notin Own
      BY <1>16, RequestsDiffer DEF Own, Client!Own
    <3> QED BY <1>5, <2>1, <2>2, <2>3, <3>1
            DEF RInv, ClientPart, Reported, Untold, Ends
  <2>6. StreamsGoOn
    BY <1>1, <1>2, <1>3, <1>5, <1>9, <2>2, <2>3 DEF StreamsGoOn, Streams, Conns
  <2>7. Shape' /\ Over' /\ OnTheWay' /\ NoneMissing'
    BY <2>6, StreamsKept DEF RInv, AgentPart
  <2>8. Unasked'
    BY <1>5, <1>7, <1>16, <2>2, <2>3 DEF RInv, StreamPart, Unasked, Conns
  <2> QED BY <1>2, <1>10, <1>11, <1>12, <1>13, <2>2, <2>4, <2>5, <2>7, <2>8
          DEF RInv, AgentPart, ClientPart, StreamPart
<1> QED BY <1>14, <1>15, <1>16

(* Every step of the agent's side.                                         *)
LEMMA AgentStep == ASSUME RInv, AgentSteps  PROVE RInv'
<1>1. CASE Agent!AgentThread
  BY <1>1, NoticeStep, SendStep, StreamDataStep, StreamEndStep, OpenStep, DataStep,
     EndStep DEF AgentSteps, Agent!AgentThread
<1>2. CASE Agent!Others
  <2>1. PICK c \in Conns : \/ Agent!OnSocketAccept(c) \/ Agent!RepSend(c)
                           \/ Agent!DownOpens(c) \/ Agent!DownSends(c)
                           \/ Agent!DownEnds(c)
    BY <1>2 DEF Agent!Others, Agent!Conns, Conns
  <2> QED BY <2>1, AcceptStep, RepSendStep, DownOpensStep, DownSendsStep, DownEndsStep
          DEF AgentSteps
<1> QED BY <1>1, <1>2 DEF AgentSteps, Agent!Next

-----------------------------------------------------------------------------
(* The client's side, and what its steps leave alone.                      *)

LEMMA AgentPartKept ==
  ASSUME RInv, UNCHANGED agentVars, AgentBox', AtAgent \subseteq AtAgent',
         \A m \in AtAgent' : m \in AtAgent \/ m.kind \in Streams
  PROVE  AgentPart'
<1>1. UNCHANGED <<mapClient, parsed, isSendData, owed, written, failed, downSock,
                  downSent>>
  BY DEF agentVars
<1>2. AgentTypes' /\ Handed' /\ Answered'
  BY <1>1 DEF RInv, AgentPart, AgentTypes, Handed, Answered
<1>3. Announced' /\ Unread'
  BY <1>1 DEF RInv, AgentPart, Announced, Unread, Events, Streams
<1> QED BY <1>2, <1>3 DEF AgentPart

(* A step that is about one request only.                                  *)
About(q) ==
  /\ \A d : d.fd # q => (d \in AtClient' <=> d \in AtClient)
  /\ \A b \in Requests \ {q} :
       /\ upSock'[b] = upSock[b] /\ upSent'[b] = upSent[b]
       /\ answered'[b] = answered[b]
       /\ b \in mapFdToClient' <=> b \in mapFdToClient
(* About an author's own request, or about the connection of a stream that *)
(* only makes progress.                                                    *)
LEMMA OtherStreams ==
  ASSUME RInv, NEW q \in Requests, About(q), UNCHANGED agentVars,
         UNCHANGED agentInbox,
         q \in StreamConns =>
           /\ parsed[q] = RequestPieces /\ upSent'[q] = upSent[q]
           /\ \A d : d.kind = "data" => (d \in AtClient' <=> d \in AtClient)
           /\ upSock[q] # "none" => upSock'[q] # "none"
           /\ upSock[q] # "closed" \/ upSock'[q] = "closed"
           /\ q \notin mapFdToClient /\ answered[q] = 1 =>
                q \notin mapFdToClient' /\ answered'[q] = 1
  PROVE  AgentPart' /\ StreamPart'
<1>1. AtAgent' = AtAgent /\ AgentBox'
  BY DEF AtAgent, AgentBox, RInv, AgentPart
<1>2. AgentPart'
  BY <1>1, AgentPartKept
<1>3. StreamConns \subseteq Requests /\ StreamConns \subseteq Conns
  BY DEF Requests, Client!Requests, Conns
<1>4. StreamsGoOn
  BY <1>1, <1>3 DEF StreamsGoOn, About, agentVars
<1>5. Shape' /\ Over' /\ OnTheWay' /\ NoneMissing'
  BY <1>4, StreamsKept DEF RInv, AgentPart
<1>6. Unasked'
  BY <1>3 DEF RInv, StreamPart, Unasked, About, agentVars
<1> QED BY <1>2, <1>5, <1>6 DEF StreamPart

LEMMA OwnRequests ==
  ASSUME NEW q \in Own  PROVE q \in Requests /\ q \notin StreamConns
BY RequestsDiffer DEF Own, Requests, Client!Own, Client!Requests

-----------------------------------------------------------------------------
(* The authors.                                                            *)

LEMMA AskStep ==
  ASSUME RInv, NEW q \in Own, Client!Ask(q), UNCHANGED agentVars
  PROVE  RInv'
<1> DEFINE m == Client!Msg("request", q, 0)
<1>1. /\ author[q] = "new" /\ author' = [author EXCEPT ![q] = "asked"]
      /\ clientInbox' = Append(clientInbox, m)
      /\ UNCHANGED <<agentInbox, answered, isSleep, mapFdToClient, isClosed, rep,
                     upSock, upSent>>
  BY DEF Client!Ask, Client!requestVars, Client!upVars
<1>2. q \in Requests /\ q \notin StreamConns
  BY OwnRequests
<1>3. m \in ClientMessage /\ m.kind = "request" /\ m.fd = q
  BY <1>2 DEF Client!Msg, ClientMessage
<1> HIDE DEF m
<1>4. upSock[q] = "none" /\ answered[q] = 0 /\ \A d \in AtClient : d.fd # q
  BY <1>1 DEF RInv, ClientPart, Untold
<1>5. ClientBox' /\ AtClient' = AtClient \cup {m}
  BY <1>1, <1>3, <1>4, ClientPosts DEF RInv, ClientPart, ClientAfter, ClientGets
<1>6. ClientTypes' /\ Made'
  BY <1>1, <1>5 DEF RInv, ClientPart, ClientTypes, Made
<1>7. Reported' /\ Untold'
  BY <1>1, <1>3, <1>4, <1>5 DEF RInv, ClientPart, ClientTypes, Reported, Untold, Ends
<1>8. About(q)
  BY <1>1, <1>3, <1>5 DEF About
<1>9. AgentPart' /\ StreamPart'
  BY <1>1, <1>2, <1>8, OtherStreams
<1> QED BY <1>5, <1>6, <1>7, <1>9 DEF RInv, ClientPart

(* await(): where the author is.                                           *)
LEMMA WaitStep ==
  ASSUME RInv, NEW q \in Own, Client!Await(q) \/ Client!CondWait(q),
         UNCHANGED agentVars
  PROVE  RInv'
<1>1. /\ author[q] # "new"
      /\ \E p \in {"sleepy", "waiting"} : author' = [author EXCEPT ![q] = p]
      /\ isSleep' = isSleep \/ isSleep' = [isSleep EXCEPT ![q] = TRUE]
      /\ UNCHANGED <<clientInbox, agentInbox, answered, mapFdToClient, isClosed, rep,
                     upSock, upSent>>
  BY DEF Client!Await, Client!CondWait, Client!requestVars, Client!upVars
<1>2. q \in Requests /\ q \notin StreamConns
  BY OwnRequests
<1>3. ClientBox' /\ AtClient' = AtClient
  BY <1>1 DEF RInv, ClientPart, ClientBox, AtClient
<1>4. ClientTypes'
  BY <1>1 DEF RInv, ClientPart, ClientTypes
<1>5. Made' /\ Reported' /\ Untold'
  BY <1>1, <1>3 DEF RInv, ClientPart, ClientTypes, Made, Reported, Untold
<1>6. About(q)
  BY <1>1, <1>3 DEF About
<1>7. AgentPart' /\ StreamPart'
  BY <1>1, <1>2, <1>6, OtherStreams
<1> QED BY <1>3, <1>4, <1>5, <1>7 DEF RInv, ClientPart

LEMMA SendHttpStep ==
  ASSUME RInv, NEW q \in Own, Client!SendHttp(q), UNCHANGED agentVars
  PROVE  RInv'
<1>1. /\ author[q] = "new" /\ author' = [author EXCEPT ![q] = "asked"]
      /\ \/ /\ upSock' = [upSock EXCEPT ![q] = "connecting"]
            /\ mapFdToClient' = mapFdToClient \cup {q}
            /\ isClosed' = [isClosed EXCEPT ![q] = FALSE]
            /\ rep' = [rep EXCEPT ![q] = 0]
         \/ UNCHANGED <<upSock, mapFdToClient, isClosed, rep>>
      /\ UNCHANGED <<clientInbox, agentInbox, answered, isSleep, upSent>>
  BY DEF Client!SendHttp, Client!Connect, Client!requestVars, Client!upVars
<1>2. q \in Requests /\ q \notin StreamConns
  BY OwnRequests
<1>3. ClientBox' /\ AtClient' = AtClient
  BY <1>1 DEF RInv, ClientPart, ClientBox, AtClient
<1>4. upSock[q] = "none" /\ answered[q] = 0 /\ \A d \in AtClient : d.fd # q
  BY <1>1 DEF RInv, ClientPart, Untold
<1>5. ClientTypes'
  <2>1. 0 \in 0 .. Pieces
    BY PiecesArePositive
  <2>2. ClientTypes
    BY DEF RInv, ClientPart
  <2>3. rep' \in [Requests -> 0 .. Pieces] /\ mapFdToClient' \subseteq Requests
    BY <1>1, <1>2, <2>1, <2>2 DEF ClientTypes
  <2>4. /\ isClosed' \in [Requests -> BOOLEAN]
        /\ upSock' \in [Requests -> {"none", "connecting", "open", "closed"}]
    BY <1>1, <2>2 DEF ClientTypes
  <2>5. author' \in [Own -> {"new", "asked", "sleepy", "waiting", "back"}]
    BY <1>1, <2>2 DEF ClientTypes
  <2> QED BY <1>1, <2>2, <2>3, <2>4, <2>5 DEF ClientTypes
<1>6. Made'
  BY <1>1, <1>2, <1>3, <1>4 DEF RInv, ClientPart, ClientTypes, Made
<1>7. Reported' /\ Untold'
  <2>1. \A b \in Requests : b # q =>
          upSock'[b] = upSock[b] /\ (b \in mapFdToClient' <=> b \in mapFdToClient)
    BY <1>1 DEF RInv, ClientPart, ClientTypes
  <2>2. \A d \in AtClient' : d \in AtClient /\ d.fd \in Requests /\ d.fd # q
    BY <1>3, <1>4, ClientItems DEF RInv, ClientPart, ClientKinds
  <2>3. Reported'
    BY <1>1, <2>1, <2>2 DEF RInv, ClientPart, Reported
  <2>4. ASSUME NEW b \in Own, author'[b] = "new"
        PROVE  upSock'[b] = "none" /\ answered'[b] = 0 /\ \A d \in AtClient' : d.fd # b
    <3>1. b # q /\ author[b] = "new" /\ b \in Requests
      BY <1>1, <2>4, OwnRequests DEF RInv, ClientPart, ClientTypes
    <3> QED BY <1>1, <1>3, <2>1, <3>1 DEF RInv, ClientPart, Untold
  <2> QED BY <2>3, <2>4 DEF Untold
<1>8. About(q)
  BY <1>1, <1>3, <1>4 DEF About, RInv, ClientPart, ClientTypes
<1>9. AgentPart' /\ StreamPart'
  BY <1>1, <1>2, <1>8, OtherStreams
<1> QED BY <1>3, <1>5, <1>6, <1>7, <1>9 DEF RInv, ClientPart

-----------------------------------------------------------------------------
(* The events of the client's connections.                                 *)

(* A connection that lives has an entry, and no end in the mailbox; one    *)
(* that carries a stream was made for a whole request.                     *)
LEMMA Alive ==
  ASSUME RInv, NEW q \in Requests, upSock[q] \in {"connecting", "open"}
  PROVE  /\ q \in mapFdToClient
         /\ \A d \in AtClient : d.fd = q =>
              d.kind \in {"open", "data"} /\ (d.kind = "data" => d.n <= upSent[q])
         /\ q \in StreamConns => parsed[q] = RequestPieces
         /\ q \in Own => author[q] # "new"
<1>1. q \in mapFdToClient
  BY DEF RInv, ClientPart, Made
<1>2. ASSUME NEW d \in AtClient, d.fd = q
      PROVE  d.kind \in {"open", "data"} /\ (d.kind = "data" => d.n <= upSent[q])
  BY <1>2, ClientItems DEF RInv, ClientPart, Reported, ClientKinds, Ends
<1>3. q \in StreamConns => parsed[q] = RequestPieces
  BY DEF RInv, StreamPart, Unasked, Conns
<1>4. q \in Own => author[q] # "new"
  BY DEF RInv, ClientPart, Untold
<1> QED BY <1>1, <1>2, <1>3, <1>4

(* connect() is decided, or the connection ends.                           *)
LEMMA UpMovesStep ==
  ASSUME RInv, NEW q \in Requests, Client!UpConnected(q) \/ Client!UpEnds(q),
         UNCHANGED agentVars
  PROVE  RInv'
<1>1. \E k \in {"open", "close", "error"} :
        /\ upSock[q] \in {"connecting", "open"}
        /\ upSock' = [upSock EXCEPT ![q] = IF k = "open" THEN "open" ELSE "closed"]
        /\ clientInbox' = Append(clientInbox, Client!Msg(k, q, 0))
        /\ UNCHANGED <<mapFdToClient, isClosed, rep, agentInbox, answered, author,
                       isSleep, upSent>>
  BY DEF Client!UpConnected, Client!UpEnds, Client!Event, Client!requestVars,
         Client!toldVars
<1>2. PICK k \in {"open", "close", "error"} :
        /\ upSock[q] \in {"connecting", "open"}
        /\ upSock' = [upSock EXCEPT ![q] = IF k = "open" THEN "open" ELSE "closed"]
        /\ clientInbox' = Append(clientInbox, Client!Msg(k, q, 0))
        /\ UNCHANGED <<mapFdToClient, isClosed, rep, agentInbox, answered, author,
                       isSleep, upSent>>
  BY <1>1
<1> DEFINE m == Client!Msg(k, q, 0)
<1>3. m \in ClientMessage /\ m.kind = k /\ m.fd = q
  BY DEF Client!Msg, ClientMessage
<1>4. clientInbox' = Append(clientInbox, m)
  BY <1>2
<1> HIDE DEF m
<1>5. /\ q \in mapFdToClient
      /\ \A d \in AtClient : d.fd = q => d.kind \in {"open", "data"}
      /\ q \in StreamConns => parsed[q] = RequestPieces
      /\ q \in Own => author[q] # "new"
  BY <1>2, Alive
<1>6. ClientBox' /\ AtClient' = AtClient \cup {m}
  <2>1. \A d \in AtClient : ClientAfter(d, m)
    BY <1>3, <1>5 DEF ClientAfter
  <2> QED BY <1>3, <1>4, <2>1, ClientPosts DEF RInv, ClientPart, ClientGets
<1>7. /\ upSock'[q] = (IF k = "open" THEN "open" ELSE "closed")
      /\ upSock' \in [Requests -> {"none", "connecting", "open", "closed"}]
      /\ \A b \in Requests : b # q => upSock'[b] = upSock[b]
  BY <1>2 DEF RInv, ClientPart, ClientTypes
<1>8. ClientTypes'
  BY <1>2, <1>7 DEF RInv, ClientPart, ClientTypes
<1>9. Made'
  <2> SUFFICES ASSUME NEW b \in Requests
               PROVE /\ upSock'[b] = "none" => b \notin mapFdToClient' /\ upSent'[b] = 0
                     /\ upSock'[b] \in {"connecting", "open"} => b \in mapFdToClient'
                     /\ b \in mapFdToClient' /\ upSock'[b] = "closed" =>
                          \E d \in AtClient' : d.fd = b /\ d.kind \in Ends
                     /\ b \in mapFdToClient' => (isClosed'[b] <=> answered'[b] = 1)
                     /\ b \in mapFdToClient' /\ b \in StreamConns => ~isClosed'[b]
    BY DEF Made
  <2>1. CASE b = q
    BY <2>1, <1>2, <1>3, <1>5, <1>6, <1>7 DEF RInv, ClientPart, Made, Ends
  <2>2. CASE b # q
    BY <2>2, <1>2, <1>6, <1>7 DEF RInv, ClientPart, Made
  <2> QED BY <2>1, <2>2
<1>10. Reported'
  <2> SUFFICES ASSUME NEW d \in AtClient'
               PROVE /\ d.kind = "request" => upSock'[d.fd] = "none" /\ answered'[d.fd] = 0
                     /\ d.kind # "request" => d.fd \in mapFdToClient'
                     /\ d.kind \in Ends => upSock'[d.fd] = "closed"
                     /\ d.kind = "data" => d.n <= upSent'[d.fd]
    BY DEF Reported
  <2>1. CASE d = m
    BY <2>1, <1>2, <1>3, <1>5, <1>7 DEF Ends
  <2>2. CASE d # m
    <3>1. d \in AtClient /\ d.fd \in Requests
      BY <2>2, <1>6, ClientItems DEF RInv, ClientPart, ClientKinds
    <3> QED BY <3>1, <1>2, <1>5, <1>7 DEF RInv, ClientPart, Reported, Ends
  <2> QED BY <2>1, <2>2
<1>11. Untold'
  BY <1>2, <1>3, <1>5, <1>6, <1>7, OwnRequests DEF RInv, ClientPart, Untold
<1>12. AgentPart' /\ StreamPart'
  <2>1. About(q)
    BY <1>2, <1>3, <1>6, <1>7 DEF About
  <2>2. upSock'[q] # "none" /\ upSock[q] # "closed"
        /\ \A d : d.kind = "data" => (d \in AtClient' <=> d \in AtClient)
    BY <1>2, <1>3, <1>6, <1>7
  <2> QED BY <1>2, <1>5, <2>1, <2>2, OtherStreams
<1> QED BY <1>6, <1>8, <1>9, <1>10, <1>11, <1>12 DEF RInv, ClientPart

(* The other side sends: the next piece is on its way.                     *)
LEMMA UpSendsStep ==
  ASSUME RInv, NEW q \in Requests, Client!UpSends(q), UNCHANGED agentVars
  PROVE  RInv'
<1>1. /\ upSock[q] = "open" /\ upSent[q] <= Pieces
      /\ upSent' = [upSent EXCEPT ![q] = @ + 1]
      /\ clientInbox' = Append(clientInbox, Client!Msg("data", q, upSent'[q]))
      /\ UNCHANGED <<mapFdToClient, isClosed, rep, agentInbox, answered, author,
                     isSleep, upSock>>
  BY DEF Client!UpSends, Client!Event, Client!requestVars, Client!toldVars
<1>2. PICK n : n = upSent[q] + 1
  OBVIOUS
<1> DEFINE m == Client!Msg("data", q, n)
<1>3. /\ upSent' \in [Requests -> 0 .. Pieces + 1] /\ upSent'[q] = n
      /\ \A b \in Requests : b # q => upSent'[b] = upSent[b]
      /\ upSent[q] \in Nat /\ n \in 1 .. Pieces + 1
  <2>1. upSent \in [Requests -> 0 .. Pieces + 1] /\ Pieces \in Nat
    BY PiecesArePositive DEF RInv, ClientPart, ClientTypes
  <2>2. upSent[q] \in Nat /\ n \in 1 .. Pieces + 1
    BY <2>1, <1>1, <1>2
  <2> QED BY <2>1, <2>2, <1>1, <1>2
<1>4. m \in ClientMessage /\ m.kind = "data" /\ m.fd = q /\ m.n = n
  BY <1>3 DEF Client!Msg, ClientMessage
<1>5. clientInbox' = Append(clientInbox, m)
  BY <1>1, <1>3
<1>6. \A c : \A k : Client!Msg("data", c, k) = m <=> c = q /\ k = n
  BY DEF Client!Msg
<1> HIDE DEF m
<1>7. /\ q \in mapFdToClient
      /\ \A d \in AtClient : d.fd = q =>
           d.kind \in {"open", "data"} /\ (d.kind = "data" => d.n <= upSent[q])
      /\ q \in StreamConns => parsed[q] = RequestPieces
      /\ q \in Own => author[q] # "new"
  BY <1>1, Alive
<1>8. ClientBox' /\ AtClient' = AtClient \cup {m}
  <2>1. \A d \in AtClient : d.fd = q =>
          d.kind \in {"open", "data"} /\ (d.kind = "data" => d.n < n)
    <3> SUFFICES ASSUME NEW d \in AtClient, d.fd = q
                 PROVE  d.kind \in {"open", "data"} /\ (d.kind = "data" => d.n < n)
      OBVIOUS
    <3>1. d.kind = "data" => d.n \in 1 .. Pieces + 1
      BY ClientItems DEF RInv, ClientPart, ClientKinds
    <3> QED BY <3>1, <1>2, <1>3, <1>7, PiecesArePositive
  <2>2. \A d \in AtClient : ClientAfter(d, m)
    BY <1>4, <2>1 DEF ClientAfter
  <2> QED BY <1>4, <1>5, <2>2, ClientPosts DEF RInv, ClientPart, ClientGets
<1>9. ClientTypes' /\ Made'
  BY <1>1, <1>3, <1>8 DEF RInv, ClientPart, ClientTypes, Made
<1>10. Reported'
  <2> SUFFICES ASSUME NEW d \in AtClient'
               PROVE /\ d.kind = "request" => upSock'[d.fd] = "none" /\ answered'[d.fd] = 0
                     /\ d.kind # "request" => d.fd \in mapFdToClient'
                     /\ d.kind \in Ends => upSock'[d.fd] = "closed"
                     /\ d.kind = "data" => d.n <= upSent'[d.fd]
    BY DEF Reported
  <2>1. CASE d = m
    BY <2>1, <1>1, <1>3, <1>4, <1>7 DEF Ends
  <2>2. CASE d # m
    <3>1. d \in AtClient /\ d.fd \in Requests
          /\ (d.kind = "data" => d.n \in 1 .. Pieces + 1)
      BY <2>2, <1>8, ClientItems DEF RInv, ClientPart, ClientKinds
    <3>2. d.kind = "data" => d.n <= upSent'[d.fd]
      <4>1. d.kind = "data" => d.n <= upSent[d.fd]
        BY <3>1 DEF RInv, ClientPart, Reported
      <4>2. CASE d.fd = q
        BY <4>1, <4>2, <3>1, <1>2, <1>3, PiecesArePositive
      <4>3. CASE d.fd # q
        BY <4>1, <4>3, <3>1, <1>3
      <4> QED BY <4>2, <4>3
    <3> QED BY <3>1, <3>2, <1>1 DEF RInv, ClientPart, Reported
  <2> QED BY <2>1, <2>2
<1>11. Untold'
  BY <1>1, <1>4, <1>7, <1>8 DEF RInv, ClientPart, Untold
<1>12. About(q)
  BY <1>1, <1>3, <1>4, <1>8 DEF About
<1>13. CASE q \notin StreamConns
  BY <1>1, <1>8, <1>9, <1>10, <1>11, <1>12, <1>13, OtherStreams DEF RInv, ClientPart
<1>14. CASE q \in StreamConns
  <2>1. AtAgent' = AtAgent /\ AgentBox'
        /\ UNCHANGED <<mapClient, parsed, written>>
    BY <1>1 DEF AtAgent, AgentBox, RInv, AgentPart, agentVars
  <2>2. AgentPart'
    BY <2>1, AgentPartKept
  <2>3. Unasked'
    BY <1>1, <1>4, <1>7, <1>8, <1>14, <2>1 DEF RInv, StreamPart, Unasked
  <2>4. ~Ended(q) /\ ~Ending(q)
    BY <1>7, <1>14 DEF RInv, StreamPart, Over
  <2>5. /\ Len(written[q]) \in Nat /\ Len(written[q]) <= upSent[q]
        /\ \A i \in 1 .. Len(written[q]) :
             written[q][i] = Agent!Item("data", i) /\ i <= upSent[q]
    BY <1>14, <2>4, DataOnly
  <2>6. Shape'
    <3> SUFFICES ASSUME NEW c \in StreamConns  PROVE ShapeOf(written[c], upSent'[c])
      BY <2>1 DEF Shape
    <3>1. c \in Requests
      BY DEF Requests, Client!Requests
    <3>2. CASE c = q
      BY <3>2, <2>5, <1>2, <1>3 DEF ShapeOf
    <3>3. CASE c # q
      BY <3>1, <3>3, <1>3 DEF RInv, StreamPart, Shape
    <3> QED BY <3>2, <3>3
  <2>7. Over'
    BY <1>1, <2>1 DEF RInv, StreamPart, Over, Ended, Ending
  <2>8. OnTheWay'
    <3>1. ASSUME NEW a \in AtAgent, a.kind \in Streams
          PROVE  upSock[a.fd] # "none" /\ a.fd \in Requests
                 /\ (a.kind = "streamData" => a.n \in 1 .. upSent[a.fd]
                                              /\ a.n \in 1 .. upSent'[a.fd])
      <4>1. a.fd \in Requests /\ upSock[a.fd] # "none"
            /\ (a.kind = "streamData" => a.n \in 1 .. upSent[a.fd])
        BY <3>1, AgentItems DEF RInv, AgentPart, StreamPart, OnTheWay, AgentKinds,
                                Requests, Client!Requests
      <4>2. CASE a.fd = q
        BY <4>1, <4>2, <1>2, <1>3
      <4>3. CASE a.fd # q
        BY <4>1, <4>3, <1>3
      <4> QED BY <4>1, <4>2, <4>3
    <3>2. ASSUME NEW a \in AtAgent, NEW d \in AtClient', a.kind = "streamData",
                 d.kind = "data", a.fd = d.fd
          PROVE  a.n < d.n
      <4>1. CASE d = m
        BY <4>1, <3>1, <3>2, <1>2, <1>3, <1>4 DEF Streams
      <4>2. CASE d # m
        BY <4>2, <3>2, <1>8 DEF RInv, StreamPart, OnTheWay
      <4> QED BY <4>1, <4>2
    <3> QED BY <3>1, <3>2, <2>1, <1>1 DEF OnTheWay, Streams
  <2>9. NoneMissing'
    <3> SUFFICES ASSUME NEW c \in StreamConns, c \in mapClient
                 PROVE  Later(c)' /\ \A k \in 1 .. upSent'[c] : ~Missing(c, k)'
      BY <2>1 DEF NoneMissing
    <3>1. Later(c) /\ (\A k \in 1 .. upSent[c] : ~Missing(c, k)) /\ c \in Requests
      BY DEF RInv, StreamPart, NoneMissing, Requests, Client!Requests
    <3>2. Later(c)'
      <4>1. ASSUME NEW d \in AtClient', d.fd = c, d.kind = "data"
            PROVE  Len(written[c]) < d.n
        <5>1. CASE d = m
          BY <5>1, <4>1, <2>5, <1>2, <1>3, <1>4
        <5>2. CASE d # m
          BY <5>2, <4>1, <3>1, <1>8 DEF Later
        <5> QED BY <5>1, <5>2
      <4> QED BY <4>1, <3>1, <2>1 DEF Later
    <3>3. ASSUME NEW k \in 1 .. upSent'[c]  PROVE ~Missing(c, k)'
      <4>1. CASE c = q /\ k = n
        BY <4>1, <1>6, <1>8 DEF Missing
      <4>2. CASE ~(c = q /\ k = n)
        <5>1. k \in 1 .. upSent[c]
          BY <4>2, <3>1, <1>2, <1>3
        <5> QED BY <5>1, <3>1, <2>1, <1>8 DEF Missing
      <4> QED BY <4>1, <4>2
    <3> QED BY <3>2, <3>3
  <2> QED BY <1>8, <1>9, <1>10, <1>11, <2>2, <2>3, <2>6, <2>7, <2>8, <2>9
          DEF RInv, ClientPart, StreamPart
<1> QED BY <1>13, <1>14

-----------------------------------------------------------------------------
(* The client's thread.                                                    *)

(* Waking an author, or not: none becomes new.                             *)
AuthorsGoOn ==
  /\ author' \in [Own -> {"new", "asked", "sleepy", "waiting", "back"}]
  /\ isSleep' \in [SyncRequests -> BOOLEAN]
  /\ \A b \in Own : author'[b] = "new" => author[b] = "new"
LEMMA Authors ==
  ASSUME ClientTypes, NEW q,
         Client!Wakeup(q) \/ UNCHANGED <<isSleep, author>>
  PROVE  AuthorsGoOn
BY DEF Client!Wakeup, AuthorsGoOn, ClientTypes

LEMMA OpenedStep ==
  ASSUME RInv, Client!HandleOpen, UNCHANGED agentVars
  PROVE  RInv'
<1>0. PICK h : h = Head(clientInbox)
  OBVIOUS
<1> DEFINE q == h.fd
<1>1. ClientTook(h) /\ h.kind = "open"
  BY <1>0, ClientTakes DEF Client!HandleOpen, RInv, ClientPart
<1>2. q \in Requests /\ h \in AtClient /\ ClientBox' /\ AtClient = AtClient' \cup {h}
  BY <1>1 DEF ClientTook, ClientKinds
<1>3. q \in mapFdToClient
  BY <1>1, <1>2 DEF RInv, ClientPart, Reported
<1>4. UNCHANGED <<mapFdToClient, isClosed, rep, agentInbox, answered, author, isSleep,
                  upSock, upSent>>
  BY <1>0, <1>3 DEF Client!HandleOpen, Client!OnSocketOpen, Client!Taken,
                    Client!requestVars, Client!toldVars, Client!upVars
<1> HIDE DEF q
<1>5. ClientTypes' /\ Made' /\ Reported' /\ Untold'
  BY <1>1, <1>2, <1>4
     DEF RInv, ClientPart, ClientTypes, Made, Reported, Untold, Ends
<1>6. About(q)
  BY <1>2, <1>4 DEF About, q
<1>7. q \in StreamConns => parsed[q] = RequestPieces
  BY <1>2 DEF RInv, StreamPart, Unasked, Conns, q
<1>8. \A d : d.kind = "data" => (d \in AtClient' <=> d \in AtClient)
  BY <1>1, <1>2
<1>9. AgentPart' /\ StreamPart'
  BY <1>2, <1>4, <1>6, <1>7, <1>8, OtherStreams
<1> QED BY <1>2, <1>5, <1>9 DEF RInv, ClientPart

(* onMsgProto(): a connection is made, or there is no address.             *)
LEMMA RequestStep ==
  ASSUME RInv, Client!HandleRequest, UNCHANGED agentVars
  PROVE  RInv'
<1>0. PICK h : h = Head(clientInbox)
  OBVIOUS
<1> DEFINE q == h.fd
<1>1. ClientTook(h) /\ h.kind = "request" /\ Client!OnMsgProto(q)
  BY <1>0, ClientTakes DEF Client!HandleRequest, RInv, ClientPart, Client!Taken
<1>2. /\ q \in Requests /\ h \in AtClient /\ ClientBox'
      /\ AtClient = AtClient' \cup {h} /\ \A d \in AtClient' : d.fd # q
  BY <1>1 DEF ClientTook, ClientKinds, ClientAfter
<1> HIDE DEF q
<1>3. upSock[q] = "none" /\ answered[q] = 0 /\ q \notin mapFdToClient /\ upSent[q] = 0
  BY <1>1, <1>2 DEF RInv, ClientPart, Reported, Made, q
<1>4. ClientTypes
  BY DEF RInv, ClientPart
<1>5. /\ UNCHANGED <<agentInbox, upSent>> /\ AuthorsGoOn
      /\ \/ /\ upSock' = [upSock EXCEPT ![q] = "connecting"]
            /\ mapFdToClient' = mapFdToClient \cup {q}
            /\ isClosed' = [isClosed EXCEPT ![q] = FALSE]
            /\ rep' = [rep EXCEPT ![q] = 0]
            /\ UNCHANGED answered
         \/ /\ UNCHANGED <<upSock, mapFdToClient, isClosed, rep>>
            /\ answered' = answered \/ answered' = [answered EXCEPT ![q] = @ + 1]
  BY <1>1, <1>4, Authors DEF Client!OnMsgProto, Client!Connect, Client!requestVars,
     Client!toldVars, Client!upVars
<1>6. /\ upSock' \in [Requests -> {"none", "connecting", "open", "closed"}]
      /\ answered' \in [Requests -> {0, 1}]
      /\ \A b \in Requests : b # q =>
           upSock'[b] = upSock[b] /\ isClosed'[b] = isClosed[b]
           /\ answered'[b] = answered[b] /\ (b \in mapFdToClient' <=> b \in mapFdToClient)
      /\ \/ upSock'[q] = "connecting" /\ q \in mapFdToClient' /\ ~isClosed'[q]
            /\ answered'[q] = 0
         \/ upSock'[q] = "none" /\ q \notin mapFdToClient'
  <2>1. CASE /\ upSock' = [upSock EXCEPT ![q] = "connecting"]
             /\ mapFdToClient' = mapFdToClient \cup {q}
             /\ isClosed' = [isClosed EXCEPT ![q] = FALSE]
             /\ UNCHANGED answered
    BY <2>1, <1>2, <1>3, <1>4 DEF ClientTypes
  <2>2. CASE /\ UNCHANGED <<upSock, mapFdToClient, isClosed>>
             /\ answered' = answered \/ answered' = [answered EXCEPT ![q] = @ + 1]
    <3>1. answered \in [Requests -> {0, 1}]
      BY <1>4 DEF ClientTypes
    <3>2. answered' \in [Requests -> {0, 1}]
          /\ \A b \in Requests : b # q => answered'[b] = answered[b]
      BY <2>2, <3>1, <1>2, <1>3
    <3> QED BY <2>2, <3>2, <1>2, <1>3, <1>4 DEF ClientTypes
  <2> QED BY <1>5, <2>1, <2>2
<1>7. ClientTypes'
  <2>1. 0 \in 0 .. Pieces
    BY PiecesArePositive
  <2>2. rep' \in [Requests -> 0 .. Pieces] /\ mapFdToClient' \subseteq Requests
    BY <1>2, <1>4, <1>5, <2>1 DEF ClientTypes
  <2>3. isClosed' \in [Requests -> BOOLEAN]
    BY <1>4, <1>5 DEF ClientTypes
  <2> QED BY <1>4, <1>5, <1>6, <2>2, <2>3 DEF ClientTypes, AuthorsGoOn
<1>8. Made'
  <2> SUFFICES ASSUME NEW b \in Requests
               PROVE /\ upSock'[b] = "none" => b \notin mapFdToClient' /\ upSent'[b] = 0
                     /\ upSock'[b] \in {"connecting", "open"} => b \in mapFdToClient'
                     /\ b \in mapFdToClient' /\ upSock'[b] = "closed" =>
                          \E d \in AtClient' : d.fd = b /\ d.kind \in Ends
                     /\ b \in mapFdToClient' => (isClosed'[b] <=> answered'[b] = 1)
                     /\ b \in mapFdToClient' /\ b \in StreamConns => ~isClosed'[b]
    BY DEF Made
  <2>1. CASE b = q
    BY <2>1, <1>3, <1>5, <1>6
  <2>2. CASE b # q
    <3>1. h.kind \notin Ends
      BY <1>1 DEF Ends
    <3> QED BY <2>2, <3>1, <1>2, <1>5, <1>6 DEF RInv, ClientPart, Made
  <2> QED BY <2>1, <2>2
<1>9. Reported'
  <2>1. \A d \in AtClient' : d \in AtClient /\ d.fd \in Requests /\ d.fd # q
    BY <1>2, ClientItems DEF RInv, ClientPart, ClientKinds
  <2> QED BY <2>1, <1>5, <1>6 DEF RInv, ClientPart, Reported
<1>10. Untold'
  <2> SUFFICES ASSUME NEW b \in Own, author'[b] = "new"
               PROVE  upSock'[b] = "none" /\ answered'[b] = 0
                      /\ \A d \in AtClient' : d.fd # b
    BY DEF Untold
  <2>1. author[b] = "new" /\ b \in Requests
    BY <1>5, OwnRequests DEF AuthorsGoOn
  <2>2. upSock[b] = "none" /\ answered[b] = 0 /\ \A d \in AtClient : d.fd # b
    BY <2>1 DEF RInv, ClientPart, Untold
  <2> QED BY <2>1, <2>2, <1>2, <1>6 DEF q
<1>11. About(q)
  BY <1>2, <1>5, <1>6 DEF About, q
<1>12. q \in StreamConns => parsed[q] = RequestPieces
  BY <1>2 DEF RInv, StreamPart, Unasked, Conns, q
<1>13. \A d : d.kind = "data" => (d \in AtClient' <=> d \in AtClient)
  BY <1>1, <1>2
<1>14. AgentPart' /\ StreamPart'
  BY <1>2, <1>3, <1>5, <1>11, <1>12, <1>13, OtherStreams
<1> QED BY <1>2, <1>7, <1>8, <1>9, <1>10, <1>14 DEF RInv, ClientPart

(* Client::close(): what it changes.                                       *)
Closes(q) ==
  /\ AuthorsGoOn
  /\ answered' \in [Requests -> {0, 1}] /\ isClosed' \in [Requests -> BOOLEAN]
  /\ \A b \in Requests : b # q => isClosed'[b] = isClosed[b] /\ answered'[b] = answered[b]
  /\ isClosed'[q] = TRUE /\ answered'[q] = 1
  /\ agentInbox' = IF q \in StreamConns
                   THEN Append(agentInbox, Agent!Msg("streamEnd", q, 0)) ELSE agentInbox
LEMMA CloseEffect ==
  ASSUME RInv, NEW q \in Requests, q \in mapFdToClient, Client!Close(q)
  PROVE  Closes(q)
<1>1. ClientTypes /\ (isClosed[q] <=> answered[q] = 1)
      /\ (q \in StreamConns => ~isClosed[q])
  BY DEF RInv, ClientPart, Made
<1>2. isClosed \in [Requests -> BOOLEAN] /\ answered \in [Requests -> {0, 1}]
  BY <1>1 DEF ClientTypes
<1>3. CASE isClosed[q]
  <2>1. UNCHANGED <<isClosed, agentInbox, answered, author, isSleep>>
    BY <1>3 DEF Client!Close, Client!AlreadyClosed, Client!toldVars
  <2> QED BY <1>1, <1>2, <1>3, <2>1, Authors DEF Closes
<1>4. CASE ~isClosed[q]
  <2>1. /\ isClosed' = [isClosed EXCEPT ![q] = TRUE]
        /\ answered' = [answered EXCEPT ![q] = @ + 1]
        /\ agentInbox' = IF q \in StreamConns
                         THEN Append(agentInbox, Agent!Msg("streamEnd", q, 0))
                         ELSE agentInbox
        /\ Client!Wakeup(q) \/ UNCHANGED <<isSleep, author>>
    BY <1>4 DEF Client!Close, Client!AlreadyClosed, Client!Notify, Client!Msg, Agent!Msg
  <2>2. answered[q] = 0
    BY <1>1, <1>2, <1>4
  <2>3. AuthorsGoOn
    BY <1>1, <2>1, Authors
  <2>4. answered' \in [Requests -> {0, 1}] /\ answered'[q] = 1
        /\ \A b \in Requests : b # q => answered'[b] = answered[b]
    BY <1>2, <2>1, <2>2
  <2>5. isClosed' \in [Requests -> BOOLEAN] /\ isClosed'[q] = TRUE
        /\ \A b \in Requests : b # q => isClosed'[b] = isClosed[b]
    BY <1>2, <2>1
  <2> QED BY <2>1, <2>3, <2>4, <2>5 DEF Closes
<1> QED BY <1>3, <1>4

(* A stream message for the agent, of a connection that has an entry.      *)
LEMMA StreamPosts ==
  ASSUME RInv, NEW q \in StreamConns, q \in mapFdToClient, UNCHANGED agentVars,
         NEW m \in AgentMessage, m.fd = q, m.kind \in Streams,
         agentInbox' = Append(agentInbox, m), parsed[q] = RequestPieces,
         m.kind = "streamData" =>
           \A x \in AtAgent : x.fd = q /\ x.kind = "streamData" => x.n < m.n
  PROVE  /\ AgentPart' /\ AtAgent' = AtAgent \cup {m}
         /\ ~Ended(q) /\ ~Ending(q) /\ upSock[q] # "none"
<1>1. ~Ended(q) /\ ~Ending(q)
  BY DEF RInv, StreamPart, Over
<1>2. upSock[q] # "none"
  BY DEF RInv, ClientPart, Made, Requests, Client!Requests
<1>3. \A x \in AtAgent : AgentAfter(x, m)
  <2> SUFFICES ASSUME NEW x \in AtAgent, x.fd = q
               PROVE  /\ x.kind # "notice" /\ x.kind # "streamEnd"
                      /\ x.kind = "streamData" /\ m.kind = "streamData" => x.n < m.n
    BY DEF AgentAfter, Streams, Events
  <2>1. downSock[q] # "accepted"
    BY PiecesArePositive DEF RInv, AgentPart, Handed, Conns
  <2>2. x.kind # "notice"
    BY <2>1 DEF RInv, AgentPart, Announced
  <2>3. x.kind # "streamEnd"
    BY <1>1 DEF Ending
  <2> QED BY <2>2, <2>3
<1>4. AgentBox' /\ AtAgent' = AtAgent \cup {m}
  BY <1>3, AgentPosts DEF RInv, AgentPart, AgentGets
<1>5. AgentPart'
  BY <1>4, AgentPartKept
<1> QED BY <1>1, <1>2, <1>4, <1>5

(* The end of a connection, of either kind: its entry goes, and the author *)
(* is told.                                                                *)
LEMMA ForgetStep ==
  ASSUME RInv, Client!HandleClose \/ Client!HandleError, UNCHANGED agentVars
  PROVE  RInv'
<1>0. PICK h : h = Head(clientInbox)
  OBVIOUS
<1> DEFINE q == h.fd
           m == Agent!Msg("streamEnd", q, 0)
<1>1. ClientTook(h) /\ h.kind \in Ends /\ Client!Forget(q)
  <2>1. CASE Client!HandleClose
    BY <2>1, <1>0, ClientTakes DEF Client!HandleClose, Client!OnSocketClose, RInv,
                                   ClientPart, Client!Taken, Ends
  <2>2. CASE Client!HandleError
    BY <2>2, <1>0, ClientTakes DEF Client!HandleError, Client!OnSocketError, RInv,
                                   ClientPart, Client!Taken, Ends
  <2> QED BY <2>1, <2>2
<1>2. /\ q \in Requests /\ h \in AtClient /\ ClientBox'
      /\ AtClient = AtClient' \cup {h} /\ \A d \in AtClient' : d.fd # q
  BY <1>1 DEF ClientTook, ClientKinds, ClientAfter, Ends
<1>3. m.kind = "streamEnd" /\ m.fd = q /\ (q \in StreamConns => m \in AgentMessage)
      /\ \A c : \A k : Agent!Msg("streamData", c, k) # m
  BY DEF Agent!Msg, AgentMessage, Streams
<1> HIDE DEF q, m
<1>4. q \in mapFdToClient /\ upSock[q] = "closed"
  BY <1>1, <1>2 DEF RInv, ClientPart, Reported, Ends, q
<1>5. /\ Client!Close(q) /\ mapFdToClient' = mapFdToClient \ {q}
      /\ UNCHANGED <<rep, upSock, upSent>>
  BY <1>1, <1>4 DEF Client!Forget, Client!upVars
<1>6. Closes(q)
  BY <1>2, <1>4, <1>5, CloseEffect
<1>7. ClientTypes'
  BY <1>5, <1>6 DEF RInv, ClientPart, ClientTypes, Closes, AuthorsGoOn
<1>8. Made'
  <2> SUFFICES ASSUME NEW b \in Requests, b # q
               PROVE /\ upSock'[b] = "none" => b \notin mapFdToClient' /\ upSent'[b] = 0
                     /\ upSock'[b] \in {"connecting", "open"} => b \in mapFdToClient'
                     /\ b \in mapFdToClient' /\ upSock'[b] = "closed" =>
                          \E d \in AtClient' : d.fd = b /\ d.kind \in Ends
                     /\ b \in mapFdToClient' => (isClosed'[b] <=> answered'[b] = 1)
                     /\ b \in mapFdToClient' /\ b \in StreamConns => ~isClosed'[b]
    BY <1>4, <1>5 DEF Made
  <2> QED BY <1>2, <1>5, <1>6 DEF RInv, ClientPart, Made, Closes, q
<1>9. Reported'
  <2>1. \A d \in AtClient' : d \in AtClient /\ d.fd \in Requests /\ d.fd # q
    BY <1>2, ClientItems DEF RInv, ClientPart, ClientKinds
  <2> QED BY <2>1, <1>5, <1>6 DEF RInv, ClientPart, Reported, Closes
<1>10. Untold'
  <2> SUFFICES ASSUME NEW b \in Own, author'[b] = "new"
               PROVE  upSock'[b] = "none" /\ answered'[b] = 0
                      /\ \A d \in AtClient' : d.fd # b
    BY DEF Untold
  <2>1. author[b] = "new" /\ b \in Requests
    BY <1>6, OwnRequests DEF AuthorsGoOn, Closes
  <2>2. upSock[b] = "none" /\ answered[b] = 0 /\ \A d \in AtClient : d.fd # b
    BY <2>1 DEF RInv, ClientPart, Untold
  <2>3. b # q
    BY <2>2, <1>4
  <2> QED BY <2>1, <2>2, <2>3, <1>2, <1>5, <1>6 DEF Closes
<1>11. CASE q \notin StreamConns
  <2>1. About(q)
    BY <1>2, <1>5, <1>6 DEF About, Closes, q
  <2>2. AgentPart' /\ StreamPart'
    BY <1>2, <1>6, <1>11, <2>1, OtherStreams DEF Closes
  <2> QED BY <1>2, <1>7, <1>8, <1>9, <1>10, <2>2 DEF RInv, ClientPart
<1>12. CASE q \in StreamConns
  <2>1. parsed[q] = RequestPieces
    BY <1>2, <1>12 DEF RInv, StreamPart, Unasked, Conns, q
  <2>2. /\ AgentPart' /\ AtAgent' = AtAgent \cup {m}
        /\ ~Ended(q) /\ ~Ending(q) /\ upSock[q] # "none"
    <3>1. agentInbox' = Append(agentInbox, m)
      BY <1>6, <1>12 DEF Closes, m
    <3> QED BY <3>1, <2>1, <1>3, <1>4, <1>12, StreamPosts DEF Streams
  <2>3. UNCHANGED <<mapClient, parsed, written>>
    BY DEF agentVars
  <2>4. Unasked'
    BY <1>2, <1>5, <1>6, <1>12, <2>1, <2>3
       DEF RInv, StreamPart, Unasked, Closes, Requests, Client!Requests
  <2>5. Shape'
    BY <1>5, <2>3 DEF RInv, StreamPart, Shape
  <2>6. Over'
    <3> SUFFICES ASSUME NEW c \in StreamConns
                 PROVE  /\ Ended(c)' \/ Ending(c)' =>
                             upSock'[c] = "closed" /\ c \notin mapFdToClient'
                             /\ answered'[c] = 1
                        /\ Ended(c)' => \A a \in AtAgent' : a.fd = c => a.kind \notin Streams
      BY DEF Over
    <3>1. (Ended(c)' <=> Ended(c)) /\ c \in Requests
      BY <2>3 DEF Ended, Requests, Client!Requests
    <3>2. CASE c = q
      BY <3>1, <3>2, <1>4, <1>5, <1>6, <2>2 DEF Closes
    <3>3. CASE c # q
      <4>1. Ending(c)' <=> Ending(c)
        BY <3>3, <1>3, <2>2 DEF Ending
      <4> QED BY <3>1, <3>3, <4>1, <1>3, <1>5, <1>6, <2>2
              DEF RInv, StreamPart, Over, Closes
    <3> QED BY <3>2, <3>3
  <2>7. OnTheWay'
    BY <1>2, <1>3, <1>5, <2>2 DEF RInv, StreamPart, OnTheWay
  <2>8. NoneMissing'
    <3> SUFFICES ASSUME NEW c \in StreamConns, c \in mapClient
                 PROVE  Later(c)' /\ \A k \in 1 .. upSent[c] : ~Missing(c, k)'
      BY <2>3, <1>5 DEF NoneMissing
    <3>1. Later(c) /\ (\A k \in 1 .. upSent[c] : ~Missing(c, k))
      BY DEF RInv, StreamPart, NoneMissing
    <3>2. Later(c)'
      BY <3>1, <1>2, <1>3, <2>2, <2>3 DEF Later
    <3>3. ASSUME NEW k \in 1 .. upSent[c]  PROVE ~Missing(c, k)'
      <4>1. Client!Msg("data", c, k) # h
        BY <1>1 DEF Client!Msg, Ends
      <4> QED BY <4>1, <3>1, <1>2, <2>2, <2>3 DEF Missing
    <3> QED BY <3>2, <3>3
  <2> QED BY <1>2, <1>7, <1>8, <1>9, <1>10, <2>2, <2>4, <2>5, <2>6, <2>7, <2>8
          DEF RInv, ClientPart, StreamPart
<1> QED BY <1>11, <1>12

(* A read of the client: ignored, passed on, or parsed.                    *)
LEMMA ReadStep ==
  ASSUME RInv, Client!HandleData, UNCHANGED agentVars
  PROVE  RInv'
<1>0. PICK h : h = Head(clientInbox)
  OBVIOUS
<1> DEFINE q == h.fd
           m == Agent!Msg("streamData", q, h.n)
<1>1. ClientTook(h) /\ h.kind = "data" /\ Client!OnSocketData(q, h.n)
  BY <1>0, ClientTakes DEF Client!HandleData, RInv, ClientPart, Client!Taken
<1>2. /\ q \in Requests /\ h \in AtClient /\ ClientBox' /\ h.n \in 1 .. Pieces + 1
      /\ AtClient = AtClient' \cup {h}
      /\ \A d \in AtClient' : d.fd = q /\ d.kind = "data" => h.n < d.n
  BY <1>1 DEF ClientTook, ClientKinds, ClientAfter
<1>3. h.n \in Nat
  BY <1>2, PiecesArePositive
<1>4. m.kind = "streamData" /\ m.fd = q /\ m.n = h.n
      /\ (q \in StreamConns => m \in AgentMessage)
  BY <1>3 DEF Agent!Msg, AgentMessage, Streams
<1>5. /\ q \in mapFdToClient /\ h.n <= upSent[q]
      /\ q \in Own => author[q] # "new"
  BY <1>1, <1>2 DEF RInv, ClientPart, Reported, Untold, q
<1>6. q \in StreamConns => parsed[q] = RequestPieces /\ ~isClosed[q]
  BY <1>2, <1>5 DEF RInv, StreamPart, Unasked, ClientPart, Made, Conns
<1>7. /\ UNCHANGED <<mapFdToClient, upSock, upSent>>
      /\ \/ /\ q \notin StreamConns
            /\ UNCHANGED <<isClosed, rep, agentInbox, answered, author, isSleep>>
         \/ /\ q \in StreamConns /\ agentInbox' = Append(agentInbox, m)
            /\ UNCHANGED <<isClosed, rep, answered, author, isSleep>>
         \/ /\ q \notin StreamConns /\ rep[q] # Pieces
            /\ rep' = [rep EXCEPT ![q] = @ + 1]
            /\ \/ Client!Close(q)
               \/ UNCHANGED <<isClosed, agentInbox, answered, author, isSleep>>
  BY <1>1, <1>5, <1>6 DEF Client!OnSocketData, Client!Ignored, Client!IsFinish,
     Client!Notify, Client!Msg, Agent!Msg, Client!upVars, Client!toldVars
<1> HIDE DEF m
<1>8. CASE q \in StreamConns
  <2>1. /\ agentInbox' = Append(agentInbox, m)
        /\ UNCHANGED <<mapFdToClient, upSock, upSent, isClosed, rep, answered, author,
                       isSleep>>
    BY <1>7, <1>8
  <2>2. ClientTypes' /\ Made' /\ Reported' /\ Untold'
    BY <1>1, <1>2, <2>1
       DEF RInv, ClientPart, ClientTypes, Made, Reported, Untold, Ends
  <2>3. /\ AgentPart' /\ AtAgent' = AtAgent \cup {m}
        /\ ~Ended(q) /\ ~Ending(q) /\ upSock[q] # "none"
    <3>1. \A x \in AtAgent : x.fd = q /\ x.kind = "streamData" => x.n < m.n
      BY <1>1, <1>2, <1>4 DEF RInv, StreamPart, OnTheWay
    <3> QED BY <2>1, <3>1, <1>4, <1>5, <1>6, <1>8, StreamPosts DEF Streams
  <2>4. UNCHANGED <<mapClient, parsed, written>>
    BY DEF agentVars
  <2>5. Unasked' /\ Shape'
    BY <1>2, <2>1, <2>4 DEF RInv, StreamPart, Unasked, Shape
  <2>6. Over'
    <3>1. \A c \in StreamConns : (Ended(c)' <=> Ended(c)) /\ (Ending(c)' <=> Ending(c))
      BY <1>4, <2>3, <2>4 DEF Ended, Ending
    <3> QED BY <3>1, <1>4, <2>1, <2>3 DEF RInv, StreamPart, Over
  <2>7. OnTheWay'
    <3>1. m.n \in 1 .. upSent[q]
      <4>1. upSent[q] \in Nat
        BY <1>2, PiecesArePositive DEF RInv, ClientPart, ClientTypes
      <4> QED BY <4>1, <1>2, <1>3, <1>4, <1>5
    <3>2. \A d \in AtClient' : d.kind = "data" /\ m.fd = d.fd => m.n < d.n
      BY <1>2, <1>4
    <3> QED BY <3>1, <3>2, <1>2, <1>4, <2>1, <2>3 DEF RInv, StreamPart, OnTheWay
  <2>8. NoneMissing'
    <3> SUFFICES ASSUME NEW c \in StreamConns, c \in mapClient
                 PROVE  Later(c)' /\ \A k \in 1 .. upSent[c] : ~Missing(c, k)'
      BY <2>1, <2>4 DEF NoneMissing
    <3>1. Later(c) /\ (\A k \in 1 .. upSent[c] : ~Missing(c, k))
      BY DEF RInv, StreamPart, NoneMissing
    <3>2. Later(c)'
      BY <3>1, <1>1, <1>2, <1>4, <2>3, <2>4 DEF Later
    <3>3. ASSUME NEW k \in 1 .. upSent[c]  PROVE ~Missing(c, k)'
      <4>1. Client!Msg("data", c, k) = h => Agent!Msg("streamData", c, k) = m
        BY DEF Client!Msg, m
      <4> QED BY <4>1, <3>1, <1>2, <2>3, <2>4 DEF Missing
    <3> QED BY <3>2, <3>3
  <2> QED BY <1>2, <2>2, <2>3, <2>5, <2>6, <2>7, <2>8
          DEF RInv, ClientPart, StreamPart
<1>9. CASE q \notin StreamConns
  <2>1. /\ UNCHANGED <<mapFdToClient, upSock, upSent>>
        /\ \/ UNCHANGED rep
           \/ rep[q] # Pieces /\ rep' = [rep EXCEPT ![q] = @ + 1]
        /\ \/ Client!Close(q)
           \/ UNCHANGED <<isClosed, agentInbox, answered, author, isSleep>>
    BY <1>7, <1>9
  <2>2. ClientTypes
    BY DEF RInv, ClientPart
  <2>3. rep' \in [Requests -> 0 .. Pieces]
    <3>1. rep \in [Requests -> 0 .. Pieces] /\ Pieces \in Nat
      BY <2>2, PiecesArePositive DEF ClientTypes
    <3>2. rep[q] # Pieces => rep[q] + 1 \in 0 .. Pieces
      BY <3>1, <1>2
    <3> QED BY <2>1, <3>1, <3>2, <1>2
  <2>4. /\ UNCHANGED agentInbox /\ AuthorsGoOn
        /\ answered' \in [Requests -> {0, 1}] /\ isClosed' \in [Requests -> BOOLEAN]
        /\ \A b \in Requests :
             b # q => isClosed'[b] = isClosed[b] /\ answered'[b] = answered[b]
        /\ isClosed'[q] <=> answered'[q] = 1
    <3>1. CASE Client!Close(q)
      BY <3>1, <1>2, <1>5, <1>9, CloseEffect DEF Closes
    <3>2. CASE UNCHANGED <<isClosed, agentInbox, answered, author, isSleep>>
      <4>1. isClosed[q] <=> answered[q] = 1
        BY <1>2, <1>5 DEF RInv, ClientPart, Made
      <4>2. AuthorsGoOn
        BY <3>2, <2>2, Authors
      <4> QED BY <3>2, <4>1, <4>2, <2>2 DEF ClientTypes
    <3> QED BY <2>1, <3>1, <3>2
  <2>5. ClientTypes'
    BY <2>1, <2>2, <2>3, <2>4 DEF ClientTypes, AuthorsGoOn
  <2>6. Made'
    <3> SUFFICES ASSUME NEW b \in Requests
                 PROVE /\ upSock'[b] = "none" => b \notin mapFdToClient' /\ upSent'[b] = 0
                       /\ upSock'[b] \in {"connecting", "open"} => b \in mapFdToClient'
                       /\ b \in mapFdToClient' /\ upSock'[b] = "closed" =>
                            \E d \in AtClient' : d.fd = b /\ d.kind \in Ends
                       /\ b \in mapFdToClient' => (isClosed'[b] <=> answered'[b] = 1)
                       /\ b \in mapFdToClient' /\ b \in StreamConns => ~isClosed'[b]
      BY DEF Made
    <3>1. h.kind \notin Ends
      BY <1>1 DEF Ends
    <3> QED BY <3>1, <1>2, <1>9, <2>1, <2>4 DEF RInv, ClientPart, Made
  <2>7. Reported'
    <3>1. \A d \in AtClient' : d.kind = "request" => d.fd # q
      BY <1>2, <1>5 DEF RInv, ClientPart, Reported, Made
    <3>2. \A d \in AtClient' : d \in AtClient /\ d.fd \in Requests
      BY <1>2, ClientItems DEF RInv, ClientPart, ClientKinds
    <3> QED BY <3>1, <3>2, <2>1, <2>4 DEF RInv, ClientPart, Reported
  <2>8. Untold'
    <3> SUFFICES ASSUME NEW b \in Own, author'[b] = "new"
                 PROVE  upSock'[b] = "none" /\ answered'[b] = 0
                        /\ \A d \in AtClient' : d.fd # b
      BY DEF Untold
    <3>1. author[b] = "new" /\ b \in Requests
      BY <2>4, OwnRequests DEF AuthorsGoOn
    <3>2. b # q
      BY <3>1, <1>5
    <3> QED BY <3>1, <3>2, <1>2, <2>1, <2>4 DEF RInv, ClientPart, Untold
  <2>9. About(q)
    BY <1>2, <2>1, <2>4 DEF About
  <2>10. AgentPart' /\ StreamPart'
    BY <1>2, <1>9, <2>4, <2>9, OtherStreams
  <2> QED BY <1>2, <2>5, <2>6, <2>7, <2>8, <2>10 DEF RInv, ClientPart
<1> QED BY <1>8, <1>9

(* Every step of the client's side.                                        *)
LEMMA ClientStep == ASSUME RInv, ClientSteps  PROVE RInv'
<1>1. UNCHANGED agentVars
  BY DEF ClientSteps
<1>2. CASE Client!ClientThread
  BY <1>1, <1>2, RequestStep, OpenedStep, ReadStep, ForgetStep DEF Client!ClientThread
<1>3. CASE Client!Authors
  <2>1. PICK q \in Own : \/ Client!Ask(q) \/ Client!Await(q) \/ Client!CondWait(q)
                         \/ Client!SendHttp(q)
    BY <1>3 DEF Client!Authors, Own
  <2> QED BY <1>1, <2>1, AskStep, WaitStep, SendHttpStep
<1>4. CASE Client!Connections
  <2>1. PICK q \in Requests : \/ Client!UpConnected(q) \/ Client!UpSends(q)
                              \/ Client!UpEnds(q)
    BY <1>4 DEF Client!Connections, Requests
  <2> QED BY <1>1, <2>1, UpMovesStep, UpSendsStep
<1> QED BY <1>2, <1>3, <1>4 DEF ClientSteps, Client!Next

-----------------------------------------------------------------------------
(* The invariant.                                                          *)

LEMMA InitInv == Init => RInv
<1> SUFFICES ASSUME Init  PROVE RInv
  OBVIOUS
<1>1. RequestPieces \in Nat \ {0} /\ Pieces \in Nat \ {0}
  BY PiecesArePositive
<1>2. agentInbox = <<>> /\ clientInbox = <<>>
  BY DEF Init, Agent!Init
<1>3. AgentBox /\ ClientBox /\ AtAgent = {} /\ AtClient = {}
  BY <1>2, BoxEmpty DEF AgentBox, ClientBox, AtAgent, AtClient
<1>4. /\ mapClient = {} /\ owed = {} /\ failed = {}
      /\ parsed = [c \in Conns |-> 0] /\ isSendData = [c \in Conns |-> FALSE]
      /\ written = [c \in Conns |-> <<>>]
      /\ downSock = [c \in Conns |-> "none"] /\ downSent = [c \in Conns |-> 0]
  BY DEF Init, Agent!Init, Agent!Conns, Conns
<1>5. /\ mapFdToClient = {} /\ isClosed = [q \in Requests |-> FALSE]
      /\ rep = [q \in Requests |-> 0] /\ answered = [q \in Requests |-> 0]
      /\ author = [q \in Own |-> "new"] /\ isSleep = [q \in SyncRequests |-> FALSE]
      /\ upSock = [q \in Requests |-> "none"] /\ upSent = [q \in Requests |-> 0]
  BY DEF Init, Client!Init, Requests, Own
<1>6. AgentTypes
  <2>1. <<>> \in Seq(Written) /\ 0 \in 0 .. RequestPieces /\ 0 \in 0 .. RequestPieces + 1
    BY <1>1
  <2> QED BY <1>4, <2>1 DEF AgentTypes
<1>7. ClientTypes
  <2>1. 0 \in 0 .. Pieces /\ 0 \in 0 .. Pieces + 1
    BY <1>1
  <2> QED BY <1>5, <2>1 DEF ClientTypes
<1>8. Handed /\ Announced /\ Unread /\ Answered
  BY <1>3, <1>4 DEF Handed, Announced, Unread, Answered, Conns
<1>9. Made /\ Reported /\ Untold
  BY <1>3, <1>5, OwnRequests DEF Made, Reported, Untold
<1>10. \A c \in StreamConns : c \in Requests /\ c \in Conns
  BY DEF Requests, Client!Requests, Conns
<1>11. Unasked
  BY <1>3, <1>5, <1>10 DEF Unasked
<1>12. \A c \in StreamConns : Len(written[c]) = 0 /\ ~Ended(c) /\ ~Ending(c)
  <2>1. \A c \in StreamConns : written[c] = <<>>
    BY <1>4, <1>10
  <2>2. \A c \in StreamConns : Len(written[c]) = 0
    BY <2>1
  <2> QED BY <2>2, <1>3 DEF Ended, Ending
<1>13. Shape /\ Over /\ OnTheWay
  BY <1>3, <1>12 DEF Shape, ShapeOf, Over, OnTheWay
<1>14. NoneMissing
  BY <1>4 DEF NoneMissing
<1> QED BY <1>3, <1>6, <1>7, <1>8, <1>9, <1>11, <1>13, <1>14
        DEF RInv, AgentPart, ClientPart, StreamPart

LEMMA StutterInv == ASSUME RInv, UNCHANGED vars  PROVE RInv'
<1>1. UNCHANGED <<clientInbox, clientVars, agentVars>> /\ UNCHANGED agentInbox
  BY DEF vars
<1>2. AtAgent' = AtAgent /\ AgentBox'
  BY <1>1 DEF AtAgent, AgentBox, RInv, AgentPart
<1>3. AgentPart'
  BY <1>1, <1>2, AgentPartKept
<1>4. ClientPart'
  BY <1>1, ClientPartKept DEF RInv
<1>5. SameStreams
  BY <1>1, <1>2 DEF SameStreams, agentVars
<1>6. StreamPart'
  BY <1>1, <1>5, StreamPartKept
<1> QED BY <1>3, <1>4, <1>6 DEF RInv

LEMMA NextInv == RInv /\ [Next]_vars => RInv'
BY AgentStep, ClientStep, StutterInv DEF Next

LEMMA Invariant == Spec => []RInv
<1>1. RInv /\ [Next]_vars => RInv'
  BY NextInv
<1> QED BY InitInv, <1>1, PTL DEF Spec

-----------------------------------------------------------------------------
(* What the runs check.                                                    *)

LEMMA TypesInv == RInv => TypeOK
<1> SUFFICES ASSUME RInv  PROVE TypeOK
  OBVIOUS
<1>1. Agent!TypeOK
  <2>1. AgentTypes
    BY DEF RInv, AgentPart
  <2>2. \A i \in DOMAIN agentInbox : agentInbox[i].fd \in Conns
    <3> SUFFICES ASSUME NEW i \in DOMAIN agentInbox  PROVE agentInbox[i].fd \in Conns
      OBVIOUS
    <3>1. agentInbox \in Seq(AgentMessage)
      BY DEF RInv, AgentPart, AgentBox, Box
    <3>2. agentInbox[i] \in AtAgent
      BY <3>1 DEF AtAgent, Items
    <3> QED BY <3>2, AgentItems DEF RInv, AgentPart, AgentKinds
  <2>3. \A c \in Conns :
          written[c] \in Seq([what : {"response", "data", "end"}, n : Nat])
    BY <2>1 DEF AgentTypes, Written
  <2> QED BY <2>1, <2>2, <2>3 DEF Agent!TypeOK, AgentTypes, Agent!DownLinks,
                                  Agent!Conns, Conns
<1>2. Client!TypeOK
  <2>1. ClientTypes
    BY DEF RInv, ClientPart
  <2>2. ClientMessage \subseteq Client!ClientMessages
    <3> SUFFICES ASSUME NEW m \in ClientMessage  PROVE m \in Client!ClientMessages
      OBVIOUS
    <3>1. 0 \in 0 .. Pieces + 1 /\ \A n \in 1 .. Pieces + 1 : n \in 0 .. Pieces + 1
      BY PiecesArePositive
    <3> QED BY <3>1 DEF ClientMessage, Client!ClientMessages, Requests
  <2>3. clientInbox \in Seq(Client!ClientMessages)
    <3>1. clientInbox \in Seq(ClientMessage)
      BY DEF RInv, ClientPart, ClientBox, Box
    <3> QED BY <3>1, <2>2
  <2>4. answered \in [Requests -> Nat]
    BY <2>1 DEF ClientTypes
  <2> QED BY <2>1, <2>3, <2>4 DEF Client!TypeOK, ClientTypes, Client!Places,
                                  Client!Links, Requests, Own
<1> QED BY <1>1, <1>2 DEF TypeOK

(* The numbers of what is written.                                         *)
LEMMA NoneCounted ==
  ASSUME NEW c, NEW what, \A i \in DOMAIN written[c] : written[c][i].what # what
  PROVE  Count(c, what) = 0
<1>1. {i \in DOMAIN written[c] : written[c][i].what = what} = {}
  OBVIOUS
<1> QED BY <1>1, FS_EmptySet DEF Count

LEMMA OneResponseInv == RInv => OneResponse
<1> SUFFICES ASSUME RInv  PROVE OneResponse
  OBVIOUS
<1>1. ASSUME NEW c \in PageConns, written[c] # <<>>
      PROVE  written[c] = <<Agent!Item("response", 0)>> /\ parsed[c] = RequestPieces
  BY <1>1 DEF RInv, AgentPart, Answered, Unread, Conns
<1>2. ASSUME NEW c \in StreamConns  PROVE Count(c, "response") = 0
  <2>1. written[c] \in Seq(Written)
    BY DEF RInv, AgentPart, AgentTypes, Conns
  <2>2. \A i \in 1 .. Len(written[c]) : written[c][i].what # "response"
    <3>1. \A i : /\ Agent!Item("data", i).what # "response"
                 /\ Agent!Item("end", i).what # "response"
      BY DEF Agent!Item
    <3> QED BY <3>1 DEF RInv, StreamPart, Shape, ShapeOf
  <2>3. DOMAIN written[c] = 1 .. Len(written[c])
    BY <2>1
  <2> QED BY <2>2, <2>3, NoneCounted
<1> QED BY <1>1, <1>2 DEF OneResponse

LEMMA RelayedInv == RInv => StreamIsRelayed
<1> SUFFICES ASSUME RInv, NEW c \in StreamConns
             PROVE  LET data == Count(c, "data") IN
                    /\ \A i \in 1 .. data : written[c][i] = Agent!Item("data", i)
                    /\ data <= upSent[c]
                    /\ Count(c, "end") <= 1
                    /\ Count(c, "end") = 1 => data = upSent[c] /\ upSock[c] = "closed"
  BY DEF StreamIsRelayed
<1> DEFINE s == written[c]
           n == Len(s)
           u == upSent[c]
<1>1. s \in Seq(Written) /\ n \in Nat /\ DOMAIN s = 1 .. n
  BY DEF RInv, AgentPart, AgentTypes, Conns
<1>2. u \in Nat
  BY PiecesArePositive DEF RInv, ClientPart, ClientTypes, Requests, Client!Requests
<1>3. \A i : /\ Agent!Item("data", i).what = "data"
             /\ Agent!Item("end", i).what = "end"
  BY DEF Agent!Item
<1>4. Count(c, "data") = Cardinality({i \in 1 .. n : s[i].what = "data"})
      /\ Count(c, "end") = Cardinality({i \in 1 .. n : s[i].what = "end"})
  BY <1>1 DEF Count
<1>5. CASE ~Ended(c)
  <2>1. n <= u /\ \A i \in 1 .. n : s[i] = Agent!Item("data", i)
    BY <1>5, DataOnly
  <2>2. {i \in 1 .. n : s[i].what = "data"} = 1 .. n
        /\ {i \in 1 .. n : s[i].what = "end"} = {}
    BY <1>3, <2>1
  <2>3. Cardinality(1 .. n) = n /\ Cardinality({}) = 0
    BY <1>1, FS_Interval, FS_EmptySet
  <2>4. Count(c, "data") = n /\ Count(c, "end") = 0
    BY <1>4, <2>2, <2>3
  <2> QED BY <2>1, <2>4
<1>6. CASE Ended(c)
  <2>1. \A i \in 1 .. n : \/ s[i] = Agent!Item("data", i) /\ i <= u
                          \/ s[i] = Agent!Item("end", 0) /\ i = n /\ i = u + 1
    BY DEF RInv, StreamPart, Shape, ShapeOf
  <2>2. \E i \in 1 .. n : s[i] = Agent!Item("end", 0)
    BY <1>6 DEF Ended
  <2>3. n = u + 1
    BY <2>1, <2>2, <1>3
  <2>4. \A i \in 1 .. u : i \in 1 .. n /\ s[i] = Agent!Item("data", i)
    BY <2>1, <2>3, <1>2
  <2>5. s[n] = Agent!Item("end", 0) /\ n \in 1 .. n
    BY <2>1, <2>2, <1>3
  <2>6. {i \in 1 .. n : s[i].what = "data"} = 1 .. u
    <3>1. \A i \in 1 .. n : i \in 1 .. u \/ i = n
      BY <2>3, <1>2
    <3> QED BY <3>1, <2>4, <2>5, <1>3
  <2>7. {i \in 1 .. n : s[i].what = "end"} = {n}
    <3>1. \A i \in 1 .. n : i \in 1 .. u \/ i = n
      BY <2>3, <1>2
    <3> QED BY <3>1, <2>4, <2>5, <1>3
  <2>8. Cardinality(1 .. u) = u /\ Cardinality({n}) = 1
    <3>1. Cardinality(1 .. u) = u
      BY <1>2, FS_Interval
    <3>2. Cardinality({n}) = 1
      BY FS_Singleton
    <3> QED BY <3>1, <3>2
  <2>9. Count(c, "data") = u /\ Count(c, "end") = 1
    BY <1>4, <2>6, <2>7, <2>8
  <2>10. upSock[c] = "closed"
    BY <1>6 DEF RInv, StreamPart, Over
  <2> QED BY <2>4, <2>9, <2>10, <1>2
<1> QED BY <1>5, <1>6

LEMMA MapsInv == RInv => MapsFollowConnections
<1> SUFFICES ASSUME RInv  PROVE MapsFollowConnections
  OBVIOUS
<1>1. ASSUME NEW c \in Conns
      PROVE  c \in mapClient
               <=> (downSock[c] \in {"starting", "open"} \/ EndIsOnItsWay(c))
  <2>1. agentInbox \in Seq(AgentMessage)
    BY DEF RInv, AgentPart, AgentBox, Box
  <2>2. EndIsOnItsWay(c) <=> \E m \in AtAgent : m.kind = "end" /\ m.fd = c
    BY <2>1 DEF EndIsOnItsWay, AtAgent, Items
  <2>3. downSock[c] \in {"none", "accepted", "starting", "open", "closed"}
    BY DEF RInv, AgentPart, AgentTypes
  <2>4. EndIsOnItsWay(c) => c \in mapClient
    BY <2>2 DEF RInv, AgentPart, Announced, Events
  <2> QED BY <2>2, <2>3, <2>4 DEF RInv, AgentPart, Handed
<1>2. "second notice" \notin failed
  BY DEF RInv, AgentPart, Handed
<1>3. ASSUME NEW q \in Requests
      PROVE  q \in mapFdToClient
               <=> (upSock[q] \in {"connecting", "open"} \/ Client!EndIsOnItsWay(q))
  <2>1. clientInbox \in Seq(ClientMessage)
    BY DEF RInv, ClientPart, ClientBox, Box
  <2>2. Client!EndIsOnItsWay(q) <=> \E m \in AtClient : m.fd = q /\ m.kind \in Ends
    BY <2>1 DEF Client!EndIsOnItsWay, AtClient, Items, Ends
  <2>3. upSock[q] \in {"none", "connecting", "open", "closed"}
    BY DEF RInv, ClientPart, ClientTypes
  <2>4. Client!EndIsOnItsWay(q) => q \in mapFdToClient
    BY <2>2 DEF RInv, ClientPart, Reported, Ends
  <2> QED BY <2>2, <2>3, <2>4 DEF RInv, ClientPart, Made
<1> QED BY <1>1, <1>2, <1>3
        DEF MapsFollowConnections, Client!MapFollowsConnections, Requests

(* No step tells an author twice, or writes to a response that he has been *)
(* given.                                                                  *)
Final(q) == answered[q] > 0 => answered'[q] = answered[q] /\ rep'[q] = rep[q]
LEMMA FinalStep ==
  ASSUME RInv, ClientSteps, NEW r \in Requests  PROVE Final(r)
<1> SUFFICES ASSUME answered[r] > 0
             PROVE  answered'[r] = answered[r] /\ rep'[r] = rep[r]
  BY DEF Final
<1>1. answered[r] = 1 /\ ClientTypes
  BY DEF RInv, ClientPart, ClientTypes
<1>2. r \in mapFdToClient => isClosed[r]
  BY <1>1 DEF RInv, ClientPart, Made
<1>3. ASSUME NEW q, Client!Close(q), q \in mapFdToClient  PROVE answered'[r] = answered[r]
  <2>1. CASE q = r
    BY <1>2, <1>3, <2>1 DEF Client!Close, Client!AlreadyClosed, Client!toldVars
  <2>2. CASE q # r
    BY <1>1, <1>3, <2>2
       DEF ClientTypes, Client!Close, Client!AlreadyClosed, Client!toldVars
  <2> QED BY <2>1, <2>2
<1>4. CASE Client!HandleRequest
  <2>0. PICK h : h = Head(clientInbox)
    OBVIOUS
  <2>1. ClientTook(h) /\ h.kind = "request" /\ Client!OnMsgProto(h.fd)
    BY <1>4, <2>0, ClientTakes DEF Client!HandleRequest, RInv, ClientPart, Client!Taken
  <2>2. h.fd # r
    BY <1>1, <2>1 DEF ClientTook, RInv, ClientPart, Reported
  <2> QED BY <1>1, <2>1, <2>2
          DEF Client!OnMsgProto, Client!Connect, Client!requestVars, Client!toldVars,
              ClientTypes
<1>5. CASE Client!HandleOpen
  <2>1. UNCHANGED <<answered, rep>>
    BY <1>5 DEF Client!HandleOpen, Client!OnSocketOpen, Client!CloseUnknown,
                Client!requestVars, Client!toldVars
  <2> QED BY <2>1
<1>6. CASE Client!HandleData
  <2>0. PICK h : h = Head(clientInbox)
    OBVIOUS
  <2>1. ClientTook(h) /\ h.kind = "data" /\ Client!OnSocketData(h.fd, h.n)
    BY <1>6, <2>0, ClientTakes DEF Client!HandleData, RInv, ClientPart, Client!Taken
  <2>2. h.fd \in mapFdToClient
    BY <2>1 DEF ClientTook, RInv, ClientPart, Reported
  <2>3. h.fd = r => UNCHANGED <<rep, answered>>
    BY <1>2, <2>1, <2>2 DEF Client!OnSocketData, Client!Ignored, Client!toldVars
  <2>4. h.fd # r => rep'[r] = rep[r]
    BY <1>1, <2>1, <2>2 DEF Client!OnSocketData, Client!toldVars, ClientTypes
  <2>5. UNCHANGED answered \/ Client!Close(h.fd)
    BY <2>1, <2>2 DEF Client!OnSocketData, Client!toldVars
  <2> QED BY <1>3, <2>2, <2>3, <2>4, <2>5
<1>7. CASE Client!HandleClose \/ Client!HandleError
  <2>0. PICK h : h = Head(clientInbox)
    OBVIOUS
  <2>1. Client!Forget(h.fd)
    BY <1>7, <2>0 DEF Client!HandleClose, Client!OnSocketClose, Client!Taken,
                      Client!HandleError, Client!OnSocketError
  <2>2. UNCHANGED rep /\ (UNCHANGED answered
                          \/ (Client!Close(h.fd) /\ h.fd \in mapFdToClient))
    BY <2>1 DEF Client!Forget, Client!toldVars
  <2> QED BY <1>3, <2>2
<1>8. CASE Client!Authors
  <2>1. PICK q \in Own : \/ Client!Ask(q) \/ Client!Await(q) \/ Client!CondWait(q)
                         \/ Client!SendHttp(q)
    BY <1>8 DEF Client!Authors, Own
  <2>2. CASE Client!SendHttp(q)
    <3>1. q # r
      BY <1>1, <2>2 DEF Client!SendHttp, RInv, ClientPart, Untold
    <3> QED BY <1>1, <2>2, <3>1 DEF Client!SendHttp, Client!Connect,
                                    Client!requestVars, ClientTypes
  <2> QED BY <2>1, <2>2 DEF Client!Ask, Client!Await, Client!CondWait,
                            Client!requestVars
<1>9. CASE Client!Connections
  <2>1. UNCHANGED <<answered, rep>>
    BY <1>9 DEF Client!Connections, Client!UpConnected, Client!UpSends, Client!UpEnds,
                Client!Event, Client!requestVars, Client!toldVars
  <2> QED BY <2>1
<1> QED BY <1>4, <1>5, <1>6, <1>7, <1>8, <1>9
        DEF ClientSteps, Client!Next, Client!ClientThread

-----------------------------------------------------------------------------
(* The types of both sides, and of what is in their mailboxes.             *)
THEOREM TypesTheorem == Spec => []TypeOK
BY Invariant, TypesInv, PTL

(* A request of openhttpserver.cpp gets one response, when it is whole,    *)
(* whatever its handler does and whatever its visitor sends after it, and  *)
(* no response is written to a connection that streams.                    *)
THEOREM OneResponseTheorem == Spec => []OneResponse
BY Invariant, OneResponseInv, PTL

(* What is written to a streaming connection is what the other server sent *)
(* to the client that streams for it, from its start, in order, with none  *)
(* missing when its end is written, through two sockets and two mailboxes, *)
(* however the two connections end.                                        *)
THEOREM RelayTheorem == Spec => []StreamIsRelayed
BY Invariant, RelayedInv, PTL

(* mapClient_ and mapFdToClient_ have an entry exactly as long as the      *)
(* connection lives or its end is still in the mailbox.                    *)
THEOREM MapsTheorem == Spec => []MapsFollowConnections
BY Invariant, MapsInv, PTL

(* Client::close() tells the author of a request once, and nothing writes  *)
(* to a response that he has been given.                                   *)
THEOREM FinalTheorem == Spec => AnswerIsFinal
<1>1. RInv /\ [Next]_vars
        => [\A q \in Client!Requests : answered[q] > 0 =>
              answered'[q] = answered[q] /\ rep'[q] = rep[q]]_Client!vars
  <2> SUFFICES ASSUME RInv, [Next]_vars, NEW q \in Client!Requests, answered[q] > 0,
                      Client!vars' # Client!vars
               PROVE  answered'[q] = answered[q] /\ rep'[q] = rep[q]
    OBVIOUS
  <2>1. CASE ClientSteps
    BY <2>1, FinalStep DEF Final, Requests
  <2>2. CASE AgentSteps \/ UNCHANGED vars
    BY <2>2 DEF AgentSteps, clientVars, vars
  <2> QED BY <2>1, <2>2 DEF Next
<1> QED BY Invariant, <1>1, PTL DEF Spec, AnswerIsFinal, Client!AnswerIsFinal
=============================================================================
