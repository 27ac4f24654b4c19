---------------------------- MODULE MCHttpRelay ----------------------------
(* An instance of HttpRelay for TLC.  The authors of requests and the      *)
(* visitors of the agent meet only in the client's mailbox; to keep the    *)
(* product of their steps small, a behaviour has the ones or the others.   *)
EXTENDS HttpRelay

CONSTANTS p1, c1, a1, s1

Apart == \/ \A q \in Client!Own : author[q] = "new"
         \/ \A c \in Conns : downSock[c] = "none"
MCNext == Next /\ Apart'
MCSpec == Init /\ [][MCNext]_vars /\ Fairness
=============================================================================
