---------------------------- MODULE MCThreadPool ----------------------------
(* Two threads of the program outside of the pool, and the callback of the *)
(* thread x, over a pool of two slots.                                     *)
EXTENDS ThreadPool, TLC

CONSTANTS a, b, h, x, y

Do(op, n) == [op |-> op, by |-> "name", list |-> FALSE, of |-> <<n>>]
DoPid(op, p) == [op |-> op, by |-> "pid", list |-> FALSE, of |-> <<p>>]
DoAll(op, ps) == [op |-> op, by |-> "pid", list |-> TRUE, of |-> ps]
StopAll == [op |-> "stopAll", by |-> "name", list |-> FALSE, of |-> <<>>]

MCCalls ==
     a :> <<{Do("launch", x)}, {StopAll}>>
  @@ b :> <<{Do("create", x), Do("start", y)},
            {Do("start", x), DoAll("join", <<0, 1>>)}>>
  @@ h :> <<{DoPid("stop", 1), Do("halt", x), StopAll, DoPid("send", 1),
             Do("thread", x)}>>
MCHome == a :> NoName @@ b :> NoName @@ h :> x
=============================================================================
