------------------------------ MODULE MCServers ------------------------------
(* Two servers of one class, with timers, of which the second asks the     *)
(* first as centor asks a stock server; and programs with mistakes: a      *)
(* class registered twice, a server started twice, servers run twice, a    *)
(* class that is not registered, a server asked before it runs or that     *)
(* does not exist, no timer server.                                        *)
EXTENDS Servers, TLC

CONSTANTS a, b, k, l

Do(op) == [op |-> op, class |-> k, name |-> a]
Start(class, name) == [op |-> "server", class |-> class, name |-> name]
Time(op, t) == [op |-> op, at |-> t]
Ask(s) == [op |-> "ask", to |-> s]

MCScripts ==
  {[main |-> <<Do("app"), Do("timer"), Do("register"), Start(k, a),
               Start(k, b), Do("run")>>,
    onStart |-> a :> <<Time("time", 2)>>
             @@ b :> <<Ask(a), Time("interval", 1)>>],
   [main |-> <<Do("timer"), Do("timer"), Do("register"), Do("register"),
               Start(k, b), Start(k, b), Do("run"), Do("run"), Start(l, a)>>,
    onStart |-> a :> <<>> @@ b :> <<Ask(a), [op |-> "listen"]>>],
   [main |-> <<Do("app"), Do("register"), Start(k, b), Start(k, a),
               Do("run")>>,
    onStart |-> a :> <<[op |-> "listen"], Ask(b)>>
             @@ b :> <<Time("time", 1), Ask(a)>>]}
MCWanted == <<b>>
=============================================================================
