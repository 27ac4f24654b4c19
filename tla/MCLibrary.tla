------------------------------ MODULE MCLibrary ------------------------------
(* The parts of the library that a single thread uses, for TLC: OpenBuffer, *)
(* OpenFSM, the framing of HTTP messages and OpenJson.  They share nothing; *)
(* a behaviour is about one of them, its subject, and the others rest.      *)
EXTENDS OpenFSM, OpenBuffer, HttpFraming

VARIABLES subject,
          doc, aborted, want, hollow, careful, calls

(* A body in one piece or, in chunks, its first byte and the rest, with a  *)
(* leading zero in the sizes or without.                                   *)
Bodies == {<<>>, <<Other>>, <<Other, 1>>, <<1, 16, 17>>, <<16, 17, Other>>,
           <<Other, Other, 16, 17>>, <<Other, 16, 17, 1, 16, 17>>}
Heads == {<<PlainLine>>, <<PlainLine, PlainLine>>, <<PlainLine, NamelessLine>>,
          [i \in 1 .. 6 |-> PlainLine]}
Parts(body) == IF Len(body) < 2 THEN [i \in 1 .. Len(body) |-> body]
               ELSE <<<<Head(body)>>, Tail(body)>>
MCMessages ==
  {[isReq |-> r, lines |-> l, framing |-> f, parts |-> Parts(b),
    sizes |-> [i \in 1 .. Len(Parts(b)) + 1 |->
                 (IF pad THEN <<0>> ELSE <<>>)
                   \o <<IF i <= Len(Parts(b)) THEN Len(Parts(b)[i]) ELSE 0>>]] :
     r \in BOOLEAN, l \in Heads, f \in {"encoded", "bare", "chunked"},
     b \in Bodies, pad \in BOOLEAN}

Means(w) == [k \in {<<"k">>} |-> w]
Json == INSTANCE OpenJson
  WITH Keys <- {<<"k">>, <<"j">>}, Numbers <- {12, -3, -16, 20},
       Strings <- {<<>>, <<"x">>, <<"'", "\"">>, <<"x", "\\">>},
       MaxIdx <- 2, Width <- 5, MaxCalls <- 3,
       Texts <-
         {[chars |-> <<"{", " ", "'", "k", "'", " ", ":",
                       "[", "1", " ", ",", " ", "2", "]", ",", "}">>,
           means |-> Means([type |-> "array", value |-> <<1, 2>>]), good |-> TRUE],
          [chars |-> <<"{", "\"", "k", "\"", ":", "[", "]", "}">>,
           means |-> Means([type |-> "array", value |-> <<>>]), good |-> TRUE],
          [chars |-> <<"{", "\"", "k", "\"", ":", "\"", "\\", "\"", "\"", "}">>,
           means |-> Means([type |-> "s", value |-> <<"\"">>]), good |-> TRUE],
          [chars |-> <<"{", "\"", "k", "\"", ":", "true", " ", "}">>,
           means |-> Means([type |-> "b", value |-> 1]), good |-> FALSE],
          [chars |-> <<"{", "\"", "k", "\"", ":", "\"", "x">>,
           means |-> Means([type |-> "s", value |-> <<"x">>]), good |-> FALSE]}

jsonVars == <<doc, aborted, want, hollow, careful, calls>>
libraryVars == <<subject, bufferVars, vars, framingVars, jsonVars>>

OneMessage == CHOOSE m \in Messages : m.framing = "bare"

LibraryInit ==
  /\ subject \in {"buffer", "fsm", "http", "json"}
  /\ BufferInit
  /\ Init
  /\ FramingInit
  /\ subject # "http" => msg = OneMessage
  /\ Json!JsonInit

BufferStep == subject = "buffer" /\ BufferNext
              /\ UNCHANGED <<subject, vars, framingVars, jsonVars>>
FsmStep == subject = "fsm" /\ Next
           /\ UNCHANGED <<subject, bufferVars, framingVars, jsonVars>>
HttpStep == subject = "http" /\ FramingNext
            /\ UNCHANGED <<subject, bufferVars, vars, jsonVars>>
JsonStep == subject = "json" /\ Json!JsonNext
            /\ UNCHANGED <<subject, bufferVars, vars, framingVars>>
LibraryNext == BufferStep \/ FsmStep \/ HttpStep \/ JsonStep
LibrarySpec == LibraryInit /\ [][LibraryNext]_libraryVars

-----------------------------------------------------------------------------
(* What was put into a tree is read from it, through encoding and decoding.*)
JsonSound == subject = "json" => Json!JsonSound
=============================================================================
