----------------------------- MODULE HttpFraming -----------------------------
(***************************************************************************)
(* How OpenHttp (open/server/https/openhttpslib.cpp) finds the end of a    *)
(* message in what a connection delivers, cut into pieces anywhere:        *)
(* requestData() and responseData() collect the head, and then a body that *)
(* comes in chunks, has a length, or neither.                              *)
(*                                                                         *)
(* A byte is a number: a hexadecimal digit, CR, LF or another.  A line of  *)
(* the head is one byte, which tells the lines the parser looks for from   *)
(* others; the line breaks between them are left out.                      *)
(***************************************************************************)
EXTENDS Integers, Sequences

CONSTANTS Messages, \* bound: the messages that are sent
          MaxPiece, \* bound: on what arrives at once
          MinHead,  \* 12 in the code: a shorter head is not looked into
          MaxHead   \* 8192 in the code

CR == 16
LF == 17
Other == 18
LengthLine == 20
ChunkedLine == 21
NamelessLine == 22  \* a line whose name is made of blanks
PlainLine == 23
Digits == 0 .. 15
Bytes == Digits \cup {CR, LF, Other}
LineBreak == <<CR, LF>>
HeadEnd == LineBreak \o LineBreak

(* A message has lines in its head, says whether it is a request, and has  *)
(* a body, in parts; framing tells how the body is sent.  In chunks, these *)
(* are the parts, and sizes has the digits of the size of each and of the  *)
(* last chunk, which has nothing in it.                                    *)
ASSUME MessagesType ==
  Messages \subseteq [isReq : BOOLEAN, lines : Seq({PlainLine, NamelessLine}),
                     framing : {"encoded", "bare", "chunked"},
                     parts : Seq(Seq(Bytes) \ {<<>>}),
                     sizes : Seq(Seq(Digits) \ {<<>>})]
ASSUME LimitsNat == MaxPiece \in Nat /\ MinHead \in Nat /\ MaxHead \in Nat

(* strtol(): the number that digits make.                                  *)
Number(digits) ==
  LET number[i \in 0 .. Len(digits)] ==
        IF i = 0 THEN 0 ELSE 16 * number[i - 1] + digits[i]
  IN  number[Len(digits)]
ASSUME SizesTell ==
  \A m \in Messages :
    /\ Len(m.sizes) = Len(m.parts) + 1
    /\ \A i \in 1 .. Len(m.sizes) :
         Number(m.sizes[i]) = IF i <= Len(m.parts) THEN Len(m.parts[i]) ELSE 0

VARIABLES
  msg,     \* the message
  wire,    \* what of it has not arrived
  parser,  \* the fields of OpenHttp
  clean    \* history: no piece ended where the parser is lost

framingVars == <<msg, wire, parser, clean>>

-----------------------------------------------------------------------------
(* What is sent.  The first n of some sequences, one behind the other:     *)
Joined(ss, n) ==
  LET joined[i \in 0 .. Len(ss)] ==
        IF i = 0 THEN <<>> ELSE joined[i - 1] \o ss[i]
  IN  joined[n]
Body(m) == Joined(m.parts, Len(m.parts))

(* encodeReqHeader(), encodeRespHeader(): a length is written for a body.  *)
Encode(m) ==
  m.lines \o (IF Body(m) = <<>> THEN <<>> ELSE <<LengthLine>>) \o HeadEnd \o Body(m)

SizeLine(m, i) == m.sizes[i] \o LineBreak
Chunk(m, i) == SizeLine(m, i) \o m.parts[i] \o LineBreak
ChunkedHead(m) == m.lines \o <<ChunkedLine>> \o HeadEnd
Sent(m, n) == ChunkedHead(m) \o Joined([i \in DOMAIN m.parts |-> Chunk(m, i)], n)

Wire(m) ==
  CASE m.framing = "encoded" -> Encode(m)
    [] m.framing = "bare" -> m.lines \o HeadEnd \o Body(m)
    [] m.framing = "chunked" ->
         Sent(m, Len(m.parts)) \o SizeLine(m, Len(m.sizes)) \o LineBreak

(* The places where a cut makes the parser go wrong: in the first three    *)
(* bytes; within a size line, behind its first byte; and between the size  *)
(* line of the last chunk and its end.  A response without a length seems  *)
(* to end where a piece ends with a line break.                            *)
BadCuts(m) ==
  {1, 2} \cup
  CASE m.framing = "chunked" ->
         LET at(i) == Len(Sent(m, i))
             line(i) == Len(SizeLine(m, i + 1))
             last == Len(m.parts)
         IN  (UNION {at(i) + 2 .. at(i) + line(i) - 1 : i \in 0 .. last})
               \cup (at(last) + line(last) .. at(last) + line(last) + 1)
    [] OTHER -> {}

-----------------------------------------------------------------------------
(* The parser.                                                             *)

Fresh(isReq) ==
  [isReq |-> isReq, code |-> -1, clen |-> 0, chunked |-> FALSE,
   head |-> <<>>, body |-> <<>>, buffer |-> <<>>, done |-> FALSE, faults |-> {}]
Done(p) == [p EXCEPT !.done = TRUE]
Fault(p, what) == [p EXCEPT !.faults = @ \cup {what}]
Drop(s, n) == SubSeq(s, n + 1, Len(s))
BreakFirst(s) == Len(s) >= 2 /\ SubSeq(s, 1, 2) = LineBreak
EndsWithBreak(s) == Len(s) >= 2 /\ SubSeq(s, Len(s) - 1, Len(s)) = LineBreak

(* decodeReqHeader() and decodeRespHeader(): a head that is too short, or  *)
(* of which a part was decoded before, is left alone.  In a request a line *)
(* without a name takes the lines behind it with it.                       *)
LinesOf(p) ==
  LET nameless == {i \in DOMAIN p.head : p.isReq /\ p.head[i] = NamelessLine}
  IN  {p.head[i] : i \in {j \in DOMAIN p.head : \A k \in nameless : j < k}}
DecodeHeader(p) ==
  IF Len(p.head) < MinHead THEN p
  ELSE [p EXCEPT !.code = 200,
                 !.chunked = ChunkedLine \in LinesOf(p),
                 !.clen = IF ChunkedLine \in LinesOf(p) \/ LengthLine \notin LinesOf(p)
                          THEN -1 ELSE Len(Body(msg))]

(* Where the head ends, or how far the search for its end goes.            *)
EndOfHead(s) ==
  LET ends == {i \in 0 .. Len(s) - 4 : SubSeq(s, i + 1, i + 4) = HeadEnd}
  IN  IF ends = {} THEN Len(s) - 3 ELSE CHOOSE i \in ends : \A j \in ends : i <= j

(* The first line break of a chunk's size line.  The search stops short of *)
(* the last two bytes, which pass for one.                                 *)
EndOfLine(s) ==
  LET ends == {i \in 0 .. Len(s) - 3 : SubSeq(s, i + 1, i + 2) = LineBreak}
  IN  IF ends = {} THEN Len(s) - 2 ELSE CHOOSE i \in ends : \A j \in ends : i <= j
NoLine(s) == Len(s) < 2

(* strtol() reads the digits in front.                                     *)
SizeOf(s) ==
  LET ends == {k \in 0 .. Len(s) : k < Len(s) => s[k + 1] \notin Digits}
  IN  Number(SubSeq(s, 1, CHOOSE k \in ends : \A j \in ends : k <= j))

(* A turn of the loop over chunks: at a size line or, when that is read,   *)
(* at a chunk.  A request whose last chunk does not end at once fails an   *)
(* assertion; the parser goes on as without assertions.                    *)
GoesOn(p) == [parser |-> p, on |-> TRUE]
Returns(p) == [parser |-> p, on |-> FALSE]
TakeSize(p) ==
  LET rest == Drop(p.buffer, EndOfLine(p.buffer) + 2)
      n == SizeOf(p.buffer)
      last == Done([p EXCEPT !.clen = 0, !.buffer = <<>>])
  IN  IF n # 0 THEN GoesOn([p EXCEPT !.clen = n, !.buffer = rest])
      ELSE IF rest = LineBreak \/ (~p.isReq /\ ~BreakFirst(rest))
      THEN Returns(last)
      ELSE Returns(Fault(last, "last chunk"))
TakeChunk(p) ==
  LET rest == Drop(p.buffer, p.clen)
      more == [p EXCEPT !.body = @ \o SubSeq(p.buffer, 1, p.clen), !.buffer = rest]
  IN  IF BreakFirst(rest)
      THEN GoesOn([more EXCEPT !.buffer = Drop(rest, 2), !.clen = -1])
      ELSE Returns(IF p.isReq THEN Fault(more, "chunk end") ELSE more)
Turn(t) ==
  LET p == t.parser
  IN  IF ~t.on THEN t
      ELSE IF p.clen = -1
      THEN IF NoLine(p.buffer) THEN Returns(p) ELSE TakeSize(p)
      ELSE IF p.clen + 2 > Len(p.buffer) THEN Returns(p) ELSE TakeChunk(p)

(* Each turn but the last takes two bytes or more of the buffer.           *)
TakeChunks(p) ==
  LET turns[n \in Nat] == IF n = 0 THEN GoesOn(p) ELSE Turn(turns[n - 1])
  IN  turns[Len(p.buffer) + 1].parser

(* The body without chunks: without a length a request has none, and a     *)
(* response ends when a piece ends with a line break.                      *)
TakeBody(p) ==
  LET whole == IF EndsWithBreak(p.body) THEN [p EXCEPT !.clen = Len(p.body)] ELSE p
  IN  IF p.clen > 0 THEN IF p.clen <= Len(p.body) THEN Done(whole) ELSE p
      ELSE IF p.isReq THEN Done([p EXCEPT !.body = <<>>])
      ELSE IF Len(p.body) > 2 /\ EndsWithBreak(p.body) THEN Done(whole) ELSE p

GoOn(p) == IF p.chunked THEN TakeChunks(p) ELSE TakeBody(p)

(* What is behind the head goes to the chunks or to the body.              *)
(* Mutant: what is behind the head always goes to the body.                *)
SplitHeadToBody(p, i) ==
  [DecodeHeader([p EXCEPT !.head = SubSeq(p.head, 1, i + 4), !.code = 0])
     EXCEPT !.body = Drop(p.head, i + 4)]
SplitHead(p, i) ==
  LET q == DecodeHeader([p EXCEPT !.head = SubSeq(p.head, 1, i + 4), !.code = 0])
      rest == Drop(p.head, i + 4)
  IN  IF q.chunked THEN [q EXCEPT !.buffer = rest] ELSE [q EXCEPT !.body = rest]

(* requestData() and responseData().  With fewer than three bytes the      *)
(* bound of the search wraps around: it runs through memory, to MaxHead or *)
(* to an end of a head that it finds there.                                *)
TakeData(p, data) ==
  IF p.code # -1
  THEN {GoOn(IF p.chunked THEN [p EXCEPT !.buffer = @ \o data]
             ELSE [p EXCEPT !.body = @ \o data])}
  ELSE LET q == [p EXCEPT !.head = @ \o data]
           i == EndOfHead(q.head)
       IN  IF Len(q.head) < 3
           THEN {Fault(Done(q), "search"), Fault(GoOn([q EXCEPT !.code = 0]), "search")}
           ELSE IF i >= MaxHead THEN {Done(q)}
           ELSE IF i >= Len(q.head) - 3 THEN {q}
           ELSE {GoOn(SplitHead(q, i))}

-----------------------------------------------------------------------------
FramingInit ==
  /\ msg \in Messages
  /\ wire = Wire(msg)
  /\ parser = Fresh(msg.isReq)
  /\ clean = TRUE

(* A piece arrives; a message that is finished is not parsed any more.     *)
Arrive(n) ==
  /\ n <= Len(wire)
  /\ ~parser.done
  /\ wire' = Drop(wire, n)
  /\ parser' \in TakeData(parser, SubSeq(wire, 1, n))
  /\ clean' = /\ clean
              /\ Len(Wire(msg)) - Len(wire') \notin BadCuts(msg)
  /\ UNCHANGED msg

FramingNext == \E n \in 1 .. MaxPiece : Arrive(n)
FramingSpec == FramingInit /\ [][FramingNext]_framingVars

-----------------------------------------------------------------------------
HeadArrived == Len(Wire(msg)) - Len(wire) >= EndOfHead(Wire(msg)) + 4
Whole ==
  CASE msg.framing = "bare" -> msg.isReq /\ HeadArrived
    [] msg.framing = "encoded" /\ Body(msg) = <<>> -> msg.isReq /\ HeadArrived
    [] OTHER -> wire = <<>>
Payload == IF msg.isReq /\ msg.framing = "bare" THEN <<>> ELSE Body(msg)
TooLong == EndOfHead(Wire(msg)) >= MaxHead
Readable == /\ EndOfHead(Wire(msg)) + 4 >= MinHead
            /\ ~TooLong
            /\ msg.isReq => \A i \in DOMAIN msg.lines : msg.lines[i] # NamelessLine

(* Wherever else a message is cut, it is finished with its last byte and   *)
(* not before, the body is the one that was sent, and no assertion fails.  *)
(* A response without a body's length is finished by the connection's end, *)
(* or by a piece that ends with a line break.                              *)
FramingSound ==
  clean /\ Readable =>
    /\ parser.faults = {}
    /\ \/ parser.done = Whole
       \/ ~msg.isReq /\ msg.framing = "bare" /\ parser.done /\ EndsWithBreak(parser.body)
    /\ \E n \in 0 .. Len(Payload) : parser.body = SubSeq(Payload, 1, n)
    /\ parser.done /\ Whole => parser.body = Payload
=============================================================================
