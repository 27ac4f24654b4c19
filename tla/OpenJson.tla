------------------------------- MODULE OpenJson -------------------------------
(***************************************************************************)
(* OpenJson (open/openjson.h, open/openjson.cpp): a tree of nodes that a   *)
(* program fills and reads, that encode() writes as text and decode()      *)
(* builds from text.  A decoded node keeps its text and makes a segment, a *)
(* value with a type, when it is first read or assigned.                   *)
(*                                                                         *)
(* The root is used as an object, the nodes below it as elements or arrays.*)
(* A character is a string; "true", "false" and "null" count as one.       *)
(***************************************************************************)
EXTENDS Integers, Sequences
LOCAL INSTANCE SequencesExt

CONSTANTS Keys, Numbers, Strings, \* bound: what the program uses
          MaxIdx,                 \* bound: on the indices of arrays
          Texts,                  \* bound: the texts of others that are decoded,
                                  \* what they mean, and whether that is read
          Width,                  \* the bits of an integer, 32 in the code
          MaxCalls                \* bound: on the calls of the program

VARIABLES
  doc,     \* the root
  aborted, \* an assertion has failed
  want,    \* history: what the program has put in, and how
  hollow,  \* history: the tree was decoded from an empty object
  careful, \* history: it has kept out of the traps named below
  calls

jsonVars == <<doc, aborted, want, hollow, careful, calls>>

MaxInt == 2 ^ (Width - 1) - 1
MinInt == -(2 ^ (Width - 1))
Wrapped(n) == IF n > MaxInt THEN n - 2 ^ Width ELSE n
Quote == "\""
Backslash == "\\"
Quotes == {Quote, "'"}
Element == {"EMPTY", "NUMBER", "STRING"}

NoSegment == [type |-> "none", content |-> <<>>, value |-> 0]
Node(type, raw, decoded, kids) ==
  [key |-> <<>>, type |-> type, raw |-> raw, decoded |-> decoded,
   segment |-> NoSegment, box |-> kids # <<>>, kids |-> kids]
Empty == Node("EMPTY", <<>>, FALSE, <<>>)
Null == Node("null", <<>>, FALSE, <<>>) \* a null pointer among the children

-----------------------------------------------------------------------------
(* Numbers as text.  The digits are taken from -n, which is n again for    *)
(* the least number, whose digits come out as other characters.            *)
Digit == <<"0", "1", "2", "3", "4", "5", "6", "7", "8", "9">>
RECURSIVE Digits(_)
Digits(n) == IF n < 10 THEN <<Digit[n + 1]>>
             ELSE Append(Digits(n \div 10), Digit[(n % 10) + 1])
ToText(n) == CASE n = MinInt -> <<"-", "?">>
               [] n < 0 -> <<"-">> \o Digits(-n)
               [] OTHER -> Digits(n)

(* atoi(): the digits in front, after blanks and a sign.                   *)
IsDigit(c) == \E i \in DOMAIN Digit : Digit[i] = c
RECURSIVE Natural(_, _)
Natural(s, n) ==
  IF s # <<>> /\ IsDigit(Head(s))
  THEN Natural(Tail(s), 10 * n + (CHOOSE i \in 1 .. 10 : Digit[i] = Head(s)) - 1)
  ELSE n
RECURSIVE ToNumber(_)
ToNumber(s) == CASE s = <<>> -> 0
                 [] Head(s) = " " -> ToNumber(Tail(s))
                 [] Head(s) = "-" -> -Natural(Tail(s), 0)
                 [] OTHER -> Natural(s, 0)
(* stringToDouble() # 0: the text must be "true", with nothing behind it.  *)
ToBool(s) == IF s = <<"true">> THEN 1 ELSE IF ToNumber(s) # 0 THEN 1 ELSE 0

-----------------------------------------------------------------------------
(* Segment::toString().                                                    *)
Content(g) ==
  CASE g.type = "NIL" -> <<"null">>
    [] g.type = "BOOL" -> <<IF g.value = 1 THEN "true" ELSE "false">>
    [] g.type \in {"INT32", "INT64"} -> ToText(g.value)
    [] OTHER -> g.content
Refreshed(node) == [node EXCEPT !.segment.content = Content(node.segment)]

(* i32(), b() and, like them, d(): a decoded node that has a segment of    *)
(* another type goes back to its text.                                     *)
Parsed(node, type) == IF type = "BOOL" THEN ToBool(node.raw) ELSE ToNumber(node.raw)
(* Mutant: a segment stays what it was first read as.                      *)
ReadAsKept(node, type) ==
  IF node.type = "NUMBER" /\ node.decoded /\ node.segment.type = "none"
  THEN [node EXCEPT !.segment.type = type, !.segment.value = Parsed(node, type)]
  ELSE node
ReadAs(node, type) ==
  IF node.type = "NUMBER" /\ node.decoded /\ node.segment.type # type
  THEN [node EXCEPT !.segment.type = type, !.segment.value = Parsed(node, type)]
  ELSE node

(* i64(): only a NIL segment is made anew.                                 *)
ReadI64(node) ==
  IF node.type = "NUMBER" /\ node.decoded /\ node.segment.type \in {"none", "NIL"}
  THEN [node EXCEPT !.segment = [type |-> "INT64", content |-> <<>>,
                                 value |-> ToNumber(node.raw)]]
  ELSE node

(* s(): of a number too.                                                   *)
ReadS(node) ==
  CASE node.type = "STRING" /\ node.segment.type = "none" ->
         [node EXCEPT !.segment.type = "STRING", !.segment.content = node.raw]
    [] node.type = "NUMBER" /\ node.segment.type = "none" /\ node.decoded ->
         [node EXCEPT !.segment.type = "NIL", !.segment.content = node.raw]
    [] node.type \in {"STRING", "NUMBER"} /\ node.segment.type \notin {"none", "NIL"} ->
         Refreshed(node)
    [] OTHER -> node

Read(node, how) ==
  CASE how = "i32" -> ReadAs(node, "INT32")
    [] how = "b" -> ReadAs(node, "BOOL")
    [] how = "i64" -> ReadI64(node)
    [] how = "s" -> ReadS(node)

(* operator=: a container stays what it is.                                *)
Assign(node, type, segment) ==
  IF node.type \in Element THEN [node EXCEPT !.type = type, !.segment = segment]
  ELSE node
AssignValue(node, type, n) ==
  Assign(node, "NUMBER", [node.segment EXCEPT !.type = type, !.value = n])
Escape(s) ==
  FlattenSeq([i \in DOMAIN s |->
                IF s[i] \in Quotes THEN <<Backslash, s[i]>> ELSE <<s[i]>>])
AssignString(node, before, s) ==
  Assign(node, "STRING", [type |-> "STRING", content |-> before \o Escape(s), value |-> 0])

-----------------------------------------------------------------------------
(* object() and array(): what is not there is made.  A node that is an     *)
(* object or an array already must have its box of children: one that was  *)
(* decoded without any has none, and the assertion fails.                  *)
Boxed(node, type) == node.type = type => node.box
IndexOf(node, k) ==
  LET at == {i \in DOMAIN node.kids : node.kids[i].key = k}
  IN  IF at = {} THEN 0 ELSE CHOOSE i \in at : \A j \in at : i <= j
Object(node, k) ==
  IF IndexOf(node, k) # 0 THEN [node EXCEPT !.type = "OBJECT", !.box = TRUE]
  ELSE [node EXCEPT !.type = "OBJECT", !.box = TRUE,
                    !.kids = Append(@, [Empty EXCEPT !.key = k])]
Array(node, i) ==
  LET kids == [j \in 1 .. (IF i > Len(node.kids) THEN i ELSE Len(node.kids)) |->
                 IF j <= Len(node.kids) THEN node.kids[j] ELSE Null]
  IN  [node EXCEPT !.type = "ARRAY", !.box = TRUE,
                   !.kids = [kids EXCEPT ![i] = IF @ = Null THEN Empty ELSE @]]

Child(k) == LET d == Object(doc, k) IN d.kids[IndexOf(d, k)]
At(k, sound, F(_)) ==
  \/ /\ Boxed(doc, "OBJECT") /\ sound
     /\ LET d == Object(doc, k) IN doc' = [d EXCEPT !.kids[IndexOf(d, k)] = F(@)]
     /\ UNCHANGED aborted
  \/ /\ ~(Boxed(doc, "OBJECT") /\ sound)
     /\ aborted' = TRUE
     /\ UNCHANGED doc

-----------------------------------------------------------------------------
(* write(): a null child is left out, an empty one leaves its comma.       *)
RECURSIVE Write(_)
WriteAll(kids) ==
  LET real == SelectSeq(kids, LAMBDA c : c # Null)
  IN  FlattenSeq([i \in DOMAIN real |-> (IF i = 1 THEN <<>> ELSE <<",">>) \o Write(real[i])])
Write(node) ==
  (IF node.key = <<>> \/ node.type = "EMPTY" THEN <<>>
   ELSE <<Quote>> \o node.key \o <<Quote, ":">>)
  \o CASE node.type = "EMPTY" -> <<>>
       [] node.type = "NUMBER" -> IF node.segment.type # "none"
                                  THEN Content(node.segment) ELSE node.raw
       [] node.type = "STRING" -> <<Quote>> \o ReadS(node).segment.content \o <<Quote>>
       [] node.type = "OBJECT" -> <<"{">> \o WriteAll(node.kids) \o <<"}">>
       [] node.type = "ARRAY" -> <<"[">> \o WriteAll(node.kids) \o <<"]">>

(* Writing makes the segments of strings and the contents of all.          *)
RECURSIVE Written(_)
Written(node) ==
  LET own == IF node.type = "STRING" THEN ReadS(node)
             ELSE IF node.type = "NUMBER" /\ node.segment.type # "none" THEN Refreshed(node)
             ELSE node
  IN  [own EXCEPT !.kids = [i \in DOMAIN @ |-> Written(@[i])]]

-----------------------------------------------------------------------------
(* read(): each part gives a node, the place behind it, and whether an     *)
(* error was thrown.                                                       *)
Result(node, next, ok) == [node |-> node, next |-> next, ok |-> ok]
CharAt(s, i) == IF i \in DOMAIN s THEN s[i] ELSE "end"
FirstFrom(s, i, P(_)) ==
  LET at == {j \in i .. Len(s) : P(j)}
  IN  IF at = {} THEN 0 ELSE CHOOSE j \in at : \A k \in at : j <= k
TrimSpace(s, i) == LET j == FirstFrom(s, i, LAMBDA k : s[k] # " ")
                   IN  IF j = 0 THEN i ELSE j

(* readNumber(): up to a comma or a bracket; there must be something, but  *)
(* at the end of the text.                                                 *)
ReadNumber(s, i) ==
  LET j == FirstFrom(s, i, LAMBDA k : s[k] \in {",", "}", "]"})
      end == IF j = 0 THEN Len(s) + 1 ELSE j
  IN  Result(Node("NUMBER", SubSeq(s, i, end - 1), TRUE, <<>>), end,
             end > i \/ i > Len(s))

(* readString(): up to a quote that has no backslash before it.  Without   *)
(* one the reader is sent back to the start, and its caller fails there.   *)
ReadString(s, i) ==
  LET j == FirstFrom(s, i + 1, LAMBDA k : s[k] = s[i] /\ s[k - 1] # Backslash)
  IN  IF j = 0 THEN Result(Node("STRING", SubSeq(s, i + 1, Len(s)), TRUE, <<>>), 1, TRUE)
      ELSE Result(Node("STRING", SubSeq(s, i + 1, j - 1), TRUE, <<>>), j + 1, TRUE)

(* read(): by the first character, as codeToType() tells.                 *)
RECURSIVE ReadNode(_, _), ReadKids(_, _, _, _)
ReadNode(s, i) ==
  CASE CharAt(s, i) \in Quotes -> ReadString(s, i)
    [] CharAt(s, i) = "{" -> ReadKids(s, i + 1, "OBJECT", <<>>)
    [] CharAt(s, i) = "[" -> ReadKids(s, i + 1, "ARRAY", <<>>)
    [] OTHER -> ReadNumber(s, i)

(* readObject() and readArray(): the end of the text closes them too, and  *)
(* so does a bracket behind a comma.                                       *)
ReadKids(s, from, type, kids) ==
  LET close == IF type = "OBJECT" THEN "}" ELSE "]"
      i == TrimSpace(s, from)
      so(n, ok) == Result(Node(type, <<>>, TRUE, kids), n, ok)
      name == ReadString(s, i)
      colon == TrimSpace(s, name.next)
      isKey == CharAt(s, i) \in Quotes /\ CharAt(s, colon) = ":"
      value == ReadNode(s, IF type = "OBJECT" THEN TrimSpace(s, colon + 1) ELSE i)
      more == Append(kids, [value.node EXCEPT
                              !.key = IF type = "OBJECT" THEN name.node.raw ELSE <<>>])
      behind == TrimSpace(s, value.next)
  IN  CASE from > Len(s) -> so(from, TRUE)
        [] from <= Len(s) /\ CharAt(s, i) = close -> so(i + 1, TRUE)
        [] from <= Len(s) /\ CharAt(s, i) # close ->
             IF (type = "OBJECT" /\ ~isKey) \/ ~value.ok THEN so(i, FALSE)
             ELSE IF CharAt(s, behind) = close
             THEN Result(Node(type, <<>>, TRUE, more), behind + 1, TRUE)
             ELSE IF CharAt(s, behind) = "," THEN ReadKids(s, behind + 1, type, more)
             ELSE Result(Node(type, <<>>, TRUE, more), behind, FALSE)

-----------------------------------------------------------------------------
(* The program.  Its traps:                                                *)
(*   - a number that does not fit, or is the least;                        *)
(*   - std::string assigned to a node that has content;                    *)
(*   - a string that ends in a backslash;                                  *)
(*   - an array with holes, or a key read before it is there;              *)
(*   - an empty object or array that was decoded, and is used as one;      *)
(*   - a number or a Boolean that was assigned to a decoded node, which    *)
(*     forgets it when it is read as the other type;                       *)
(*   - a decoded one that was last read as another type, and is encoded    *)
(*     before it is read as its own;                                       *)
(*   - text with a blank behind "true" or without its end.                 *)
(* Bound: a behaviour ends in a trap.                                      *)
(*                                                                         *)
(* `want` tells for each key the type and the value that were put in, where*)
(* they were put ("tree": into a node of this tree, "text": decoded,       *)
(* "over": into a decoded node), and whether the last reading was of       *)
(* another type.                                                           *)
JsonInit ==
  /\ doc = Empty /\ aborted = FALSE
  /\ want = <<>> /\ hollow = FALSE /\ careful = TRUE /\ calls = 0

Call(ok) == /\ careful /\ calls < MaxCalls
            /\ calls' = calls + 1
            /\ careful' = ok
            /\ UNCHANGED hollow
Put(k, type, x) ==
  LET over == k \in DOMAIN want /\ want[k].given # "tree"
      w == [type |-> type, value |-> x,
            given |-> IF over THEN "over" ELSE "tree", misread |-> FALSE]
  IN  want' = [j \in DOMAIN want \cup {k} |-> IF j = k THEN w ELSE want[j]]
IsArray(k) == k \in DOMAIN want /\ want[k].type = "array"
PutElement(k, type, x) ==
  IF IsArray(k) THEN UNCHANGED want ELSE Put(k, type, x)
Fits(n) == n \in MinInt + 1 .. MaxInt

SetNumber(k, n) ==
  /\ At(k, TRUE, LAMBDA c : AssignValue(c, "INT32", Wrapped(n)))
  /\ PutElement(k, "i32", n)
  /\ Call(~hollow /\ Fits(n))
SetBool(k, b) ==
  /\ At(k, TRUE, LAMBDA c : AssignValue(c, "BOOL", b))
  /\ PutElement(k, "b", b)
  /\ Call(~hollow)
Sound(s) == s = <<>> \/ s[Len(s)] # Backslash
SetChars(k, s) ==
  /\ At(k, TRUE, LAMBDA c : AssignString(c, <<>>, s))
  /\ PutElement(k, "s", s)
  /\ Call(~hollow /\ Sound(s))
AddString(k, s) ==
  /\ At(k, TRUE, LAMBDA c : AssignString(c, c.segment.content, s))
  /\ PutElement(k, "s", s)
  /\ Call(~hollow /\ Sound(s) /\ Child(k).segment.content = <<>>)
SetItem(k, i, n) ==
  /\ At(k, Boxed(Child(k), "ARRAY"),
        LAMBDA c : [Array(c, i) EXCEPT !.kids[i] = AssignValue(@, "INT32", Wrapped(n))])
  /\ LET had == IF IsArray(k) THEN want[k].value ELSE <<>> IN
     /\ Put(k, "array", [j \in DOMAIN had \cup {i} |-> IF j = i THEN n ELSE had[j]])
     /\ Call(~hollow /\ (IsArray(k) => had # <<>>) /\ Fits(n) /\ i <= Len(had) + 1)
(* i64() of a number reads what i32() does.                                *)
Look(k, how) ==
  LET w == want[k]
      misread == w.given = "text" /\ how # w.type
      lost == w.given = "over" /\ {w.type, how} = {"i32", "b"}
  IN  /\ At(k, TRUE, LAMBDA c : Read(c, how))
      /\ Call(~hollow /\ k \in DOMAIN want /\ ~lost)
      /\ want' = IF k \in DOMAIN want /\ <<w.type, how>> # <<"i32", "i64">>
                 THEN [want EXCEPT ![k].misread = misread] ELSE want
RemoveNode(k) ==
  /\ LET i == IndexOf(doc, k) IN
     doc' = IF i = 0 THEN doc ELSE [doc EXCEPT !.kids = RemoveAt(@, i)]
  /\ want' = [j \in DOMAIN want \ {k} |-> want[j]]
  /\ Call(TRUE)
  /\ UNCHANGED aborted

Encode == /\ doc' = Written(doc)
          /\ UNCHANGED <<aborted, want, hollow, careful, calls>>
(* decode(): the tree is cleared first, and errors are not reported.       *)
Decode(s, means) ==
  /\ doc' = ReadNode(s, TrimSpace(s, 1)).node
  /\ want' = [k \in DOMAIN means |-> [type |-> means[k].type, value |-> means[k].value,
                                     given |-> "text", misread |-> FALSE]]
  /\ hollow' = (doc'.type = "OBJECT" /\ means = <<>>)
  /\ UNCHANGED aborted
(* A copy of what encode() returned for the tree, or the text of others.   *)
DecodeOwn == /\ Decode(Write(doc), want)
             /\ careful' = (careful /\ \A k \in DOMAIN want : ~want[k].misread)
             /\ UNCHANGED calls
DecodeOther == \E t \in Texts : /\ careful /\ calls < MaxCalls
                               /\ calls' = calls + 1
                               /\ careful' = t.good
                               /\ Decode(t.chars, t.means)

Change ==
  \E k \in Keys :
    \/ \E n \in Numbers : SetNumber(k, n)
    \/ \E b \in {0, 1} : SetBool(k, b)
    \/ \E s \in Strings : SetChars(k, s) \/ AddString(k, s)
    \/ \E i \in 1 .. MaxIdx, n \in Numbers : SetItem(k, i, n)
    \/ \E how \in {"i32", "b", "i64", "s"} : Look(k, how)
    \/ RemoveNode(k)

JsonNext == ~aborted /\ (Change \/ Encode \/ DecodeOwn \/ DecodeOther)

-----------------------------------------------------------------------------
(* A string is read with a backslash before each quote: an assignment adds *)
(* it, and s() does not take it off.                                       *)
Unescaped(s) ==
  LET isAdded(i) == s[i] = Backslash /\ CharAt(s, i + 1) \in Quotes
      kept == SelectSeq([i \in DOMAIN s |-> i], LAMBDA i : ~isAdded(i))
  IN  [j \in DOMAIN kept |-> s[kept[j]]]
Shows(node, w) ==
  CASE w.type = "i32" -> /\ node.type = "NUMBER"
                         /\ ReadAs(node, "INT32").segment.value = w.value
    [] w.type = "b" -> /\ node.type = "NUMBER"
                       /\ ReadAs(node, "BOOL").segment.value = w.value
    [] w.type = "s" -> /\ node.type = "STRING"
                       /\ Unescaped(ReadS(node).segment.content) = w.value
    [] w.type = "array" ->
         /\ node.type = "ARRAY"
         /\ Len(node.kids) = Len(w.value)
         /\ \A i \in DOMAIN w.value :
              ReadAs(node.kids[i], "INT32").segment.value = w.value[i]

(* A program that keeps out of the traps reads what it put in last, but for*)
(* the backslash before each quote of a string, through any number of      *)
(* reads, of whatever type, encodings and decodings.  Nothing else is in   *)
(* the tree, and no assertion fails.                                       *)
JsonSound ==
  careful => /\ ~aborted
             /\ {doc.kids[i].key : i \in DOMAIN doc.kids} = DOMAIN want
             /\ Len(doc.kids) = Len(SetToSeq(DOMAIN want))
             /\ \A k \in DOMAIN want : Shows(doc.kids[IndexOf(doc, k)], want[k])
=============================================================================
