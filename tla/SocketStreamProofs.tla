------------------------- MODULE SocketStreamProofs -------------------------
(***************************************************************************)
(* Buffers and bytes of SocketServer: each buffer has one owner until it   *)
(* is freed, wb_size counts what the lists hold, and the units of a buffer *)
(* go out together, in order and once. Streams is the inductive invariant, *)
(* on top of Base and Settled: the wire, followed by dw_buffer and the     *)
(* high list, is a sequence of whole buffers, and no unit comes twice in   *)
(* it and in the low list behind it.                                       *)
(***************************************************************************)
EXTENDS SocketServerProofs

USE Bounds, Usage
USE DEF slotVars, refVars, listVars, evVars, pollVars, threadVars, bufVars,
        toldVars, linkVars

(* The messages of some units, and units none of which comes twice.        *)
Msgs(s) == {s[p][1] : p \in 1 .. Len(s)}
(* No unit comes twice.                                                    *)
Once(s) == \A p, q \in 1 .. Len(s) : s[p] = s[q] => p = q
(* The two have no unit in common.                                         *)
Apart(s, u) == \A p \in 1 .. Len(s), q \in 1 .. Len(u) : s[p] # u[q]

-----------------------------------------------------------------------------
(* A place of a concatenation is in one of the two,                        *)
LEMMA InJoin ==
  ASSUME NEW S, NEW s \in Seq(S), NEW u \in Seq(S), NEW p \in 1 .. Len(s \o u)
  PROVE  \/ p \in 1 .. Len(s) /\ (s \o u)[p] = s[p]
         \/ \E q \in 1 .. Len(u) : p = Len(s) + q /\ (s \o u)[p] = u[q]
<1>1. Len(s \o u) = Len(s) + Len(u) /\ Len(s) \in Nat /\ Len(u) \in Nat
  OBVIOUS
<1>2. /\ \A i \in 1 .. Len(s) : (s \o u)[i] = s[i]
      /\ \A i \in 1 .. Len(u) : (s \o u)[Len(s) + i] = u[i]
  BY Joined
<1>3. p \in 1 .. Len(s) \/ (p - Len(s) \in 1 .. Len(u) /\ p = Len(s) + (p - Len(s)))
  BY <1>1
<1> QED
  BY <1>2, <1>3

(* and each place of the two is in the concatenation.                      *)
LEMMA JoinIn ==
  ASSUME NEW S, NEW s \in Seq(S), NEW u \in Seq(S)
  PROVE  /\ \A p \in 1 .. Len(s) : p \in 1 .. Len(s \o u) /\ (s \o u)[p] = s[p]
         /\ \A q \in 1 .. Len(u) : Len(s) + q \in 1 .. Len(s \o u) /\ (s \o u)[Len(s) + q] = u[q]
<1>1. Len(s \o u) = Len(s) + Len(u) /\ Len(s) \in Nat /\ Len(u) \in Nat
  OBVIOUS
<1>2. /\ \A p \in 1 .. Len(s) : p \in 1 .. Len(s) + Len(u)
      /\ \A q \in 1 .. Len(u) : Len(s) + q \in 1 .. Len(s) + Len(u)
  BY <1>1
<1> QED
  BY <1>1, <1>2, Joined

(* The buffers of a concatenation, and those that end in it.               *)
LEMMA MsgsJoin ==
  ASSUME NEW S, NEW s \in Seq(S), NEW u \in Seq(S)
  PROVE  Msgs(s \o u) = Msgs(s) \cup Msgs(u) /\ Whole(s \o u) = Whole(s) \cup Whole(u)
<1>1. ASSUME NEW p \in 1 .. Len(s \o u)
      PROVE  \/ \E q \in 1 .. Len(s) : s[q] = (s \o u)[p]
             \/ \E q \in 1 .. Len(u) : u[q] = (s \o u)[p]
  BY InJoin
<1>2. ASSUME NEW q \in 1 .. Len(s)  PROVE \E p \in 1 .. Len(s \o u) : (s \o u)[p] = s[q]
  BY JoinIn
<1>3. ASSUME NEW q \in 1 .. Len(u)  PROVE \E p \in 1 .. Len(s \o u) : (s \o u)[p] = u[q]
  BY JoinIn
<1> DEFINE r == s \o u
<1> HIDE DEF r
<1>4. Msgs(r) = Msgs(s) \cup Msgs(u)
  <2>1. ASSUME NEW m \in Msgs(r)  PROVE m \in Msgs(s) \cup Msgs(u)
    <3>1. PICK p \in 1 .. Len(r) : m = r[p][1]
      BY DEF Msgs
    <3>2. (\E q \in 1 .. Len(s) : s[q] = r[p]) \/ \E q \in 1 .. Len(u) : u[q] = r[p]
      BY <1>1 DEF r
    <3> QED
      BY <3>1, <3>2 DEF Msgs
  <2>2. ASSUME NEW m \in Msgs(s)  PROVE m \in Msgs(r)
    <3>1. PICK q \in 1 .. Len(s) : m = s[q][1]
      BY DEF Msgs
    <3>2. PICK p \in 1 .. Len(r) : r[p] = s[q]
      BY <1>2 DEF r
    <3> QED
      BY <3>1, <3>2 DEF Msgs
  <2>3. ASSUME NEW m \in Msgs(u)  PROVE m \in Msgs(r)
    <3>1. PICK q \in 1 .. Len(u) : m = u[q][1]
      BY DEF Msgs
    <3>2. PICK p \in 1 .. Len(r) : r[p] = u[q]
      BY <1>3 DEF r
    <3> QED
      BY <3>1, <3>2 DEF Msgs
  <2> QED
    BY <2>1, <2>2, <2>3
<1>5. DOMAIN s = 1 .. Len(s) /\ DOMAIN u = 1 .. Len(u) /\ DOMAIN r = 1 .. Len(r)
  BY DEF r
<1>6. Whole(r) = Whole(s) \cup Whole(u)
  <2>1. ASSUME NEW m \in Whole(r)  PROVE m \in Whole(s) \cup Whole(u)
    <3>1. PICK p \in 1 .. Len(r) : m = r[p][1] /\ r[p][2] = Size
      BY <1>5 DEF Whole
    <3>2. (\E q \in 1 .. Len(s) : s[q] = r[p]) \/ \E q \in 1 .. Len(u) : u[q] = r[p]
      BY <1>1 DEF r
    <3> QED
      BY <1>5, <3>1, <3>2 DEF Whole
  <2>2. ASSUME NEW m \in Whole(s)  PROVE m \in Whole(r)
    <3>1. PICK q \in 1 .. Len(s) : m = s[q][1] /\ s[q][2] = Size
      BY <1>5 DEF Whole
    <3>2. PICK p \in 1 .. Len(r) : r[p] = s[q]
      BY <1>2 DEF r
    <3> QED
      BY <1>5, <3>1, <3>2 DEF Whole
  <2>3. ASSUME NEW m \in Whole(u)  PROVE m \in Whole(r)
    <3>1. PICK q \in 1 .. Len(u) : m = u[q][1] /\ u[q][2] = Size
      BY <1>5 DEF Whole
    <3>2. PICK p \in 1 .. Len(r) : r[p] = u[q]
      BY <1>3 DEF r
    <3> QED
      BY <1>5, <3>1, <3>2 DEF Whole
  <2> QED
    BY <2>1, <2>2, <2>3
<1> QED
  BY <1>4, <1>6 DEF r

(* The buffer of its units.                                                *)
LEMMA MsgsOfUnits ==
  ASSUME NEW m
  PROVE  Msgs(Units(m)) = {m} /\ Once(Units(m))
<1>1. Len(Units(m)) = Size /\ \A i \in 1 .. Size : Units(m)[i] = <<m, i>>
  BY UnitsOf
<1>2. 1 \in 1 .. Size
  OBVIOUS
<1>3. \A p \in 1 .. Size : Units(m)[p][1] = m
  BY <1>1
<1>4. Msgs(Units(m)) = {m}
  BY <1>1, <1>2, <1>3 DEF Msgs
<1>5. Once(Units(m))
  BY <1>1 DEF Once
<1> QED
  BY <1>4, <1>5

(* The empty list has no buffer.                                           *)
LEMMA MsgsOfNone == Msgs(<<>>) = {} /\ Once(<<>>) /\ Whole(<<>>) = {}
  BY DEF Msgs, Once, Whole

(* Lists of different buffers have no unit in common.                      *)
LEMMA ApartMsgs ==
  ASSUME NEW s, NEW u, Msgs(s) \cap Msgs(u) = {}
  PROVE  Apart(s, u) /\ Apart(u, s)
<1>1. ASSUME NEW p \in 1 .. Len(s), NEW q \in 1 .. Len(u), s[p] = u[q]  PROVE FALSE
  <2>1. s[p][1] \in Msgs(s) /\ u[q][1] \in Msgs(u)
    BY DEF Msgs
  <2> QED
    BY <1>1, <2>1
<1> QED
  BY <1>1 DEF Apart

(* When no unit comes twice in a concatenation.                            *)
LEMMA OnceJoin ==
  ASSUME NEW S, NEW s \in Seq(S), NEW u \in Seq(S)
  PROVE  Once(s \o u) <=> Once(s) /\ Once(u) /\ Apart(s, u)
<1> DEFINE r == s \o u
<1>1. /\ Len(s) \in Nat /\ Len(u) \in Nat
      /\ \A p \in 1 .. Len(s) : p \in 1 .. Len(r) /\ r[p] = s[p]
      /\ \A q \in 1 .. Len(u) : Len(s) + q \in 1 .. Len(r) /\ r[Len(s) + q] = u[q]
  BY JoinIn
<1>2. \A p \in 1 .. Len(r) : \/ p \in 1 .. Len(s) /\ r[p] = s[p]
                             \/ \E q \in 1 .. Len(u) : p = Len(s) + q /\ r[p] = u[q]
  BY InJoin
<1> HIDE DEF r
<1>3. ASSUME Once(r)  PROVE Once(s) /\ Once(u) /\ Apart(s, u)
  <2>1. Once(s)
    BY <1>1, <1>3 DEF Once
  <2>2. ASSUME NEW p \in 1 .. Len(u), NEW q \in 1 .. Len(u), u[p] = u[q]  PROVE p = q
    <3>1. Len(s) + p = Len(s) + q
      BY <1>1, <1>3, <2>2 DEF Once
    <3> QED
      BY <1>1, <3>1
  <2>3. ASSUME NEW p \in 1 .. Len(s), NEW q \in 1 .. Len(u), s[p] = u[q]  PROVE FALSE
    <3>1. p = Len(s) + q
      BY <1>1, <1>3, <2>3 DEF Once
    <3> QED
      BY <1>1, <3>1
  <2> QED
    BY <2>1, <2>2, <2>3 DEF Once, Apart
<1>4. ASSUME Once(s), Once(u), Apart(s, u)  PROVE Once(r)
  <2> SUFFICES ASSUME NEW p \in 1 .. Len(r), NEW q \in 1 .. Len(r), r[p] = r[q]  PROVE p = q
    BY DEF Once
  <2>1. CASE p \in 1 .. Len(s) /\ r[p] = s[p]
    <3>1. CASE q \in 1 .. Len(s) /\ r[q] = s[q]
      BY <1>4, <2>1, <3>1 DEF Once
    <3>2. CASE \E j \in 1 .. Len(u) : q = Len(s) + j /\ r[q] = u[j]
      BY <1>4, <2>1, <3>2 DEF Apart
    <3> QED
      BY <1>2, <3>1, <3>2
  <2>2. CASE \E i \in 1 .. Len(u) : p = Len(s) + i /\ r[p] = u[i]
    <3>1. CASE q \in 1 .. Len(s) /\ r[q] = s[q]
      BY <1>4, <2>2, <3>1 DEF Apart
    <3>2. CASE \E j \in 1 .. Len(u) : q = Len(s) + j /\ r[q] = u[j]
      BY <1>4, <2>2, <3>2 DEF Once
    <3> QED
      BY <1>2, <3>1, <3>2
  <2> QED
    BY <1>2, <2>1, <2>2
<1> QED
  BY <1>3, <1>4 DEF r

(* When a concatenation and a list have no unit in common.                 *)
LEMMA ApartJoin ==
  ASSUME NEW S, NEW s \in Seq(S), NEW u \in Seq(S), NEW v
  PROVE  /\ Apart(s \o u, v) <=> Apart(s, v) /\ Apart(u, v)
         /\ Apart(v, s \o u) <=> Apart(v, s) /\ Apart(v, u)
<1>a. /\ \A p \in 1 .. Len(s) : p \in 1 .. Len(s \o u) /\ (s \o u)[p] = s[p]
      /\ \A q \in 1 .. Len(u) : Len(s) + q \in 1 .. Len(s \o u) /\ (s \o u)[Len(s) + q] = u[q]
  BY JoinIn
<1> DEFINE r == s \o u
<1>1. /\ \A p \in 1 .. Len(s) : p \in 1 .. Len(r) /\ r[p] = s[p]
      /\ \A q \in 1 .. Len(u) : Len(s) + q \in 1 .. Len(r) /\ r[Len(s) + q] = u[q]
  BY <1>a
<1>2. \A p \in 1 .. Len(r) : \/ p \in 1 .. Len(s) /\ r[p] = s[p]
                             \/ \E q \in 1 .. Len(u) : p = Len(s) + q /\ r[p] = u[q]
  BY InJoin
<1> HIDE DEF r
<1>3. ASSUME Apart(r, v)  PROVE Apart(s, v) /\ Apart(u, v)
  BY <1>1, <1>3 DEF Apart
<1>4. ASSUME Apart(s, v), Apart(u, v)  PROVE Apart(r, v)
  BY <1>2, <1>4 DEF Apart
<1>5. ASSUME Apart(v, r)  PROVE Apart(v, s) /\ Apart(v, u)
  BY <1>1, <1>5 DEF Apart
<1>6. ASSUME Apart(v, s), Apart(v, u)  PROVE Apart(v, r)
  BY <1>2, <1>6 DEF Apart
<1> QED
  BY <1>3, <1>4, <1>5, <1>6 DEF r

(* A buffer that is not among some units, put between two of them.         *)
LEMMA OnceInsert ==
  ASSUME NEW S, NEW s \in Seq(S), NEW u \in Seq(S), NEW v \in Seq(S),
         Once(s \o u), Once(v), Msgs(s) \cap Msgs(v) = {}, Msgs(u) \cap Msgs(v) = {}
  PROVE  Once((s \o v) \o u)
<1>1. Once(s) /\ Once(u) /\ Apart(s, u)
  BY OnceJoin
<1>2. Apart(s, v) /\ Apart(v, u)
  BY ApartMsgs
<1>3. s \o v \in Seq(S) /\ Once(s \o v)
  BY <1>1, <1>2, OnceJoin
<1>4. Apart(s \o v, u)
  BY <1>1, <1>2, ApartJoin
<1> QED
  BY <1>1, <1>3, <1>4, OnceJoin

(* The two parts of a list together.                                       *)
LEMMA TakenLeft ==
  ASSUME NEW S, NEW s \in Seq(S), NEW k \in 0 .. Len(s)
  PROVE  Taken(s, k) \o Left(s, k) = s
<1>1. /\ Taken(s, k) \in Seq(S) /\ Len(Taken(s, k)) = k
      /\ Left(s, k) \in Seq(S) /\ Len(Left(s, k)) = Len(s) - k
      /\ \A i \in 1 .. k : Taken(s, k)[i] = s[i]
      /\ \A i \in 1 .. Len(s) - k : Left(s, k)[i] = s[k + i]
  BY Cut
<1> DEFINE t == Taken(s, k)
           l == Left(s, k)
           r == t \o l
<1>2. r \in Seq(S) /\ Len(r) = Len(t) + Len(l)
  BY <1>1, Joined
<1>a. t \in Seq(S) /\ l \in Seq(S)
  BY <1>1
<1> HIDE DEF t, l
<1>3. \A p \in 1 .. Len(r) : \/ p \in 1 .. Len(t) /\ r[p] = t[p]
                             \/ \E q \in 1 .. Len(l) : p = Len(t) + q /\ r[p] = l[q]
  BY <1>a, InJoin
<1> HIDE DEF r
<1>4. Len(r) = Len(s)
  BY <1>1, <1>2 DEF t, l
<1>5. \A p \in 1 .. Len(r) : r[p] = s[p]
  BY <1>1, <1>3 DEF t, l
<1> QED
  BY <1>2, <1>4, <1>5, SeqEqual DEF r, t, l

(* Cutting a sequence that was put together.                               *)
LEMMA CutFirst ==
  ASSUME NEW S, NEW s \in Seq(S), NEW u \in Seq(S)
  PROVE  Taken(s \o u, Len(s)) = s /\ Left(s \o u, Len(s)) = u
<1> DEFINE r == s \o u
           t == Taken(r, Len(s))
           l == Left(r, Len(s))
<1>1. /\ r \in Seq(S) /\ Len(r) = Len(s) + Len(u) /\ Len(s) \in Nat /\ Len(u) \in Nat
      /\ \A i \in 1 .. Len(s) : r[i] = s[i]
      /\ \A i \in 1 .. Len(u) : r[Len(s) + i] = u[i]
  BY Joined
<1> HIDE DEF r
<1>2. Len(s) \in 0 .. Len(r) /\ Len(r) - Len(s) = Len(u)
  BY <1>1
<1>a. r \in Seq(S) /\ Len(s) \in 0 .. Len(r)
  BY <1>1, <1>2
<1>3. /\ t \in Seq(S) /\ Len(t) = Len(s)
      /\ l \in Seq(S) /\ Len(l) = Len(r) - Len(s)
      /\ \A i \in 1 .. Len(s) : t[i] = r[i]
      /\ \A i \in 1 .. Len(r) - Len(s) : l[i] = r[Len(s) + i]
  BY <1>a, Cut
<1> HIDE DEF t, l
<1>4. t = s
  BY <1>1, <1>3, SeqEqual
<1>5. l = u
  BY <1>1, <1>2, <1>3, SeqEqual
<1> QED
  BY <1>4, <1>5 DEF t, l, r

(* The buffers of the two parts.                                           *)
LEMMA MsgsCut ==
  ASSUME NEW S, NEW s \in Seq(S), NEW k \in 0 .. Len(s)
  PROVE  Msgs(Taken(s, k)) \cup Msgs(Left(s, k)) = Msgs(s)
<1>1. Taken(s, k) \in Seq(S) /\ Left(s, k) \in Seq(S)
  BY Cut
<1>2. Msgs(Taken(s, k) \o Left(s, k)) = Msgs(Taken(s, k)) \cup Msgs(Left(s, k))
  BY <1>1, MsgsJoin
<1>3. Taken(s, k) \o Left(s, k) = s
  BY TakenLeft
<1> QED
  BY <1>2, <1>3

(* Behind a place in whole buffers are the units of those buffers whose    *)
(* last unit is not in front of it.                                        *)
LEMMA MsgsLeft ==
  ASSUME NEW S, NEW s \in Seq(S \X (1 .. Size)), Blocks(s), Once(s), NEW k \in 0 .. Len(s)
  PROVE  Msgs(Left(s, k)) = Msgs(s) \ Whole(Taken(s, k))
<1> DEFINE t == Taken(s, k)
           l == Left(s, k)
<1>1. /\ t \in Seq(S \X (1 .. Size)) /\ Len(t) = k /\ Len(l) = Len(s) - k
      /\ \A i \in 1 .. k : t[i] = s[i]
      /\ \A i \in 1 .. Len(s) - k : l[i] = s[k + i]
  BY Cut
<1>2. Size \in Nat /\ Size > 0 /\ Len(s) \in Nat /\ k \in Nat /\ DOMAIN t = 1 .. k
  BY <1>1
<1> HIDE DEF t, l
<1>3. ASSUME NEW p \in 1 .. Len(s)
      PROVE  /\ Start(s, p) \in Nat /\ Start(s, p) + Size \in 1 .. Len(s)
             /\ s[Start(s, p) + Size] = <<s[p][1], Size>>
             /\ p <= Start(s, p) + Size
  <2>1. s[p][2] \in 1 .. Size /\ Size \in 1 .. Size
    BY <1>2
  <2>2. Start(s, p) \in 0 .. Len(s) - Size /\ s[Start(s, p) + Size] = <<s[p][1], Size>>
    BY <2>1 DEF Blocks
  <2>3. Start(s, p) = p - s[p][2]
    BY DEF Start
  <2> QED
    BY <1>2, <2>1, <2>2, <2>3
<1>4. ASSUME NEW m \in Msgs(l)  PROVE m \in Msgs(s) \ Whole(t)
  <2>1. PICK i \in 1 .. Len(s) - k : m = l[i][1]
    BY <1>1 DEF Msgs
  <2>2. k + i \in 1 .. Len(s) /\ m = s[k + i][1] /\ k + i > k
    BY <1>1, <1>2, <2>1
  <2>3. ASSUME m \in Whole(t)  PROVE FALSE
    <3>a. m \in {t[x][1] : x \in {j \in 1 .. k : t[j][2] = Size}}
      BY <1>2, <2>3 DEF Whole
    <3>1. PICK q \in 1 .. k : t[q][1] = m /\ t[q][2] = Size
      BY <3>a
    <3>2. q \in 1 .. Len(s) /\ s[q] = <<m, Size>>
      <4>1. q \in 1 .. Len(s) /\ t[q] = s[q]
        BY <1>1, <1>2
      <4>2. s[q] \in S \X (1 .. Size)
        BY <4>1
      <4> QED
        BY <3>1, <4>1, <4>2
    <3>3. s[Start(s, k + i) + Size] = <<m, Size>> /\ Start(s, k + i) + Size \in 1 .. Len(s)
      BY <1>3, <2>2
    <3>4. q = Start(s, k + i) + Size
      BY <3>2, <3>3 DEF Once
    <3>5. k + i <= q
      BY <1>3, <2>2, <3>4
    <3> QED
      BY <1>2, <2>2, <3>5
  <2> QED
    BY <2>2, <2>3 DEF Msgs
<1>5. ASSUME NEW m \in Msgs(s), m \notin Whole(t)  PROVE m \in Msgs(l)
  <2>1. PICK p \in 1 .. Len(s) : m = s[p][1]
    BY DEF Msgs
  <2> DEFINE q == Start(s, p) + Size
  <2>2. q \in 1 .. Len(s) /\ s[q] = <<m, Size>>
    BY <1>3, <2>1
  <2> HIDE DEF q
  <2>3. ~(q \in 1 .. k)
    <3> SUFFICES ASSUME q \in 1 .. k  PROVE FALSE
      OBVIOUS
    <3>1. t[q] = <<m, Size>>
      BY <1>1, <2>2
    <3>2. q \in {j \in DOMAIN t : t[j][2] = Size} /\ t[q][1] = m
      BY <1>2, <3>1
    <3>3. m \in Whole(t)
      BY <3>2 DEF Whole
    <3> QED
      BY <1>5, <3>3
  <2>4. q - k \in 1 .. Len(s) - k /\ k + (q - k) = q
    BY <1>2, <2>2, <2>3
  <2>5. l[q - k] = <<m, Size>>
    BY <1>1, <2>2, <2>4
  <2>6. q - k \in 1 .. Len(l) /\ l[q - k][1] = m
    BY <1>1, <2>4, <2>5
  <2> QED
    BY <2>6 DEF Msgs
<1> QED
  BY <1>4, <1>5 DEF t, l

(* Of whole buffers, every one has its last unit there.                    *)
LEMMA BlocksWhole ==
  ASSUME NEW S, NEW s \in Seq(S \X (1 .. Size)), Blocks(s)
  PROVE  Msgs(s) \subseteq Whole(s)
<1> SUFFICES ASSUME NEW m \in Msgs(s)  PROVE m \in Whole(s)
  OBVIOUS
<1>1. DOMAIN s = 1 .. Len(s) /\ Len(s) \in Nat /\ Size \in 1 .. Size /\ Size \in Nat
  OBVIOUS
<1>2. PICK p \in 1 .. Len(s) : m = s[p][1]
  BY DEF Msgs
<1>3. Start(s, p) \in 0 .. Len(s) - Size /\ s[Start(s, p) + Size] = <<m, Size>>
  BY <1>1, <1>2 DEF Blocks
<1>4. Start(s, p) + Size \in 1 .. Len(s)
  BY <1>1, <1>3
<1>5. /\ Start(s, p) + Size \in {j \in DOMAIN s : s[j][2] = Size}
      /\ s[Start(s, p) + Size][1] = m
  BY <1>1, <1>3, <1>4
<1> QED
  BY <1>5 DEF Whole

(* What is behind some units has the buffers they do not complete.         *)
LEMMA Behind ==
  ASSUME NEW S, NEW s \in Seq(S \X (1 .. Size)), NEW u \in Seq(S \X (1 .. Size)),
         Blocks(s \o u), Once(s \o u)
  PROVE  Msgs(u) = Msgs(s \o u) \ Whole(s)
<1> DEFINE r == s \o u
<1>1. /\ r \in Seq(S \X (1 .. Size)) /\ Len(s) \in 0 .. Len(r)
      /\ Taken(r, Len(s)) = s /\ Left(r, Len(s)) = u
  BY Joined, CutFirst
<1>2. Blocks(r) /\ Once(r)
  OBVIOUS
<1> HIDE DEF r
<1>3. Msgs(Left(r, Len(s))) = Msgs(r) \ Whole(Taken(r, Len(s)))
  BY <1>1, <1>2, MsgsLeft
<1> QED
  BY <1>1, <1>3 DEF r

(* What is not begun starts with a first unit.                             *)
LEMMA FirstUnit ==
  ASSUME NEW S, NEW s \in Seq(S \X (1 .. Size)), Blocks(s)
  PROVE  ~Uncomplete(s)
<1> SUFFICES ASSUME s # <<>>, s[1][2] > 1  PROVE FALSE
  BY DEF Uncomplete
<1>1. 1 \in 1 .. Len(s) /\ s[1] \in S \X (1 .. Size)
  OBVIOUS
<1>2. s[1][2] \in 1 .. Size /\ Start(s, 1) \in 0 .. Len(s) - Size /\ Start(s, 1) = 1 - s[1][2]
  BY <1>1 DEF Blocks, Start
<1> QED
  BY <1>2

(* Whole buffers, of which those behind are not begun.                     *)
LEMMA BlocksParts ==
  ASSUME NEW S, NEW s \in Seq(S \X (1 .. Size)), NEW u \in Seq(S \X (1 .. Size)),
         Blocks(s \o u), ~Uncomplete(u)
  PROVE  Blocks(s) /\ Blocks(u)
<1> DEFINE r == s \o u
<1>1. r \in Seq(S \X (1 .. Size)) /\ Len(r) = Len(s) + Len(u) /\ Len(s) \in Nat /\ Len(u) \in Nat
  BY Joined
<1>2. Len(s) \in 0 .. Len(r)
  BY <1>1
<1>3. Between(r, Len(s))
  <2>1. CASE u = <<>>
    BY <1>1, <2>1 DEF Between
  <2>2. CASE u # <<>>
    <3>1. 1 \in 1 .. Len(u) /\ u[1] \in S \X (1 .. Size)
      BY <2>2
    <3>2. u[1][2] = 1
      BY <2>2, <3>1 DEF Uncomplete
    <3>3. r[Len(s) + 1] = u[1]
      BY <3>1, JoinIn
    <3> QED
      BY <3>2, <3>3 DEF Between
  <2> QED
    BY <2>1, <2>2
<1>4. Blocks(Left(r, Len(s))) /\ Blocks(Taken(r, Len(s)))
  BY <1>1, <1>2, <1>3, BlocksCut
<1> QED
  BY <1>4, CutFirst

-----------------------------------------------------------------------------
(* A message that is still to be written: its command is in the pipe, or   *)
(* its thread has not written any of it.                                   *)
Queued(m) == InPipe(m) \/ (call[m.by] = m /\ pc[m.by] \in Sends \ {"written", "left"})
(* What waits to be written, in the order in which it will be.             *)
Waiting == BeforeHigh \o low
(* Some of the buffer waits.                                               *)
Listed(m) == m \in Msgs(dwBuffer) \cup Msgs(high) \cup Msgs(low)

(* A buffer is not numbered beyond the calls of its caller, so that a new  *)
(* one is new.                                                             *)
Numbered == \A m \in sent : m.nth <= calls[m.by]
(* No command of a send is in the pipe twice.                              *)
PipeOnce ==
  \A j, k \in 1 .. Len(pipe) : pipe[j] = pipe[k] /\ pipe[j] \in sent => j = k
(* A buffer is in the pipe, in a hand, or in one of the lists, or it was   *)
(* freed.                                                                  *)
Owned ==
  \A m \in sent :
    /\ m \in freed <=>
         ~InPipe(m) /\ ~InHand(m) /\ ~Listed(m)
    /\ InPipe(m) => ~InHand(m)
    /\ InPipe(m) \/ InHand(m) => ~Listed(m)
    /\ m \in Msgs(dwBuffer) => m \notin Msgs(high)
    /\ m \in Msgs(dwBuffer) \cup Msgs(high) => m \notin Msgs(low)
(* What was written and what waits form whole buffers; what is not in the  *)
(* lists yet was not written.                                              *)
Streamed ==
  Alive => /\ Blocks(wire \o BeforeHigh)
           /\ Once(wire \o Waiting)
           /\ \A m \in sent : Queued(m) => m \notin Msgs(wire)
(* A caller that has found the lists empty under dw_lock is not behind a   *)
(* buffer written in part.                                                 *)
Begun == \A t \in Threads : pc[t] = "lockedrest" => ~Uncomplete(high)
(* wb_size is what the lists hold.                                         *)
Sized == Alive => wbSize = Len(high) + Len(low)
(* The inductive invariant of this module.                                 *)
Streams == Numbered /\ PipeOnce /\ Owned /\ Streamed /\ Begun /\ Sized

-----------------------------------------------------------------------------
(* The places of the pipe.                                                 *)
LEMMA PipeDomain ==
  ASSUME PipeTyped
  PROVE  DOMAIN pipe = 1 .. Len(pipe) /\ Len(pipe) \in Nat
  BY DEF PipeTyped

(* A buffer is named by a call to send() or sendLowpriority().             *)
LEMMA SentTyped ==
  ASSUME Base, NEW m \in sent
  PROVE  m \in Calls /\ m.by \in Threads /\ m.op \in {"D", "P"} /\ m # NoResult
<1>1. m \in Messages
  BY DEF Base, ListsTyped
<1>2. m \in Calls /\ m.op \in {"D", "P"}
  BY <1>1 DEF Messages
<1>3. m.by \in Threads
  BY <1>2 DEF Calls
<1>4. NoResult.op = "none"
  BY DEF NoResult
<1> QED
  BY <1>2, <1>3, <1>4

(* What is in the pipe after a write,                                      *)
LEMMA PipeGrows ==
  ASSUME Base, NEW c \in Calls, pipe' = Append(pipe, c)
  PROVE  /\ \A m : InPipe(m)' <=> InPipe(m) \/ m = c
         /\ PipeOnce /\ sent' = sent /\ (c \in sent => ~InPipe(c)) => PipeOnce'
<1>1. PipeTyped /\ pipe \in Seq(Calls)
  BY DEF Base, PipeTyped
<1>2. /\ Len(pipe) \in Nat /\ Len(pipe') = Len(pipe) + 1
      /\ \A k \in 1 .. Len(pipe) : pipe'[k] = pipe[k] /\ k \in 1 .. Len(pipe')
      /\ pipe'[Len(pipe) + 1] = c /\ Len(pipe) + 1 \in 1 .. Len(pipe')
      /\ \A k \in 1 .. Len(pipe') : k \in 1 .. Len(pipe) \/ k = Len(pipe) + 1
  BY <1>1, Appended
<1>3. DOMAIN pipe = 1 .. Len(pipe) /\ DOMAIN pipe' = 1 .. Len(pipe')
  BY <1>1
<1>4. ASSUME NEW m  PROVE InPipe(m)' <=> InPipe(m) \/ m = c
  BY <1>2, <1>3 DEF InPipe
<1>5. ASSUME PipeOnce, sent' = sent, c \in sent => ~InPipe(c)  PROVE PipeOnce'
  <2> SUFFICES ASSUME NEW j \in 1 .. Len(pipe'), NEW k \in 1 .. Len(pipe'),
                      pipe'[j] = pipe'[k], pipe'[j] \in sent
               PROVE  j = k
    BY <1>5 DEF PipeOnce
  <2>1. CASE j \in 1 .. Len(pipe) /\ k \in 1 .. Len(pipe)
    BY <1>2, <1>5, <2>1 DEF PipeOnce
  <2>2. CASE j \in 1 .. Len(pipe) /\ k = Len(pipe) + 1
    BY <1>2, <1>3, <1>5, <2>2 DEF InPipe
  <2>3. CASE j = Len(pipe) + 1 /\ k \in 1 .. Len(pipe)
    BY <1>2, <1>3, <1>5, <2>3 DEF InPipe
  <2> QED
    BY <1>2, <2>1, <2>2, <2>3
<1> QED
  BY <1>4, <1>5

(* and after a read.                                                       *)
LEMMA PipeShrinks ==
  ASSUME Base, pipe # <<>>, pipe' = Tail(pipe), sent' = sent, PipeOnce
  PROVE  /\ \A m : InPipe(m) <=> InPipe(m)' \/ m = Head(pipe)
         /\ \A m \in sent : m = Head(pipe) => ~InPipe(m)'
         /\ PipeOnce'
<1>1. PipeTyped /\ pipe \in Seq(Calls)
  BY DEF Base, PipeTyped
<1>2. /\ Len(pipe) \in Nat /\ Len(pipe') = Len(pipe) - 1
      /\ \A k \in 1 .. Len(pipe') : pipe'[k] = pipe[k + 1] /\ k + 1 \in 1 .. Len(pipe)
      /\ Head(pipe) = pipe[1] /\ 1 \in 1 .. Len(pipe)
      /\ \A k \in 1 .. Len(pipe) : k = 1 \/ (k - 1 \in 1 .. Len(pipe') /\ pipe'[k - 1] = pipe[k])
  BY <1>1, Taking
<1>3. DOMAIN pipe = 1 .. Len(pipe) /\ DOMAIN pipe' = 1 .. Len(pipe')
  BY <1>1
<1>4. ASSUME NEW m  PROVE InPipe(m) <=> InPipe(m)' \/ m = Head(pipe)
  <2>1. ASSUME NEW k \in 1 .. Len(pipe), pipe[k] = m  PROVE InPipe(m)' \/ m = Head(pipe)
    BY <1>2, <1>3, <2>1 DEF InPipe
  <2>2. ASSUME NEW k \in 1 .. Len(pipe'), pipe'[k] = m  PROVE InPipe(m)
    BY <1>2, <1>3, <2>2 DEF InPipe
  <2>3. m = Head(pipe) => InPipe(m)
    BY <1>2, <1>3 DEF InPipe
  <2>4. InPipe(m) => \E k \in 1 .. Len(pipe) : pipe[k] = m
    BY <1>3 DEF InPipe
  <2>5. InPipe(m)' => \E k \in 1 .. Len(pipe') : pipe'[k] = m
    BY <1>3 DEF InPipe
  <2> QED
    BY <2>1, <2>2, <2>3, <2>4, <2>5
<1>5. ASSUME Head(pipe) \in sent, NEW k \in 1 .. Len(pipe'), pipe'[k] = Head(pipe)  PROVE FALSE
  <2>1. k + 1 = 1
    BY <1>2, <1>5 DEF PipeOnce
  <2> QED
    BY <2>1
<1>6. PipeOnce'
  <2> SUFFICES ASSUME NEW j \in 1 .. Len(pipe'), NEW k \in 1 .. Len(pipe'),
                      pipe'[j] = pipe'[k], pipe'[j] \in sent
               PROVE  j = k
    BY DEF PipeOnce
  <2>1. j + 1 = k + 1
    BY <1>2 DEF PipeOnce
  <2> QED
    BY <2>1
<1>7. ASSUME NEW m \in sent, m = Head(pipe)  PROVE ~InPipe(m)'
  BY <1>3, <1>5, <1>7 DEF InPipe
<1> QED
  BY <1>4, <1>6, <1>7

(* A step that leaves the buffers where they are.                          *)
LEMMA QuietStreams ==
  ASSUME Streams, UNCHANGED <<high, low, dwBuffer, wire, wbSize, sent, freed>>,
         Alive' => Alive, Numbered', PipeOnce',
         \A m \in sent : /\ InPipe(m)' \/ InHand(m)' <=> InPipe(m) \/ InHand(m)
                         /\ ~(InPipe(m)' /\ InHand(m)')
                         /\ Queued(m)' => Queued(m),
         \A t \in Threads : pc'[t] = "lockedrest" => pc[t] = "lockedrest" \/ high = <<>>
  PROVE  Streams'
<1>1. Owned'
  BY DEF Streams, Owned, Listed, Msgs
<1>2. Streamed' /\ Sized'
  BY DEF Streams, Streamed, Sized, BeforeHigh, Waiting, Msgs
<1>3. Begun'
  BY DEF Streams, Begun, Uncomplete
<1> QED
  BY <1>1, <1>2, <1>3 DEF Streams

(* A step of a thread inside a call that does not send or write.           *)
LEMMA InCallStreams ==
  ASSUME Base, Streams, NEW t \in Threads,
         \A r \in Threads \ {t} : pc'[r] = pc[r] /\ call'[r] = call[r],
         call'[t] = call[t], calls' = calls, pipe' = pipe,
         UNCHANGED <<high, low, dwBuffer, wire, wbSize, sent, freed, type, poll>>,
         pc[t] \notin {"left", "written"}, pc'[t] # "left",
         pc'[t] \in Sends => pc[t] \in Sends,
         pc'[t] = "lockedrest" => high = <<>>
  PROVE  Streams'
<1>1. \A m \in sent : m.by \in Threads
  BY SentTyped
<1>2. ASSUME NEW m \in sent
      PROVE  /\ InPipe(m)' <=> InPipe(m)
             /\ InHand(m)' <=> InHand(m)
             /\ Queued(m)' => Queued(m)
  <2>1. InPipe(m)' <=> InPipe(m)
    BY DEF InPipe
  <2>2. m.by \in Threads
    BY <1>1
  <2>3. CASE m.by = t
    BY <2>1, <2>3 DEF InHand, Queued, At
  <2>4. CASE m.by # t
    BY <2>1, <2>2, <2>4 DEF InHand, Queued, At
  <2> QED
    BY <2>1, <2>3, <2>4
<1>3. \A m \in sent : ~(InPipe(m) /\ InHand(m))
  BY DEF Streams, Owned
<1>4. Numbered' /\ PipeOnce' /\ (Alive' => Alive)
  BY DEF Streams, Numbered, PipeOnce, Alive
<1>5. \A r \in Threads : pc'[r] = "lockedrest" => pc[r] = "lockedrest" \/ high = <<>>
  OBVIOUS
<1> QED
  BY <1>2, <1>3, <1>4, <1>5, QuietStreams

(* A command taken from the pipe that is not one to send.                  *)
LEMMA NoneTaken ==
  ASSUME Base, PipeOnce, sent' = sent,
         pipe' = pipe \/ (pipe # <<>> /\ pipe' = Tail(pipe) /\ Head(pipe).op \notin {"D", "P"})
  PROVE  PipeOnce' /\ \A m \in sent : InPipe(m)' <=> InPipe(m)
<1>1. ASSUME NEW m \in sent  PROVE InPipe(m)' <=> InPipe(m)
  <2>1. CASE pipe' = pipe
    BY <2>1 DEF InPipe
  <2>2. CASE pipe # <<>> /\ pipe' = Tail(pipe) /\ Head(pipe).op \notin {"D", "P"}
    <3>1. m # Head(pipe)
      BY <2>2, SentTyped
    <3> QED
      BY <2>2, <3>1, PipeShrinks
  <2> QED
    BY <2>1, <2>2
<1>2. PipeOnce'
  <2>1. CASE pipe' = pipe
    BY <2>1 DEF PipeOnce
  <2>2. CASE pipe # <<>> /\ pipe' = Tail(pipe)
    BY <2>2, PipeShrinks
  <2> QED
    BY <2>1, <2>2
<1> QED
  BY <1>1, <1>2

(* A step of the socket thread that takes no message.                      *)
LEMMA ServerStreams ==
  ASSUME Base, Streams, UNCHANGED <<pc, call, calls>>, Alive' => Alive,
         UNCHANGED <<high, low, dwBuffer, wire, wbSize, sent, freed>>,
         pipe' = pipe \/ (pipe # <<>> /\ pipe' = Tail(pipe) /\ Head(pipe).op \notin {"D", "P"})
  PROVE  Streams'
<1>1. PipeOnce' /\ \A m \in sent : InPipe(m)' <=> InPipe(m)
  BY NoneTaken DEF Streams
<1>3. \A m \in sent : (InHand(m)' <=> InHand(m)) /\ (Queued(m)' => Queued(m))
  BY <1>1 DEF InHand, Queued, At
<1>4. \A m \in sent : ~(InPipe(m) /\ InHand(m))
  BY DEF Streams, Owned
<1>5. Numbered'
  BY DEF Streams, Numbered
<1>6. \A r \in Threads : pc'[r] = "lockedrest" => pc[r] = "lockedrest" \/ high = <<>>
  OBVIOUS
<1> QED
  BY <1>1, <1>3, <1>4, <1>5, <1>6, QuietStreams

(* A caller that goes on within its call keeps Streams unless it writes.   *)
LEMMA GoesToStreams ==
  ASSUME Base, Streams, NEW t \in Threads, NEW place \in PcPlaces, GoesTo(t, place),
         pipe' = pipe, UNCHANGED <<high, low, dwBuffer, wire, wbSize, sent, freed, type, poll>>,
         pc[t] \notin {"out", "left", "written"}, place \notin {"out", "left"},
         place \in Sends => pc[t] \in Sends, place = "lockedrest" => high = <<>>
  PROVE  Streams'
<1>1. /\ pc'[t] = place /\ call' = call /\ calls' = calls
      /\ \A r \in Threads \ {t} : pc'[r] = pc[r]
  BY DEF Base, HandsTyped, GoesTo
<1> QED
  BY <1>1, InCallStreams

(* These are such steps.                                                   *)
LEMMA InCallQuiet ==
  ASSUME Base, Streams, NEW t \in Threads,
         NameSlot(t) \/ FirstTest(t) \/ TryLock(t) \/ SecondTest(t) \/ NoDirectWrite(t)
         \/ IncSendingRef(t) \/ (Unlock(t) /\ At(t, "refused"))
  PROVE  Streams'
<1>1. CASE NameSlot(t)
  <2>1. "open" \in PcPlaces /\ "open" \notin Sends
    BY DEF PcPlaces, Sends, Direct, HoldsLock
  <2> QED
    BY <1>1, <2>1, GoesToStreams DEF NameSlot, At
<1>2. ASSUME NEW place \in {"try", "locked"}, NEW next \in {"tryrest", "lockedrest"},
             ReadsLists(t, place, next)
      PROVE  Streams'
  <2> DEFINE goal == IF DirectOnLists(call[t]) THEN next ELSE
                     IF place = "try" THEN "ref" ELSE "refused"
  <2>1. goal \in PcPlaces /\ goal \notin {"out", "left"} /\ pc[t] = place /\ place \in Sends
        /\ GoesTo(t, goal)
    BY <1>2 DEF PcPlaces, ReadsLists, At, Sends, Direct, HoldsLock
  <2>2. goal = "lockedrest" => high = <<>>
    BY DEF DirectOnLists, SendBufferEmpty
  <2>3. UNCHANGED <<pipe, high, low, dwBuffer, wire, wbSize, sent, freed, type, poll>>
    BY <1>2 DEF ReadsLists
  <2> HIDE DEF goal
  <2> QED
    BY <1>2, <2>1, <2>2, <2>3, GoesToStreams
<1>3. CASE TryLock(t)
  <2>1. \E place \in {"locked", "ref"} : GoesTo(t, place)
    BY <1>3 DEF TryLock
  <2> QED
    BY <1>3, <2>1, GoesToStreams DEF TryLock, At, PcPlaces, Sends, Direct, HoldsLock
<1>4. CASE NoDirectWrite(t)
  BY <1>4, GoesToStreams DEF NoDirectWrite, At, PcPlaces, Sends, Direct, HoldsLock
<1>5. CASE IncSendingRef(t)
  BY <1>5, GoesToStreams DEF IncSendingRef, At, PcPlaces, Sends, Direct, HoldsLock
<1>6. CASE Unlock(t) /\ At(t, "refused")
  <2>1. freed' = freed
    BY <1>6 DEF Unlock, At, Free
  <2> QED
    BY <1>6, <2>1, GoesToStreams DEF Unlock, At, PcPlaces, Sends, Direct, HoldsLock
<1> QED
  BY <1>1, <1>2, <1>3, <1>4, <1>5, <1>6 DEF FirstTest, SecondTest

(* The steps of the socket thread that touch no buffer.                    *)
LEMMA ServerQuiet ==
  ASSUME Base, Settled, Streams,
         \/ OpenFails \/ StartSocket \/ (\E op \in {"K", "K1"} : CloseSocket(op))
         \/ ClearClosedEvent \/ LockForSend \/ TellConnected \/ EventWrite \/ ReportConnect
         \/ NoCommand \/ (\E kind \in {"none", "write", "eof"} : Wait(kind)) \/ PeerCloses
         \/ (Decide /\ poll' # "kill")
  PROVE  Streams'
<1> DEFINE Lists == UNCHANGED <<high, low, dwBuffer, wire, wbSize, sent, freed>>
           Threaded == UNCHANGED <<pc, call, calls>>
           Takes == pipe' = pipe \/ (pipe # <<>> /\ pipe' = Tail(pipe) /\ Head(pipe).op \notin {"D", "P"})
<1>0. ASSUME Lists, Threaded, Alive' => Alive, Takes  PROVE Streams'
  BY <1>0, ServerStreams
<1> HIDE DEF Takes, Lists, Threaded
<1>1. CASE OpenFails
  <2>1. ~Alive'
    BY <1>1 DEF OpenFails, Alive
  <2> QED
    BY <1>0, <1>1, <2>1 DEF OpenFails, Command, Takes, Lists, Threaded
<1>2. CASE StartSocket
  <2>1. Alive' => Alive
    BY <1>2 DEF StartSocket, Command, Alive
  <2>2. Takes /\ Lists /\ Threaded
    BY <1>2 DEF StartSocket, Command, Takes, Lists, Threaded
  <2> QED
    BY <1>0, <2>1, <2>2
<1>3. ASSUME NEW op \in {"K", "K1"}, CloseSocket(op)  PROVE Streams'
  <2>1. Alive' => Alive
    BY <1>3 DEF CloseSocket, Command, Alive
  <2>2. Takes /\ Lists /\ Threaded
    BY <1>3 DEF CloseSocket, Command, Takes, Lists, Threaded
  <2> QED
    BY <1>0, <2>1, <2>2
<1>4. CASE ClearClosedEvent
  BY <1>0, <1>4 DEF ClearClosedEvent, Alive, Takes, Lists, Threaded
<1>5. CASE LockForSend
  BY <1>0, <1>5 DEF LockForSend, Alive, Takes, Lists, Threaded
<1>6. CASE TellConnected
  BY <1>0, <1>6 DEF TellConnected, Alive, Takes, Lists, Threaded
<1>7. CASE EventWrite
  BY <1>0, <1>7 DEF EventWrite, Dispatch, Dispatches, Alive, Takes, Lists, Threaded
<1>8. CASE ReportConnect
  BY <1>0, <1>8 DEF ReportConnect, Dispatch, Dispatches, Alive, Takes, Lists, Threaded
<1>9. CASE NoCommand
  BY <1>0, <1>9 DEF NoCommand, Alive, Takes, Lists, Threaded
<1>10. ASSUME NEW kind \in {"none", "write", "eof"}, Wait(kind)  PROVE Streams'
  BY <1>0, <1>10 DEF Wait, Waits, Alive, Takes, Lists, Threaded
<1>11. CASE PeerCloses
  BY <1>0, <1>11 DEF PeerCloses, Alive, Takes, Lists, Threaded
<1>12. CASE Decide /\ poll' # "kill"
  <2>1. Live /\ poll = "decide"
    BY <1>12 DEF Base, PollTyped, Settled, OnResult, Decide
  <2> QED
    BY <1>0, <1>12, <2>1 DEF Decide, Alive, Live, Takes, Lists, Threaded
<1> QED
  BY <1>1, <1>2, <1>3, <1>4, <1>5, <1>6, <1>7, <1>8, <1>9, <1>10, <1>11, <1>12

(* A thread begins a call, or ends one: no message changes hands but one.  *)
LEMMA HandOf ==
  ASSUME Base, NEW t \in Threads, sent' = sent,
         \A r \in Threads \ {t} : pc'[r] = pc[r] /\ call'[r] = call[r],
         NEW m \in sent, m.by # t
  PROVE  (InHand(m)' <=> InHand(m)) /\ (pipe' = pipe => (Queued(m)' <=> Queued(m)))
<1>1. m.by \in Threads \ {t}
  BY SentTyped
<1> QED
  BY <1>1 DEF InHand, Queued, At, InPipe

(* calls[t] counts the calls of a thread, and grows.                       *)
LEMMA CallsGrow ==
  ASSUME Base, Numbered, NEW t \in Threads, NEW op, Begins(t, op), NEW i \in Ids
  PROVE  /\ \A m \in sent : m.nth <= calls'[m.by]
         /\ NewCall(t, op, i) \notin sent
         /\ NewCall(t, op, i).nth <= calls'[NewCall(t, op, i).by]
<1> DEFINE c == NewCall(t, op, i)
<1>1. /\ c \in Calls /\ c.by = t /\ c.nth = calls[t] + 1 /\ calls'[t] = calls[t] + 1
      /\ \A r \in Threads \ {t} : calls'[r] = calls[r]
      /\ calls \in [Threads -> Nat]
  BY NewCallTyped DEF Base, HandsTyped
<1> HIDE DEF c
<1>2. ASSUME NEW m \in sent  PROVE m.by \in Threads /\ m.nth \in Int /\ m.nth <= calls[m.by]
  BY SentTyped DEF Calls, MostCalls, Numbered
<1>3. ASSUME NEW m \in sent  PROVE m.nth <= calls'[m.by]
  <2>1. calls[m.by] \in Nat /\ calls[m.by] <= calls'[m.by] /\ calls'[m.by] \in Nat
    BY <1>1, <1>2
  <2> QED
    BY <1>2, <2>1
<1>4. c \notin sent
  <2> SUFFICES ASSUME c \in sent  PROVE FALSE
    OBVIOUS
  <2>1. c.nth <= calls[t] /\ calls[t] \in Nat
    BY <1>1, <1>2
  <2> QED
    BY <1>1, <2>1
<1>5. c.nth <= calls'[c.by]
  BY <1>1
<1> QED
  BY <1>3, <1>4, <1>5 DEF c

(* reserve_id() takes a slot: keeps Streams.                               *)
LEMMA ReserveStreams ==
  ASSUME Base, Streams, NEW t \in Threads, Reserve(t)
  PROVE  Streams'
<1>1. HandsTyped /\ Hand(t) /\ pc[t] = "out" /\ call[t] = NoResult
  BY DEF Base, HandsSound, Hand, Reserve, Begins
<1>2. /\ pc'[t] = "reserved" /\ call'[t].op = "O"
      /\ \A r \in Threads \ {t} : pc'[r] = pc[r] /\ call'[r] = call[r]
  BY <1>1 DEF HandsTyped, Reserve, Enters, NewCall
<1>3. ASSUME NEW m \in sent
      PROVE  (InHand(m)' <=> InHand(m)) /\ (Queued(m)' <=> Queued(m)) /\ (InPipe(m)' <=> InPipe(m))
  <2>1. m.op \in {"D", "P"} /\ m # NoResult
    BY SentTyped
  <2>2. pipe' = pipe /\ sent' = sent
    BY DEF Reserve
  <2>3. CASE m.by = t
    BY <1>1, <1>2, <2>1, <2>2, <2>3 DEF InHand, Queued, InPipe
  <2>4. CASE m.by # t
    BY <1>2, <2>2, <2>4, HandOf DEF InPipe
  <2> QED
    BY <2>3, <2>4
<1>4. Numbered'
  <2>1. lastId + 1 \in Ids /\ Begins(t, "O")
    BY DEF Base, SlotTyped, Reserve, Ids
  <2>2. \A m \in sent : m.nth <= calls'[m.by]
    BY <2>1, CallsGrow DEF Streams
  <2> QED
    BY <2>2 DEF Numbered, Reserve
<1>5. PipeOnce'
  BY DEF Streams, PipeOnce, Reserve
<1>6. UNCHANGED <<high, low, dwBuffer, wire, wbSize, sent, freed>> /\ ~Alive'
  BY DEF Reserve, Alive
<1>7. \A r \in Threads : pc'[r] = "lockedrest" => pc[r] = "lockedrest" \/ high = <<>>
  BY <1>2
<1>8. \A m \in sent : ~(InPipe(m) /\ InHand(m))
  BY DEF Streams, Owned
<1> QED
  BY <1>3, <1>4, <1>5, <1>6, <1>7, <1>8, QuietStreams

(* The OPEN command goes into the pipe: keeps Streams.                     *)
LEMMA SendOpenStreams ==
  ASSUME Base, Settled, Streams, NEW t \in Threads, SendOpen(t)
  PROVE  Streams'
<1>1. HandsTyped /\ Hand(t) /\ pc[t] = "open" /\ call[t].op = "O" /\ call[t] \in Calls
  BY DEF Base, HandsSound, Hand, SendOpen, At
<1>2. /\ pc'[t] = "out" /\ call'[t] = NoResult /\ calls' = calls
      /\ \A r \in Threads \ {t} : pc'[r] = pc[r] /\ call'[r] = call[r]
  BY <1>1 DEF HandsTyped, SendOpen, Returns
<1>3. /\ \A m : InPipe(m)' <=> InPipe(m) \/ m = call[t]
      /\ PipeOnce'
  <2>1. call[t] \notin sent
    BY <1>1, SentTyped
  <2> QED
    BY <1>1, <2>1, PipeGrows DEF Streams, SendOpen
<1>4. ASSUME NEW m \in sent
      PROVE  (InPipe(m)' <=> InPipe(m)) /\ (InHand(m)' <=> InHand(m)) /\ (Queued(m)' => Queued(m))
  <2>1. m.op \in {"D", "P"} /\ m # NoResult /\ m # call[t] /\ m.by \in Threads
    BY <1>1, SentTyped
  <2>2. InPipe(m)' <=> InPipe(m)
    BY <1>3, <2>1
  <2>3. CASE m.by = t
    BY <1>1, <1>2, <2>1, <2>2, <2>3 DEF InHand, Queued
  <2>4. CASE m.by # t
    BY <1>2, <2>1, <2>2, <2>4 DEF InHand, Queued, At
  <2> QED
    BY <2>2, <2>3, <2>4
<1>5. Numbered'
  BY <1>2 DEF Streams, Numbered, SendOpen
<1>6. UNCHANGED <<high, low, dwBuffer, wire, wbSize, sent, freed>> /\ (Alive' => Alive)
  BY DEF SendOpen, Alive
<1>7. \A r \in Threads : pc'[r] = "lockedrest" => pc[r] = "lockedrest" \/ high = <<>>
  BY <1>2
<1>8. \A m \in sent : ~(InPipe(m) /\ InHand(m))
  BY DEF Streams, Owned
<1> QED
  BY <1>3, <1>4, <1>5, <1>6, <1>7, <1>8, QuietStreams

(* start(), close() and shutdown() put a command into the pipe: keeps      *)
(* Streams.                                                                *)
LEMMA RequestStreams ==
  ASSUME Base, Streams, NEW t \in Threads, Request(t)
  PROVE  Streams'
<1>1. PICK op \in {"S", "K", "K1"}, i \in known :
        Begins(t, op) /\ pipe' = Append(pipe, NewCall(t, op, i))
  BY DEF Request
<1>2. i \in Ids
  BY DEF Base, ToldTyped
<1> DEFINE c == NewCall(t, op, i)
<1>3. c \in Calls /\ c.op = op
  BY <1>1, <1>2, NewCallTyped DEF Base
<1>4. \A m \in sent : m.nth <= calls'[m.by]
  BY <1>1, <1>2, CallsGrow DEF Streams
<1>5. pipe' = Append(pipe, c)
  BY <1>1
<1> HIDE DEF c
<1>6. UNCHANGED <<high, low, dwBuffer, wire, wbSize, sent, freed, pc, call, type, poll>>
  BY DEF Request
<1>7. \A m \in sent : m # c
  BY <1>3, SentTyped
<1>8. /\ \A m : InPipe(m)' <=> InPipe(m) \/ m = c
      /\ PipeOnce'
  BY <1>3, <1>5, <1>6, <1>7, PipeGrows DEF Streams
<1>9. \A m \in sent : /\ (InPipe(m)' <=> InPipe(m)) /\ (InHand(m)' <=> InHand(m))
                      /\ Queued(m)' => Queued(m)
  BY <1>6, <1>7, <1>8 DEF InHand, Queued, At
<1>10. Numbered' /\ (Alive' => Alive)
  BY <1>4, <1>6 DEF Numbered, Alive
<1>11. \A m \in sent : ~(InPipe(m) /\ InHand(m))
  BY DEF Streams, Owned
<1>12. \A r \in Threads : pc'[r] = "lockedrest" => pc[r] = "lockedrest" \/ high = <<>>
  BY <1>6
<1> QED
  BY <1>6, <1>8, <1>9, <1>10, <1>11, <1>12, QuietStreams

(* send_request() puts a send into the pipe: keeps Streams.                *)
LEMMA PushSendStreams ==
  ASSUME Base, Streams, NEW t \in Threads, PushSend(t)
  PROVE  Streams'
<1> DEFINE c == call[t]
<1>1. HandsTyped /\ Hand(t) /\ pc[t] = "push" /\ c \in Calls /\ c \in sent /\ c.by = t
  BY DEF Base, HandsSound, Hand, PushSend, At, Sends
<1>2. /\ pc'[t] = "out" /\ call'[t] = NoResult /\ calls' = calls
      /\ \A r \in Threads \ {t} : pc'[r] = pc[r] /\ call'[r] = call[r]
  BY <1>1 DEF HandsTyped, PushSend, Returns
<1>3. UNCHANGED <<high, low, dwBuffer, wire, wbSize, sent, freed, type, poll>> /\ pipe' = Append(pipe, c)
  BY DEF PushSend
<1>4. InHand(c) /\ ~InPipe(c) /\ Queued(c)
  BY <1>1 DEF InHand, At, Streams, Owned, Queued, Sends
<1> HIDE DEF c
<1>5. /\ \A m : InPipe(m)' <=> InPipe(m) \/ m = c
      /\ PipeOnce'
  BY <1>1, <1>3, <1>4, PipeGrows DEF Streams
<1>6. ASSUME NEW m \in sent
      PROVE  /\ InPipe(m)' \/ InHand(m)' <=> InPipe(m) \/ InHand(m)
             /\ ~(InPipe(m)' /\ InHand(m)')
             /\ Queued(m)' => Queued(m)
  <2>1. m # NoResult /\ m.by \in Threads /\ ~(InPipe(m) /\ InHand(m))
    BY SentTyped DEF Streams, Owned
  <2>2. CASE m.by = t
    <3>1. ~InHand(m)' /\ (InHand(m) <=> m = c)
      BY <1>1, <1>2, <2>1, <2>2 DEF InHand, At, c
    <3>2. Queued(m)' => InPipe(m)'
      BY <1>2, <2>1, <2>2 DEF Queued
    <3>3. InPipe(m) => Queued(m)
      BY DEF Queued
    <3> QED
      BY <1>4, <1>5, <3>1, <3>2, <3>3
  <2>3. CASE m.by # t
    <3>1. m # c /\ (InPipe(m)' <=> InPipe(m))
      BY <1>1, <1>5, <2>3
    <3>2. (InHand(m)' <=> InHand(m)) /\ (Queued(m)' => Queued(m))
      BY <1>2, <2>1, <2>3, <3>1 DEF InHand, Queued, At
    <3> QED
      BY <2>1, <3>1, <3>2
  <2> QED
    BY <2>2, <2>3
<1>7. Numbered' /\ (Alive' => Alive)
  BY <1>2, <1>3 DEF Streams, Numbered, Alive
<1>8. \A r \in Threads : pc'[r] = "lockedrest" => pc[r] = "lockedrest" \/ high = <<>>
  BY <1>2
<1> QED
  BY <1>3, <1>5, <1>6, <1>7, <1>8, QuietStreams

(* The buffers of a list were sent.                                        *)
LEMMA UnitsSent ==
  ASSUME NEW s \in Seq(Buffer)
  PROVE  Msgs(s) \subseteq sent /\ DOMAIN s = 1 .. Len(s)
<1> SUFFICES ASSUME NEW p \in 1 .. Len(s)  PROVE s[p][1] \in sent
  BY DEF Msgs
<1>1. s[p] \in Buffer
  OBVIOUS
<1> QED
  BY <1>1 DEF Buffer

(* A message that was not sent yet is nowhere.                             *)
LEMMA Unsent ==
  ASSUME Base, NEW c, c.op \in {"D", "P"}, c \notin sent
  PROVE  ~InPipe(c) /\ ~Listed(c) /\ c \notin freed /\ c \notin Msgs(wire)
<1>1. ~InPipe(c)
  BY PipeDomain DEF Base, PipeTyped, InPipe
<1>2. Msgs(dwBuffer) \cup Msgs(high) \cup Msgs(low) \cup Msgs(wire) \subseteq sent /\ freed \subseteq sent
  BY UnitsSent DEF Base, ListsTyped
<1> QED
  BY <1>1, <1>2 DEF Listed

(* send() to a socket that is not there any more: keeps Streams.           *)
LEMMA SendGoneStreams ==
  ASSUME Base, Streams, NEW t \in Threads, SendGone(t)
  PROVE  Streams'
<1>1. PICK op \in {"D", "P"}, i \in SendTo :
        /\ Begins(t, op) /\ sent' = sent \cup {NewCall(t, op, i)}
        /\ freed' = freed \cup {NewCall(t, op, i)}
  BY DEF SendGone, Free
<1> DEFINE c == NewCall(t, op, i)
<1>2. i \in Ids
  BY DEF Base, ToldTyped, SendTo
<1>3. c.op = op /\ c.by = t /\ pc[t] = "out" /\ call[t] = NoResult
  <2>1. HandsTyped /\ Hand(t) /\ pc[t] = "out"
    BY <1>1 DEF Base, HandsSound, Begins
  <2> QED
    BY <1>1, <1>2, <2>1, NewCallTyped DEF Hand
<1>4. /\ \A m \in sent : m.nth <= calls'[m.by]
      /\ c \notin sent /\ c.nth <= calls'[c.by]
  BY <1>1, <1>2, CallsGrow DEF Streams
<1>5. sent' = sent \cup {c} /\ freed' = freed \cup {c}
  BY <1>1
<1>6. c # NoResult
  BY DEF NewCall, NoResult
<1> HIDE DEF c
<1>7. UNCHANGED <<high, low, dwBuffer, wire, wbSize, pc, call, pipe, type, poll>>
  BY DEF SendGone
<1>8. ~InPipe(c) /\ ~InHand(c) /\ ~Listed(c) /\ ~Queued(c)
  BY <1>3, <1>4, <1>6, Unsent DEF InHand, Queued
<1>9. Owned'
  BY <1>4, <1>5, <1>7, <1>8 DEF Streams, Owned, InPipe, InHand, Listed, Msgs, At
<1>10. Streamed'
  BY <1>5, <1>7, <1>8 DEF Streams, Streamed, Alive, BeforeHigh, Waiting, Queued, InPipe
<1>11. Numbered'
  BY <1>4, <1>5 DEF Numbered
<1>12. PipeOnce'
  <2>1. \A k \in 1 .. Len(pipe) : pipe[k] # c
    BY <1>8, PipeDomain DEF Base, InPipe
  <2> QED
    BY <1>5, <1>7, <2>1 DEF Streams, PipeOnce
<1>13. Begun' /\ Sized'
  BY <1>7 DEF Streams, Begun, Uncomplete, Sized, Alive
<1> QED
  BY <1>9, <1>10, <1>11, <1>12, <1>13 DEF Streams

(* send() finds its socket: keeps Streams.                                 *)
LEMMA SendStreams ==
  ASSUME Base, Streams, NEW t \in Threads, Send(t)
  PROVE  Streams'
<1>1. PICK op \in {"D", "P"}, i \in SendTo :
        /\ Begins(t, op) /\ sent' = sent \cup {NewCall(t, op, i)}
        /\ Enters(t, NewCall(t, op, i), IF op = "D" THEN "try" ELSE "ref")
  BY DEF Send
<1>a. PICK c : c = NewCall(t, op, i)
  OBVIOUS
<1>2. i \in Ids
  BY DEF Base, ToldTyped, SendTo
<1>3. c.op = op /\ c.by = t /\ pc[t] = "out" /\ call[t] = NoResult
  <2>1. HandsTyped /\ Hand(t) /\ pc[t] = "out"
    BY <1>1 DEF Base, HandsSound, Begins
  <2> QED
    BY <1>1, <1>2, <1>a, <2>1, NewCallTyped DEF Hand
<1>4. /\ \A m \in sent : m.nth <= calls'[m.by]
      /\ c \notin sent /\ c.nth <= calls'[c.by]
  BY <1>1, <1>2, <1>a, CallsGrow DEF Streams
<1>5. sent' = sent \cup {c}
  BY <1>1, <1>a
<1>6. /\ pc'[t] \in {"try", "ref"} /\ call'[t] = c
      /\ \A r \in Threads \ {t} : pc'[r] = pc[r] /\ call'[r] = call[r]
  BY <1>1, <1>a DEF Base, HandsTyped, Enters
<1>7. UNCHANGED <<high, low, dwBuffer, wire, wbSize, freed, pipe, type, poll>>
  BY DEF Send
<1>8. ~InPipe(c) /\ ~Listed(c) /\ c \notin freed /\ c \notin Msgs(wire)
  BY <1>3, <1>4, Unsent
<1>9. ASSUME NEW m \in sent
      PROVE  /\ InPipe(m)' <=> InPipe(m)
             /\ InHand(m)' <=> InHand(m)
             /\ Queued(m)' <=> Queued(m)
             /\ Listed(m)' <=> Listed(m)
  <2>1. m # NoResult /\ m.by \in Threads /\ m # c
    BY <1>4, SentTyped
  <2>2. (InPipe(m)' <=> InPipe(m)) /\ (Listed(m)' <=> Listed(m))
    BY <1>7 DEF InPipe, Listed, Msgs
  <2>3. CASE m.by = t
    BY <1>3, <1>6, <2>1, <2>2, <2>3 DEF InHand, Queued
  <2>4. CASE m.by # t
    BY <1>6, <2>1, <2>2, <2>4 DEF InHand, Queued, At
  <2> QED
    BY <2>2, <2>3, <2>4
<1>10. InHand(c)' /\ ~InPipe(c)' /\ ~Listed(c)'
  BY <1>3, <1>6, <1>7, <1>8 DEF InHand, InPipe, Listed, Msgs, At
<1>11. Owned'
  <2> SUFFICES ASSUME NEW m \in sent'
               PROVE  /\ m \in freed' <=> ~InPipe(m)' /\ ~InHand(m)' /\ ~Listed(m)'
                      /\ InPipe(m)' => ~InHand(m)'
                      /\ InPipe(m)' \/ InHand(m)' => ~Listed(m)'
                      /\ m \in Msgs(dwBuffer') => m \notin Msgs(high')
                      /\ m \in Msgs(dwBuffer') \cup Msgs(high') => m \notin Msgs(low')
    BY DEF Owned
  <2>1. CASE m = c
    BY <1>7, <1>8, <1>10, <2>1 DEF Listed, Msgs
  <2>2. CASE m \in sent
    BY <1>7, <1>9, <2>2 DEF Streams, Owned
  <2> QED
    BY <1>5, <2>1, <2>2
<1>12. Streamed'
  BY <1>5, <1>7, <1>8, <1>9 DEF Streams, Streamed, Alive, BeforeHigh, Waiting
<1>13. Numbered'
  BY <1>4, <1>5 DEF Numbered
<1>14. PipeOnce'
  <2>1. \A k \in 1 .. Len(pipe) : pipe[k] # c
    BY <1>8, PipeDomain DEF Base, InPipe
  <2> QED
    BY <1>5, <1>7, <2>1 DEF Streams, PipeOnce
<1>15. Begun' /\ Sized'
  <2>1. \A r \in Threads : pc'[r] = "lockedrest" => pc[r] = "lockedrest"
    BY <1>6
  <2> QED
    BY <1>7, <2>1 DEF Streams, Begun, Uncomplete, Sized, Alive
<1> QED
  BY <1>11, <1>12, <1>13, <1>14, <1>15 DEF Streams

(* Buffers that are freed, and no step of a thread.                        *)
LEMMA LessOwned ==
  ASSUME Owned, UNCHANGED <<sent, pipe, threadVars>>,
         \A m \in sent : /\ m \in freed' <=> m \in freed \/ (Listed(m) /\ ~Listed(m)')
                         /\ Listed(m)' => Listed(m)
                         /\ m \in Msgs(dwBuffer') => m \notin Msgs(high')
                         /\ m \in Msgs(dwBuffer') \cup Msgs(high') => m \notin Msgs(low')
  PROVE  Owned'
<1>1. \A m \in sent : (InPipe(m)' <=> InPipe(m)) /\ (InHand(m)' <=> InHand(m))
  BY DEF InPipe, InHand, At
<1> QED
  BY <1>1 DEF Owned

(* A connection that ends needs no order.                                  *)
LEMMA EndStreams ==
  ASSUME Streams, UNCHANGED <<sent, pipe, threadVars>>, ~Alive', Owned',
         high' = high \/ high' = <<>>
  PROVE  Streams'
<1>1. Numbered' /\ PipeOnce'
  BY DEF Streams, Numbered, PipeOnce
<1>2. Streamed' /\ Sized' /\ Begun'
  BY DEF Streams, Streamed, Sized, Begun, Uncomplete
<1> QED
  BY <1>1, <1>2 DEF Streams

(* force_close() frees the lists: keeps Streams.                           *)
LEMMA FreeListsStreams ==
  ASSUME Base, Streams, FreeLists, UNCHANGED <<dwBuffer, pipe, threadVars, sent>>, poll' = "kill"
  PROVE  Streams'
<1>1. DOMAIN high = 1 .. Len(high) /\ DOMAIN low = 1 .. Len(low)
  BY UnitsSent DEF Base, ListsTyped
<1>2. freed' = freed \cup (Msgs(high) \cup Msgs(low)) /\ high' = <<>> /\ low' = <<>>
  BY <1>1 DEF FreeLists, Free, Msgs
<1>3. Msgs(high') = {} /\ Msgs(low') = {} /\ Msgs(dwBuffer') = Msgs(dwBuffer)
  BY <1>2, MsgsOfNone
<1>4. Owned'
  BY <1>2, <1>3, LessOwned DEF Streams, Owned, Listed
<1> QED
  BY <1>2, <1>4, EndStreams DEF Alive

(* force_close() under dw_lock: keeps Streams.                             *)
LEMMA CloseFdStreams ==
  ASSUME Base, Streams, CloseFd
  PROVE  Streams'
<1>1. DOMAIN dwBuffer = 1 .. Len(dwBuffer)
  BY UnitsSent DEF Base, ListsTyped
<1>2. freed' = freed \cup Msgs(dwBuffer) /\ dwBuffer' = <<>> /\ UNCHANGED <<high, low>>
  BY <1>1 DEF CloseFd, DirectBuffer, Free, Msgs
<1>3. Msgs(dwBuffer') = {} /\ Msgs(low') = Msgs(low) /\ Msgs(high') = Msgs(high)
  BY <1>2, MsgsOfNone
<1>4. Owned'
  BY <1>2, <1>3, LessOwned DEF Streams, Owned, Listed, CloseFd
<1> QED
  BY <1>2, <1>4, EndStreams DEF Alive, CloseFd

(* The buffers that wait.                                                  *)
LEMMA MsgsWaiting ==
  ASSUME ListsTyped
  PROVE  /\ Msgs(BeforeHigh) = Msgs(dwBuffer) \cup Msgs(high)
         /\ Msgs(Waiting) = Msgs(dwBuffer) \cup Msgs(high) \cup Msgs(low)
         /\ Waiting \in Seq(Buffer) /\ BeforeHigh \in Seq(Buffer)
<1>1. dwBuffer \in Seq(Buffer) /\ high \in Seq(Buffer) /\ low \in Seq(Buffer)
  BY DEF ListsTyped
<1>2. BeforeHigh \in Seq(Buffer) /\ Msgs(BeforeHigh) = Msgs(dwBuffer) \cup Msgs(high)
  BY <1>1, MsgsJoin DEF BeforeHigh
<1>3. Waiting \in Seq(Buffer) /\ Msgs(Waiting) = Msgs(BeforeHigh) \cup Msgs(low)
  BY <1>1, <1>2, MsgsJoin DEF Waiting
<1> QED
  BY <1>2, <1>3

(* send_list_tcp() fails to write and closes: keeps Streams.               *)
LEMMA WriteFailsStreams ==
  ASSUME Base, Streams, WriteFails
  PROVE  Streams'
<1>1. DOMAIN Waiting = 1 .. Len(Waiting)
  BY MsgsWaiting, UnitsSent DEF Base
<1>2. /\ freed' = freed \cup Msgs(Waiting)
      /\ high' = <<>> /\ low' = <<>> /\ dwBuffer' = <<>>
  BY <1>1 DEF WriteFails, Waiting, Free, Msgs
<1>3. Msgs(dwBuffer') = {} /\ Msgs(low') = {} /\ Msgs(high') = {}
  BY <1>2, MsgsOfNone
<1>4. Owned'
  BY <1>2, <1>3, MsgsWaiting, LessOwned DEF Base, Streams, Owned, Listed, WriteFails
<1> QED
  BY <1>2, <1>4, EndStreams DEF Alive, WriteFails

(* Putting sequences together does not depend on the order.                *)
Assocs(s, u, v) == (s \o u) \o v = s \o (u \o v)

(* It is, for all sequences.                                               *)
LEMMA AllAssoc ==
  ASSUME NEW S, NEW s \in Seq(S), NEW u \in Seq(S), NEW v \in Seq(S)
  PROVE  Assocs(s, u, v)
  BY ConcatAssociative DEF Assocs

(* socket_unlock() after a direct write or a refusal: keeps Streams.       *)
LEMMA UnlockStreams ==
  ASSUME Base, Streams, NEW t \in Threads, Unlock(t), ~At(t, "refused")
  PROVE  Streams'
<1>a. PICK c : c = call[t]
  OBVIOUS
<1>1. /\ HandsTyped /\ Hand(t) /\ pc[t] \in {"written", "left"}
      /\ c \in sent /\ c.by = t /\ Returns(t)
  BY <1>a DEF Base, HandsSound, Hand, Unlock, At, Sends, Direct, HoldsLock
<1>2. /\ pc'[t] = "out" /\ call'[t] = NoResult /\ calls' = calls
      /\ \A r \in Threads \ {t} : pc'[r] = pc[r] /\ call'[r] = call[r]
  BY <1>1 DEF HandsTyped, Returns
<1>3. UNCHANGED <<high, low, dwBuffer, wire, wbSize, sent, pipe, type, poll>>
  BY DEF Unlock
<1>4. freed' = IF pc[t] = "written" THEN freed \cup {c} ELSE freed
  BY <1>a DEF Unlock, Free, At
<1>5. InHand(c) <=> pc[t] = "written"
  BY <1>a, <1>1 DEF InHand, At
<1>6. ASSUME NEW m \in sent
      PROVE  /\ InPipe(m)' <=> InPipe(m)
             /\ InHand(m)' <=> InHand(m) /\ m # c
             /\ Queued(m)' => Queued(m)
             /\ Listed(m)' <=> Listed(m)
  <2>1. m # NoResult /\ m.by \in Threads
    BY SentTyped
  <2>2. (InPipe(m)' <=> InPipe(m)) /\ (Listed(m)' <=> Listed(m))
    BY <1>3 DEF InPipe, Listed, Msgs
  <2>3. CASE m.by = t
    BY <1>a, <1>2, <2>1, <2>2, <2>3 DEF InHand, Queued
  <2>4. CASE m.by # t
    BY <1>1, <1>2, <2>1, <2>2, <2>4 DEF InHand, Queued, At
  <2> QED
    BY <2>2, <2>3, <2>4
<1>7. Owned'
  <2>1. CASE pc[t] = "written"
    BY <1>1, <1>3, <1>4, <1>5, <1>6, <2>1 DEF Streams, Owned
  <2>2. CASE pc[t] = "left"
    BY <1>1, <1>3, <1>4, <1>5, <1>6, <2>2 DEF Streams, Owned
  <2> QED
    BY <1>1, <2>1, <2>2
<1>8. Streamed'
  BY <1>3, <1>6 DEF Streams, Streamed, Alive, BeforeHigh, Waiting
<1>9. Numbered' /\ PipeOnce' /\ Sized'
  BY <1>2, <1>3 DEF Streams, Numbered, PipeOnce, Sized, Alive
<1>10. Begun'
  <2>1. \A r \in Threads : pc'[r] = "lockedrest" => pc[r] = "lockedrest"
    BY <1>2
  <2> QED
    BY <1>3, <2>1 DEF Streams, Begun, Uncomplete
<1> QED
  BY <1>7, <1>8, <1>9, <1>10 DEF Streams

(* The lists and their buffers, by type.                                   *)
LEMMA ListsAre ==
  ASSUME Base
  PROVE  /\ high \in Seq(Buffer) /\ low \in Seq(Buffer)
         /\ dwBuffer \in Seq(Buffer) /\ wire \in Seq(Buffer)
         /\ BeforeHigh \in Seq(Buffer) /\ Waiting \in Seq(Buffer)
         /\ Msgs(BeforeHigh) = Msgs(dwBuffer) \cup Msgs(high)
         /\ Msgs(Waiting) = Msgs(dwBuffer) \cup Msgs(high) \cup Msgs(low)
  BY MsgsWaiting DEF Base, ListsTyped

(* A direct write puts its buffer in front of the lists: what it wrote is  *)
(* on the wire, and what it left comes first.                              *)
LEMMA DirectWriteStreams ==
  ASSUME Base, Streams, NEW t \in Threads, DirectWrite(t)
  PROVE  Streams'
<1>a. PICK c : c = call[t]
  OBVIOUS
<1>1. /\ HandsTyped /\ Hand(t) /\ pc[t] = "lockedrest"
      /\ c \in sent /\ c.by = t /\ dwBuffer = <<>> /\ type = "CONNECTED"
  BY <1>a DEF Base, HandsSound, Hand, DirectWrite, DirectOnRest, At, Sends, Direct, HoldsLock
<1>2. PICK n \in 0 .. Size :
        /\ wire' = wire \o Taken(Units(c), n)
        /\ dwBuffer' = Left(Units(c), n)
        /\ GoesTo(t, IF n = Size THEN "written" ELSE "left")
  BY <1>a DEF DirectWrite
<1> DEFINE u == Units(c)
<1>3. /\ u \in Seq(Buffer) /\ Len(u) = Size /\ Msgs(u) = {c} /\ Once(u) /\ Blocks(u)
  BY <1>1, UnitsOf, UnitsTyped, MsgsOfUnits, UnitsBlocks
<1> HIDE DEF u
<1>4. /\ Taken(u, n) \in Seq(Buffer) /\ Left(u, n) \in Seq(Buffer) /\ Len(Left(u, n)) = Size - n
      /\ Taken(u, n) \o Left(u, n) = u
      /\ Msgs(Taken(u, n)) \cup Msgs(Left(u, n)) = {c}
  <2>1. n \in 0 .. Len(u) /\ u \in Seq(Buffer)
    BY <1>2, <1>3
  <2>2. Taken(u, n) \o Left(u, n) = u
    BY <2>1, TakenLeft
  <2>3. Msgs(Taken(u, n)) \cup Msgs(Left(u, n)) = {c}
    BY <1>3, <2>1, MsgsCut
  <2>4. /\ Taken(u, n) \in Seq(Buffer) /\ Left(u, n) \in Seq(Buffer)
        /\ Len(Left(u, n)) = Len(u) - n
    BY <2>1, Cut
  <2> QED
    BY <1>3, <2>2, <2>3, <2>4
<1>5. wire' = wire \o Taken(u, n) /\ dwBuffer' = Left(u, n)
  BY <1>2 DEF u
<1>6. /\ pc'[t] = (IF n = Size THEN "written" ELSE "left") /\ call' = call /\ calls' = calls
      /\ \A r \in Threads \ {t} : pc'[r] = pc[r]
  BY <1>1, <1>2 DEF HandsTyped, GoesTo
<1>7. UNCHANGED <<high, low, wbSize, sent, freed, pipe, type, poll>>
  BY DEF DirectWrite
<1>8. /\ InHand(c) /\ Queued(c) /\ ~InPipe(c) /\ ~Listed(c) /\ c \notin freed
  BY <1>a, <1>1 DEF InHand, At, Queued, Sends, Direct, HoldsLock, Streams, Owned
<1>9. Msgs(dwBuffer') = IF n = Size THEN {} ELSE {c}
  <2>1. CASE n = Size
    <3>1. Len(Left(u, n)) = 0
      BY <1>4, <2>1
    <3> QED
      BY <1>4, <1>5, <2>1, <3>1, MsgsOfNone
  <2>2. CASE n # Size
    <3>1. 1 \in 1 .. Len(Left(u, n))
      BY <1>4, <2>2
    <3>2. Left(u, n)[1][1] \in Msgs(Left(u, n))
      BY <3>1 DEF Msgs
    <3> QED
      BY <1>4, <1>5, <2>2, <3>2
  <2> QED
    BY <2>1, <2>2
<1>10. ASSUME NEW m \in sent
       PROVE  /\ InPipe(m)' <=> InPipe(m)
              /\ InHand(m)' <=> InHand(m) /\ (m = c => n = Size)
              /\ Queued(m)' => Queued(m) /\ m # c
  <2>1. m # NoResult /\ m.by \in Threads
    BY SentTyped
  <2>2. InPipe(m)' <=> InPipe(m)
    BY <1>7 DEF InPipe
  <2>3. CASE m.by = t
    BY <1>a, <1>1, <1>6, <1>8, <2>1, <2>2, <2>3 DEF InHand, Queued, At
  <2>4. CASE m.by # t
    BY <1>1, <1>6, <2>1, <2>2, <2>4 DEF InHand, Queued, At
  <2> QED
    BY <2>2, <2>3, <2>4
<1>11. Msgs(dwBuffer) = {} /\ Msgs(high') = Msgs(high) /\ Msgs(low') = Msgs(low)
  BY <1>1, <1>7, MsgsOfNone
<1>12. Owned'
  <2> SUFFICES ASSUME NEW m \in sent
               PROVE  /\ m \in freed <=> ~InPipe(m)' /\ ~InHand(m)' /\ ~Listed(m)'
                      /\ InPipe(m)' => ~InHand(m)'
                      /\ InPipe(m)' \/ InHand(m)' => ~Listed(m)'
                      /\ m \in Msgs(dwBuffer') => m \notin Msgs(high')
                      /\ m \in Msgs(dwBuffer') \cup Msgs(high') => m \notin Msgs(low')
    BY <1>7 DEF Owned
  <2>1. Listed(m)' <=> Listed(m) \/ (m = c /\ n # Size)
    BY <1>9, <1>11 DEF Listed
  <2>2. m # c => m \notin Msgs(dwBuffer')
    BY <1>9
  <2>3. CASE m = c
    BY <1>8, <1>9, <1>10, <1>11, <2>1, <2>3 DEF Listed
  <2>4. CASE m # c
    BY <1>10, <1>11, <2>1, <2>2, <2>4 DEF Streams, Owned
  <2> QED
    BY <2>3, <2>4
<1>13. Streamed'
  <2> SUFFICES ASSUME Alive'
               PROVE  /\ Blocks(wire' \o BeforeHigh') /\ Once(wire' \o Waiting')
                      /\ \A m \in sent : Queued(m)' => m \notin Msgs(wire')
    BY <1>7 DEF Streamed
  <2>1. /\ Blocks(wire \o BeforeHigh) /\ Once(wire \o Waiting)
        /\ \A m \in sent : Queued(m) => m \notin Msgs(wire)
    BY <1>7 DEF Alive, Streams, Streamed
  <2>2. wire \in Seq(Buffer) /\ high \in Seq(Buffer) /\ low \in Seq(Buffer)
    BY ListsAre
  <2>3. BeforeHigh = high /\ Waiting = high \o low
    BY <1>1, <2>2, ConcatEmptySeq DEF BeforeHigh, Waiting
  <2>4. wire' \o dwBuffer' = wire \o u
    <3>1. Assocs(wire, Taken(u, n), Left(u, n))
      BY <1>4, <2>2, AllAssoc
    <3> QED
      BY <1>4, <1>5, <3>1 DEF Assocs
  <2>5. wire' \in Seq(Buffer) /\ dwBuffer' \in Seq(Buffer) /\ wire \o u \in Seq(Buffer)
        /\ Msgs(wire') = Msgs(wire) \cup Msgs(Taken(u, n))
    BY <1>3, <1>4, <1>5, <2>2, MsgsJoin
  <2>6. BeforeHigh' = dwBuffer' \o high /\ BeforeHigh' \in Seq(Buffer)
        /\ Waiting' = BeforeHigh' \o low
    BY <1>7, <2>2, <2>5 DEF BeforeHigh, Waiting
  <2>7. wire' \o BeforeHigh' = (wire \o u) \o high
    <3>1. Assocs(wire', dwBuffer', high)
      BY <2>2, <2>5, AllAssoc
    <3> QED
      BY <2>4, <2>6, <3>1 DEF Assocs
  <2>8. wire' \o Waiting' = (wire \o u) \o (high \o low)
    <3> DEFINE d == dwBuffer' \o high
    <3>1. d \in Seq(Buffer) /\ Waiting' = d \o low /\ wire' \o d = (wire \o u) \o high
      BY <2>6, <2>7
    <3> HIDE DEF d
    <3>2. Assocs(wire', d, low) /\ Assocs(wire \o u, high, low)
      BY <2>2, <2>5, <3>1, AllAssoc
    <3> QED
      BY <3>1, <3>2 DEF Assocs
  <2>9. Blocks(wire' \o BeforeHigh')
    <3>1. ~Uncomplete(high)
      BY <1>1 DEF Streams, Begun
    <3>2. Blocks(wire) /\ Blocks(high)
      BY <2>1, <2>2, <2>3, <3>1, BlocksParts DEF Buffer
    <3>3. Blocks(wire \o u)
      BY <1>3, <2>2, <3>2, BlocksJoin DEF Buffer
    <3> QED
      BY <2>2, <2>5, <2>7, <3>2, <3>3, BlocksJoin DEF Buffer
  <2>10. Once(wire' \o Waiting')
    <3>1. c \notin Msgs(wire) /\ c \notin Msgs(high \o low) /\ high \o low \in Seq(Buffer)
      BY <1>1, <1>8, <2>1, <2>2, MsgsJoin DEF Listed
    <3>2. Msgs(wire) \cap Msgs(u) = {} /\ Msgs(high \o low) \cap Msgs(u) = {}
      BY <1>3, <3>1
    <3> QED
      BY <1>3, <2>1, <2>2, <2>3, <2>8, <3>1, <3>2, OnceInsert
  <2>11. ASSUME NEW m \in sent, Queued(m)'  PROVE m \notin Msgs(wire')
    BY <1>4, <1>10, <2>1, <2>5, <2>11
  <2> QED
    BY <2>9, <2>10, <2>11
<1>14. Numbered' /\ PipeOnce' /\ Sized'
  BY <1>6, <1>7 DEF Streams, Numbered, PipeOnce, Sized, Alive
<1>15. Begun'
  <2>1. \A r \in Threads : pc'[r] = "lockedrest" => pc[r] = "lockedrest"
    BY <1>6
  <2> QED
    BY <1>7, <2>1 DEF Streams, Begun, Uncomplete
<1> QED
  BY <1>12, <1>13, <1>14, <1>15 DEF Streams

(* A buffer u behind the high list, and one behind the low list v.         *)
PushedHigh(w, d, h, v, u) ==
  /\ d \o (h \o u) = (d \o h) \o u
  /\ w \o ((d \o h) \o u) = (w \o (d \o h)) \o u
  /\ w \o (((d \o h) \o u) \o v) = ((w \o (d \o h)) \o u) \o v
  /\ w \o ((d \o h) \o v) = (w \o (d \o h)) \o v
(* A buffer put behind the low list is put at the end.                     *)
PushedLow(w, b, v, u) == w \o (b \o (v \o u)) = (w \o (b \o v)) \o u

(* So it is for all sequences.                                             *)
LEMMA PushHigh ==
  ASSUME NEW S, NEW w \in Seq(S), NEW d \in Seq(S), NEW h \in Seq(S),
         NEW v \in Seq(S), NEW u \in Seq(S)
  PROVE  PushedHigh(w, d, h, v, u)
<1>1. d \o h \in Seq(S) /\ (d \o h) \o u \in Seq(S) /\ w \o (d \o h) \in Seq(S)
  OBVIOUS
<1>2. Assocs(d, h, u) /\ Assocs(w, d \o h, u) /\ Assocs(w, (d \o h) \o u, v)
      /\ Assocs(w, d \o h, v)
  BY <1>1, AllAssoc
<1> DEFINE b == d \o h
           c == b \o u
<1>3. /\ c = d \o (h \o u) /\ (w \o b) \o u = w \o c /\ (w \o c) \o v = w \o (c \o v)
      /\ (w \o b) \o v = w \o (b \o v)
  BY <1>2 DEF Assocs
<1> HIDE DEF b, c
<1>4. /\ w \o (c \o v) = ((w \o b) \o u) \o v
  BY <1>3
<1> QED
  BY <1>3, <1>4 DEF PushedHigh, b, c

(* So it is for all sequences.                                             *)
LEMMA PushLow ==
  ASSUME NEW S, NEW w \in Seq(S), NEW b \in Seq(S), NEW v \in Seq(S), NEW u \in Seq(S)
  PROVE  PushedLow(w, b, v, u)
<1>1. b \o v \in Seq(S)
  OBVIOUS
<1>2. Assocs(b, v, u) /\ Assocs(w, b \o v, u)
  BY <1>1, AllAssoc
<1> QED
  BY <1>2 DEF Assocs, PushedLow

(* Two lists that start with a first unit, together.                       *)
LEMMA UncompleteJoin ==
  ASSUME NEW S, NEW s \in Seq(S), NEW u \in Seq(S), ~Uncomplete(s), ~Uncomplete(u)
  PROVE  ~Uncomplete(s \o u)
<1>1. CASE s = <<>>
  <2>1. s \o u = u
    BY <1>1
  <2> QED
    BY <2>1
<1>2. CASE s # <<>>
  <2>1. 1 \in 1 .. Len(s)
    BY <1>2
  <2>2. (s \o u)[1] = s[1]
    BY <2>1, JoinIn
  <2> QED
    BY <1>2, <2>2 DEF Uncomplete
<1> QED
  BY <1>1, <1>2

(* send_socket() and dec_sending_ref() keep Streams.                       *)
LEMMA SendSocketStreams ==
  ASSUME Base, Streams, NEW op \in {"D", "P"}, SendSocket(op)
  PROVE  Streams'
<1>a. PICK c : c = Head(pipe)
  OBVIOUS
<1>1. /\ Command(op) /\ pipe # <<>> /\ pipe' = Tail(pipe)
      /\ Head(pipe) \in sent /\ c \in sent
  <2>1. Command(op)
    BY DEF SendSocket
  <2>2. Head(pipe) \in sent
    BY <2>1, CommandTyped DEF SendSocket
  <2> QED
    BY <1>a, <2>1, <2>2 DEF Command
<1>2. UNCHANGED <<dwBuffer, wire, sent, type, poll, pc, call, calls>>
  BY DEF SendSocket
<1>3. /\ \A m : InPipe(m) <=> InPipe(m)' \/ m = Head(pipe)
      /\ \A m \in sent : m = Head(pipe) => ~InPipe(m)'
      /\ PipeOnce'
  BY <1>1, <1>2, PipeShrinks DEF Streams
<1>4. /\ InPipe(c) /\ ~InHand(c) /\ ~Listed(c) /\ c \notin freed
      /\ Alive => c \notin Msgs(wire)
  <2>1. InPipe(c)
    BY <1>a, <1>3
  <2> QED
    BY <1>1, <2>1 DEF Streams, Owned, Streamed, Queued
<1>5. ASSUME NEW m \in sent
      PROVE  /\ InPipe(m)' <=> InPipe(m) /\ m # c
             /\ InHand(m)' <=> InHand(m)
             /\ Queued(m)' => Queued(m) /\ m # c
  <2>1. (InPipe(m)' <=> InPipe(m) /\ m # c) /\ (InHand(m)' <=> InHand(m))
    BY <1>a, <1>2, <1>3 DEF InHand, At
  <2>2. Queued(m)' => InPipe(m)' \/ (InHand(m) /\ call[m.by] = m /\ pc[m.by] \in Sends \ {"written", "left"})
    BY <1>2 DEF Queued, InHand, At
  <2> QED
    BY <1>4, <2>1, <2>2 DEF Queued
<1>6. Numbered'
  BY <1>2 DEF Streams, Numbered
<1>7. CASE Dropped(Head(pipe))
  <2>1. freed' = freed \cup {c} /\ UNCHANGED <<high, low, wbSize>>
    BY <1>a, <1>7 DEF SendSocket, Free
  <2>2. Owned'
    BY <1>2, <1>4, <1>5, <2>1 DEF Streams, Owned, Listed, Msgs
  <2>3. Streamed' /\ Begun' /\ Sized'
    BY <1>2, <1>5, <2>1 DEF Streams, Streamed, Begun, Sized, Alive, BeforeHigh, Waiting, Msgs, Uncomplete
  <2> QED
    BY <1>3, <1>6, <2>2, <2>3 DEF Streams
<1>8. CASE ~Dropped(Head(pipe))
  <2> DEFINE u == Units(c)
  <2>1. /\ u \in Seq(Buffer) /\ Len(u) = Size /\ Msgs(u) = {c} /\ Once(u) /\ Blocks(u)
    BY <1>1, UnitsOf, UnitsTyped, MsgsOfUnits, UnitsBlocks
  <2>2. /\ wbSize' = wbSize + Size /\ freed' = freed
        /\ \/ high' = high \o u /\ low' = low
           \/ low' = low \o u /\ high' = high
    BY <1>a, <1>8 DEF SendSocket
  <2> HIDE DEF u
  <2>3. /\ high \in Seq(Buffer) /\ low \in Seq(Buffer) /\ dwBuffer \in Seq(Buffer)
        /\ wire \in Seq(Buffer) /\ BeforeHigh \in Seq(Buffer) /\ Waiting \in Seq(Buffer)
    BY ListsAre
  <2>4. /\ Msgs(high \o u) = Msgs(high) \cup {c} /\ Msgs(low \o u) = Msgs(low) \cup {c}
        /\ Msgs(dwBuffer') = Msgs(dwBuffer)
    BY <1>2, <2>1, <2>3, MsgsJoin
  <2>5. Owned'
    <3> SUFFICES ASSUME NEW m \in sent
                 PROVE  /\ m \in freed <=> ~InPipe(m)' /\ ~InHand(m)' /\ ~Listed(m)'
                        /\ InPipe(m)' => ~InHand(m)'
                        /\ InPipe(m)' \/ InHand(m)' => ~Listed(m)'
                        /\ m \in Msgs(dwBuffer') => m \notin Msgs(high')
                        /\ m \in Msgs(dwBuffer') \cup Msgs(high') => m \notin Msgs(low')
      BY <1>2, <2>2 DEF Owned
    <3>1. \/ Msgs(high') = Msgs(high) \cup {c} /\ Msgs(low') = Msgs(low)
          \/ Msgs(low') = Msgs(low) \cup {c} /\ Msgs(high') = Msgs(high)
      BY <2>2, <2>4
    <3>2. Listed(m)' <=> Listed(m) \/ m = c
      BY <2>4, <3>1 DEF Listed
    <3>3. CASE m = c
      BY <1>4, <1>5, <2>4, <3>1, <3>2, <3>3 DEF Listed
    <3>4. CASE m # c
      BY <1>5, <2>4, <3>1, <3>2, <3>4 DEF Streams, Owned
    <3> QED
      BY <3>3, <3>4
  <2>6. ASSUME Alive
        PROVE  Blocks(wire' \o BeforeHigh') /\ Once(wire' \o Waiting')
    <3>1. Blocks(wire \o BeforeHigh) /\ Once(wire \o Waiting) /\ c \notin Msgs(wire)
      BY <1>4, <2>6 DEF Streams, Streamed
    <3>2. Msgs(Waiting) = Msgs(dwBuffer) \cup Msgs(high) \cup Msgs(low)
          /\ Msgs(BeforeHigh) = Msgs(dwBuffer) \cup Msgs(high)
      BY ListsAre
    <3>3. c \notin Msgs(Waiting) /\ c \notin Msgs(BeforeHigh) /\ c \notin Msgs(low)
      BY <1>4, <3>2 DEF Listed
    <3>4. CASE high' = high \o u /\ low' = low
      <4>0. PushedHigh(wire, dwBuffer, high, low, u)
        BY <2>1, <2>3, PushHigh
      <4>1. BeforeHigh' = BeforeHigh \o u
        BY <1>2, <3>4, <4>0 DEF BeforeHigh, PushedHigh
      <4>2. wire' \o BeforeHigh' = (wire \o BeforeHigh) \o u
        BY <1>2, <4>0, <4>1 DEF BeforeHigh, PushedHigh
      <4>3. wire' \o Waiting' = ((wire \o BeforeHigh) \o u) \o low
        BY <1>2, <3>4, <4>0, <4>1 DEF BeforeHigh, Waiting, PushedHigh
      <4>4. wire \o Waiting = (wire \o BeforeHigh) \o low
        BY <4>0 DEF BeforeHigh, Waiting, PushedHigh
      <4>5. wire \o BeforeHigh \in Seq(Buffer) /\ Msgs(wire \o BeforeHigh) = Msgs(wire) \cup Msgs(BeforeHigh)
        BY <2>3, MsgsJoin
      <4>6. Msgs(wire \o BeforeHigh) \cap Msgs(u) = {} /\ Msgs(low) \cap Msgs(u) = {}
        BY <2>1, <3>1, <3>3, <4>5
      <4>7. Blocks((wire \o BeforeHigh) \o u)
        BY <2>1, <3>1, <4>5, BlocksJoin DEF Buffer
      <4>8. Once(((wire \o BeforeHigh) \o u) \o low)
        BY <2>1, <2>3, <3>1, <4>4, <4>5, <4>6, OnceInsert
      <4> QED
        BY <4>2, <4>3, <4>7, <4>8
    <3>5. CASE low' = low \o u /\ high' = high
      <4>1. BeforeHigh' = BeforeHigh
        BY <1>2, <3>5 DEF BeforeHigh
      <4>2. wire' \o Waiting' = (wire \o Waiting) \o u
        <5>1. PushedLow(wire, BeforeHigh, low, u)
          BY <2>1, <2>3, PushLow
        <5>2. wire' \o Waiting' = wire \o (BeforeHigh \o (low \o u))
          BY <1>2, <3>5, <4>1 DEF Waiting
        <5> QED
          BY <5>1, <5>2 DEF PushedLow, Waiting
      <4>3. wire \o Waiting \in Seq(Buffer) /\ Msgs(wire \o Waiting) = Msgs(wire) \cup Msgs(Waiting)
        BY <2>3, MsgsJoin
      <4>4. Apart(wire \o Waiting, u)
        BY <2>1, <3>1, <3>3, <4>3, ApartMsgs
      <4>5. Once((wire \o Waiting) \o u)
        BY <2>1, <3>1, <4>3, <4>4, OnceJoin
      <4> QED
        BY <1>2, <3>1, <4>1, <4>2, <4>5
    <3> QED
      BY <2>2, <3>4, <3>5
  <2>7. Streamed'
    <3>1. ASSUME Alive  PROVE \A m \in sent : Queued(m)' => m \notin Msgs(wire')
      BY <1>2, <1>5, <3>1 DEF Streams, Streamed
    <3>2. Alive' <=> Alive
      BY <1>2 DEF Alive
    <3> QED
      BY <1>2, <2>6, <3>1, <3>2 DEF Streamed
  <2>8. Begun'
    <3> SUFFICES ASSUME NEW t \in Threads, pc[t] = "lockedrest"  PROVE ~Uncomplete(high')
      BY <1>2 DEF Begun, Uncomplete
    <3>1. ~Uncomplete(high)
      BY DEF Streams, Begun
    <3>2. ~Uncomplete(u)
      BY <2>1, FirstUnit DEF Buffer
    <3>3. ~Uncomplete(high \o u)
      BY <2>1, <2>3, <3>1, <3>2, UncompleteJoin
    <3> QED
      BY <2>2, <3>1, <3>3
  <2>9. Sized'
    <3>1. Len(high \o u) = Len(high) + Size /\ Len(low \o u) = Len(low) + Size
      BY <2>1, <2>3, Joined
    <3>2. Len(high) \in Nat /\ Len(low) \in Nat /\ Size \in Nat /\ wbSize \in Nat
      BY <2>3 DEF Base, ListsTyped
    <3>3. \/ Len(high') = Len(high) + Size /\ Len(low') = Len(low)
          \/ Len(low') = Len(low) + Size /\ Len(high') = Len(high)
      BY <2>2, <3>1
    <3>4. ASSUME wbSize = Len(high) + Len(low)  PROVE wbSize' = Len(high') + Len(low')
      <4>1. wbSize' = Len(high) + Len(low) + Size
        BY <2>2, <3>4
      <4>2. CASE Len(high') = Len(high) + Size /\ Len(low') = Len(low)
        BY <3>2, <4>1, <4>2
      <4>3. CASE Len(low') = Len(low) + Size /\ Len(high') = Len(high)
        BY <3>2, <4>1, <4>3
      <4> QED
        BY <3>3, <4>2, <4>3
    <3> QED
      BY <1>2, <3>4 DEF Streams, Sized, Alive
  <2> QED
    BY <1>3, <1>6, <2>5, <2>7, <2>8, <2>9 DEF Streams
<1> QED
  BY <1>7, <1>8

(* A new connection starts with nothing to write.                          *)
LEMMA NewFdStreams ==
  ASSUME Base, Settled, Streams, OpenSocket \/ Accept
  PROVE  Streams'
<1>1. /\ UNCHANGED <<high, low, pc, call, calls, sent, freed>> /\ ~Live
      /\ wire' = <<>> /\ dwBuffer' = <<>> /\ wbSize' = 0
      /\ \/ pipe' = pipe
         \/ pipe # <<>> /\ pipe' = Tail(pipe) /\ Head(pipe).op \notin {"D", "P"}
  BY DEF OpenSocket, Accept, NewFd, Command, Live
<1>2. high = <<>> /\ low = <<>> /\ dwBuffer = <<>>
  BY <1>1 DEF Settled, Idle
<1>3. PipeOnce' /\ \A m \in sent : InPipe(m)' <=> InPipe(m)
  BY <1>1, NoneTaken DEF Streams
<1>4. Owned'
  BY <1>1, <1>2, <1>3 DEF Streams, Owned, Listed, Msgs, InHand, At
<1>5. wire' \o BeforeHigh' = <<>> /\ wire' \o Waiting' = <<>>
  BY <1>1, <1>2 DEF BeforeHigh, Waiting
<1>6. Streamed'
  <2>1. Blocks(<<>>)
    BY DEF Blocks
  <2> QED
    BY <1>1, <1>5, <2>1, MsgsOfNone DEF Streamed
<1>7. Begun' /\ Sized'
  BY <1>1, <1>2 DEF Begun, Sized, Uncomplete
<1>8. Numbered'
  BY <1>1 DEF Streams, Numbered
<1> QED
  BY <1>3, <1>4, <1>6, <1>7, <1>8 DEF Streams

(* Cutting within the first list.                                          *)
LEMMA LeftJoin ==
  ASSUME NEW S, NEW s \in Seq(S), NEW u \in Seq(S), NEW k \in 0 .. Len(s)
  PROVE  Left(s \o u, k) = Left(s, k) \o u
<1> DEFINE a == Taken(s, k)
           b == Left(s, k)
<1>1. a \in Seq(S) /\ b \in Seq(S) /\ Len(a) = k /\ a \o b = s
  BY Cut, TakenLeft
<1> HIDE DEF a, b
<1>2. Assocs(a, b, u) /\ b \o u \in Seq(S)
  BY <1>1, AllAssoc
<1> DEFINE r == a \o (b \o u)
<1>3. Left(r, Len(a)) = b \o u
  BY <1>1, <1>2, CutFirst
<1>4. s \o u = r
  BY <1>1, <1>2 DEF Assocs
<1> HIDE DEF r
<1> QED
  BY <1>1, <1>3, <1>4 DEF b

(* What send_buffer() does not write stays in the lists, in order.         *)
LEMMA WroteStream ==
  ASSUME ListsTyped, NEW k \in 0 .. Len(Waiting), Wrote(k)
  PROVE  high' \o low' = Left(Waiting, k)
<1>1. /\ BeforeHigh \in Seq(Buffer) /\ low \in Seq(Buffer) /\ Waiting \in Seq(Buffer)
      /\ Len(BeforeHigh) \in Nat /\ Blocks(low)
  BY AllTyped, MsgsWaiting DEF ListsTyped
<1>2. CASE k < Len(BeforeHigh)
  <2>1. high' = Left(BeforeHigh, k) /\ low' = low /\ k \in 0 .. Len(BeforeHigh)
    BY <1>1, <1>2 DEF Wrote
  <2> QED
    BY <1>1, <2>1, LeftJoin DEF Waiting
<1>3. CASE ~(k < Len(BeforeHigh))
  <2> DEFINE rest == Left(Waiting, k)
  <2>1. high' = Taken(rest, Raised(rest)) /\ low' = Left(rest, Raised(rest))
    BY <1>3 DEF Wrote, Waiting
  <2>2. k >= Len(BeforeHigh)
    BY <1>1, <1>3
  <2>3. k - Len(BeforeHigh) \in 0 .. Len(low) /\ rest = Left(low, k - Len(BeforeHigh))
    BY <2>2, RestIsLow DEF Waiting
  <2>4. Raised(rest) \in 0 .. Len(rest)
    <3> DEFINE j == k - Len(BeforeHigh)
    <3> HIDE DEF rest
    <3>1. j \in 0 .. Len(low) /\ rest = Left(low, j)
      BY <2>3
    <3> HIDE DEF j
    <3>2. low \in Seq(sent \X (1 .. Size)) /\ Blocks(low)
      BY <1>1 DEF Buffer
    <3>3. Raised(Left(low, j)) \in 0 .. Len(Left(low, j))
      BY <3>1, <3>2, RaisedFits
    <3> QED
      BY <3>1, <3>3
  <2>5. rest \in Seq(Buffer)
    BY <1>1, Cut
  <2> HIDE DEF rest
  <2>6. Taken(rest, Raised(rest)) \o Left(rest, Raised(rest)) = rest
    BY <2>4, <2>5, TakenLeft
  <2> QED
    BY <2>1, <2>6 DEF rest
<1> QED
  BY <1>2, <1>3

(* The stream that is written and waits, when send_buffer() has written k  *)
(* units of it.                                                            *)
LEMMA StreamKept ==
  ASSUME Base, Streams, Alive, NEW k \in 0 .. Len(Waiting), Wrote(k), dwBuffer' = <<>>,
         sent' = sent
  PROVE  /\ Blocks(wire' \o BeforeHigh') /\ Once(wire' \o Waiting')
         /\ Msgs(wire') \subseteq Msgs(wire) \cup Msgs(Waiting)
         /\ Msgs(high') \cup Msgs(low') = Msgs(Waiting) \ Whole(Taken(Waiting, k))
         /\ Msgs(high') \cap Msgs(low') = {}
<1> DEFINE T == Taken(Waiting, k)
           L == Left(Waiting, k)
           F == wire \o Waiting
<1>1. ListsTyped /\ Buffer = sent \X (1 .. Size)
  BY DEF Base, Buffer
<1>2. /\ high' \in Seq(Buffer) /\ low' \in Seq(Buffer) /\ Blocks(low')
      /\ wire' = wire \o T
  BY <1>1, ListsLeft DEF Wrote, Waiting
<1>3. high' \o low' = L
  BY <1>1, WroteStream
<1>4. BeforeHigh' = high' /\ Waiting' = high' \o low'
  BY <1>2 DEF BeforeHigh, Waiting
<1>5. /\ wire \in Seq(Buffer) /\ BeforeHigh \in Seq(Buffer) /\ low \in Seq(Buffer)
      /\ Waiting \in Seq(Buffer) /\ Blocks(low)
  BY <1>1, MsgsWaiting DEF ListsTyped
<1>6. T \in Seq(Buffer) /\ L \in Seq(Buffer) /\ T \o L = Waiting
      /\ Msgs(T) \cup Msgs(L) = Msgs(Waiting)
  BY <1>5, Cut, TakenLeft, MsgsCut
<1>7. Blocks(F) /\ Once(F) /\ F \in Seq(Buffer)
  <2>1. Blocks(wire \o BeforeHigh) /\ Once(F) /\ wire \o BeforeHigh \in Seq(Buffer) /\ F \in Seq(Buffer)
    BY <1>5 DEF Streams, Streamed
  <2>2. Blocks((wire \o BeforeHigh) \o low)
    BY <1>1, <1>5, <2>1, BlocksJoin
  <2>3. Assocs(wire, BeforeHigh, low)
    BY <1>5, AllAssoc
  <2> QED
    BY <2>1, <2>2, <2>3 DEF Assocs, Waiting
<1> HIDE DEF T, L
<1>8. wire \o T \in Seq(Buffer) /\ (wire \o T) \o L = F
  <2>1. Assocs(wire, T, L)
    BY <1>5, <1>6, AllAssoc
  <2> QED
    BY <1>5, <1>6, <2>1 DEF Assocs
<1>9. wire' \o Waiting' = F
  BY <1>2, <1>3, <1>4, <1>8 DEF T, L
<1>10. wire' \in Seq(Buffer) /\ wire' \o high' \in Seq(Buffer) /\ (wire' \o high') \o low' = F
  <2>1. wire' \in Seq(Buffer)
    BY <1>2, <1>8 DEF T
  <2>2. Assocs(wire', high', low')
    BY <1>2, <2>1, AllAssoc
  <2>3. wire' \o high' \in Seq(Buffer)
    BY <1>2, <2>1, Joined
  <2>4. (wire' \o high') \o low' = wire' \o (high' \o low')
    BY <2>2 DEF Assocs
  <2> HIDE DEF F
  <2> QED
    BY <1>4, <1>9, <2>1, <2>3, <2>4
<1> HIDE DEF F
<1>11. Blocks(wire' \o high')
  <2>1. ~Uncomplete(low')
    BY <1>1, <1>2, FirstUnit
  <2> QED
    BY <1>1, <1>2, <1>7, <1>10, <2>1, BlocksParts
<1>12. Msgs(Waiting) = Msgs(F) \ Whole(wire)
  BY <1>1, <1>5, <1>7, Behind DEF F
<1>13. Msgs(L) = Msgs(F) \ Whole(wire \o T) /\ Whole(wire \o T) = Whole(wire) \cup Whole(T)
       /\ Msgs(wire \o T) = Msgs(wire) \cup Msgs(T)
  <2>1. wire \in Seq(Buffer) /\ T \in Seq(Buffer) /\ L \in Seq(Buffer)
    BY <1>5, <1>6
  <2>2. /\ Whole(wire \o T) = Whole(wire) \cup Whole(T)
        /\ Msgs(wire \o T) = Msgs(wire) \cup Msgs(T)
    BY <2>1, MsgsJoin
  <2> DEFINE W == wire \o T
  <2>3. W \in Seq(Buffer) /\ W \o L = F
    BY <1>8
  <2> HIDE DEF W
  <2>4. Blocks(W \o L) /\ Once(W \o L)
    BY <1>7, <2>3
  <2>5. Msgs(L) = Msgs(W \o L) \ Whole(W)
    BY <1>1, <2>1, <2>3, <2>4, Behind
  <2> QED
    BY <2>2, <2>3, <2>5 DEF W
<1>14. Msgs(high') \cup Msgs(low') = Msgs(L)
  <2>1. high' \in Seq(Buffer) /\ low' \in Seq(Buffer)
    BY <1>2
  <2>2. Msgs(high' \o low') = Msgs(high') \cup Msgs(low')
    BY <2>1, MsgsJoin
  <2> QED
    BY <1>3, <2>2 DEF L
<1>15. Msgs(high') \cap Msgs(low') = {}
  <2>1. Msgs(low') = Msgs(F) \ Whole(wire' \o high')
    <3> DEFINE W == wire' \o high'
    <3>1. W \in Seq(Buffer) /\ W \o low' = F
      BY <1>10
    <3> HIDE DEF W
    <3>2. Blocks(W \o low') /\ Once(W \o low')
      BY <1>7, <3>1
    <3>3. Msgs(low') = Msgs(W \o low') \ Whole(W)
      BY <1>1, <1>2, <3>1, <3>2, Behind
    <3> QED
      BY <3>1, <3>3 DEF W
  <2>2. Msgs(wire' \o high') \subseteq Whole(wire' \o high')
    BY <1>1, <1>10, <1>11, BlocksWhole
  <2>3. Msgs(high') \subseteq Msgs(wire' \o high')
    <3>1. wire' \in Seq(Buffer) /\ high' \in Seq(Buffer)
      BY <1>2, <1>10
    <3>2. Msgs(wire' \o high') = Msgs(wire') \cup Msgs(high')
      BY <3>1, MsgsJoin
    <3> QED
      BY <3>2
  <2> QED
    BY <2>1, <2>2, <2>3
<1>16. Msgs(wire') \subseteq Msgs(wire) \cup Msgs(Waiting)
  BY <1>2, <1>6, <1>13 DEF T
<1>17. Msgs(L) = Msgs(Waiting) \ Whole(T)
  BY <1>12, <1>13
<1> QED
  BY <1>4, <1>7, <1>9, <1>11, <1>14, <1>15, <1>16, <1>17 DEF T

(* send_buffer() writes what waits: keeps Streams.                         *)
LEMMA SendBufferStreams ==
  ASSUME Base, Settled, Streams, SendBuffer
  PROVE  Streams'
<1>1. PICK k \in 0 .. Len(Waiting) : Goes(k)
  BY SendBufferGoes DEF Base, Waiting
<1>2. /\ Wrote(k) /\ poll = "send" /\ ListsTyped /\ dwBuffer' = <<>>
      /\ UNCHANGED <<sent, pipe, threadVars>>
  BY <1>1 DEF Base, SendBuffer, Goes
<1>3. \A t \in Threads : pc[t] # "lockedrest"
  BY <1>2 DEF Base, Locked, HoldsLock
<1>4. Numbered' /\ PipeOnce' /\ Begun'
  BY <1>2, <1>3 DEF Streams, Numbered, PipeOnce, Begun
<1>5. CASE ~Live
  <2>1. high = <<>> /\ low = <<>> /\ dwBuffer = <<>>
    BY <1>5 DEF Settled, Idle
  <2>2. Len(BeforeHigh \o low) = 0 /\ Waiting = <<>>
    BY <2>1, NothingWaits DEF Waiting
  <2>3. k = Len(BeforeHigh \o low) /\ Taken(Waiting, k) = <<>>
    BY <2>2 DEF Waiting, Taken
  <2>4. high' = <<>> /\ low' = <<>>
    BY <1>2, <2>3, AllWritten
  <2>5. freed' = freed
    BY <1>2, <2>3, MsgsOfNone DEF Wrote, Waiting
  <2>6. Owned'
    BY <1>2, <2>1, <2>4, <2>5, LessOwned DEF Streams, Owned, Listed, Msgs
  <2>7. ~Alive'
    BY <1>1, <1>5 DEF Goes, Live, Alive
  <2> QED
    BY <1>2, <2>4, <2>6, <2>7, EndStreams
<1>6. CASE Live
  <2>1. Alive
    BY <1>2, <1>6 DEF Live, Alive
  <2>2. /\ Blocks(wire' \o BeforeHigh') /\ Once(wire' \o Waiting')
        /\ Msgs(wire') \subseteq Msgs(wire) \cup Msgs(Waiting)
        /\ Msgs(high') \cup Msgs(low') = Msgs(Waiting) \ Whole(Taken(Waiting, k))
        /\ Msgs(high') \cap Msgs(low') = {}
    BY <1>2, <2>1, StreamKept
  <2>3. Msgs(dwBuffer') = {} /\ Msgs(Waiting) = Msgs(dwBuffer) \cup Msgs(high) \cup Msgs(low)
    BY <1>2, MsgsOfNone, MsgsWaiting
  <2>4. freed' = freed \cup Whole(Taken(Waiting, k))
    BY <1>2 DEF Wrote, Waiting
  <2>5. Whole(Taken(Waiting, k)) \subseteq Msgs(Waiting)
    <3>1. Waiting \in Seq(Buffer)
      BY <1>2, MsgsWaiting
    <3>2. Taken(Waiting, k) \in Seq(Buffer) /\ Msgs(Taken(Waiting, k)) \subseteq Msgs(Waiting)
      BY <3>1, Cut, MsgsCut
    <3>3. DOMAIN Taken(Waiting, k) = 1 .. Len(Taken(Waiting, k))
      BY <3>2, UnitsSent
    <3>4. Whole(Taken(Waiting, k)) \subseteq Msgs(Taken(Waiting, k))
      BY <3>3 DEF Whole, Msgs
    <3> QED
      BY <3>2, <3>4
  <2>6. Owned'
    <3>1. ASSUME NEW m \in sent
          PROVE  /\ m \in freed' <=> m \in freed \/ (Listed(m) /\ ~Listed(m)')
                 /\ Listed(m)' => Listed(m)
      BY <2>2, <2>3, <2>4, <2>5 DEF Listed
    <3> QED
      BY <1>2, <2>2, <2>3, <3>1, LessOwned DEF Streams
  <2>7. ASSUME NEW m \in sent, Queued(m)'  PROVE m \notin Msgs(wire')
    <3>1. Queued(m)
      BY <1>2, <2>7 DEF Queued, InPipe
    <3>2. InPipe(m) \/ InHand(m)
      BY <3>1 DEF Queued, InHand, At
    <3> QED
      BY <2>1, <2>2, <2>3, <3>1, <3>2 DEF Streams, Streamed, Owned, Listed
  <2>8. Streamed'
    BY <1>2, <2>2, <2>7 DEF Streamed
  <2>9. Sized'
    <3>1. wbSize = Len(high) + Len(low)
      BY <2>1 DEF Streams, Sized
    <3>2. /\ Len(high') + Len(low') = Len(BeforeHigh \o low) - k
          /\ wbSize' = wbSize + Len(dwBuffer) - k
      BY <1>2, ListsLeft DEF Wrote, WbSizeAfter, Waiting
    <3>3. /\ Len(BeforeHigh \o low) = Len(dwBuffer) + Len(high) + Len(low)
          /\ Len(dwBuffer) \in Nat /\ Len(high) \in Nat /\ Len(low) \in Nat
      BY <1>2, AllTyped
    <3>4. wbSize' = Len(BeforeHigh \o low) - k
      BY <3>1, <3>2, <3>3
    <3> QED
      BY <3>2, <3>4 DEF Sized
  <2> QED
    BY <1>4, <2>6, <2>8, <2>9 DEF Streams
<1> QED
  BY <1>5, <1>6

-----------------------------------------------------------------------------
(* Streams holds at the start.                                             *)
LEMMA InitStreams ==
  ASSUME Init
  PROVE  Streams
<1>1. /\ sent = {} /\ pipe = <<>> /\ type = "INVALID" /\ wbSize = 0
      /\ \A t \in Threads : pc[t] = "out"
  BY DEF Init
<1>2. Numbered /\ PipeOnce /\ Owned /\ Begun
  BY <1>1 DEF Numbered, PipeOnce, Owned, Begun
<1>3. Streamed /\ Sized
  BY <1>1 DEF Streamed, Sized, Alive
<1> QED
  BY <1>2, <1>3 DEF Streams

(* A step of a caller: keeps Streams.                                      *)
LEMMA CallerStreams ==
  ASSUME Base, Settled, Streams, NEW t \in Threads, Caller(t)
  PROVE  Streams'
<1>1. NameSlot(t) \/ FirstTest(t) \/ TryLock(t) \/ SecondTest(t) \/ NoDirectWrite(t)
      \/ IncSendingRef(t) => Streams'
  BY InCallQuiet
<1>2. Unlock(t) => Streams'
  BY InCallQuiet, UnlockStreams
<1> QED
  BY <1>1, <1>2, ReserveStreams, RequestStreams, SendGoneStreams, SendStreams,
     SendOpenStreams, DirectWriteStreams, PushSendStreams DEF Caller, InCall

(* The steps that end in a close: keeps Streams.                           *)
LEMMA KilledStreams ==
  ASSUME Base, Streams, Decide \/ EventEof \/ ConnectFails, poll' = "kill"
  PROVE  Streams'
<1>1. FreeLists /\ UNCHANGED <<dwBuffer, pipe, threadVars, sent>>
  BY DEF Decide, EventEof, ConnectFails
<1> QED
  BY <1>1, FreeListsStreams

(* A step of the socket thread: keeps Streams.                             *)
LEMMA PollStreams ==
  ASSUME Base, Settled, Streams, Poll \/ WaitWrite \/ WaitEof \/ Accept \/ PeerCloses
  PROVE  Streams'
<1>1. Commanded => Streams'
  BY NewFdStreams, ServerQuiet, SendSocketStreams DEF Commanded
<1>2. Decide \/ EventEof \/ ConnectFails => Streams'
  <2>1. EventEof \/ ConnectFails => poll' = "kill"
    BY DEF EventEof, ConnectFails
  <2> QED
    BY <2>1, KilledStreams, ServerQuiet
<1>3. Continued => Streams'
  BY <1>2, CloseFdStreams, ServerQuiet, SendBufferStreams, WriteFailsStreams DEF Continued
<1>4. Dispatched => Streams'
  BY <1>2, ServerQuiet DEF Dispatched
<1>5. NoCommand \/ Accept \/ PeerCloses => Streams'
  BY ServerQuiet, NewFdStreams
<1>6. WaitPipe \/ WaitWrite \/ WaitEof => Streams'
  BY ServerQuiet DEF WaitPipe, WaitWrite, WaitEof
<1> QED
  BY <1>1, <1>3, <1>4, <1>5, <1>6 DEF Poll

(* A step that changes nothing: keeps Streams.                             *)
LEMMA StutterStreams ==
  ASSUME Streams, UNCHANGED vars
  PROVE  Streams'
<1>1. Numbered' /\ PipeOnce' /\ Begun' /\ Sized'
  BY DEF Streams, Numbered, PipeOnce, Begun, Uncomplete, Sized, Alive, vars
<1>2. Owned' /\ Streamed'
  BY DEF Streams, Owned, Streamed, Alive, InPipe, InHand, Listed, Queued, At, Msgs,
         BeforeHigh, Waiting, vars
<1> QED
  BY <1>1, <1>2 DEF Streams

(* Streams is inductive.                                                   *)
LEMMA StreamsKept ==
  ASSUME Base, Settled, Streams, [Next]_vars
  PROVE  Streams'
  BY CallerStreams, PollStreams, StutterStreams DEF Next

(* Streams holds in every reachable state of SettledSpec, and of Spec when *)
(* no command can be stale.                                                *)
LEMMA StreamsTheorem ==
  /\ SettledSpec => [](Base /\ Settled /\ Streams)
  /\ OneUse => (Spec => [](Base /\ Settled /\ Streams))
<1>1. Base /\ Settled /\ Streams /\ [Next]_vars => Streams'
  BY StreamsKept
<1>2. [Next /\ ~StaleCommand]_vars => [Next]_vars
  OBVIOUS
<1>3. SettledSpec => [](Base /\ Settled /\ Streams)
  BY <1>1, <1>2, InitStreams, SettledTheorem, PTL DEF SettledSpec
<1>4. OneUse => (Spec => [](Base /\ Settled /\ Streams))
  <2>1. CASE OneUse
    <3>1. Spec => [](Base /\ Settled /\ NoConnect)
      BY <2>1, OneUseSettled
    <3> QED
      BY <1>1, <3>1, InitStreams, PTL DEF Spec
  <2> QED
    BY <2>1
<1> QED
  BY <1>3, <1>4

-----------------------------------------------------------------------------
(* In a sequence of whole buffers each unit follows the one before it.     *)
LEMMA BlocksInOrder ==
  ASSUME NEW S, NEW s \in Seq(S \X (1 .. Size)), Blocks(s), NEW p \in 1 .. Len(s)
  PROVE  /\ s[p][2] = 1 => p = 1 \/ s[p - 1][2] = Size
         /\ s[p][2] > 1 => p > 1 /\ s[p - 1] = <<s[p][1], s[p][2] - 1>>
<1>1. Size \in Nat /\ Len(s) \in Nat
  OBVIOUS
<1>2. ASSUME NEW q \in 1 .. Len(s)
      PROVE  /\ s[q][2] \in 1 .. Size /\ q - s[q][2] \in 0 .. Len(s) - Size
             /\ \A i \in 1 .. Size : s[(q - s[q][2]) + i] = <<s[q][1], i>>
  <2>1. s[q] \in S \X (1 .. Size)
    OBVIOUS
  <2> QED
    BY <2>1 DEF Blocks, Start
<1>3. ASSUME s[p][2] = 1, p # 1, s[p - 1][2] # Size  PROVE FALSE
  <2>1. p - 1 \in 1 .. Len(s)
    BY <1>1, <1>3
  <2>2. /\ s[p - 1][2] \in 1 .. Size
        /\ \A i \in 1 .. Size : s[((p - 1) - s[p - 1][2]) + i] = <<s[p - 1][1], i>>
    BY <1>2, <2>1
  <2> DEFINE j == s[p - 1][2]
  <2>3. j \in 1 .. Size /\ j # Size
    BY <1>3, <2>2
  <2>4. \A i \in 1 .. Size : s[((p - 1) - j) + i] = <<s[p - 1][1], i>>
    BY <2>2
  <2> HIDE DEF j
  <2>5. j + 1 \in 1 .. Size /\ ((p - 1) - j) + (j + 1) = p
    BY <1>1, <2>3
  <2>6. s[p] = <<s[p - 1][1], j + 1>>
    BY <2>4, <2>5
  <2>7. j + 1 = 1
    BY <1>3, <2>6
  <2> QED
    BY <2>3, <2>7
<1>4. ASSUME s[p][2] > 1  PROVE p > 1 /\ s[p - 1] = <<s[p][1], s[p][2] - 1>>
  <2> DEFINE j == s[p][2]
  <2>1. /\ j \in 1 .. Size /\ p - j \in 0 .. Len(s) - Size
        /\ \A i \in 1 .. Size : s[(p - j) + i] = <<s[p][1], i>>
    BY <1>2
  <2>2. j > 1
    BY <1>4
  <2> HIDE DEF j
  <2>6. j \in Int /\ p \in Int
    BY <1>1, <2>1
  <2>3. j - 1 \in 1 .. Size /\ (p - j) + (j - 1) = p - 1
    <3>1. (p - j) + (j - 1) = p - 1
      BY <2>6
    <3>2. j - 1 \in 1 .. Size
      BY <1>1, <2>1, <2>2
    <3> QED
      BY <3>1, <3>2
  <2>5. p > 1
    BY <1>1, <2>1, <2>2
  <2>4. s[p - 1] = <<s[p][1], j - 1>>
    BY <2>1, <2>3
  <2> QED
    BY <2>4, <2>5 DEF j
<1> QED
  BY <1>3, <1>4

(* Whole buffers, one after the other and none twice, reach the wire.      *)
LEMMA WireInOrder ==
  ASSUME Base, Streams
  PROVE  NoTornMessage
<1> SUFFICES ASSUME Alive, NEW p \in DOMAIN wire
             PROVE  /\ wire[p][2] = 1 => p = 1 \/ wire[p - 1][2] = Size
                    /\ wire[p][2] > 1 => p > 1 /\ wire[p - 1] = <<wire[p][1], wire[p][2] - 1>>
                    /\ \A q \in 1 .. p - 1 : wire[q] # wire[p]
  BY DEF NoTornMessage
<1>1. /\ wire \in Seq(Buffer) /\ BeforeHigh \in Seq(Buffer) /\ Waiting \in Seq(Buffer)
      /\ Blocks(wire \o BeforeHigh) /\ Once(wire \o Waiting)
  BY ListsAre DEF Streams, Streamed
<1>2. p \in 1 .. Len(wire) /\ Len(wire) \in Nat
  BY <1>1
<1> DEFINE r == wire \o BeforeHigh
<1>3. /\ r \in Seq(Buffer) /\ Blocks(r)
      /\ \A q \in 1 .. Len(wire) : q \in 1 .. Len(r) /\ r[q] = wire[q]
  BY <1>1, JoinIn
<1> HIDE DEF r
<1>4. /\ r[p][2] = 1 => p = 1 \/ r[p - 1][2] = Size
      /\ r[p][2] > 1 => p > 1 /\ r[p - 1] = <<r[p][1], r[p][2] - 1>>
  BY <1>2, <1>3, BlocksInOrder DEF Buffer
<1>5. p = 1 \/ p - 1 \in 1 .. Len(wire)
  BY <1>2
<1>6. /\ wire[p][2] = 1 => p = 1 \/ wire[p - 1][2] = Size
      /\ wire[p][2] > 1 => p > 1 /\ wire[p - 1] = <<wire[p][1], wire[p][2] - 1>>
  BY <1>2, <1>3, <1>4, <1>5
<1>7. ASSUME NEW q \in 1 .. p - 1  PROVE wire[q] # wire[p]
  <2>1. Once(wire)
    BY <1>1, OnceJoin
  <2>2. q \in 1 .. Len(wire) /\ q # p
    BY <1>2
  <2> QED
    BY <1>2, <2>1, <2>2 DEF Once
<1> QED
  BY <1>6, <1>7

(* Streams implies that wb_size counts the lists.                          *)
LEMMA CountedInLists ==
  ASSUME Base, Streams
  PROVE  ListsAccounted
<1>1. ~Uncomplete(low)
  BY FirstUnit DEF Base, ListsTyped, Buffer
<1> QED
  BY <1>1 DEF Streams, Sized, ListsAccounted

(* A buffer that was not freed is in one place.                            *)
LEMMA InOnePlace ==
  ASSUME Base, Streams
  PROVE  OwnedOnce
<1> SUFFICES ASSUME NEW m \in sent  PROVE Places(m) = IF m \in freed THEN 0 ELSE 1
  BY DEF OwnedOnce
<1>1. /\ InUnits(m, high) <=> m \in Msgs(high)
      /\ InUnits(m, low) <=> m \in Msgs(low)
      /\ InUnits(m, dwBuffer) <=> m \in Msgs(dwBuffer)
  <2>1. \A s \in Seq(Buffer) : InUnits(m, s) <=> m \in Msgs(s)
    BY UnitsSent DEF InUnits, Msgs
  <2> QED
    BY <2>1, ListsAre
<1> DEFINE Holds(where) ==
             CASE where = "pipe" -> InPipe(m)
               [] where = "high" -> InUnits(m, high)
               [] where = "low"  -> InUnits(m, low)
               [] where = "dw"   -> InUnits(m, dwBuffer)
               [] where = "hand" -> InHand(m)
           P == {where \in {"pipe", "high", "low", "dw", "hand"} : Holds(where)}
<1>2. /\ Holds("pipe") <=> InPipe(m)
      /\ Holds("high") <=> m \in Msgs(high)
      /\ Holds("low") <=> m \in Msgs(low)
      /\ Holds("dw") <=> m \in Msgs(dwBuffer)
      /\ Holds("hand") <=> InHand(m)
  BY <1>1
<1> HIDE DEF Holds
<1>3. /\ m \in freed <=> ~InPipe(m) /\ ~InHand(m) /\ ~Listed(m)
      /\ InPipe(m) => ~InHand(m)
      /\ InPipe(m) \/ InHand(m) => ~Listed(m)
      /\ m \in Msgs(dwBuffer) => m \notin Msgs(high)
      /\ m \in Msgs(dwBuffer) \cup Msgs(high) => m \notin Msgs(low)
  BY DEF Streams, Owned
<1>4. Places(m) = Cardinality(P)
  BY DEF Places, Holds
<1>5. CASE m \in freed
  <2>1. P = {}
    BY <1>2, <1>3, <1>5 DEF Listed
  <2> QED
    BY <1>4, <1>5, <2>1, FS_EmptySet
<1>6. CASE m \notin freed
  <2>1. \E where : P = {where}
    <3>1. CASE InPipe(m)
      <4>1. P = {"pipe"}
        BY <1>2, <1>3, <3>1 DEF Listed
      <4> QED
        BY <4>1
    <3>2. CASE InHand(m)
      <4>1. P = {"hand"}
        BY <1>2, <1>3, <3>2 DEF Listed
      <4> QED
        BY <4>1
    <3>3. CASE m \in Msgs(dwBuffer)
      <4>1. P = {"dw"}
        BY <1>2, <1>3, <3>3 DEF Listed
      <4> QED
        BY <4>1
    <3>4. CASE m \in Msgs(high)
      <4>1. P = {"high"}
        BY <1>2, <1>3, <3>4 DEF Listed
      <4> QED
        BY <4>1
    <3>5. CASE m \in Msgs(low)
      <4>1. P = {"low"}
        BY <1>2, <1>3, <3>5 DEF Listed
      <4> QED
        BY <4>1
    <3> QED
      BY <1>3, <1>6, <3>1, <3>2, <3>3, <3>4, <3>5 DEF Listed
  <2> QED
    BY <1>4, <1>6, <2>1, FS_Singleton
<1> QED
  BY <1>5, <1>6

(* The bytes of a buffer go out together, in order and once, whoever       *)
(* writes them, for any callers, ids, buffer size and partial writes, and  *)
(* also when callers send before OPEN; with connect(), when no command of  *)
(* the last connection is carried out between the two stores of            *)
(* reserve_id().                                                           *)
THEOREM SocketNoTornMessage ==
  /\ SettledSpec => []NoTornMessage
  /\ OneUse => (Spec => []NoTornMessage)
<1>1. Base /\ Settled /\ Streams => NoTornMessage
  BY WireInOrder
<1>2. SettledSpec => []NoTornMessage
  BY <1>1, StreamsTheorem, PTL
<1>3. OneUse => (Spec => []NoTornMessage)
  <2>1. CASE OneUse
    <3>1. Spec => [](Base /\ Settled /\ Streams)
      BY <2>1, StreamsTheorem
    <3> QED
      BY <1>1, <3>1, PTL
  <2> QED
    BY <2>1
<1> QED
  BY <1>2, <1>3

(* wb_size is what the lists hold, and a low buffer written in part was    *)
(* moved to the high list, under the same conditions.                      *)
THEOREM SocketListsAccounted ==
  /\ SettledSpec => []ListsAccounted
  /\ OneUse => (Spec => []ListsAccounted)
<1>1. Base /\ Settled /\ Streams => ListsAccounted
  BY CountedInLists
<1>2. SettledSpec => []ListsAccounted
  BY <1>1, StreamsTheorem, PTL
<1>3. OneUse => (Spec => []ListsAccounted)
  <2>1. CASE OneUse
    <3>1. Spec => [](Base /\ Settled /\ Streams)
      BY <2>1, StreamsTheorem
    <3> QED
      BY <1>1, <3>1, PTL
  <2> QED
    BY <2>1
<1> QED
  BY <1>2, <1>3

(* Every buffer given to send() has one owner until it is freed, and none  *)
(* afterwards, so none is lost, freed twice or used after it was freed,    *)
(* under the same conditions.                                              *)
THEOREM SocketOwnedOnce ==
  /\ SettledSpec => []OwnedOnce
  /\ OneUse => (Spec => []OwnedOnce)
<1>1. Base /\ Settled /\ Streams => OwnedOnce
  BY InOnePlace
<1>2. SettledSpec => []OwnedOnce
  BY <1>1, StreamsTheorem, PTL
<1>3. OneUse => (Spec => []OwnedOnce)
  <2>1. CASE OneUse
    <3>1. Spec => [](Base /\ Settled /\ Streams)
      BY <2>1, StreamsTheorem
    <3> QED
      BY <1>1, <3>1, PTL
  <2> QED
    BY <2>1
<1> QED
  BY <1>2, <1>3

=============================================================================
