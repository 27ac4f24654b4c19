------------------------- MODULE SocketServerProofs -------------------------
(***************************************************************************)
(* The types of SocketServer, for any callers, calls, ids and buffer       *)
(* sizes, and whose the slot is. Base is the inductive invariant of the    *)
(* types: every buffer in the lists was given to send(), the low list      *)
(* holds whole buffers, each caller holds what its place in its call says, *)
(* and dw_lock has exactly one holder.                                     *)
(***************************************************************************)
EXTENDS SocketServer, FiniteSetTheorems, SequenceTheorems, TLAPS

USE Bounds, Usage
USE DEF slotVars, refVars, listVars, evVars, pollVars, threadVars, bufVars,
        toldVars, linkVars

(* Where a caller can be, with dw_lock, in send(), in a send at all.       *)
PcPlaces ==
  {"out", "reserved", "open", "try", "tryrest", "locked", "lockedrest",
   "written", "left", "refused", "ref", "push"}
HoldsLock == {"locked", "lockedrest", "written", "left", "refused"}
Direct == {"try", "tryrest"} \cup HoldsLock
Sends == Direct \cup {"ref", "push"}

(* Units that form whole buffers, each with its units in order.            *)
Start(s, p) == p - s[p][2]
Blocks(s) ==
  \A p \in 1 .. Len(s) :
    /\ Start(s, p) \in 0 .. Len(s) - Size
    /\ \A i \in 1 .. Size : s[Start(s, p) + i] = <<s[p][1], i>>
(* The place behind the first j units is between two buffers.              *)
Between(s, j) == j = Len(s) \/ s[j + 1][2] = 1

(* The units of the buffers that were given to send().                     *)
Buffer == sent \X (1 .. Size)

(* The fields of the slot.                                                 *)
SlotTyped ==
  /\ type \in {"INVALID", "RESERVE", "CONNECTING", "CONNECTED", "PACCEPT",
               "HALFCLOSE"}
  /\ id \in 0 .. MaxId /\ protocol \in {"UNKNOWN", "TCP"}
  /\ tag \in 0 .. MaxId /\ sending \in Nat
  /\ lastId \in 0 .. MaxId /\ peerClosed \in BOOLEAN
(* The lists, dw_buffer and the wire; wb_size never falls short of the     *)
(* lists, and the low list starts with a first unit.                       *)
ListsTyped ==
  /\ high \in Seq(Buffer) /\ low \in Seq(Buffer)
  /\ dwBuffer \in Seq(Buffer) /\ wire \in Seq(Buffer)
  /\ wbSize \in Nat /\ wbSize >= Len(high) + Len(low)
  /\ Blocks(low)
  /\ sent \subseteq Messages /\ freed \subseteq sent
(* The socket thread and its events.                                       *)
PollTyped ==
  /\ watch \in {"no", "read", "write"}
  /\ checkctrl \in BOOLEAN
  /\ event \in [kind : {"none", "write", "eof"}, id : 0 .. MaxId]
  /\ poll \in {"loop", "first", "flush", "send", "decide", "kill", "clear",
               "quiet", "opened"}
  /\ result \in Calls \cup [op : {"none"}, id : 0 .. MaxId]
  /\ result # NoResult => result.id \in Ids
  /\ poll \in {"decide", "kill", "clear"} => result # NoResult
  /\ poll \in {"loop", "first", "quiet", "opened"} => result = NoResult
(* The callers.                                                            *)
HandsTyped ==
  /\ pc \in [Threads -> PcPlaces]
  /\ call \in [Threads -> Calls \cup {NoResult}]
  /\ calls \in [Threads -> Nat]
(* What the place of a caller says of the call it is in.                   *)
Hand(t) ==
  /\ pc[t] = "out" => call[t] = NoResult
  /\ pc[t] # "out" => /\ call[t] \in Calls
                      /\ call[t].by = t /\ call[t].nth = calls[t]
  /\ pc[t] \in {"reserved", "open"} => call[t].op = "O"
  /\ pc[t] \in Direct => call[t].op = "D"
  /\ pc[t] \in Sends => call[t] \in sent
(* Every caller is as its place says.                                      *)
HandsSound == \A t \in Threads : Hand(t)
(* The commands of the pipe; those of a send have their buffer.            *)
PipeTyped ==
  /\ pipe \in Seq(Calls)
  /\ \A k \in 1 .. Len(pipe) : pipe[k].op \in {"D", "P"} => pipe[k] \in sent
(* The ids that were told.                                                 *)
ToldTyped ==
  /\ known \subseteq Ids /\ opened \subseteq Ids /\ closed \subseteq Ids
(* Before the first connection nothing has happened.                       *)
Pristine ==
  id = 0 => /\ type \in {"INVALID", "RESERVE"} /\ watch = "no"
            /\ event = NoEvent /\ poll = "loop" /\ pipe = <<>>
            /\ known = {} /\ opened = {}
            /\ \A t \in Threads : pc[t] \in {"out", "reserved"}
(* dw_lock has the holder that the places say.                             *)
Locked ==
  /\ lock \in Threads \cup {"server", "none"}
  /\ \A t \in Threads : lock = t <=> pc[t] \in HoldsLock
  /\ lock = "server" <=> poll = "send"
(* The inductive invariant of this module.                                 *)
Base == /\ SlotTyped /\ ListsTyped /\ PollTyped /\ HandsTyped /\ HandsSound
        /\ PipeTyped /\ ToldTyped /\ Pristine /\ Locked

-----------------------------------------------------------------------------
(* What Taken and Left return.                                             *)
LEMMA Cut ==
  ASSUME NEW S, NEW s \in Seq(S), NEW k \in 0 .. Len(s)
  PROVE  /\ Taken(s, k) \in Seq(S) /\ Len(Taken(s, k)) = k
         /\ Left(s, k) \in Seq(S) /\ Len(Left(s, k)) = Len(s) - k
         /\ \A i \in 1 .. k : Taken(s, k)[i] = s[i]
         /\ \A i \in 1 .. Len(s) - k : Left(s, k)[i] = s[k + i]
  BY DEF Taken, Left

(* The units of a buffer.                                                  *)
LEMMA UnitsOf ==
  ASSUME NEW m
  PROVE  /\ Units(m) \in Seq({m} \X (1 .. Size)) /\ Len(Units(m)) = Size
         /\ \A i \in 1 .. Size : Units(m)[i] = <<m, i>>
<1>1. Units(m) \in [1 .. Size -> {m} \X (1 .. Size)]
  BY DEF Units
<1>2. Units(m) \in Seq({m} \X (1 .. Size))
  BY <1>1
<1> QED
  BY <1>1, <1>2 DEF Units

(* A sequence over a set is one over a larger set.                         *)
LEMMA Wider ==
  ASSUME NEW S, NEW T, S \subseteq T, NEW s \in Seq(S)
  PROVE  s \in Seq(T)
  OBVIOUS

(* The units of a buffer that was sent.                                    *)
LEMMA UnitsTyped ==
  ASSUME NEW m \in sent
  PROVE  Units(m) \in Seq(Buffer)
<1>1. {m} \X (1 .. Size) \subseteq Buffer
  BY DEF Buffer
<1>2. Units(m) \in Seq({m} \X (1 .. Size))
  BY UnitsOf
<1> QED
  BY <1>1, <1>2, Wider

(* What a concatenation returns.                                           *)
LEMMA Joined ==
  ASSUME NEW S, NEW s \in Seq(S), NEW u \in Seq(S)
  PROVE  /\ s \o u \in Seq(S) /\ Len(s \o u) = Len(s) + Len(u)
         /\ \A i \in 1 .. Len(s) : (s \o u)[i] = s[i]
         /\ \A i \in 1 .. Len(u) : (s \o u)[Len(s) + i] = u[i]
  OBVIOUS

(* A buffer at the end of whole buffers.                                   *)
LEMMA BlocksJoin ==
  ASSUME NEW S, NEW s \in Seq(S \X (1 .. Size)), NEW u \in Seq(S \X (1 .. Size)),
         Blocks(s), Blocks(u)
  PROVE  Blocks(s \o u)
<1> DEFINE B == S \X (1 .. Size)
           r == s \o u
<1>1. Size \in Nat /\ Len(s) \in Nat /\ Len(u) \in Nat
  OBVIOUS
<1>2. /\ r \in Seq(B) /\ Len(r) = Len(s) + Len(u)
      /\ \A i \in 1 .. Len(s) : r[i] = s[i]
      /\ \A i \in 1 .. Len(u) : r[Len(s) + i] = u[i]
  BY Joined
<1> HIDE DEF r
<1>3. ASSUME NEW p \in 1 .. Len(s)
      PROVE  /\ Start(r, p) \in 0 .. Len(r) - Size
             /\ \A i \in 1 .. Size : r[Start(r, p) + i] = <<r[p][1], i>>
  <2>1. r[p] = s[p] /\ Start(r, p) = Start(s, p)
    BY <1>2 DEF Start
  <2>2. Start(s, p) \in 0 .. Len(s) - Size
    BY DEF Blocks
  <2>3. ASSUME NEW i \in 1 .. Size  PROVE r[Start(r, p) + i] = <<r[p][1], i>>
    <3>1. Start(s, p) + i \in 1 .. Len(s)
      BY <1>1, <2>2
    <3>2. s[Start(s, p) + i] = <<s[p][1], i>>
      BY DEF Blocks
    <3> QED
      BY <1>2, <2>1, <3>1, <3>2
  <2>4. Start(r, p) \in 0 .. Len(r) - Size
    BY <1>1, <1>2, <2>1, <2>2
  <2> QED
    BY <2>3, <2>4
<1>4. ASSUME NEW q \in 1 .. Len(u)
      PROVE  /\ Start(r, Len(s) + q) \in 0 .. Len(r) - Size
             /\ \A i \in 1 .. Size : r[Start(r, Len(s) + q) + i] = <<r[Len(s) + q][1], i>>
  <2>1. r[Len(s) + q] = u[q] /\ u[q] \in B
    BY <1>2
  <2>2. u[q][2] \in 1 .. Size
    BY <2>1
  <2>3. Start(u, q) \in 0 .. Len(u) - Size
    BY DEF Blocks
  <2>4. Start(r, Len(s) + q) = Len(s) + Start(u, q)
    BY <1>1, <2>1, <2>2 DEF Start
  <2>5. ASSUME NEW i \in 1 .. Size
        PROVE  r[Start(r, Len(s) + q) + i] = <<r[Len(s) + q][1], i>>
    <3>1. Start(u, q) + i \in 1 .. Len(u)
      BY <1>1, <2>3
    <3>2. u[Start(u, q) + i] = <<u[q][1], i>>
      BY DEF Blocks
    <3>3. Start(r, Len(s) + q) + i = Len(s) + (Start(u, q) + i)
      BY <1>1, <2>3, <2>4
    <3> QED
      BY <1>2, <2>1, <3>1, <3>2, <3>3
  <2>6. Start(r, Len(s) + q) \in 0 .. Len(r) - Size
    <3>1. Start(u, q) \in Nat /\ Start(u, q) + Size <= Len(u)
      BY <1>1, <2>3
    <3>2. Len(s) + Start(u, q) \in 0 .. (Len(s) + Len(u)) - Size
      BY <1>1, <3>1
    <3> QED
      BY <1>2, <2>4, <3>2
  <2> QED
    BY <2>5, <2>6
<1>5. ASSUME NEW p \in 1 .. Len(r)
      PROVE  p \in 1 .. Len(s) \/ \E q \in 1 .. Len(u) : p = Len(s) + q
  <2>1. p \in 1 .. Len(s) \/ p - Len(s) \in 1 .. Len(u)
    BY <1>1, <1>2
  <2>2. p = Len(s) + (p - Len(s))
    BY <1>1, <1>2
  <2> QED
    BY <2>1, <2>2
<1>6. Blocks(r)
  <2> SUFFICES ASSUME NEW p \in 1 .. Len(r)
               PROVE  /\ Start(r, p) \in 0 .. Len(r) - Size
                      /\ \A i \in 1 .. Size : r[Start(r, p) + i] = <<r[p][1], i>>
    BY DEF Blocks
  <2>1. CASE p \in 1 .. Len(s)
    BY <1>3, <2>1
  <2>2. ASSUME NEW q \in 1 .. Len(u), p = Len(s) + q
        PROVE  /\ Start(r, p) \in 0 .. Len(r) - Size
               /\ \A i \in 1 .. Size : r[Start(r, p) + i] = <<r[p][1], i>>
    BY <1>4, <2>2
  <2> QED
    BY <1>5, <2>1, <2>2
<1> QED
  BY <1>6 DEF r

(* The units of one buffer form a block.                                   *)
LEMMA UnitsBlocks ==
  ASSUME NEW m
  PROVE  Blocks(Units(m))
<1>1. Len(Units(m)) = Size /\ \A i \in 1 .. Size : Units(m)[i] = <<m, i>>
  BY UnitsOf
<1>2. ASSUME NEW p \in 1 .. Size  PROVE Start(Units(m), p) = 0 /\ Units(m)[p][1] = m
  BY <1>1 DEF Start
<1>3. ASSUME NEW p \in 1 .. Size, NEW i \in 1 .. Size
      PROVE  Units(m)[Start(Units(m), p) + i] = <<Units(m)[p][1], i>>
  BY <1>1, <1>2
<1>4. 0 \in 0 .. Size - Size
  OBVIOUS
<1> QED
  BY <1>1, <1>2, <1>3, <1>4 DEF Blocks

(* No buffer lies across a place between two of them.                      *)
LEMMA Aligned ==
  ASSUME NEW S, NEW s \in Seq(S \X (1 .. Size)), Blocks(s),
         NEW j \in 0 .. Len(s), Between(s, j), NEW p \in 1 .. Len(s)
  PROVE  /\ p > j => Start(s, p) >= j
         /\ p <= j => Start(s, p) + Size <= j
<1> DEFINE b == Start(s, p)
<1>1. Size \in Nat /\ Len(s) \in Nat /\ s[p] \in S \X (1 .. Size)
  OBVIOUS
<1>2. s[p][2] \in 1 .. Size /\ b = p - s[p][2] /\ b \in 0 .. Len(s) - Size
  BY <1>1 DEF Start, Blocks
<1>3. \A i \in 1 .. Size : s[b + i] = <<s[p][1], i>>
  BY DEF Blocks
<1> HIDE DEF b
<1>7. b \in Int /\ j \in Int /\ Size \in Int
  BY <1>1, <1>2
<1>4. ASSUME b < j, j < b + Size  PROVE FALSE
  <2>1. j + 1 - b \in 1 .. Size /\ j + 1 - b # 1 /\ b + (j + 1 - b) = j + 1
    BY <1>7, <1>4
  <2>2. s[b + (j + 1 - b)] = <<s[p][1], j + 1 - b>>
    BY <1>3, <2>1
  <2>3. s[j + 1][2] = j + 1 - b
    BY <2>1, <2>2
  <2>4. j # Len(s)
    BY <1>1, <1>2, <1>4
  <2> QED
    BY <2>1, <2>3, <2>4 DEF Between
<1>5. b < p /\ p <= b + Size
  BY <1>1, <1>2
<1> QED
  BY <1>4, <1>5, <1>7 DEF b

(* Whole buffers, cut between two of them.                                 *)
LEMMA BlocksCut ==
  ASSUME NEW S, NEW s \in Seq(S \X (1 .. Size)), Blocks(s),
         NEW j \in 0 .. Len(s), Between(s, j)
  PROVE  Blocks(Left(s, j)) /\ Blocks(Taken(s, j))
<1> DEFINE l == Left(s, j)
           k == Taken(s, j)
<1>1. Size \in Nat /\ Len(s) \in Nat
  OBVIOUS
<1>2. /\ Len(l) = Len(s) - j /\ \A i \in 1 .. Len(s) - j : l[i] = s[j + i]
      /\ Len(k) = j /\ \A i \in 1 .. j : k[i] = s[i]
  BY Cut
<1> HIDE DEF l, k
<1>3. ASSUME NEW p \in 1 .. Len(s)
      PROVE  /\ s[p][2] \in 1 .. Size /\ Start(s, p) = p - s[p][2]
             /\ Start(s, p) \in 0 .. Len(s) - Size
             /\ \A i \in 1 .. Size : s[Start(s, p) + i] = <<s[p][1], i>>
  <2>1. s[p] \in S \X (1 .. Size)
    OBVIOUS
  <2> QED
    BY <2>1 DEF Start, Blocks
<1>4. ASSUME NEW p \in 1 .. Len(l)
      PROVE  /\ Start(l, p) \in 0 .. Len(l) - Size
             /\ \A i \in 1 .. Size : l[Start(l, p) + i] = <<l[p][1], i>>
  <2> DEFINE q == j + p
             n == s[q][2]
             b == Start(s, q)
             c == Start(l, p)
  <2>1. p \in 1 .. Len(s) - j
    BY <1>2
  <2>2. q \in 1 .. Len(s) /\ q > j /\ q = j + p
    BY <1>1, <2>1
  <2>3. l[p] = s[q]
    BY <1>2, <2>1
  <2> HIDE DEF q
  <2>4. n \in 1 .. Size /\ b = q - n /\ b \in 0 .. Len(s) - Size /\ c = p - n
    BY <1>3, <2>2, <2>3 DEF Start
  <2>5. b >= j
    BY <2>2, Aligned
  <2>6. \A i \in 1 .. Size : s[b + i] = <<s[q][1], i>>
    BY <1>3, <2>2
  <2> HIDE DEF n, b, c
  <2>7. c + j = b /\ c \in Int /\ j \in Int /\ b \in Int
    BY <2>1, <2>2, <2>4
  <2>8. c \in 0 .. Len(l) - Size
    BY <1>1, <1>2, <2>4, <2>5, <2>7
  <2>9. ASSUME NEW i \in 1 .. Size  PROVE l[c + i] = <<l[p][1], i>>
    <3>1. c + i \in 1 .. Len(s) - j /\ j + (c + i) = b + i
      BY <1>1, <1>2, <2>7, <2>8
    <3> QED
      BY <1>2, <2>3, <2>6, <3>1
  <2> QED
    BY <2>8, <2>9 DEF c
<1>5. ASSUME NEW p \in 1 .. Len(k)
      PROVE  /\ Start(k, p) \in 0 .. Len(k) - Size
             /\ \A i \in 1 .. Size : k[Start(k, p) + i] = <<k[p][1], i>>
  <2>1. p \in 1 .. Len(s) /\ p <= j /\ k[p] = s[p]
    BY <1>1, <1>2
  <2>2. Start(s, p) + Size <= j /\ Start(k, p) = Start(s, p)
    BY <2>1, Aligned DEF Start
  <2>3. Start(s, p) \in 0 .. Len(s) - Size
    BY <1>3, <2>1
  <2>4. Start(k, p) \in 0 .. Len(k) - Size
    BY <1>1, <1>2, <2>2, <2>3
  <2>5. ASSUME NEW i \in 1 .. Size  PROVE k[Start(k, p) + i] = <<k[p][1], i>>
    <3>1. Start(k, p) + i \in 1 .. j
      BY <1>1, <1>2, <2>4
    <3>2. s[Start(s, p) + i] = <<s[p][1], i>>
      BY <1>3, <2>1
    <3> QED
      BY <1>2, <2>1, <2>2, <3>1, <3>2
  <2> QED
    BY <2>4, <2>5
<1> QED
  BY <1>4, <1>5 DEF Blocks, l, k

(* What raise_uncomplete() moves ends between two buffers.                 *)
LEMMA RaisedFits ==
  ASSUME NEW S, NEW s \in Seq(S \X (1 .. Size)), Blocks(s), NEW j \in 0 .. Len(s)
  PROVE  LET r == Left(s, j) IN
         /\ Raised(r) \in 0 .. Len(r) /\ j + Raised(r) \in j .. Len(s)
         /\ Between(s, j + Raised(r))
         /\ Uncomplete(r) => Raised(r) > 0 /\ Raised(r) = Size - s[j + 1][2] + 1
<1> DEFINE r == Left(s, j)
<1>1. Size \in Nat /\ Len(s) \in Nat
  OBVIOUS
<1>2. /\ Len(r) = Len(s) - j /\ \A i \in 1 .. Len(s) - j : r[i] = s[j + i]
      /\ r = <<>> <=> Len(r) = 0
  <2>1. /\ Len(r) = Len(s) - j /\ \A i \in 1 .. Len(s) - j : r[i] = s[j + i]
        /\ r \in Seq(S \X (1 .. Size))
    BY Cut
  <2> QED
    BY <2>1
<1> HIDE DEF r
<1>3. CASE r = <<>>
  <2>1. j = Len(s) /\ Raised(r) = 0 /\ ~Uncomplete(r) /\ j + Raised(r) = j
    BY <1>1, <1>2, <1>3 DEF Raised, Uncomplete
  <2> QED
    BY <1>1, <1>2, <2>1 DEF Between, r
<1>4. CASE r # <<>>
  <2> DEFINE n == s[j + 1][2]
             b == Start(s, j + 1)
  <2>1. j + 1 \in 1 .. Len(s) /\ 1 \in 1 .. Len(s) - j /\ r[1] = s[j + 1]
        /\ Len(r) > 0
    BY <1>1, <1>2, <1>4
  <2>2. s[j + 1] \in S \X (1 .. Size) /\ b \in 0 .. Len(s) - Size
    BY <2>1 DEF Blocks
  <2>3. n \in 1 .. Size /\ b = (j + 1) - n
    <3>1. n \in 1 .. Size
      BY <2>2
    <3>2. b = (j + 1) - n
      BY DEF Start
    <3> QED
      BY <3>1, <3>2
  <2>4. \A i \in 1 .. Size : s[b + i] = <<s[j + 1][1], i>>
    BY <2>1 DEF Blocks
  <2>5. r[1][2] = n
    BY <2>1
  <2> HIDE DEF n, b
  <2>6. b \in Nat /\ b + Size <= Len(s) /\ b + Size \in Nat
    BY <1>1, <2>2
  <2>7. b + Size = Len(s) \/ s[b + Size + 1][2] = 1
    <3> SUFFICES ASSUME b + Size # Len(s)  PROVE s[b + Size + 1][2] = 1
      OBVIOUS
    <3> DEFINE p == b + Size + 1
               c == Start(s, p)
               o == s[p][2]
    <3>1. p \in 1 .. Len(s) /\ p = b + Size + 1
      BY <1>1, <2>6
    <3> HIDE DEF p
    <3>2. o \in 1 .. Size /\ c \in 0 .. Len(s) - Size
          /\ \A i \in 1 .. Size : s[c + i] = <<s[p][1], i>>
      <4>1. s[p] \in S \X (1 .. Size)
        BY <3>1
      <4> QED
        BY <3>1, <4>1 DEF Blocks
    <3>3. c = p - o
      BY DEF Start
    <3> HIDE DEF c, o
    <3>4. ASSUME o # 1  PROVE FALSE
      \* the last unit of the buffer would belong to the next one too
      <4>1. o - 1 \in 1 .. Size /\ c + (o - 1) = b + Size
        <5>0. o \in 1 .. Size /\ c \in 0 .. Len(s) - Size /\ o # 1
          BY <3>2, <3>4
        <5>1. o \in Nat /\ o > 1 /\ o <= Size /\ c \in Int
          BY <1>1, <5>0
        <5>2. p \in Int
          BY <1>1, <3>1
        <5>3. o - 1 \in 1 .. Size
          BY <1>1, <5>1
        <5>4. c + (o - 1) = p - 1
          BY <3>3, <5>1, <5>2
        <5> QED
          BY <1>1, <2>6, <3>1, <5>2, <5>3, <5>4
      <4>2. s[c + (o - 1)] = <<s[p][1], o - 1>>
        BY <3>2, <4>1
      <4>3. s[b + Size][2] = Size
        BY <1>1, <2>4
      <4>4. Size = o - 1
        BY <4>1, <4>2, <4>3
      <4> QED
        BY <1>1, <3>2, <4>4
    <3> QED
      BY <3>4 DEF o, p
  <2>8. CASE Uncomplete(r)
    <3>1. Raised(r) = Size - n + 1
      BY <2>5, <2>8 DEF Raised, PartSize
    <3>2. j + Raised(r) = b + Size /\ Raised(r) \in 0 .. Len(r) /\ Raised(r) > 0
          /\ j + Raised(r) \in j .. Len(s)
      BY <1>1, <1>2, <2>3, <2>6, <3>1
    <3> QED
      BY <2>7, <3>1, <3>2 DEF Between, n, r
  <2>9. CASE ~Uncomplete(r)
    <3>1. Raised(r) = 0 /\ n = 1
      BY <1>4, <2>3, <2>5, <2>9 DEF Raised, Uncomplete
    <3> QED
      BY <1>1, <1>2, <2>9, <3>1 DEF Between, n, r
  <2> QED
    BY <2>8, <2>9
<1> QED
  BY <1>3, <1>4

(* Cutting twice is cutting once.                                          *)
LEMMA LeftLeft ==
  ASSUME NEW S, NEW s \in Seq(S), NEW j \in 0 .. Len(s), NEW r \in 0 .. Len(s) - j
  PROVE  Left(Left(s, j), r) = Left(s, j + r)
<1> DEFINE l == Left(s, j)
           a == Left(l, r)
           b == Left(s, j + r)
<1>1. Len(s) \in Nat /\ j + r \in 0 .. Len(s)
  OBVIOUS
<1>2. /\ l \in Seq(S) /\ Len(l) = Len(s) - j
      /\ \A i \in 1 .. Len(s) - j : l[i] = s[j + i]
  BY Cut
<1>3. /\ b \in Seq(S) /\ Len(b) = Len(s) - (j + r)
      /\ \A i \in 1 .. Len(s) - (j + r) : b[i] = s[(j + r) + i]
  BY <1>1, Cut
<1> HIDE DEF l
<1>4. r \in 0 .. Len(l)
  BY <1>2
<1>5. /\ a \in Seq(S) /\ Len(a) = Len(l) - r
      /\ \A i \in 1 .. Len(l) - r : a[i] = l[r + i]
  BY <1>2, <1>4, Cut
<1> HIDE DEF a, b
<1>6. Len(a) = Len(b) /\ Len(b) = Len(s) - (j + r) /\ Len(l) - r = Len(s) - (j + r)
  BY <1>1, <1>2, <1>3, <1>5
<1>7. ASSUME NEW i \in 1 .. Len(b)  PROVE a[i] = b[i]
  <2>1. r + i \in 1 .. Len(s) - j /\ j + (r + i) = (j + r) + i
    BY <1>1, <1>6
  <2> QED
    BY <1>2, <1>3, <1>5, <1>6, <2>1
<1>8. a = b
  BY <1>3, <1>5, <1>6, <1>7, SeqEqual
<1> QED
  BY <1>8 DEF a, b, l

(* The record of a call that begins is a call.                             *)
LEMMA NewCallTyped ==
  ASSUME HandsTyped, NEW t \in Threads, NEW op, Begins(t, op), NEW i \in Ids
  PROVE  /\ NewCall(t, op, i) \in Calls
         /\ NewCall(t, op, i).by = t /\ NewCall(t, op, i).op = op
         /\ NewCall(t, op, i).id = i
         /\ NewCall(t, op, i).nth = calls[t] + 1
         /\ calls' \in [Threads -> Nat] /\ calls'[t] = calls[t] + 1
         /\ \A r \in Threads \ {t} : calls'[r] = calls[r]
         /\ op \in {"D", "P"} => NewCall(t, op, i) \in Messages
<1>1. calls[t] \in Nat /\ MaxCalls[t] \in Nat /\ calls[t] < MaxCalls[t]
  BY DEF HandsTyped, Begins
<1>2. calls[t] + 1 \in 1 .. MaxCalls[t]
  BY <1>1
<1>3. calls[t] + 1 \in MostCalls
  BY <1>2 DEF MostCalls
<1>4. op \in Operations
  BY DEF Begins
<1>5. calls' = [calls EXCEPT ![t] = @ + 1] /\ calls \in [Threads -> Nat]
  BY DEF Begins, HandsTyped
<1>6. calls' \in [Threads -> Nat] /\ calls'[t] = calls[t] + 1
  BY <1>5
<1>7. \A r \in Threads \ {t} : calls'[r] = calls[r]
  BY <1>5
<1>8. NewCall(t, op, i) \in Calls
  BY <1>3, <1>4 DEF Calls, NewCall
<1> QED
  BY <1>6, <1>7, <1>8 DEF NewCall, Messages

(* A call that goes on, or returns, is the call of its thread as before.   *)
LEMMA InHandTyped ==
  ASSUME HandsTyped, HandsSound, NEW t \in Threads, NEW place \in PcPlaces,
         \/ GoesTo(t, place)
         \/ Returns(t) /\ place = "out"
  PROVE  /\ pc' = [pc EXCEPT ![t] = place] /\ HandsTyped'
         /\ pc'[t] = place
         /\ calls' = calls
         /\ \A r \in Threads \ {t} : pc'[r] = pc[r] /\ call'[r] = call[r]
         /\ place # "out" => call' = call
         /\ Returns(t) => call'[t] = NoResult
<1>1. pc \in [Threads -> PcPlaces] /\ call \in [Threads -> Calls \cup {NoResult}]
      /\ calls \in [Threads -> Nat]
  BY DEF HandsTyped
<1>2. pc' = [pc EXCEPT ![t] = place] /\ calls' = calls
  BY DEF GoesTo, Returns
<1>3. call' = call \/ (call' = [call EXCEPT ![t] = NoResult] /\ place = "out")
  BY DEF GoesTo, Returns
<1>4. call' \in [Threads -> Calls \cup {NoResult}]
  BY <1>1, <1>3
<1>5. pc' \in [Threads -> PcPlaces] /\ pc'[t] = place
  BY <1>1, <1>2
<1>6. \A r \in Threads \ {t} : pc'[r] = pc[r] /\ call'[r] = call[r]
  BY <1>1, <1>2, <1>3
<1>7. Returns(t) => call'[t] = NoResult
  BY <1>1 DEF Returns
<1>8. place # "out" => call' = call
  BY <1>3
<1> QED
  BY <1>1, <1>2, <1>4, <1>5, <1>6, <1>7, <1>8 DEF HandsTyped

(* A step of one thread leaves the calls of the others alone ...           *)
LEMMA OthersKept ==
  ASSUME HandsSound, NEW t \in Threads, Hand(t)', sent \subseteq sent',
         \A r \in Threads \ {t} :
           pc'[r] = pc[r] /\ call'[r] = call[r] /\ calls'[r] = calls[r]
  PROVE  HandsSound'
<1>1. ASSUME NEW r \in Threads, r # t  PROVE Hand(r)'
  BY <1>1 DEF HandsSound, Hand
<1> QED
  BY <1>1 DEF HandsSound

(* ... and, unless it takes or releases it, the lock.                      *)
LEMMA LockKept ==
  ASSUME Locked, NEW t \in Threads,
         \A r \in Threads \ {t} : pc'[r] = pc[r],
         pc[t] \in HoldsLock <=> pc'[t] \in HoldsLock,
         lock' = lock, poll' = poll
  PROVE  Locked'
  BY DEF Locked

(* A step of the socket thread leaves the callers as they are.             *)
LEMMA NoHandMoves ==
  ASSUME HandsSound, UNCHANGED threadVars, sent \subseteq sent'
  PROVE  HandsSound'
  BY DEF HandsSound, Hand

(* What a direct write writes and leaves are units of its buffer.          *)
LEMMA PartsTyped ==
  ASSUME NEW s \in Seq(Buffer), NEW k \in 0 .. Len(s)
  PROVE  Taken(s, k) \in Seq(Buffer) /\ Left(s, k) \in Seq(Buffer)
  BY Cut

(* reserve_id() takes a slot: keeps Base.                                  *)
LEMMA ReserveTypes ==
  ASSUME Base, NEW t \in Threads, Reserve(t)
  PROVE  Base'
<1> DEFINE c == NewCall(t, "O", lastId + 1)
<1>1. lastId \in Nat /\ lastId + 1 \in Ids /\ lastId' = lastId + 1
  BY DEF Base, SlotTyped, Ids, Reserve
<1>2. HandsTyped /\ HandsSound /\ Begins(t, "O") /\ pc[t] = "out"
  BY DEF Base, Reserve, Begins
<1>3. /\ c \in Calls /\ c.by = t /\ c.nth = calls[t] + 1 /\ c.op = "O"
      /\ calls' \in [Threads -> Nat] /\ calls'[t] = calls[t] + 1
      /\ \A r \in Threads \ {t} : calls'[r] = calls[r]
  BY <1>1, <1>2, NewCallTyped
<1>4. call' = [call EXCEPT ![t] = c] /\ pc' = [pc EXCEPT ![t] = "reserved"]
  BY <1>1 DEF Reserve, Enters
<1> HIDE DEF c
<1>5. HandsTyped'
  BY <1>2, <1>3, <1>4 DEF HandsTyped, PcPlaces
<1>6. /\ \A r \in Threads \ {t} : pc'[r] = pc[r] /\ call'[r] = call[r]
      /\ pc'[t] = "reserved" /\ call'[t] = c
  BY <1>2, <1>4 DEF HandsTyped
<1>7. Hand(t)'
  BY <1>3, <1>6 DEF Hand, Direct, Sends, HoldsLock
<1>8. HandsSound'
  BY <1>2, <1>3, <1>6, <1>7, OthersKept DEF Reserve
<1>9. Locked'
  BY <1>2, <1>6, LockKept DEF Base, Reserve, HoldsLock
<1>10. SlotTyped'
  BY <1>1 DEF Base, SlotTyped, Reserve, Ids
<1>11. Pristine'
  BY <1>6 DEF Base, Pristine, Reserve
<1>12. ListsTyped' /\ PollTyped' /\ PipeTyped' /\ ToldTyped'
  BY DEF Base, Reserve, ListsTyped, PollTyped, PipeTyped, ToldTyped, Buffer
<1> QED
  BY <1>5, <1>8, <1>9, <1>10, <1>11, <1>12 DEF Base

(* reserve_id() names its slot: keeps Base.                                *)
LEMMA NameSlotTypes ==
  ASSUME Base, NEW t \in Threads, NameSlot(t)
  PROVE  Base'
<1>1. HandsTyped /\ HandsSound /\ Hand(t) /\ pc[t] = "reserved"
  BY DEF Base, HandsSound, NameSlot, At
<1>2. "open" \in PcPlaces /\ GoesTo(t, "open")
  BY DEF PcPlaces, NameSlot, At
<1>3. HandsTyped' /\ pc'[t] = "open" /\ calls' = calls /\ call' = call
      /\ \A r \in Threads \ {t} : pc'[r] = pc[r] /\ call'[r] = call[r]
  BY <1>1, <1>2, InHandTyped
<1>4. Hand(t)'
  BY <1>1, <1>3 DEF Hand, Direct, Sends, HoldsLock, NameSlot, At
<1>5. HandsSound'
  BY <1>1, <1>3, <1>4, OthersKept DEF NameSlot, At
<1>6. Locked'
  BY <1>1, <1>3, LockKept DEF Base, HoldsLock, NameSlot, At
<1>7. SlotTyped'
  BY <1>1 DEF Base, SlotTyped, Hand, Calls, Ids, NameSlot, At
<1>8. Pristine'
  <2>1. call[t] \in Calls
    BY <1>1 DEF Hand
  <2>2. id' \in 1 .. MaxId
    BY <2>1 DEF Calls, Ids, NameSlot
  <2> QED
    BY <2>2 DEF Pristine
<1>9. ListsTyped' /\ PollTyped' /\ PipeTyped' /\ ToldTyped'
  BY DEF Base, NameSlot, At, ListsTyped, PollTyped, PipeTyped, ToldTyped, Buffer
<1> QED
  BY <1>3, <1>5, <1>6, <1>7, <1>8, <1>9 DEF Base

(* The OPEN command goes into the pipe: keeps Base.                        *)
LEMMA SendOpenTypes ==
  ASSUME Base, NEW t \in Threads, SendOpen(t)
  PROVE  Base'
<1>1. HandsTyped /\ HandsSound /\ Hand(t) /\ pc[t] = "open" /\ call[t] \in Calls /\ call[t].op = "O"
  BY DEF Base, HandsSound, SendOpen, At, Hand
<1>2. "out" \in PcPlaces /\ Returns(t)
  BY DEF PcPlaces, SendOpen, At, Hand
<1>3. HandsTyped' /\ pc'[t] = "out" /\ calls' = calls /\ call'[t] = NoResult
      /\ \A r \in Threads \ {t} : pc'[r] = pc[r] /\ call'[r] = call[r]
  BY <1>1, <1>2, InHandTyped
<1>4. Hand(t)'
  BY <1>1, <1>3 DEF Hand, Direct, Sends, HoldsLock, SendOpen, At, Hand
<1>5. HandsSound'
  BY <1>1, <1>3, <1>4, OthersKept DEF SendOpen, At, Hand
<1>6. Locked'
  BY <1>1, <1>3, LockKept DEF Base, HoldsLock, SendOpen, At, Hand
<1>7. PipeTyped'
  BY <1>1 DEF Base, PipeTyped, SendOpen
<1>8. ToldTyped'
  BY <1>1 DEF Base, ToldTyped, Calls, SendOpen
<1>9. Pristine'
  BY <1>1, <1>3 DEF Base, Pristine, SendOpen, At, Hand
<1>10. SlotTyped' /\ ListsTyped' /\ PollTyped'
  BY DEF Base, SendOpen, At, Hand, SlotTyped, ListsTyped, PollTyped, Buffer
<1> QED
  BY <1>3, <1>5, <1>6, <1>7, <1>8, <1>9, <1>10 DEF Base

(* can_direct_write() reads the id and the lists, the first or the second  *)
(* time: keeps Base.                                                       *)
LEMMA ReadsListsTypes ==
  ASSUME Base, NEW t \in Threads, NEW place \in {"try", "locked"},
         NEW next \in {"tryrest", "lockedrest"},
         place = "try" <=> next = "tryrest", ReadsLists(t, place, next)
  PROVE  Base'
<1>1. HandsTyped /\ HandsSound /\ Hand(t) /\ pc[t] = place
  BY DEF Base, HandsSound, ReadsLists, At
<1>2. (IF DirectOnLists(call[t]) THEN next ELSE
          IF place = "try" THEN "ref" ELSE "refused") \in PcPlaces /\ GoesTo(t, (IF DirectOnLists(call[t]) THEN next ELSE
          IF place = "try" THEN "ref" ELSE "refused"))
  BY DEF PcPlaces, ReadsLists, At
<1>3. HandsTyped' /\ pc'[t] = (IF DirectOnLists(call[t]) THEN next ELSE
          IF place = "try" THEN "ref" ELSE "refused") /\ calls' = calls /\ call' = call
      /\ \A r \in Threads \ {t} : pc'[r] = pc[r] /\ call'[r] = call[r]
  BY <1>1, <1>2, InHandTyped
<1>4. Hand(t)'
  BY <1>1, <1>3 DEF Hand, Direct, Sends, HoldsLock, ReadsLists, At
<1>5. HandsSound'
  BY <1>1, <1>3, <1>4, OthersKept DEF ReadsLists, At
<1>6. Locked'
  BY <1>1, <1>3, LockKept DEF Base, HoldsLock, ReadsLists, At
<1>7. Pristine'
  BY <1>1, <1>3 DEF Base, Pristine, ReadsLists, At
<1>8. SlotTyped' /\ ListsTyped' /\ PollTyped' /\ PipeTyped' /\ ToldTyped'
  BY DEF Base, ReadsLists, At, SlotTyped, ListsTyped, PollTyped, PipeTyped, ToldTyped, Buffer
<1> QED
  BY <1>3, <1>5, <1>6, <1>7, <1>8 DEF Base

(* can_direct_write() reads the rest, and socket_trylock() follows: keeps  *)
(* Base.                                                                   *)
LEMMA TryLockTypes ==
  ASSUME Base, NEW t \in Threads, TryLock(t)
  PROVE  Base'
<1>1. HandsTyped /\ HandsSound /\ Hand(t) /\ pc[t] = "tryrest"
  BY DEF Base, HandsSound, TryLock, At
<1>2. (IF TestAndLock THEN "locked" ELSE "ref") \in PcPlaces /\ GoesTo(t, (IF TestAndLock THEN "locked" ELSE "ref"))
  BY DEF PcPlaces, TryLock, At
<1>3. HandsTyped' /\ pc'[t] = (IF TestAndLock THEN "locked" ELSE "ref") /\ calls' = calls /\ call' = call
      /\ \A r \in Threads \ {t} : pc'[r] = pc[r] /\ call'[r] = call[r]
  BY <1>1, <1>2, InHandTyped
<1>4. Hand(t)'
  BY <1>1, <1>3 DEF Hand, Direct, Sends, HoldsLock, TryLock, At
<1>5. HandsSound'
  BY <1>1, <1>3, <1>4, OthersKept DEF TryLock, At
<1>6. Locked'
  BY <1>1, <1>3, Usage DEF Base, Locked, HoldsLock, TryLock, TestAndLock
<1>7. Pristine'
  BY <1>1, <1>3 DEF Base, Pristine, TryLock, At
<1>8. SlotTyped' /\ ListsTyped' /\ PollTyped' /\ PipeTyped' /\ ToldTyped'
  BY DEF Base, TryLock, At, SlotTyped, ListsTyped, PollTyped, PipeTyped, ToldTyped, Buffer
<1> QED
  BY <1>3, <1>5, <1>6, <1>7, <1>8 DEF Base

(* The second test under dw_lock fails: keeps Base.                        *)
LEMMA NoDirectWriteTypes ==
  ASSUME Base, NEW t \in Threads, NoDirectWrite(t)
  PROVE  Base'
<1>1. HandsTyped /\ HandsSound /\ Hand(t) /\ pc[t] = "lockedrest"
  BY DEF Base, HandsSound, NoDirectWrite, At
<1>2. "refused" \in PcPlaces /\ GoesTo(t, "refused")
  BY DEF PcPlaces, NoDirectWrite, At
<1>3. HandsTyped' /\ pc'[t] = "refused" /\ calls' = calls /\ call' = call
      /\ \A r \in Threads \ {t} : pc'[r] = pc[r] /\ call'[r] = call[r]
  BY <1>1, <1>2, InHandTyped
<1>4. Hand(t)'
  BY <1>1, <1>3 DEF Hand, Direct, Sends, HoldsLock, NoDirectWrite, At
<1>5. HandsSound'
  BY <1>1, <1>3, <1>4, OthersKept DEF NoDirectWrite, At
<1>6. Locked'
  BY <1>1, <1>3, LockKept DEF Base, HoldsLock, NoDirectWrite, At
<1>7. Pristine'
  BY <1>1, <1>3 DEF Base, Pristine, NoDirectWrite, At
<1>8. SlotTyped' /\ ListsTyped' /\ PollTyped' /\ PipeTyped' /\ ToldTyped'
  BY DEF Base, NoDirectWrite, At, SlotTyped, ListsTyped, PollTyped, PipeTyped, ToldTyped, Buffer
<1> QED
  BY <1>3, <1>5, <1>6, <1>7, <1>8 DEF Base

(* inc_sending_ref() keeps Base.                                           *)
LEMMA IncSendingRefTypes ==
  ASSUME Base, NEW t \in Threads, IncSendingRef(t)
  PROVE  Base'
<1>1. HandsTyped /\ HandsSound /\ Hand(t) /\ pc[t] = "ref"
  BY DEF Base, HandsSound, IncSendingRef, At
<1>2. "push" \in PcPlaces /\ GoesTo(t, "push")
  BY DEF PcPlaces, IncSendingRef, At
<1>3. HandsTyped' /\ pc'[t] = "push" /\ calls' = calls /\ call' = call
      /\ \A r \in Threads \ {t} : pc'[r] = pc[r] /\ call'[r] = call[r]
  BY <1>1, <1>2, InHandTyped
<1>4. Hand(t)'
  BY <1>1, <1>3 DEF Hand, Direct, Sends, HoldsLock, IncSendingRef, At
<1>5. HandsSound'
  BY <1>1, <1>3, <1>4, OthersKept DEF IncSendingRef, At
<1>6. Locked'
  BY <1>1, <1>3, LockKept DEF Base, HoldsLock, IncSendingRef, At
<1>7. SlotTyped'
  BY DEF Base, SlotTyped, IncSendingRef, At
<1>8. Pristine'
  BY <1>1, <1>3 DEF Base, Pristine, IncSendingRef, At
<1>9. ListsTyped' /\ PollTyped' /\ PipeTyped' /\ ToldTyped'
  BY DEF Base, IncSendingRef, At, ListsTyped, PollTyped, PipeTyped, ToldTyped, Buffer
<1> QED
  BY <1>3, <1>5, <1>6, <1>7, <1>8, <1>9 DEF Base

(* send_request() puts a send into the pipe: keeps Base.                   *)
LEMMA PushSendTypes ==
  ASSUME Base, NEW t \in Threads, PushSend(t)
  PROVE  Base'
<1>1. HandsTyped /\ HandsSound /\ Hand(t) /\ pc[t] = "push" /\ call[t] \in Calls /\ call[t] \in sent
  BY DEF Base, HandsSound, PushSend, At, Hand, Sends
<1>2. "out" \in PcPlaces /\ Returns(t)
  BY DEF PcPlaces, PushSend, At, Hand, Sends
<1>3. HandsTyped' /\ pc'[t] = "out" /\ calls' = calls /\ call'[t] = NoResult
      /\ \A r \in Threads \ {t} : pc'[r] = pc[r] /\ call'[r] = call[r]
  BY <1>1, <1>2, InHandTyped
<1>4. Hand(t)'
  BY <1>1, <1>3 DEF Hand, Direct, Sends, HoldsLock, PushSend, At, Hand, Sends
<1>5. HandsSound'
  BY <1>1, <1>3, <1>4, OthersKept DEF PushSend, At, Hand, Sends
<1>6. Locked'
  BY <1>1, <1>3, LockKept DEF Base, HoldsLock, PushSend, At, Hand, Sends
<1>7. PipeTyped'
  BY <1>1 DEF Base, PipeTyped, PushSend
<1>8. Pristine'
  BY <1>1, <1>3 DEF Base, Pristine, PushSend, At, Hand, Sends
<1>9. SlotTyped' /\ ListsTyped' /\ PollTyped' /\ ToldTyped'
  BY DEF Base, PushSend, At, Hand, Sends, SlotTyped, ListsTyped, PollTyped, ToldTyped, Buffer
<1> QED
  BY <1>3, <1>5, <1>6, <1>7, <1>8, <1>9 DEF Base

(* start(), close() and shutdown() put a command into the pipe: keeps      *)
(* Base.                                                                   *)
LEMMA RequestTypes ==
  ASSUME Base, NEW t \in Threads, Request(t)
  PROVE  Base'
<1>1. HandsTyped /\ HandsSound /\ PipeTyped /\ ToldTyped /\ Hand(t) /\ Pristine
  BY DEF Base, HandsSound
<1>2. PICK op \in {"S", "K", "K1"}, i \in known :
        Begins(t, op) /\ pipe' = Append(pipe, NewCall(t, op, i))
  BY DEF Request
<1>3. i \in Ids /\ known # {} /\ pc[t] = "out"
  BY <1>1, <1>2 DEF ToldTyped, Begins
<1> DEFINE c == NewCall(t, op, i)
<1>4. /\ c \in Calls /\ c.op = op
      /\ calls' \in [Threads -> Nat]
      /\ \A r \in Threads \ {t} : calls'[r] = calls[r]
  BY <1>1, <1>2, <1>3, NewCallTyped
<1>5. pipe' = Append(pipe, c)
  BY <1>2
<1> HIDE DEF c
<1>6. HandsTyped'
  BY <1>1, <1>4 DEF HandsTyped, Request
<1>7. HandsSound'
  <2>1. Hand(t)'
    BY <1>1, <1>3 DEF Hand, Request, Direct, Sends, HoldsLock
  <2> QED
    BY <1>1, <1>4, <2>1, OthersKept DEF Request
<1>8. PipeTyped'
  BY <1>1, <1>4, <1>5 DEF PipeTyped, Request
<1>9. Pristine'
  BY <1>1, <1>3 DEF Pristine, Request
<1>10. SlotTyped' /\ ListsTyped' /\ PollTyped' /\ ToldTyped' /\ Locked'
  BY DEF Base, Request, SlotTyped, ListsTyped, PollTyped, ToldTyped, Locked, Buffer
<1> QED
  BY <1>6, <1>7, <1>8, <1>9, <1>10 DEF Base

(* A new buffer keeps the lists typed.                                     *)
LEMMA BufferGrows ==
  ASSUME ListsTyped, NEW c \in Messages, sent' = sent \cup {c},
         UNCHANGED <<listVars, dwBuffer, wire>>,
         freed' = freed \/ freed' = freed \cup {c}
  PROVE  ListsTyped'
<1>1. Buffer \subseteq sent' \X (1 .. Size)
  BY DEF Buffer
<1>2. \A s \in Seq(Buffer) : s \in Seq(Buffer')
  BY <1>1, Wider DEF Buffer
<1> QED
  BY <1>2 DEF ListsTyped

(* send() to a socket that is not there any more: keeps Base.              *)
LEMMA SendGoneTypes ==
  ASSUME Base, NEW t \in Threads, SendGone(t)
  PROVE  Base'
<1>1. HandsTyped /\ HandsSound /\ PipeTyped /\ ToldTyped /\ Hand(t) /\ ListsTyped
  BY DEF Base, HandsSound
<1>2. PICK op \in {"D", "P"}, i \in SendTo :
        /\ Begins(t, op) /\ sent' = sent \cup {NewCall(t, op, i)}
        /\ Free({NewCall(t, op, i)})
  BY DEF SendGone
<1>3. i \in Ids /\ pc[t] = "out"
  BY <1>1, <1>2 DEF ToldTyped, Begins, SendTo
<1> DEFINE c == NewCall(t, op, i)
<1>4. /\ c \in Messages
      /\ calls' \in [Threads -> Nat]
      /\ \A r \in Threads \ {t} : calls'[r] = calls[r]
  BY <1>1, <1>2, <1>3, NewCallTyped
<1>5. sent' = sent \cup {c} /\ freed' = freed \cup {c}
  BY <1>2 DEF Free
<1> HIDE DEF c
<1>6. HandsTyped'
  BY <1>1, <1>4 DEF HandsTyped, SendGone
<1>7. HandsSound'
  <2>1. Hand(t)'
    BY <1>1, <1>3 DEF Hand, SendGone, Direct, Sends, HoldsLock
  <2> QED
    BY <1>1, <1>4, <1>5, <2>1, OthersKept DEF SendGone
<1>8. PipeTyped'
  BY <1>1, <1>5 DEF PipeTyped, SendGone
<1>9. ListsTyped'
  BY <1>1, <1>4, <1>5, BufferGrows DEF SendGone
<1>10. SlotTyped' /\ PollTyped' /\ ToldTyped' /\ Locked' /\ Pristine'
  BY DEF Base, SendGone, SlotTyped, PollTyped, ToldTyped, Locked, Pristine
<1> QED
  BY <1>6, <1>7, <1>8, <1>9, <1>10 DEF Base

(* send() finds its socket: keeps Base.                                    *)
LEMMA SendTypes ==
  ASSUME Base, NEW t \in Threads, Send(t)
  PROVE  Base'
<1>1. HandsTyped /\ HandsSound /\ PipeTyped /\ ToldTyped /\ Hand(t) /\ ListsTyped
      /\ Pristine
  BY DEF Base, HandsSound
<1>2. PICK op \in {"D", "P"}, i \in SendTo :
        /\ Begins(t, op) /\ sent' = sent \cup {NewCall(t, op, i)} /\ id = i
        /\ Enters(t, NewCall(t, op, i), IF op = "D" THEN "try" ELSE "ref")
  BY DEF Send
<1>3. i \in Ids /\ pc[t] = "out"
  BY <1>1, <1>2 DEF ToldTyped, Begins, SendTo
<1> DEFINE c == NewCall(t, op, i)
           place == IF op = "D" THEN "try" ELSE "ref"
<1>4. /\ c \in Messages /\ c.by = t /\ c.nth = calls[t] + 1 /\ c.op = op
      /\ calls' \in [Threads -> Nat] /\ calls'[t] = calls[t] + 1
      /\ \A r \in Threads \ {t} : calls'[r] = calls[r]
  BY <1>1, <1>2, <1>3, NewCallTyped
<1>5. sent' = sent \cup {c} /\ call' = [call EXCEPT ![t] = c]
      /\ pc' = [pc EXCEPT ![t] = place]
  BY <1>2 DEF Enters
<1>6. place \in {"try", "ref"} /\ (place = "try" => op = "D")
  OBVIOUS
<1> HIDE DEF c, place
<1>7. /\ \A r \in Threads \ {t} : pc'[r] = pc[r] /\ call'[r] = call[r]
      /\ pc'[t] = place /\ call'[t] = c
  BY <1>1, <1>5 DEF HandsTyped
<1>8. HandsTyped'
  BY <1>1, <1>4, <1>5, <1>6 DEF HandsTyped, PcPlaces, Messages
<1>9. HandsSound'
  <2>1. Hand(t)'
    BY <1>4, <1>5, <1>6, <1>7 DEF Hand, Messages, Direct, Sends, HoldsLock
  <2> QED
    BY <1>1, <1>4, <1>5, <1>7, <2>1, OthersKept
<1>10. PipeTyped'
  BY <1>1, <1>5 DEF PipeTyped, Send
<1>11. ListsTyped'
  BY <1>1, <1>4, <1>5, BufferGrows DEF Send
<1>12. Locked'
  BY <1>3, <1>6, <1>7, LockKept DEF Base, Send, HoldsLock
<1>13. Pristine'
  <2>1. id # 0
    BY <1>2, <1>3 DEF Ids
  <2> QED
    BY <2>1 DEF Pristine, Send
<1>14. SlotTyped' /\ PollTyped' /\ ToldTyped'
  BY DEF Base, Send, SlotTyped, PollTyped, ToldTyped
<1> QED
  BY <1>8, <1>9, <1>10, <1>11, <1>12, <1>13, <1>14 DEF Base

(* A caller writes to the fd itself and leaves the rest in dw_buffer:      *)
(* keeps Base.                                                             *)
LEMMA DirectWriteTypes ==
  ASSUME Base, NEW t \in Threads, DirectWrite(t)
  PROVE  Base'
<1>1. HandsTyped /\ HandsSound /\ Hand(t) /\ ListsTyped /\ pc[t] = "lockedrest"
      /\ Pristine
  BY DEF Base, HandsSound, DirectWrite, At
<1>2. PICK n \in 0 .. Size :
        /\ wire' = wire \o Taken(Units(call[t]), n)
        /\ dwBuffer' = Left(Units(call[t]), n)
        /\ watch' = AskForRest(n)
        /\ GoesTo(t, IF n = Size THEN "written" ELSE "left")
  BY DEF DirectWrite
<1> DEFINE place == IF n = Size THEN "written" ELSE "left"
<1>3. place \in {"written", "left"} /\ GoesTo(t, place)
  BY <1>2
<1> HIDE DEF place
<1>4. place \in PcPlaces /\ place # "out" /\ place \in HoldsLock
  BY <1>3 DEF PcPlaces, HoldsLock
<1>5. /\ HandsTyped' /\ pc'[t] = place /\ calls' = calls /\ call' = call
      /\ \A r \in Threads \ {t} : pc'[r] = pc[r] /\ call'[r] = call[r]
  BY <1>1, <1>3, <1>4, InHandTyped
<1>6. HandsSound'
  <2>1. Hand(t)'
    BY <1>1, <1>3, <1>5 DEF Hand, DirectWrite, Direct, Sends, HoldsLock
  <2> QED
    BY <1>1, <1>5, <2>1, OthersKept DEF DirectWrite
<1>7. ListsTyped'
  <2>1. call[t] \in sent
    BY <1>1 DEF Hand, Sends, Direct, HoldsLock
  <2>2. Units(call[t]) \in Seq(Buffer) /\ Len(Units(call[t])) = Size
    BY <2>1, UnitsTyped, UnitsOf
  <2>3. wire' \in Seq(Buffer) /\ dwBuffer' \in Seq(Buffer)
    BY <1>1, <1>2, <2>2, PartsTyped DEF ListsTyped
  <2> QED
    BY <1>1, <2>3 DEF ListsTyped, DirectWrite, Buffer
<1>8. Locked'
  BY <1>1, <1>4, <1>5, LockKept DEF Base, DirectWrite, HoldsLock
<1>9. PollTyped' /\ (watch = "no" => watch' = "no")
  BY <1>2 DEF Base, PollTyped, AskForRest, SpWrite, DirectWrite
<1>10. Pristine'
  BY <1>1 DEF Pristine, DirectWrite
<1>11. SlotTyped' /\ PipeTyped' /\ ToldTyped'
  BY DEF Base, DirectWrite, SlotTyped, PipeTyped, ToldTyped
<1> QED
  BY <1>5, <1>6, <1>7, <1>8, <1>9, <1>10, <1>11 DEF Base

(* socket_unlock() after a direct write or a refusal: keeps Base.          *)
LEMMA UnlockTypes ==
  ASSUME Base, NEW t \in Threads, Unlock(t)
  PROVE  Base'
<1>1. HandsTyped /\ HandsSound /\ Hand(t) /\ ListsTyped /\ Locked /\ Pristine
      /\ pc[t] \in {"written", "left", "refused"}
  BY DEF Base, HandsSound, Unlock
<1> DEFINE place == IF At(t, "refused") THEN "ref" ELSE "out"
<1>2. place \in {"ref", "out"} /\ (GoesTo(t, place) \/ (Returns(t) /\ place = "out"))
      /\ (place = "out" => Returns(t))
  BY DEF Unlock
<1> HIDE DEF place
<1>3. place \in PcPlaces /\ place \notin HoldsLock
  BY <1>2 DEF PcPlaces, HoldsLock
<1>4. /\ HandsTyped' /\ pc'[t] = place /\ calls' = calls
      /\ \A r \in Threads \ {t} : pc'[r] = pc[r] /\ call'[r] = call[r]
      /\ place = "ref" => call' = call
      /\ place = "out" => call'[t] = NoResult
  BY <1>1, <1>2, <1>3, InHandTyped
<1>5. call[t] \in sent
  BY <1>1 DEF Hand, Sends, Direct, HoldsLock
<1>6. HandsSound'
  <2>1. Hand(t)'
    BY <1>1, <1>2, <1>4 DEF Hand, Unlock, Direct, Sends, HoldsLock
  <2> QED
    BY <1>1, <1>4, <2>1, OthersKept DEF Unlock
<1>7. ListsTyped'
  BY <1>1, <1>5 DEF ListsTyped, Unlock, Free, Buffer
<1>8. Locked'
  BY <1>1, <1>3, <1>4 DEF Locked, Unlock, HoldsLock
<1>9. Pristine'
  BY <1>1 DEF Pristine, Unlock
<1>10. SlotTyped' /\ PollTyped' /\ PipeTyped' /\ ToldTyped'
  BY DEF Base, Unlock, SlotTyped, PollTyped, PipeTyped, ToldTyped
<1> QED
  BY <1>4, <1>6, <1>7, <1>8, <1>9, <1>10 DEF Base

(* A command is taken off the pipe.                                        *)
LEMMA CommandTyped ==
  ASSUME Base, NEW op, Command(op)
  PROVE  /\ PipeTyped' \/ sent' # sent
         /\ Head(pipe) \in Calls /\ Head(pipe).id \in Ids /\ Head(pipe).op = op
         /\ Head(pipe) # NoResult
         /\ op \in {"D", "P"} => Head(pipe) \in sent
         /\ id # 0 /\ poll = "loop" /\ result = NoResult
<1>1. pipe \in Seq(Calls) /\ pipe # <<>> /\ pipe' = Tail(pipe)
  BY DEF Base, PipeTyped, Command
<1>2. Head(pipe) = pipe[1] /\ Len(pipe) \in Nat /\ Len(pipe) >= 1 /\ pipe[1] \in Calls
  BY <1>1
<1>3. /\ Tail(pipe) \in Seq(Calls) /\ Len(Tail(pipe)) = Len(pipe) - 1
      /\ \A k \in 1 .. Len(Tail(pipe)) : Tail(pipe)[k] = pipe[k + 1] /\ k + 1 \in 1 .. Len(pipe)
  BY <1>1, <1>2
<1>4. PipeTyped' \/ sent' # sent
  BY <1>1, <1>3 DEF Base, PipeTyped
<1>5. Head(pipe).op \in Operations /\ Head(pipe).op # "none"
  BY <1>2 DEF Calls, Operations
<1> QED
  BY <1>1, <1>2, <1>4, <1>5 DEF Base, PipeTyped, PollTyped, Pristine, Command, Calls, NoResult

(* open_socket() connects: keeps Base.                                     *)
LEMMA OpenSocketTypes ==
  ASSUME Base, OpenSocket
  PROVE  Base'
<1>1. Command("O") /\ SlotTyped /\ ListsTyped
  BY DEF Base, OpenSocket
<1>2. Head(pipe).id \in Ids /\ PipeTyped'
  BY <1>1, CommandTyped DEF OpenSocket
<1>3. SlotTyped' /\ id' # 0
  <2>1. id' \in 1 .. MaxId /\ id' \in 0 .. MaxId
    BY <1>2 DEF OpenSocket, NewFd, Ids
  <2>2. type' \in {"CONNECTED", "CONNECTING"} /\ lastId' = lastId
        /\ tag' = id' /\ sending' = 0 /\ protocol' = "TCP"
    BY DEF OpenSocket, NewFd
  <2>3. peerClosed' \in BOOLEAN
    BY DEF OpenSocket, NewFd
  <2> QED
    BY <1>1, <2>1, <2>2, <2>3 DEF SlotTyped
<1>4. ListsTyped'
  BY <1>1 DEF ListsTyped, OpenSocket, NewFd, SendBufferEmpty, Buffer
<1>5. PollTyped'
  BY DEF Base, PollTyped, OpenSocket
<1>6. ToldTyped'
  BY <1>2 DEF Base, ToldTyped, OpenSocket, Opens
<1>7. Pristine'
  BY <1>3 DEF Pristine
<1>8. Locked'
  BY DEF Base, OpenSocket, Locked
<1>9. HandsTyped' /\ HandsSound'
  BY NoHandMoves DEF Base, HandsTyped, HandsSound, OpenSocket
<1> QED
  BY <1>2, <1>3, <1>4, <1>5, <1>6, <1>7, <1>8, <1>9 DEF Base

(* open_socket() fails: keeps Base.                                        *)
LEMMA OpenFailsTypes ==
  ASSUME Base, OpenFails
  PROVE  Base'
<1>1. Command("O")
  BY DEF OpenFails
<1>2. /\ Head(pipe).id \in Ids /\ PipeTyped' /\ id # 0 /\ poll = "loop"
      /\ Head(pipe) \in Calls /\ Head(pipe) # NoResult
  BY <1>1, CommandTyped DEF OpenFails
<1>3. SlotTyped'
  BY DEF Base, SlotTyped, OpenFails
<1>4. PollTyped'
  BY <1>2 DEF Base, PollTyped, OpenFails
<1>5. ToldTyped'
  BY <1>2 DEF Base, ToldTyped, OpenFails, Tells
<1>6. Pristine'
  BY <1>2 DEF Pristine, OpenFails
<1>7. Locked'
  BY <1>2 DEF Base, Locked, OpenFails
<1>8. ListsTyped'
  BY DEF Base, OpenFails, ListsTyped, Buffer
<1>9. HandsTyped' /\ HandsSound'
  BY NoHandMoves DEF Base, HandsTyped, HandsSound, OpenFails
<1> QED
  BY <1>2, <1>3, <1>4, <1>5, <1>6, <1>7, <1>8, <1>9 DEF Base

(* start_socket() keeps Base.                                              *)
LEMMA StartSocketTypes ==
  ASSUME Base, StartSocket
  PROVE  Base'
<1>1. Command("S")
  BY DEF StartSocket
<1>2. /\ Head(pipe).id \in Ids /\ PipeTyped' /\ id # 0 /\ poll = "loop"
      /\ Head(pipe) \in Calls /\ Head(pipe) # NoResult
  BY <1>1, CommandTyped DEF StartSocket
<1>3. SlotTyped'
  BY DEF Base, SlotTyped, StartSocket
<1>4. PollTyped'
  BY <1>2 DEF Base, PollTyped, StartSocket
<1>5. ToldTyped'
  BY <1>2 DEF Base, ToldTyped, StartSocket, Tells, Opens
<1>6. Pristine'
  BY <1>2 DEF Pristine, StartSocket
<1>7. Locked'
  BY <1>2 DEF Base, Locked, StartSocket
<1>8. ListsTyped'
  BY DEF Base, StartSocket, ListsTyped, Buffer
<1>9. HandsTyped' /\ HandsSound'
  BY NoHandMoves DEF Base, HandsTyped, HandsSound, StartSocket
<1> QED
  BY <1>2, <1>3, <1>4, <1>5, <1>6, <1>7, <1>8, <1>9 DEF Base

(* close_socket() keeps Base.                                              *)
LEMMA CloseSocketTypes ==
  ASSUME Base, NEW op \in {"K", "K1"}, CloseSocket(op)
  PROVE  Base'
<1>1. Command(op)
  BY DEF CloseSocket
<1>2. /\ Head(pipe).id \in Ids /\ PipeTyped' /\ id # 0 /\ poll = "loop"
      /\ Head(pipe) \in Calls /\ Head(pipe) # NoResult
  BY <1>1, CommandTyped DEF CloseSocket
<1>4. PollTyped'
  BY <1>2 DEF Base, PollTyped, CloseSocket
<1>5. ToldTyped'
  BY <1>2 DEF Base, ToldTyped, CloseSocket, Tells
<1>6. Pristine'
  BY <1>2 DEF Pristine, CloseSocket
<1>7. Locked'
  BY <1>2 DEF Base, Locked, CloseSocket
<1>8. ListsTyped' /\ SlotTyped'
  BY DEF Base, CloseSocket, ListsTyped, SlotTyped, Buffer
<1>9. HandsTyped' /\ HandsSound'
  BY NoHandMoves DEF Base, HandsTyped, HandsSound, CloseSocket
<1> QED
  BY <1>2, <1>4, <1>5, <1>6, <1>7, <1>8, <1>9 DEF Base

(* send_socket() and dec_sending_ref() keep Base.                          *)
LEMMA SendSocketTypes ==
  ASSUME Base, NEW op \in {"D", "P"}, SendSocket(op)
  PROVE  Base'
<1>1. Command(op)
  BY DEF SendSocket
<1>2. /\ PipeTyped' /\ id # 0 /\ Head(pipe) \in sent
  BY <1>1, CommandTyped DEF SendSocket
<1>3. SlotTyped'
  <2>1. sending \in Nat /\ (sending' = sending \/ (sending # 0 /\ sending' = sending - 1))
    BY DEF Base, SlotTyped, SendSocket
  <2>2. sending' \in Nat
    BY <2>1
  <2> QED
    BY <2>2 DEF Base, SlotTyped, SendSocket
<1>4. ListsTyped'
  <2>1. Units(Head(pipe)) \in Seq(Buffer) /\ Len(Units(Head(pipe))) = Size
    BY <1>2, UnitsTyped, UnitsOf
  <2>2. ListsTyped /\ Len(high) \in Nat /\ Len(low) \in Nat
    BY DEF Base, ListsTyped
  <2>3. CASE Dropped(Head(pipe))
    BY <1>2, <2>2, <2>3 DEF ListsTyped, SendSocket, Free, Buffer
  <2>4. CASE ~Dropped(Head(pipe))
    <3> DEFINE hu == high \o Units(Head(pipe))
               lu == low \o Units(Head(pipe))
    <3>1. /\ wbSize' = wbSize + Size /\ freed' = freed
          /\ (high' = hu /\ low' = low) \/ (low' = lu /\ high' = high)
      BY <2>4 DEF SendSocket
    <3>2. Size \in Nat /\ high \in Seq(Buffer) /\ low \in Seq(Buffer)
      BY <2>2 DEF ListsTyped
    <3>6. /\ hu \in Seq(Buffer) /\ Len(hu) = Len(high) + Size
          /\ lu \in Seq(Buffer) /\ Len(lu) = Len(low) + Size
      BY <2>1, <3>2, Joined
    <3> HIDE DEF hu, lu
    <3>3. /\ high' \in Seq(Buffer) /\ low' \in Seq(Buffer)
          /\ Len(high') + Len(low') = Len(high) + Len(low) + Size
      <4>1. high' \in Seq(Buffer) /\ low' \in Seq(Buffer)
        BY <3>1, <3>2, <3>6
      <4>2. \/ Len(high') = Len(high) + Size /\ Len(low') = Len(low)
            \/ Len(low') = Len(low) + Size /\ Len(high') = Len(high)
        BY <3>1, <3>6
      <4>3. Len(high') + Len(low') = Len(high) + Len(low) + Size
        BY <2>2, <4>2
      <4> QED
        BY <4>1, <4>3
    <3>4. wbSize' \in Nat /\ wbSize' >= Len(high') + Len(low')
      BY <2>2, <3>1, <3>3 DEF ListsTyped
    <3>7. Blocks(low')
      <4>1. Blocks(low) /\ Buffer = sent \X (1 .. Size)
        BY <2>2 DEF ListsTyped, Buffer
      <4>2. Blocks(lu)
        BY <2>1, <3>2, <4>1, BlocksJoin, UnitsBlocks DEF lu
      <4> QED
        BY <3>1, <4>1, <4>2
    <3>5. Buffer' = Buffer /\ sent' = sent /\ dwBuffer' = dwBuffer /\ wire' = wire
      BY DEF SendSocket, Buffer
    <3> QED
      BY <2>2, <3>1, <3>3, <3>4, <3>5, <3>7 DEF ListsTyped
  <2> QED
    BY <2>3, <2>4
<1>5. PollTyped'
  BY DEF Base, PollTyped, SendSocket, WatchFirst, SpWrite
<1>6. Pristine'
  BY <1>2 DEF Pristine, SendSocket
<1>7. Locked' /\ ToldTyped'
  BY DEF Base, SendSocket, Locked, ToldTyped
<1>8. HandsTyped' /\ HandsSound'
  BY NoHandMoves DEF Base, HandsTyped, HandsSound, SendSocket
<1> QED
  BY <1>2, <1>3, <1>4, <1>5, <1>6, <1>7, <1>8 DEF Base

(* The buffers of some units are buffers that were given to send.          *)
LEMMA OfSent ==
  ASSUME NEW s \in Seq(Buffer)
  PROVE  {s[i][1] : i \in DOMAIN s} \subseteq sent /\ Whole(s) \subseteq sent
<1>1. \A i \in DOMAIN s : s[i] \in sent \X (1 .. Size)
  BY DEF Buffer
<1> QED
  BY <1>1 DEF Whole

(* The empty list.                                                         *)
LEMMA NothingLeft ==
  <<>> \in Seq(Buffer) /\ Blocks(<<>>) /\ Len(<<>>) = 0
  BY DEF Blocks

(* force_close() at work on the lists.                                     *)
LEMMA FreeListsTyped ==
  ASSUME ListsTyped, FreeLists, UNCHANGED <<dwBuffer, wire, wbSize, sent>>
  PROVE  ListsTyped'
<1>1. high' = <<>> /\ low' = <<>> /\ Buffer' = Buffer
  BY DEF FreeLists, Buffer
<1>2. freed' \subseteq sent
  BY OfSent DEF ListsTyped, FreeLists, Free
<1> QED
  BY <1>1, <1>2, NothingLeft DEF ListsTyped

(* close_socket() closes the socket or makes it HALFCLOSE: keeps Base.     *)
LEMMA DecideTypes ==
  ASSUME Base, Decide
  PROVE  Base'
<1>1. result # NoResult /\ result.id \in Ids /\ poll = "decide" /\ id # 0
  BY DEF Base, PollTyped, Pristine, Decide
<1>2. SlotTyped'
  BY DEF Base, SlotTyped, Decide
<1>3. ListsTyped'
  <2>1. CASE FreeLists
    BY <2>1, FreeListsTyped DEF Base, Decide
  <2>2. CASE UNCHANGED <<high, low, watch, freed>>
    BY <2>2 DEF Base, ListsTyped, Decide, Buffer
  <2> QED
    BY <2>1, <2>2 DEF Decide
<1>4. PollTyped'
  BY <1>1 DEF Base, PollTyped, Decide, FreeLists, NoResult
<1>5. Pristine'
  BY <1>1 DEF Pristine, Decide
<1>6. Locked'
  BY <1>1 DEF Base, Locked, Decide
<1>7. PipeTyped' /\ ToldTyped'
  BY DEF Base, Decide, PipeTyped, ToldTyped
<1>8. HandsTyped' /\ HandsSound'
  BY NoHandMoves DEF Base, HandsTyped, HandsSound, Decide
<1> QED
  BY <1>2, <1>3, <1>4, <1>5, <1>6, <1>7, <1>8 DEF Base

(* force_close() under dw_lock: keeps Base.                                *)
LEMMA CloseFdTypes ==
  ASSUME Base, CloseFd
  PROVE  Base'
<1>1. result # NoResult /\ result.id \in Ids /\ poll = "kill" /\ id # 0
  BY DEF Base, PollTyped, Pristine, CloseFd
<1>2. SlotTyped'
  BY DEF Base, SlotTyped, CloseFd
<1>3. ListsTyped'
  BY OfSent, NothingLeft DEF Base, ListsTyped, CloseFd, Free, DirectBuffer, Buffer
<1>4. PollTyped'
  BY <1>1 DEF Base, PollTyped, CloseFd
<1>7. ToldTyped'
  BY <1>1 DEF Base, ToldTyped, CloseFd, Tells
<1>5. Pristine'
  BY <1>1 DEF Pristine, CloseFd
<1>6. Locked'
  BY <1>1 DEF Base, Locked, CloseFd
<1>8. PipeTyped'
  BY DEF Base, CloseFd, PipeTyped
<1>9. HandsTyped' /\ HandsSound'
  BY NoHandMoves DEF Base, HandsTyped, HandsSound, CloseFd
<1> QED
  BY <1>2, <1>3, <1>4, <1>7, <1>5, <1>6, <1>8, <1>9 DEF Base

(* clear_closed_event() keeps Base.                                        *)
LEMMA ClearClosedEventTypes ==
  ASSUME Base, ClearClosedEvent
  PROVE  Base'
<1>1. poll = "clear" /\ id # 0
  BY DEF Base, PollTyped, Pristine, ClearClosedEvent
<1>4. PollTyped'
  BY DEF Base, PollTyped, ClearClosedEvent, ClearEvent, NoEvent, NoResult
<1>5. Pristine'
  BY <1>1 DEF Pristine, ClearClosedEvent
<1>6. Locked'
  BY <1>1 DEF Base, Locked, ClearClosedEvent
<1>7. SlotTyped' /\ ListsTyped' /\ PipeTyped' /\ ToldTyped'
  BY DEF Base, ClearClosedEvent, SlotTyped, ListsTyped, PipeTyped, ToldTyped, Buffer
<1>8. HandsTyped' /\ HandsSound'
  BY NoHandMoves DEF Base, HandsTyped, HandsSound, ClearClosedEvent
<1> QED
  BY <1>4, <1>5, <1>6, <1>7, <1>8 DEF Base

(* send_buffer() has dw_lock: keeps Base.                                  *)
LEMMA LockForSendTypes ==
  ASSUME Base, LockForSend
  PROVE  Base'
<1>1. poll = "flush" /\ id # 0
  BY DEF Base, PollTyped, Pristine, LockForSend
<1>4. PollTyped'
  BY DEF Base, PollTyped, LockForSend, NextAfterSend
<1>5. Pristine'
  BY <1>1 DEF Pristine, LockForSend
<1>6. Locked'
  BY <1>1 DEF Base, Locked, LockForSend, NextAfterSend, HandsTyped
<1>7. SlotTyped' /\ ListsTyped' /\ PipeTyped' /\ ToldTyped'
  BY DEF Base, LockForSend, SlotTyped, ListsTyped, PipeTyped, ToldTyped, Buffer
<1>8. HandsTyped' /\ HandsSound'
  BY NoHandMoves DEF Base, HandsTyped, HandsSound, LockForSend
<1> QED
  BY <1>4, <1>5, <1>6, <1>7, <1>8 DEF Base

(* What waits to be written.                                               *)
LEMMA AllTyped ==
  ASSUME ListsTyped
  PROVE  /\ BeforeHigh \in Seq(Buffer) /\ Len(BeforeHigh) = Len(dwBuffer) + Len(high)
         /\ BeforeHigh \o low \in Seq(Buffer)
         /\ Len(BeforeHigh \o low) = Len(BeforeHigh) + Len(low)
         /\ {Len(dwBuffer), Len(high), Len(low)} \subseteq Nat
         /\ Len(BeforeHigh) \in Nat /\ Len(BeforeHigh \o low) \in Nat
<1>1. high \in Seq(Buffer) /\ low \in Seq(Buffer) /\ dwBuffer \in Seq(Buffer)
  BY DEF ListsTyped
<1>2. BeforeHigh \in Seq(Buffer) /\ Len(BeforeHigh) = Len(dwBuffer) + Len(high)
  BY <1>1, Joined DEF BeforeHigh
<1>3. BeforeHigh \o low \in Seq(Buffer) /\ Len(BeforeHigh \o low) = Len(BeforeHigh) + Len(low)
  BY <1>1, <1>2, Joined
<1> QED
  BY <1>1, <1>2, <1>3

(* What is behind the direct write and the high list is of the low list.   *)
LEMMA RestIsLow ==
  ASSUME ListsTyped, NEW k \in 0 .. Len(BeforeHigh \o low), k >= Len(BeforeHigh)
  PROVE  /\ k - Len(BeforeHigh) \in 0 .. Len(low)
         /\ Left(BeforeHigh \o low, k) = Left(low, k - Len(BeforeHigh))
<1> DEFINE first == BeforeHigh
           all == first \o low
           j == k - Len(first)
<1>1. /\ first \in Seq(Buffer) /\ all \in Seq(Buffer) /\ Len(all) = Len(first) + Len(low)
      /\ Len(first) \in Nat /\ Len(low) \in Nat /\ low \in Seq(Buffer)
  BY AllTyped DEF ListsTyped
<1>2. \A i \in 1 .. Len(low) : all[Len(first) + i] = low[i]
  BY <1>1, Joined
<1> HIDE DEF first, all
<1>3. j \in 0 .. Len(low) /\ k \in 0 .. Len(all) /\ Len(all) - k = Len(low) - j
      /\ k = Len(first) + j
  BY <1>1 DEF all, first
<1> HIDE DEF j
<1>4. /\ Left(all, k) \in Seq(Buffer) /\ Len(Left(all, k)) = Len(all) - k
      /\ \A i \in 1 .. Len(all) - k : Left(all, k)[i] = all[k + i]
  <2>1. all \in Seq(Buffer) /\ k \in 0 .. Len(all)
    BY <1>1, <1>3
  <2> QED
    BY <2>1, Cut
<1>5. /\ Left(low, j) \in Seq(Buffer) /\ Len(Left(low, j)) = Len(low) - j
      /\ \A i \in 1 .. Len(low) - j : Left(low, j)[i] = low[j + i]
  <2>1. low \in Seq(Buffer) /\ j \in 0 .. Len(low)
    BY <1>1, <1>3
  <2> QED
    BY <2>1, Cut
<1>6. ASSUME NEW i \in 1 .. Len(low) - j  PROVE Left(all, k)[i] = Left(low, j)[i]
  <2>1. j + i \in 1 .. Len(low) /\ k + i = Len(first) + (j + i)
    BY <1>1, <1>3
  <2>2. Left(low, j)[i] = all[Len(first) + (j + i)]
    BY <1>2, <1>5, <2>1
  <2>3. Left(all, k)[i] = all[k + i]
    BY <1>3, <1>4
  <2> QED
    BY <2>1, <2>2, <2>3
<1>7. Left(all, k) = Left(low, j)
  <2>1. Len(Left(all, k)) = Len(Left(low, j))
    BY <1>3, <1>4, <1>5
  <2> QED
    BY <1>4, <1>5, <1>6, <2>1, SeqEqual
<1> QED
  BY <1>3, <1>7 DEF all, first, j

(* The lists after send_buffer() has written k units.                      *)
LEMMA ListsLeft ==
  ASSUME ListsTyped, NEW k \in 0 .. Len(BeforeHigh \o low),
         IF k < Len(BeforeHigh)
         THEN high' = Left(BeforeHigh, k) /\ low' = low
         ELSE LET rest == Left(BeforeHigh \o low, k) IN
              /\ high' = Taken(rest, Raised(rest))
              /\ low' = Left(rest, Raised(rest))
  PROVE  /\ high' \in Seq(Buffer) /\ low' \in Seq(Buffer) /\ Blocks(low')
         /\ Len(high') + Len(low') = Len(BeforeHigh \o low) - k
<1> DEFINE first == BeforeHigh
           all == first \o low
<1>1. /\ first \in Seq(Buffer) /\ all \in Seq(Buffer) /\ Len(all) = Len(first) + Len(low)
      /\ Len(first) \in Nat /\ Len(low) \in Nat /\ low \in Seq(Buffer)
      /\ Blocks(low) /\ k \in 0 .. Len(all)
  BY AllTyped DEF ListsTyped
<1>2. CASE k < Len(first)
  <2>1. high' = Left(first, k) /\ low' = low /\ k \in 0 .. Len(first)
    BY <1>1, <1>2
  <2> HIDE DEF first, all
  <2>3. first \in Seq(Buffer) /\ k \in 0 .. Len(first)
    BY <1>1, <2>1
  <2>4. Left(first, k) \in Seq(Buffer) /\ Len(Left(first, k)) = Len(first) - k
    BY <2>3, Cut
  <2>2. high' \in Seq(Buffer) /\ Len(high') = Len(first) - k
    BY <2>1, <2>4
  <2> QED
    BY <1>1, <2>1, <2>2 DEF all, first
<1>3. CASE k >= Len(first)
  <2> DEFINE j == k - Len(first)
             rest == Left(low, j)
             r == Raised(rest)
  <2>1. j \in 0 .. Len(low) /\ Left(all, k) = rest
    BY <1>3, RestIsLow
  <2>2. high' = Taken(rest, r) /\ low' = Left(rest, r)
    BY <1>1, <1>3, <2>1
  <2>3. rest \in Seq(Buffer) /\ Len(rest) = Len(low) - j
    <3> HIDE DEF j
    <3>1. low \in Seq(Buffer) /\ j \in 0 .. Len(low)
      BY <1>1, <2>1
    <3> QED
      BY <3>1, Cut
  <2>4. r \in 0 .. Len(rest) /\ j + r \in j .. Len(low) /\ Between(low, j + r)
    BY <1>1, <2>1, RaisedFits DEF Buffer
  <2> HIDE DEF rest, r
  <2>5. /\ high' \in Seq(Buffer) /\ Len(high') = r
        /\ low' \in Seq(Buffer) /\ Len(low') = Len(rest) - r
    <3>1. rest \in Seq(Buffer) /\ r \in 0 .. Len(rest)
      BY <2>3, <2>4
    <3>2. /\ Taken(rest, r) \in Seq(Buffer) /\ Len(Taken(rest, r)) = r
          /\ Left(rest, r) \in Seq(Buffer) /\ Len(Left(rest, r)) = Len(rest) - r
      BY <3>1, Cut
    <3> QED
      BY <2>2, <3>2
  <2>6. low' = Left(low, j + r)
    <3>1. j + r \in 0 .. Len(low)
      BY <1>1, <2>1, <2>3, <2>4
    <3> QED
      BY <1>1, <2>1, <2>2, <2>4, <3>1, LeftLeft DEF rest
  <2>7. Blocks(low')
    <3>1. j + r \in 0 .. Len(low)
      BY <1>1, <2>1, <2>3, <2>4
    <3> QED
      BY <1>1, <2>4, <2>6, <3>1, BlocksCut DEF Buffer
  <2>8. Len(high') + Len(low') = Len(all) - k
    <3>1. Len(high') + Len(low') = Len(rest)
      BY <1>1, <2>1, <2>3, <2>4, <2>5
    <3> HIDE DEF all, first
    <3>2. Len(rest) = Len(all) - k
      BY <1>1, <1>3, <2>3
    <3> QED
      BY <3>1, <3>2
  <2> QED
    BY <2>5, <2>7, <2>8
<1> QED
  BY <1>1, <1>2, <1>3

(* wb_size after k units were written counts what remains, at least.       *)
LEMMA SizeLeft ==
  ASSUME ListsTyped, NEW k \in 0 .. Len(BeforeHigh \o low)
  PROVE  /\ WbSizeAfter(k) \in Nat
         /\ WbSizeAfter(k) >= Len(BeforeHigh \o low) - k
<1>1. /\ Len(BeforeHigh \o low) = Len(BeforeHigh) + Len(low)
      /\ Len(BeforeHigh) = Len(dwBuffer) + Len(high)
      /\ Len(dwBuffer) \in Nat /\ Len(high) \in Nat /\ Len(low) \in Nat
  BY AllTyped
<1>2. wbSize \in Nat /\ wbSize >= Len(high) + Len(low)
  BY DEF ListsTyped
<1>3. WbSizeAfter(k) = wbSize + Len(dwBuffer) - k
  BY DEF WbSizeAfter
<1> QED
  BY <1>1, <1>2, <1>3

(* What is written are units that were sent.                               *)
LEMMA WrittenTyped ==
  ASSUME ListsTyped, NEW k \in 0 .. Len(BeforeHigh \o low)
  PROVE  /\ Taken(BeforeHigh \o low, k) \in Seq(Buffer)
         /\ wire \o Taken(BeforeHigh \o low, k) \in Seq(Buffer)
         /\ Whole(Taken(BeforeHigh \o low, k)) \subseteq sent
<1>1. Taken(BeforeHigh \o low, k) \in Seq(Buffer)
  BY AllTyped, PartsTyped
<1>2. wire \in Seq(Buffer)
  BY DEF ListsTyped
<1> QED
  BY <1>1, <1>2, Joined, OfSent

(* send_buffer() writes k units of what waits.                             *)
Wrote(k) ==
  LET first == BeforeHigh
      all == first \o low IN
  /\ wire' = wire \o Taken(all, k)
  /\ freed' = freed \cup Whole(Taken(all, k))
  /\ wbSize' = WbSizeAfter(k)
  /\ IF k < Len(first)
     THEN high' = Left(first, k) /\ low' = low
     ELSE LET rest == Left(all, k) IN
          /\ high' = Taken(rest, Raised(rest))
          /\ low' = Left(rest, Raised(rest))

(* SendBuffer is a write of so many units.                                 *)
LEMMA SendBufferWrote ==
  ASSUME ListsTyped, SendBuffer
  PROVE  \E k \in 0 .. Len(BeforeHigh \o low) :
           k \in Writable(Len(BeforeHigh \o low)) /\ Wrote(k)
<1>1. PICK k \in Writable(Len(BeforeHigh \o low)) : Wrote(k)
  BY DEF SendBuffer, Wrote, Free
<1>2. k \in 0 .. Len(BeforeHigh \o low)
  BY AllTyped DEF Writable
<1> QED
  BY <1>1, <1>2

(* send_buffer() writes what waits: keeps Base.                            *)
LEMMA SendBufferTypes ==
  ASSUME Base, SendBuffer
  PROVE  Base'
<1>1. poll = "send" /\ id # 0 /\ id \in Ids /\ ListsTyped /\ id \in 0 .. MaxId
  BY DEF Base, PollTyped, SlotTyped, Pristine, Ids, SendBuffer
<1>2. SlotTyped'
  BY DEF Base, SlotTyped, SendBuffer
<1>3. ListsTyped'
  <2>1. PICK k \in 0 .. Len(BeforeHigh \o low) : Wrote(k)
    BY <1>1, SendBufferWrote
  <2>2. /\ high' \in Seq(Buffer) /\ low' \in Seq(Buffer) /\ Blocks(low')
        /\ Len(high') + Len(low') = Len(BeforeHigh \o low) - k
    BY <1>1, <2>1, ListsLeft DEF Wrote
  <2>3. wbSize' \in Nat /\ wbSize' >= Len(high') + Len(low')
    BY <1>1, <2>1, <2>2, SizeLeft DEF Wrote
  <2>4. wire' \in Seq(Buffer) /\ freed' \subseteq sent
    BY <1>1, <2>1, WrittenTyped DEF Wrote, ListsTyped
  <2>5. dwBuffer' = <<>> /\ sent' = sent
    BY DEF SendBuffer
  <2> QED
    BY <1>1, <2>2, <2>3, <2>4, <2>5, NothingLeft DEF ListsTyped, Buffer
<1>4. PollTyped'
  BY <1>1 DEF Base, PollTyped, SendBuffer, NextAfterSend, SpWrite, NoResult
<1>7. ToldTyped'
  BY <1>1 DEF Base, ToldTyped, SendBuffer, Tells
<1>5. Pristine'
  BY <1>1 DEF Pristine, SendBuffer
<1>6. Locked'
  BY <1>1 DEF Base, Locked, SendBuffer, NextAfterSend, HandsTyped
<1>8. PipeTyped'
  BY DEF Base, SendBuffer, PipeTyped
<1>9. HandsTyped' /\ HandsSound'
  BY NoHandMoves DEF Base, HandsTyped, HandsSound, SendBuffer
<1> QED
  BY <1>2, <1>3, <1>4, <1>7, <1>5, <1>6, <1>8, <1>9 DEF Base

(* send_list_tcp() fails to write and closes: keeps Base.                  *)
LEMMA WriteFailsTypes ==
  ASSUME Base, WriteFails
  PROVE  Base'
<1>1. poll = "send" /\ id # 0 /\ id \in Ids /\ ListsTyped /\ id \in 0 .. MaxId
  BY DEF Base, PollTyped, SlotTyped, Pristine, Ids, WriteFails
<1>2. SlotTyped'
  BY DEF Base, SlotTyped, WriteFails
<1>3. ListsTyped'
  <2>1. PICK k \in 0 .. Len(BeforeHigh \o low) - 1 :
          wire' = wire \o Taken(BeforeHigh \o low, k) /\ wbSize' = WbSizeAfter(k)
    BY DEF WriteFails
  <2>2. k \in 0 .. Len(BeforeHigh \o low)
    BY <1>1, AllTyped
  <2>3. wbSize' \in Nat /\ wbSize' >= 0
    BY <1>1, <2>1, <2>2, SizeLeft
  <2>4. wire' \in Seq(Buffer)
    BY <1>1, <2>1, <2>2, WrittenTyped
  <2>5. freed' \subseteq sent
    BY <1>1, AllTyped, OfSent DEF WriteFails, Free, ListsTyped
  <2>6. high' = <<>> /\ low' = <<>> /\ dwBuffer' = <<>> /\ sent' = sent
    BY DEF WriteFails
  <2> QED
    BY <1>1, <2>3, <2>4, <2>5, <2>6, NothingLeft DEF ListsTyped, Buffer
<1>4. PollTyped'
  BY <1>1 DEF Base, PollTyped, WriteFails, NoResult
<1>7. ToldTyped'
  BY <1>1 DEF Base, ToldTyped, WriteFails, Tells
<1>5. Pristine'
  BY <1>1 DEF Pristine, WriteFails
<1>6. Locked'
  BY <1>1 DEF Base, Locked, WriteFails, HandsTyped
<1>8. PipeTyped'
  BY DEF Base, WriteFails, PipeTyped
<1>9. HandsTyped' /\ HandsSound'
  BY NoHandMoves DEF Base, HandsTyped, HandsSound, WriteFails
<1> QED
  BY <1>2, <1>3, <1>4, <1>7, <1>5, <1>6, <1>8, <1>9 DEF Base

(* socket_server_poll() finds the pipe empty: keeps Base.                  *)
LEMMA NoCommandTypes ==
  ASSUME Base, NoCommand
  PROVE  Base'
<1>4. PollTyped'
  BY DEF Base, PollTyped, NoCommand
<1>5. SlotTyped' /\ ListsTyped' /\ PipeTyped' /\ ToldTyped' /\ Pristine' /\ Locked'
  BY DEF Base, NoCommand, SlotTyped, ListsTyped, PipeTyped, ToldTyped, Pristine, Locked, Buffer
<1>6. HandsTyped' /\ HandsSound'
  BY NoHandMoves DEF Base, HandsTyped, HandsSound, NoCommand
<1> QED
  BY <1>4, <1>5, <1>6 DEF Base

(* sp_wait() returns: keeps Base.                                          *)
LEMMA WaitTypes ==
  ASSUME Base, NEW kind \in {"none", "write", "eof"}, kind # "none" => watch # "no",
         Wait(kind)
  PROVE  Base'
<1>4. PollTyped'
  BY DEF Base, PollTyped, SlotTyped, Wait, Waits, NoEvent
<1>5. Pristine'
  BY DEF Base, Pristine, Wait, Waits
<1>6. SlotTyped' /\ ListsTyped' /\ PipeTyped' /\ ToldTyped' /\ Locked'
  BY DEF Base, Wait, Waits, SlotTyped, ListsTyped, PipeTyped, ToldTyped, Locked, Buffer
<1>7. HandsTyped' /\ HandsSound'
  BY NoHandMoves DEF Base, HandsTyped, HandsSound, Wait
<1> QED
  BY <1>4, <1>5, <1>6, <1>7 DEF Base

(* The end of the stream: keeps Base.                                      *)
LEMMA EventEofTypes ==
  ASSUME Base, EventEof
  PROVE  Base'
<1>1. poll \in {"loop", "first"} /\ event # NoEvent /\ result = NoResult /\ SlotTyped
  BY DEF Base, PollTyped, EventEof, Dispatch, Dispatches, NoEvent
<1>2. id # 0 /\ id \in Ids /\ id \in 0 .. MaxId
  BY <1>1 DEF Base, SlotTyped, Pristine, Ids
<1>3. ListsTyped'
  BY FreeListsTyped DEF Base, EventEof
<1>4. PollTyped'
  BY <1>2 DEF Base, PollTyped, EventEof, FreeLists, Dispatch, NoEvent, NoResult
<1>5. Pristine'
  BY <1>2 DEF Pristine, EventEof
<1>6. Locked'
  BY <1>1 DEF Base, Locked, EventEof, HandsTyped
<1>7. SlotTyped' /\ PipeTyped' /\ ToldTyped'
  BY DEF Base, EventEof, SlotTyped, PipeTyped, ToldTyped
<1>8. HandsTyped' /\ HandsSound'
  BY NoHandMoves DEF Base, HandsTyped, HandsSound, EventEof
<1> QED
  BY <1>3, <1>4, <1>5, <1>6, <1>7, <1>8 DEF Base

(* report_connect() finds an error: keeps Base.                            *)
LEMMA ConnectFailsTypes ==
  ASSUME Base, ConnectFails
  PROVE  Base'
<1>1. poll \in {"loop", "first"} /\ event # NoEvent /\ result = NoResult /\ SlotTyped
  BY DEF Base, PollTyped, ConnectFails, Dispatch, Dispatches, NoEvent
<1>2. id # 0 /\ id \in Ids /\ id \in 0 .. MaxId
  BY <1>1 DEF Base, SlotTyped, Pristine, Ids
<1>3. ListsTyped'
  BY FreeListsTyped DEF Base, ConnectFails
<1>4. PollTyped'
  BY <1>2 DEF Base, PollTyped, ConnectFails, FreeLists, Dispatch, NoEvent, NoResult
<1>5. Pristine'
  BY <1>2 DEF Pristine, ConnectFails
<1>6. Locked'
  BY <1>1 DEF Base, Locked, ConnectFails, HandsTyped
<1>7. SlotTyped' /\ PipeTyped' /\ ToldTyped'
  BY DEF Base, ConnectFails, SlotTyped, PipeTyped, ToldTyped
<1>8. HandsTyped' /\ HandsSound'
  BY NoHandMoves DEF Base, HandsTyped, HandsSound, ConnectFails
<1> QED
  BY <1>3, <1>4, <1>5, <1>6, <1>7, <1>8 DEF Base

(* A write event: keeps Base.                                              *)
LEMMA EventWriteTypes ==
  ASSUME Base, EventWrite
  PROVE  Base'
<1>1. poll \in {"loop", "first"} /\ event # NoEvent /\ result = NoResult
  BY DEF Base, PollTyped, EventWrite, Dispatch, Dispatches, NoEvent
<1>2. id # 0
  BY <1>1 DEF Base, Pristine
<1>4. PollTyped'
  BY <1>1 DEF Base, PollTyped, EventWrite, Dispatch, NoEvent
<1>5. Pristine'
  BY <1>2 DEF Pristine, EventWrite
<1>6. Locked'
  BY <1>1 DEF Base, Locked, EventWrite, HandsTyped
<1>7. SlotTyped' /\ ListsTyped' /\ PipeTyped' /\ ToldTyped'
  BY DEF Base, EventWrite, SlotTyped, ListsTyped, PipeTyped, ToldTyped, Buffer
<1>8. HandsTyped' /\ HandsSound'
  BY NoHandMoves DEF Base, HandsTyped, HandsSound, EventWrite
<1> QED
  BY <1>4, <1>5, <1>6, <1>7, <1>8 DEF Base

(* report_connect() finds the socket connected: keeps Base.                *)
LEMMA ReportConnectTypes ==
  ASSUME Base, ReportConnect
  PROVE  Base'
<1>1. poll \in {"loop", "first"} /\ event # NoEvent /\ result = NoResult
  BY DEF Base, PollTyped, ReportConnect, Dispatch, Dispatches, NoEvent
<1>2. id # 0
  BY <1>1 DEF Base, Pristine
<1>3. SlotTyped'
  BY DEF Base, SlotTyped, ReportConnect
<1>4. PollTyped'
  BY <1>1 DEF Base, PollTyped, ReportConnect, Dispatch, NoEvent
<1>5. Pristine'
  BY <1>2 DEF Pristine, ReportConnect
<1>6. Locked'
  BY <1>1 DEF Base, Locked, ReportConnect, HandsTyped
<1>7. ListsTyped' /\ PipeTyped' /\ ToldTyped'
  BY DEF Base, ReportConnect, ListsTyped, PipeTyped, ToldTyped, Buffer
<1>8. HandsTyped' /\ HandsSound'
  BY NoHandMoves DEF Base, HandsTyped, HandsSound, ReportConnect
<1> QED
  BY <1>3, <1>4, <1>5, <1>6, <1>7, <1>8 DEF Base

(* report_connect() tells and asks for write events no more: keeps Base.   *)
LEMMA TellConnectedTypes ==
  ASSUME Base, TellConnected
  PROVE  Base'
<1>1. poll \in {"quiet", "opened"} /\ id # 0 /\ id \in Ids
  BY DEF Base, SlotTyped, Pristine, Ids, TellConnected
<1>4. PollTyped'
  BY DEF Base, PollTyped, TellConnected, SpWrite
<1>3. ToldTyped'
  BY <1>1 DEF Base, ToldTyped, TellConnected, Opens
<1>5. Pristine'
  BY <1>1 DEF Pristine, TellConnected
<1>6. Locked'
  BY <1>1 DEF Base, Locked, TellConnected, HandsTyped
<1>7. SlotTyped' /\ ListsTyped' /\ PipeTyped'
  BY DEF Base, TellConnected, SlotTyped, ListsTyped, PipeTyped, Buffer
<1>8. HandsTyped' /\ HandsSound'
  BY NoHandMoves DEF Base, HandsTyped, HandsSound, TellConnected
<1> QED
  BY <1>4, <1>3, <1>5, <1>6, <1>7, <1>8 DEF Base

(* report_accept() keeps Base.                                             *)
LEMMA AcceptTypes ==
  ASSUME Base, Accept
  PROVE  Base'
<1>1. lastId + 1 \in 1 .. MaxId /\ lastId' = lastId + 1 /\ SlotTyped
  BY DEF Base, SlotTyped, Accept
<1>2. id' \in Ids /\ id' # 0 /\ id' = lastId' /\ tag' = id'
  BY <1>1 DEF Accept, NewFd, Ids
<1>3. SlotTyped'
  <2>1. id' \in 0 .. MaxId
    BY <1>1, <1>2
  <2>2. peerClosed' \in BOOLEAN
    BY DEF Accept, NewFd
  <2>3. type' = "PACCEPT" /\ sending' = 0 /\ protocol' = "TCP"
    BY DEF Accept, NewFd
  <2> QED
    BY <1>2, <2>1, <2>2, <2>3 DEF SlotTyped
<1>4. ListsTyped'
  BY NothingLeft DEF Base, ListsTyped, Accept, NewFd, SendBufferEmpty, Buffer
<1>5. ToldTyped'
  BY <1>2 DEF Base, ToldTyped, Accept
<1>6. Pristine'
  BY <1>2 DEF Pristine
<1>7. PollTyped' /\ PipeTyped' /\ Locked'
  BY DEF Base, Accept, PollTyped, PipeTyped, Locked
<1>8. HandsTyped' /\ HandsSound'
  BY NoHandMoves DEF Base, HandsTyped, HandsSound, Accept
<1> QED
  BY <1>3, <1>4, <1>5, <1>6, <1>7, <1>8 DEF Base

(* The other side closes: keeps Base.                                      *)
LEMMA PeerClosesTypes ==
  ASSUME Base, PeerCloses
  PROVE  Base'
<1>1. peerClosed' \in BOOLEAN
  BY DEF PeerCloses
<1>2. SlotTyped'
  BY <1>1 DEF Base, SlotTyped, PeerCloses
<1>3. ListsTyped' /\ PollTyped' /\ PipeTyped' /\ ToldTyped' /\ Pristine' /\ Locked'
  BY DEF Base, PeerCloses, ListsTyped, PollTyped, PipeTyped, ToldTyped, Pristine, Locked, Buffer
<1>4. HandsTyped' /\ HandsSound'
  BY NoHandMoves DEF Base, HandsTyped, HandsSound, PeerCloses
<1> QED
  BY <1>2, <1>3, <1>4 DEF Base

(* Base holds at the start.                                                *)
LEMMA InitTypes ==
  ASSUME Init
  PROVE  Base
<1>8. peerClosed \in BOOLEAN /\ checkctrl \in BOOLEAN
  BY DEF Init
<1>1. SlotTyped /\ PollTyped /\ ToldTyped
  BY <1>8 DEF Init, SlotTyped, PollTyped, ToldTyped, NoEvent, NoResult
<1>2. ListsTyped
  BY NothingLeft DEF Init, ListsTyped
<1>3. HandsTyped
  BY DEF Init, HandsTyped, PcPlaces
<1>4. HandsSound
  BY DEF Init, HandsSound, Hand, Direct, Sends, HoldsLock
<1>5. PipeTyped
  BY DEF Init, PipeTyped
<1>6. Pristine
  BY DEF Init, Pristine
<1>7. Locked
  BY DEF Init, Locked, HoldsLock
<1> QED
  BY <1>1, <1>2, <1>3, <1>4, <1>5, <1>6, <1>7 DEF Base

(* A step of a caller: keeps Base.                                         *)
LEMMA CallerTypes ==
  ASSUME Base, NEW t \in Threads, Caller(t)
  PROVE  Base'
<1>1. FirstTest(t) => Base'
  BY ReadsListsTypes DEF FirstTest
<1>2. SecondTest(t) => Base'
  BY ReadsListsTypes DEF SecondTest
<1> QED
  BY <1>1, <1>2, ReserveTypes, RequestTypes, SendGoneTypes, SendTypes,
     NameSlotTypes, SendOpenTypes, TryLockTypes, DirectWriteTypes,
     NoDirectWriteTypes, UnlockTypes, IncSendingRefTypes, PushSendTypes
     DEF Caller, InCall

(* A step of the socket thread or of the other side: keeps Base.           *)
LEMMA ServerTypes ==
  ASSUME Base, Poll \/ WaitWrite \/ WaitEof \/ Accept \/ PeerCloses
  PROVE  Base'
<1>1. Commanded => Base'
  BY OpenSocketTypes, OpenFailsTypes, StartSocketTypes, SendSocketTypes,
     CloseSocketTypes DEF Commanded
<1>2. Continued => Base'
  BY DecideTypes, CloseFdTypes, ClearClosedEventTypes, LockForSendTypes,
     SendBufferTypes, WriteFailsTypes, TellConnectedTypes DEF Continued
<1>3. Dispatched => Base'
  BY EventEofTypes, EventWriteTypes, ReportConnectTypes, ConnectFailsTypes
     DEF Dispatched
<1>4. NoCommand \/ Accept \/ PeerCloses => Base'
  BY NoCommandTypes, AcceptTypes, PeerClosesTypes
<1>5. WaitPipe \/ WaitWrite \/ WaitEof => Base'
  BY WaitTypes DEF WaitPipe, WaitWrite, WaitEof
<1> QED
  BY <1>1, <1>2, <1>3, <1>4, <1>5 DEF Poll

(* A step that changes nothing: keeps Base.                                *)
LEMMA StutterTypes ==
  ASSUME Base, UNCHANGED vars
  PROVE  Base'
  BY DEF Base, vars, SlotTyped, ListsTyped, PollTyped, HandsTyped, HandsSound,
     Hand, PipeTyped, ToldTyped, Pristine, Locked, Buffer

(* Base is inductive.                                                      *)
LEMMA BaseKept ==
  ASSUME Base, [Next]_vars
  PROVE  Base'
  BY CallerTypes, ServerTypes, StutterTypes DEF Next

(* Base holds in every reachable state.                                    *)
LEMMA BaseTheorem == Spec => []Base
<1>1. Init => Base
  BY InitTypes
<1>2. Base /\ [Next]_vars => Base'
  BY BaseKept
<1> QED
  BY <1>1, <1>2, PTL DEF Spec

(* Every variable keeps to the values its C type and use allow, for any    *)
(* callers, calls, ids, buffer size and other side, and also when callers  *)
(* send before OPEN.                                                       *)
THEOREM SocketTypes == Spec => []TypeOK
<1>1. Base => TypeOK
  <2> SUFFICES ASSUME Base  PROVE TypeOK
    OBVIOUS
  <2>1. SlotTyped /\ ListsTyped /\ PollTyped /\ HandsTyped /\ PipeTyped
        /\ ToldTyped /\ Locked
    BY DEF Base
  <2>2. Buffer \subseteq Messages \X (1 .. Size)
    BY <2>1 DEF ListsTyped, Buffer
  <2>3. {high, low, dwBuffer, wire} \subseteq Seq(Messages \X (1 .. Size))
    BY <2>1, <2>2, Wider DEF ListsTyped
  <2>4. pc \in [Threads -> {"out", "reserved", "open", "try", "tryrest",
                            "locked", "lockedrest", "written", "left",
                            "refused", "ref", "push"}]
    BY <2>1 DEF HandsTyped, PcPlaces
  <2> QED
    BY <2>1, <2>3, <2>4 DEF TypeOK, SlotTyped, ListsTyped, PollTyped,
       HandsTyped, PipeTyped, ToldTyped, Locked
<1> QED
  BY <1>1, BaseTheorem, PTL

-----------------------------------------------------------------------------
(* The slot.  What it is shared for: whose buffers, commands, references   *)
(* and events reach the connection that has it. Settled is the inductive   *)
(* invariant, on top of Base. It holds where no command for the last       *)
(* connection is carried out on a slot that reserve_id() has taken and not *)
(* named (SettledSpec), and under Spec where that cannot be (OneUse).      *)

(* The slot has a connection.                                              *)
Live == type \notin {"INVALID", "RESERVE"}
(* The caller is in connect().                                             *)
Reserves(t) == pc[t] \in {"reserved", "open"}

(* One connect() at a time has the slot: it is RESERVE from its            *)
(* reservation until its OPEN command is taken, which is the first command *)
(* of the new id.                                                          *)
Reserving ==
  /\ \A t \in Threads : Reserves(t) =>
       /\ type = "RESERVE" /\ call[t].id = lastId /\ lastId \notin known
       /\ \A r \in Threads : Reserves(r) => r = t
       /\ \A k \in 1 .. Len(pipe) : pipe[k].op # "O"
       /\ pc[t] = "reserved" => id # lastId
       /\ pc[t] = "open" => id = lastId /\ protocol = "UNKNOWN"
  /\ \A k \in 1 .. Len(pipe) : pipe[k].op = "O" =>
       /\ type = "RESERVE" /\ id = lastId /\ pipe[k].id = lastId
       /\ protocol = "UNKNOWN"
       /\ \A j \in 1 .. Len(pipe) : j < k => pipe[j].id # lastId
       /\ \A j \in 1 .. Len(pipe) : pipe[j].op = "O" => j = k
  /\ type = "RESERVE" => \/ \E t \in Threads : Reserves(t)
                         \/ \E k \in 1 .. Len(pipe) : pipe[k].op = "O"
(* An id is known to callers, to commands and to the slot only after it    *)
(* was given out.                                                          *)
IdsKnown ==
  /\ known \subseteq 1 .. lastId /\ opened \subseteq known
  /\ id \in 0 .. lastId /\ tag \in 0 .. lastId
  /\ type = "RESERVE" => tag # lastId
  /\ Live => id \in known
  /\ \A k \in 1 .. Len(pipe) : pipe[k].id \in known
  /\ \A t \in Threads : pc[t] \in Sends => call[t].id \in known
(* sending is tagged with the id of the connection.                        *)
Tagged == /\ protocol = "TCP" => tag = id
          /\ Live => protocol = "TCP"
(* A message that the socket thread is about is one of this connection.    *)
OnResult ==
  /\ poll \in {"flush", "send", "decide"} /\ result # NoResult =>
       Live /\ result.id = id
  /\ poll = "kill" => Live /\ result.id = id
  /\ poll \in {"quiet", "opened"} => type = "CONNECTED"
(* Under dw_lock a caller has found its connection, which is not closed    *)
(* meanwhile.                                                              *)
Held ==
  \A t \in Threads :
    /\ pc[t] \in {"locked", "lockedrest"} => type \in {"CONNECTED", "HALFCLOSE"}
    /\ pc[t] = "lockedrest" => call[t].id = id
(* All that is written or waits is of the connection that is tagged.       *)
Own ==
  /\ \A p \in 1 .. Len(wire) : wire[p][1].id = tag
  /\ \A p \in 1 .. Len(dwBuffer) : dwBuffer[p][1].id = tag
  /\ \A p \in 1 .. Len(high) : high[p][1].id = tag
  /\ \A p \in 1 .. Len(low) : low[p][1].id = tag
(* A slot without a connection holds nothing.                              *)
Idle ==
  /\ ~Live => high = <<>> /\ low = <<>> /\ dwBuffer = <<>> /\ watch = "no"
  /\ poll = "kill" => high = <<>> /\ low = <<>> /\ watch = "no"
(* The inductive invariant of this module.                                 *)
Settled == Reserving /\ IdsKnown /\ Tagged /\ OnResult /\ Held /\ Own /\ Idle

-----------------------------------------------------------------------------
(* The pipe after a write.                                                 *)
LEMMA Appended ==
  ASSUME PipeTyped, NEW c, pipe' = Append(pipe, c)
  PROVE  /\ Len(pipe) \in Nat /\ Len(pipe') = Len(pipe) + 1
         /\ \A k \in 1 .. Len(pipe) : pipe'[k] = pipe[k] /\ k \in 1 .. Len(pipe')
         /\ pipe'[Len(pipe) + 1] = c /\ Len(pipe) + 1 \in 1 .. Len(pipe')
         /\ \A k \in 1 .. Len(pipe') : k \in 1 .. Len(pipe) \/ k = Len(pipe) + 1
<1>1. pipe \in Seq(Calls)
  BY DEF PipeTyped
<1>2. Len(pipe) \in Nat /\ Len(pipe') = Len(pipe) + 1
  BY <1>1
<1>3. /\ \A k \in 1 .. Len(pipe) : pipe'[k] = pipe[k]
      /\ pipe'[Len(pipe) + 1] = c
  BY <1>1
<1> QED
  BY <1>2, <1>3

(* The pipe after a read.                                                  *)
LEMMA Taking ==
  ASSUME PipeTyped, pipe # <<>>, pipe' = Tail(pipe)
  PROVE  /\ Len(pipe) \in Nat /\ Len(pipe') = Len(pipe) - 1
         /\ \A k \in 1 .. Len(pipe') : pipe'[k] = pipe[k + 1] /\ k + 1 \in 1 .. Len(pipe)
         /\ Head(pipe) = pipe[1] /\ 1 \in 1 .. Len(pipe)
         /\ \A k \in 1 .. Len(pipe) : k = 1 \/ (k - 1 \in 1 .. Len(pipe') /\ pipe'[k - 1] = pipe[k])
<1>1. pipe \in Seq(Calls) /\ Len(pipe) \in Nat /\ Len(pipe) > 0
  BY DEF PipeTyped
<1>2. /\ Len(pipe') = Len(pipe) - 1 /\ Head(pipe) = pipe[1]
      /\ \A k \in 1 .. Len(pipe') : pipe'[k] = pipe[k + 1]
  BY <1>1
<1>3. \A k \in 1 .. Len(pipe') : k + 1 \in 1 .. Len(pipe)
  BY <1>1, <1>2
<1>4. \A k \in 1 .. Len(pipe) : k = 1 \/ k - 1 \in 1 .. Len(pipe')
  BY <1>1, <1>2
<1>5. ASSUME NEW k \in 1 .. Len(pipe), k # 1  PROVE pipe'[k - 1] = pipe[k]
  <2>1. k - 1 \in 1 .. Len(pipe') /\ (k - 1) + 1 = k
    BY <1>4, <1>5
  <2> QED
    BY <1>2, <2>1
<1> QED
  BY <1>1, <1>2, <1>3, <1>4, <1>5

(* A slot that is not RESERVE has no connect() on its way.                 *)
LEMMA NobodyReserves ==
  ASSUME Reserving, type # "RESERVE"
  PROVE  /\ \A t \in Threads : ~Reserves(t)
         /\ \A k \in 1 .. Len(pipe) : pipe[k].op # "O"
  BY DEF Reserving

(* A step of a thread that is not in connect().                            *)
LEMMA ThreadSettled ==
  ASSUME Settled, NEW t \in Threads,
         \A r \in Threads \ {t} : pc'[r] = pc[r] /\ call'[r] = call[r],
         ~Reserves(t), ~Reserves(t)',
         pc'[t] \in Sends => call'[t].id \in known,
         pc'[t] \in {"locked", "lockedrest"} => type \in {"CONNECTED", "HALFCLOSE"},
         pc'[t] = "lockedrest" => call'[t].id = id,
         UNCHANGED <<slotVars, tag, pollVars, pipe, known, opened, lastId>>,
         Own', Idle'
  PROVE  Settled'
<1>1. Reserving'
  <2>1. \A r \in Threads : Reserves(r)' <=> Reserves(r)
    BY DEF Reserves
  <2> QED
    BY <2>1 DEF Settled, Reserving, Reserves
<1>2. IdsKnown'
  BY DEF Settled, IdsKnown, Live
<1>3. Held'
  BY DEF Settled, Held
<1>4. Tagged' /\ OnResult'
  BY DEF Settled, Tagged, OnResult, Live
<1> QED
  BY <1>1, <1>2, <1>3, <1>4 DEF Settled

(* A step of the socket thread that leaves the slot as it is.              *)
LEMMA QuietSettled ==
  ASSUME Settled, UNCHANGED <<slotVars, tag, threadVars, known, opened, pipe, lastId>>,
         OnResult', Own', Idle'
  PROVE  Settled'
<1>1. Reserving' /\ IdsKnown'
  BY DEF Settled, Reserving, IdsKnown, Live, Reserves
<1>2. Tagged' /\ Held'
  BY DEF Settled, Tagged, Held, Live
<1> QED
  BY <1>1, <1>2 DEF Settled

(* A connection goes on to another state, or ends.                         *)
LEMMA LiveSettled ==
  ASSUME Settled, Live, type' # "RESERVE", opened' \subseteq known,
         UNCHANGED <<id, protocol, tag, threadVars, known, pipe, lastId>>,
         Held', OnResult', Own', Idle'
  PROVE  Settled'
<1>1. Reserving'
  <2>1. type # "RESERVE"
    BY DEF Live
  <2> QED
    BY <2>1, NobodyReserves DEF Settled, Reserving, Reserves
<1>2. IdsKnown' /\ Tagged'
  BY DEF Settled, IdsKnown, Tagged, Live
<1> QED
  BY <1>1, <1>2 DEF Settled

(* A command that is not an open, taken off the pipe.                      *)
LEMMA CommandSettled ==
  ASSUME Base, Settled, ~StaleCommand, NEW op \in Operations \ {"O"}, Command(op)
  PROVE  /\ Head(pipe).id = id => type # "RESERVE"
         /\ Head(pipe).id \in known
         /\ \A k \in 1 .. Len(pipe') : pipe'[k].id \in known
         /\ UNCHANGED <<slotVars, threadVars, known, lastId>> => Reserving'
         /\ type # "RESERVE" /\ type' # "RESERVE" /\ UNCHANGED <<threadVars>> => Reserving'
<1>1. PipeTyped /\ pipe # <<>> /\ pipe' = Tail(pipe) /\ Head(pipe).op = op
      /\ Reserving /\ IdsKnown
  BY DEF Base, Settled, Command
<1>2. /\ Len(pipe) \in Nat /\ Len(pipe') = Len(pipe) - 1
      /\ \A k \in 1 .. Len(pipe') : pipe'[k] = pipe[k + 1] /\ k + 1 \in 1 .. Len(pipe)
      /\ Head(pipe) = pipe[1] /\ 1 \in 1 .. Len(pipe)
      /\ \A k \in 1 .. Len(pipe) : k = 1 \/ (k - 1 \in 1 .. Len(pipe') /\ pipe'[k - 1] = pipe[k])
  BY <1>1, Taking
<1>3. ASSUME Head(pipe).id = id, type = "RESERVE"  PROVE FALSE
  <2>1. CASE \E t \in Threads : Reserves(t)
    <3>1. PICK t \in Threads : Reserves(t)
      BY <2>1
    <3>2. CASE pc[t] = "reserved"
      BY <1>1, <1>3, <3>2 DEF StaleCommand, At
    <3>3. CASE pc[t] = "open"
      BY <1>1, <1>2, <1>3, <3>1, <3>3 DEF Reserving, IdsKnown
    <3> QED
      BY <3>1, <3>2, <3>3 DEF Reserves
  <2>2. CASE \E k \in 1 .. Len(pipe) : pipe[k].op = "O"
    <3>1. PICK k \in 1 .. Len(pipe) : pipe[k].op = "O"
      BY <2>2
    <3>2. id = lastId /\ \A j \in 1 .. Len(pipe) : j < k => pipe[j].id # lastId
      BY <1>1, <3>1 DEF Reserving
    <3>3. k # 1 /\ 1 < k
      BY <1>1, <1>2, <3>1
    <3> QED
      BY <1>2, <1>3, <3>2, <3>3
  <2> QED
    BY <1>1, <1>3, <2>1, <2>2 DEF Reserving
<1>4. Head(pipe).id \in known /\ \A k \in 1 .. Len(pipe') : pipe'[k].id \in known
  BY <1>1, <1>2 DEF IdsKnown
<1>5. ASSUME UNCHANGED <<slotVars, threadVars, known, lastId>>  PROVE Reserving'
  <2>1. \A t \in Threads : Reserves(t)' <=> Reserves(t)
    BY <1>5 DEF Reserves
  <2>2. ASSUME NEW t \in Threads, Reserves(t)
        PROVE  /\ type = "RESERVE" /\ call[t].id = lastId /\ lastId \notin known
               /\ \A r \in Threads : Reserves(r) => r = t
               /\ \A k \in 1 .. Len(pipe') : pipe'[k].op # "O"
               /\ pc[t] = "reserved" => id # lastId
               /\ pc[t] = "open" => id = lastId /\ protocol = "UNKNOWN"
    BY <1>1, <1>2, <2>2 DEF Reserving
  <2>3. ASSUME NEW k \in 1 .. Len(pipe'), pipe'[k].op = "O"
        PROVE  /\ type = "RESERVE" /\ id = lastId /\ pipe'[k].id = lastId
               /\ protocol = "UNKNOWN"
               /\ \A j \in 1 .. Len(pipe') : j < k => pipe'[j].id # lastId
               /\ \A j \in 1 .. Len(pipe') : pipe'[j].op = "O" => j = k
    <3>1. k + 1 \in 1 .. Len(pipe) /\ pipe[k + 1].op = "O" /\ pipe'[k] = pipe[k + 1]
      BY <1>2, <2>3
    <3>2. /\ type = "RESERVE" /\ id = lastId /\ pipe[k + 1].id = lastId
          /\ protocol = "UNKNOWN"
          /\ \A j \in 1 .. Len(pipe) : j < k + 1 => pipe[j].id # lastId
          /\ \A j \in 1 .. Len(pipe) : pipe[j].op = "O" => j = k + 1
      BY <1>1, <3>1 DEF Reserving
    <3>3. ASSUME NEW j \in 1 .. Len(pipe')
          PROVE  /\ j < k => pipe'[j].id # lastId
                 /\ pipe'[j].op = "O" => j = k
      <4>1. j + 1 \in 1 .. Len(pipe) /\ pipe'[j] = pipe[j + 1]
        BY <1>2
      <4>2. j \in Int /\ k \in Int
        OBVIOUS
      <4> QED
        BY <3>2, <4>1, <4>2
    <3> QED
      BY <3>1, <3>2, <3>3
  <2>4. ASSUME type = "RESERVE"
        PROVE  \/ \E t \in Threads : Reserves(t)
               \/ \E k \in 1 .. Len(pipe') : pipe'[k].op = "O"
    <3>1. CASE \E k \in 1 .. Len(pipe) : pipe[k].op = "O"
      <4>1. PICK k \in 1 .. Len(pipe) : pipe[k].op = "O"
        BY <3>1
      <4>2. k # 1
        BY <1>1, <1>2, <4>1
      <4> QED
        BY <1>2, <4>1, <4>2
    <3> QED
      BY <1>1, <2>4, <3>1 DEF Reserving
  <2> QED
    BY <1>5, <2>1, <2>2, <2>3, <2>4 DEF Reserving
<1>6. ASSUME type # "RESERVE", type' # "RESERVE", UNCHANGED <<threadVars>>  PROVE Reserving'
  <2>1. /\ \A t \in Threads : ~Reserves(t)
        /\ \A k \in 1 .. Len(pipe) : pipe[k].op # "O"
    BY <1>1, <1>6, NobodyReserves
  <2>2. \A t \in Threads : ~Reserves(t)'
    BY <1>6, <2>1 DEF Reserves
  <2>3. \A k \in 1 .. Len(pipe') : pipe'[k].op # "O"
    BY <1>2, <2>1
  <2> QED
    BY <1>6, <2>2, <2>3 DEF Reserving
<1> QED
  BY <1>3, <1>4, <1>5, <1>6

(* Units of messages to one connection.                                    *)
AllOf(units, i) == \A p \in 1 .. Len(units) : units[p][1].id = i

(* So are those of one such buffer,                                        *)
LEMMA UnitsAll ==
  ASSUME NEW m
  PROVE  AllOf(Units(m), m.id)
<1>1. Len(Units(m)) = Size /\ \A p \in 1 .. Size : Units(m)[p] = <<m, p>>
  BY UnitsOf
<1>2. \A p \in 1 .. Size : Units(m)[p][1].id = m.id
  BY <1>1
<1> QED
  BY <1>1, <1>2 DEF AllOf

(* the parts of such a list,                                               *)
LEMMA CutAll ==
  ASSUME NEW S, NEW s \in Seq(S), NEW k \in 0 .. Len(s), NEW i, AllOf(s, i)
  PROVE  AllOf(Taken(s, k), i) /\ AllOf(Left(s, k), i)
<1> DEFINE t == Taken(s, k)
           l == Left(s, k)
<1>1. /\ Len(t) = k /\ Len(l) = Len(s) - k
      /\ \A p \in 1 .. k : t[p] = s[p]
      /\ \A p \in 1 .. Len(s) - k : l[p] = s[k + p]
  BY Cut, SMTT(30)
<1> HIDE DEF t, l
<1>2. Len(s) \in Nat /\ k \in Nat /\ k <= Len(s)
  OBVIOUS
<1>3. \A p \in 1 .. k : p \in 1 .. Len(s)
  BY <1>2
<1>4. \A p \in 1 .. Len(s) - k : k + p \in 1 .. Len(s)
  BY <1>2
<1>5. \A p \in 1 .. Len(t) : t[p][1].id = i
  BY <1>1, <1>3 DEF AllOf
<1>6. \A p \in 1 .. Len(l) : l[p][1].id = i
  BY <1>1, <1>4 DEF AllOf
<1> QED
  BY <1>5, <1>6 DEF AllOf, t, l

(* and two such lists together.                                            *)
LEMMA JoinAll ==
  ASSUME NEW S, NEW s \in Seq(S), NEW T, NEW u \in Seq(T), NEW i,
         AllOf(s, i), AllOf(u, i)
  PROVE  AllOf(s \o u, i)
<1>1. s \in Seq(S \cup T) /\ u \in Seq(S \cup T)
  BY Wider
<1>2. /\ Len(s \o u) = Len(s) + Len(u) /\ Len(s) \in Nat /\ Len(u) \in Nat
      /\ \A p \in 1 .. Len(s) : (s \o u)[p] = s[p]
      /\ \A p \in 1 .. Len(u) : (s \o u)[Len(s) + p] = u[p]
  BY <1>1, Joined
<1>3. ASSUME NEW p \in 1 .. Len(s \o u)  PROVE (s \o u)[p][1].id = i
  <2>1. p \in 1 .. Len(s) \/ (p - Len(s) \in 1 .. Len(u) /\ Len(s) + (p - Len(s)) = p)
    BY <1>2
  <2>2. CASE p \in 1 .. Len(s)
    BY <1>2, <2>2 DEF AllOf
  <2>3. CASE p - Len(s) \in 1 .. Len(u) /\ Len(s) + (p - Len(s)) = p
    <3>1. (s \o u)[Len(s) + (p - Len(s))] = u[p - Len(s)]
      BY <1>2, <2>3
    <3> QED
      BY <2>3, <3>1 DEF AllOf
  <2> QED
    BY <2>1, <2>2, <2>3
<1> QED
  BY <1>3 DEF AllOf

(* can_direct_write() reads the id and the lists, the first or the second  *)
(* time: keeps Settled.                                                    *)
LEMMA ReadsListsSettled ==
  ASSUME Base, Settled, NEW t \in Threads, NEW place \in {"try", "locked"},
         NEW next \in {"tryrest", "lockedrest"},
         place = "try" <=> next = "tryrest", ReadsLists(t, place, next)
  PROVE  Settled'
<1>1. HandsTyped /\ HandsSound /\ Hand(t) /\ IdsKnown /\ Held /\ Own /\ Idle /\ pc[t] = place
  BY DEF Base, Settled, HandsSound, ReadsLists, At
<1>2. (IF DirectOnLists(call[t]) THEN next ELSE
          IF place = "try" THEN "ref" ELSE "refused") \in PcPlaces /\ GoesTo(t, (IF DirectOnLists(call[t]) THEN next ELSE
          IF place = "try" THEN "ref" ELSE "refused"))
  BY DEF PcPlaces, ReadsLists, At
<1>3. /\ pc'[t] = (IF DirectOnLists(call[t]) THEN next ELSE
          IF place = "try" THEN "ref" ELSE "refused") /\ call' = call
      /\ \A r \in Threads \ {t} : pc'[r] = pc[r] /\ call'[r] = call[r]
  BY <1>1, <1>2, InHandTyped
<1>4. pc'[t] \in Sends => call'[t].id \in known
  BY <1>1, <1>3 DEF IdsKnown, Sends, Direct, HoldsLock, ReadsLists, At
<1>5. /\ pc'[t] \in {"locked", "lockedrest"} => type \in {"CONNECTED", "HALFCLOSE"}
      /\ pc'[t] = "lockedrest" => call'[t].id = id
  BY <1>1, <1>3 DEF Held, ReadsLists, At, DirectOnLists
<1>6. ~Reserves(t) /\ ~Reserves(t)'
  BY <1>1, <1>3 DEF Reserves, ReadsLists, At
<1>7. Own' /\ Idle'
  BY <1>1 DEF Own, Idle, Live, ReadsLists, At
<1> QED
  BY <1>3, <1>4, <1>5, <1>6, <1>7, ThreadSettled DEF ReadsLists, At

(* can_direct_write() reads the rest, and socket_trylock() follows: keeps  *)
(* Settled.                                                                *)
LEMMA TryLockSettled ==
  ASSUME Base, Settled, NEW t \in Threads, TryLock(t)
  PROVE  Settled'
<1>1. HandsTyped /\ HandsSound /\ Hand(t) /\ IdsKnown /\ Held /\ Own /\ Idle /\ pc[t] = "tryrest"
  BY DEF Base, Settled, HandsSound, TryLock, At
<1>2. (IF TestAndLock THEN "locked" ELSE "ref") \in PcPlaces /\ GoesTo(t, (IF TestAndLock THEN "locked" ELSE "ref"))
  BY DEF PcPlaces, TryLock, At
<1>3. /\ pc'[t] = (IF TestAndLock THEN "locked" ELSE "ref") /\ call' = call
      /\ \A r \in Threads \ {t} : pc'[r] = pc[r] /\ call'[r] = call[r]
  BY <1>1, <1>2, InHandTyped
<1>4. pc'[t] \in Sends => call'[t].id \in known
  BY <1>1, <1>3 DEF IdsKnown, Sends, Direct, HoldsLock, TryLock, At
<1>5. /\ pc'[t] \in {"locked", "lockedrest"} => type \in {"CONNECTED", "HALFCLOSE"}
      /\ pc'[t] = "lockedrest" => call'[t].id = id
  BY <1>3 DEF TestAndLock, DirectOnRest
<1>6. ~Reserves(t) /\ ~Reserves(t)'
  BY <1>1, <1>3 DEF Reserves, TryLock, At
<1>7. Own' /\ Idle'
  BY <1>1 DEF Own, Idle, Live, TryLock, At
<1> QED
  BY <1>3, <1>4, <1>5, <1>6, <1>7, ThreadSettled DEF TryLock, At

(* The second test under dw_lock fails: keeps Settled.                     *)
LEMMA NoDirectWriteSettled ==
  ASSUME Base, Settled, NEW t \in Threads, NoDirectWrite(t)
  PROVE  Settled'
<1>1. HandsTyped /\ HandsSound /\ Hand(t) /\ IdsKnown /\ Held /\ Own /\ Idle /\ pc[t] = "lockedrest"
  BY DEF Base, Settled, HandsSound, NoDirectWrite, At
<1>2. "refused" \in PcPlaces /\ GoesTo(t, "refused")
  BY DEF PcPlaces, NoDirectWrite, At
<1>3. /\ pc'[t] = "refused" /\ call' = call
      /\ \A r \in Threads \ {t} : pc'[r] = pc[r] /\ call'[r] = call[r]
  BY <1>1, <1>2, InHandTyped
<1>4. pc'[t] \in Sends => call'[t].id \in known
  BY <1>1, <1>3 DEF IdsKnown, Sends, Direct, HoldsLock, NoDirectWrite, At
<1>5. /\ pc'[t] \in {"locked", "lockedrest"} => type \in {"CONNECTED", "HALFCLOSE"}
      /\ pc'[t] = "lockedrest" => call'[t].id = id
  BY <1>1, <1>3 DEF Held, NoDirectWrite, At
<1>6. ~Reserves(t) /\ ~Reserves(t)'
  BY <1>1, <1>3 DEF Reserves, NoDirectWrite, At
<1>7. Own' /\ Idle'
  BY <1>1 DEF Own, Idle, Live, NoDirectWrite, At
<1> QED
  BY <1>3, <1>4, <1>5, <1>6, <1>7, ThreadSettled DEF NoDirectWrite, At

(* inc_sending_ref() keeps Settled.                                        *)
LEMMA IncSendingRefSettled ==
  ASSUME Base, Settled, NEW t \in Threads, IncSendingRef(t)
  PROVE  Settled'
<1>1. HandsTyped /\ HandsSound /\ Hand(t) /\ IdsKnown /\ Held /\ Own /\ Idle /\ pc[t] = "ref"
  BY DEF Base, Settled, HandsSound, IncSendingRef, At
<1>2. "push" \in PcPlaces /\ GoesTo(t, "push")
  BY DEF PcPlaces, IncSendingRef, At
<1>3. /\ pc'[t] = "push" /\ call' = call
      /\ \A r \in Threads \ {t} : pc'[r] = pc[r] /\ call'[r] = call[r]
  BY <1>1, <1>2, InHandTyped
<1>4. pc'[t] \in Sends => call'[t].id \in known
  BY <1>1, <1>3 DEF IdsKnown, Sends, Direct, HoldsLock, IncSendingRef, At
<1>5. /\ pc'[t] \in {"locked", "lockedrest"} => type \in {"CONNECTED", "HALFCLOSE"}
      /\ pc'[t] = "lockedrest" => call'[t].id = id
  BY <1>1, <1>3 DEF Held, IncSendingRef, At
<1>6. ~Reserves(t) /\ ~Reserves(t)'
  BY <1>1, <1>3 DEF Reserves, IncSendingRef, At
<1>7. Own' /\ Idle'
  BY <1>1 DEF Own, Idle, Live, IncSendingRef, At
<1> QED
  BY <1>3, <1>4, <1>5, <1>6, <1>7, ThreadSettled DEF IncSendingRef, At

(* socket_unlock() after a direct write or a refusal: keeps Settled.       *)
LEMMA UnlockSettled ==
  ASSUME Base, Settled, NEW t \in Threads, Unlock(t)
  PROVE  Settled'
<1>1. HandsTyped /\ HandsSound /\ Hand(t) /\ IdsKnown /\ Own /\ Idle
      /\ pc[t] \in {"written", "left", "refused"}
  BY DEF Base, Settled, HandsSound, Unlock
<1> DEFINE place == IF At(t, "refused") THEN "ref" ELSE "out"
<1>2. place \in {"ref", "out"} /\ (GoesTo(t, place) \/ (Returns(t) /\ place = "out"))
  BY DEF Unlock
<1> HIDE DEF place
<1>3. place \in PcPlaces
  BY <1>2 DEF PcPlaces
<1>4. /\ pc'[t] = place /\ (place = "ref" => call' = call)
      /\ \A r \in Threads \ {t} : pc'[r] = pc[r] /\ call'[r] = call[r]
  BY <1>1, <1>2, <1>3, InHandTyped
<1>5. pc'[t] \in Sends => call'[t].id \in known
  BY <1>1, <1>2, <1>4 DEF IdsKnown, Sends, Direct, HoldsLock
<1>6. pc'[t] \notin {"locked", "lockedrest"} /\ ~Reserves(t) /\ ~Reserves(t)'
  BY <1>1, <1>2, <1>4 DEF Reserves
<1>7. Own' /\ Idle'
  BY <1>1 DEF Own, Idle, Live, Unlock
<1> QED
  BY <1>4, <1>5, <1>6, <1>7, ThreadSettled DEF Unlock

(* A caller writes to the fd itself and leaves the rest in dw_buffer:      *)
(* keeps Settled.                                                          *)
LEMMA DirectWriteSettled ==
  ASSUME Base, Settled, NEW t \in Threads, DirectWrite(t)
  PROVE  Settled'
<1>1. /\ HandsTyped /\ HandsSound /\ Hand(t) /\ IdsKnown /\ Own /\ Idle /\ Tagged /\ Held
      /\ ListsTyped /\ pc[t] = "lockedrest" /\ type = "CONNECTED"
  BY DEF Base, Settled, HandsSound, DirectWrite, DirectOnRest, At
<1>2. PICK n \in 0 .. Size :
        /\ wire' = wire \o Taken(Units(call[t]), n)
        /\ dwBuffer' = Left(Units(call[t]), n)
        /\ GoesTo(t, IF n = Size THEN "written" ELSE "left")
  BY DEF DirectWrite
<1> DEFINE place == IF n = Size THEN "written" ELSE "left"
<1>3. place \in {"written", "left"} /\ GoesTo(t, place)
  BY <1>2
<1> HIDE DEF place
<1>4. place \in PcPlaces /\ place # "out"
  BY <1>3 DEF PcPlaces
<1>5. /\ pc'[t] = place /\ call' = call
      /\ \A r \in Threads \ {t} : pc'[r] = pc[r] /\ call'[r] = call[r]
  BY <1>1, <1>3, <1>4, InHandTyped
<1>6. call[t].id = tag /\ call[t].id \in known
  BY <1>1 DEF Held, Tagged, Live, IdsKnown, Sends, Direct, HoldsLock
<1>7. Own' /\ Idle'
  <2>1. /\ Units(call[t]) \in Seq({call[t]} \X (1 .. Size)) /\ Len(Units(call[t])) = Size
    BY UnitsOf
  <2>2. wire \in Seq(Buffer)
    BY <1>1 DEF ListsTyped
  <2>3. AllOf(Units(call[t]), tag)
    BY <1>6, UnitsAll
  <2>4. AllOf(Taken(Units(call[t]), n), tag) /\ AllOf(Left(Units(call[t]), n), tag)
    BY <2>1, <2>3, CutAll
  <2>5. Taken(Units(call[t]), n) \in Seq({call[t]} \X (1 .. Size))
    BY <2>1, Cut
  <2>6. AllOf(wire, tag)
    BY <1>1 DEF Own, AllOf
  <2>7. AllOf(wire \o Taken(Units(call[t]), n), tag)
    BY <2>2, <2>4, <2>5, <2>6, JoinAll
  <2>8. Own'
    BY <1>1, <1>2, <2>4, <2>7 DEF Own, AllOf, DirectWrite
  <2>9. Idle'
    BY <1>1 DEF Idle, Live, DirectWrite, AskForRest, SpWrite
  <2> QED
    BY <2>8, <2>9
<1>8. ~Reserves(t) /\ ~Reserves(t)' /\ pc'[t] \notin {"locked", "lockedrest"}
  BY <1>1, <1>3, <1>5 DEF Reserves
<1> QED
  BY <1>5, <1>6, <1>7, <1>8, ThreadSettled DEF DirectWrite

(* send() finds its socket: keeps Settled.                                 *)
LEMMA SendSettled ==
  ASSUME Base, Settled, NEW t \in Threads, Send(t)
  PROVE  Settled'
<1>1. HandsTyped /\ IdsKnown /\ Own /\ Idle
  BY DEF Base, Settled
<1>2. PICK op \in {"D", "P"}, i \in SendTo :
        /\ Begins(t, op) /\ id = i
        /\ Enters(t, NewCall(t, op, i), IF op = "D" THEN "try" ELSE "ref")
  BY DEF Send
<1>3. i \in known /\ pc[t] = "out"
  BY <1>1, <1>2 DEF IdsKnown, Begins, SendTo
<1> DEFINE c == NewCall(t, op, i)
           place == IF op = "D" THEN "try" ELSE "ref"
<1>4. call' = [call EXCEPT ![t] = c] /\ pc' = [pc EXCEPT ![t] = place]
  BY <1>2 DEF Enters
<1>5. place \in {"try", "ref"} /\ c.id = i
  BY DEF NewCall
<1> HIDE DEF c, place
<1>6. /\ \A r \in Threads \ {t} : pc'[r] = pc[r] /\ call'[r] = call[r]
      /\ pc'[t] = place /\ call'[t] = c
  BY <1>1, <1>4 DEF HandsTyped
<1>7. Own' /\ Idle'
  BY <1>1 DEF Own, Idle, Live, Send
<1>8. ~Reserves(t) /\ ~Reserves(t)' /\ pc'[t] \notin {"locked", "lockedrest"}
      /\ call'[t].id \in known
  BY <1>3, <1>5, <1>6 DEF Reserves
<1> QED
  BY <1>6, <1>7, <1>8, ThreadSettled DEF Send

(* send() to a socket that is not there any more: keeps Settled.           *)
LEMMA SendGoneSettled ==
  ASSUME Base, Settled, NEW t \in Threads, SendGone(t)
  PROVE  Settled'
<1>1. Own' /\ Idle' /\ OnResult'
  BY DEF Settled, Own, Idle, Live, OnResult, SendGone
<1>2. Reserving' /\ IdsKnown'
  BY DEF Settled, Reserving, IdsKnown, Live, Reserves, SendGone
<1>3. Tagged' /\ Held'
  BY DEF Settled, Tagged, Held, Live, SendGone
<1> QED
  BY <1>1, <1>2, <1>3 DEF Settled

(* reserve_id() takes a slot: keeps Settled.                               *)
LEMMA ReserveSettled ==
  ASSUME Base, Settled, NEW t \in Threads, Reserve(t)
  PROVE  Settled'
<1> DEFINE c == NewCall(t, "O", lastId + 1)
<1>1. lastId \in Nat /\ lastId' = lastId + 1 /\ lastId' \in 1 .. lastId'
  BY DEF Base, SlotTyped, Reserve
<1>2. HandsTyped /\ Reserving /\ IdsKnown /\ pc[t] = "out" /\ type = "INVALID" /\ type' = "RESERVE"
  BY DEF Base, Settled, Reserve, Begins
<1>3. call' = [call EXCEPT ![t] = c] /\ pc' = [pc EXCEPT ![t] = "reserved"]
      /\ c.id = lastId'
  BY <1>1 DEF Reserve, Enters, NewCall
<1> HIDE DEF c
<1>4. /\ \A r \in Threads \ {t} : pc'[r] = pc[r] /\ call'[r] = call[r]
      /\ pc'[t] = "reserved" /\ call'[t] = c
  BY <1>2, <1>3 DEF HandsTyped
<1>5. /\ \A r \in Threads : ~Reserves(r)
      /\ \A k \in 1 .. Len(pipe) : pipe[k].op # "O"
  BY <1>2, NobodyReserves
<1>6. known \subseteq 1 .. lastId /\ opened \subseteq known /\ id \in 0 .. lastId
      /\ tag \in 0 .. lastId
  BY <1>2 DEF IdsKnown
<1>7. lastId' \notin known /\ id # lastId' /\ tag # lastId'
      /\ known \subseteq 1 .. lastId' /\ id \in 0 .. lastId' /\ tag \in 0 .. lastId'
  BY <1>1, <1>6
<1>8. Reserving'
  <2>1. \A r \in Threads : Reserves(r)' <=> r = t
    BY <1>4, <1>5 DEF Reserves
  <2>2. UNCHANGED <<known, pipe>>
    BY DEF Reserve
  <2> QED
    BY <1>2, <1>3, <1>4, <1>5, <1>7, <2>1, <2>2 DEF Reserving, Reserve
<1>9. IdsKnown'
  BY <1>2, <1>4, <1>6, <1>7 DEF IdsKnown, Live, Reserve, Sends, Direct, HoldsLock
<1>10. Tagged'
  BY <1>2 DEF Settled, Tagged, Live, Reserve
<1>11. OnResult'
  BY <1>2 DEF Settled, OnResult, Live, Reserve
<1>12. Held'
  BY <1>2, <1>4 DEF Settled, Held, Reserve
<1>13. Own' /\ Idle'
  BY DEF Settled, Own, Idle, Live, Reserve
<1> QED
  BY <1>8, <1>9, <1>10, <1>11, <1>12, <1>13 DEF Settled

(* reserve_id() names its slot: keeps Settled.                             *)
LEMMA NameSlotSettled ==
  ASSUME Base, Settled, NEW t \in Threads, NameSlot(t)
  PROVE  Settled'
<1>1. HandsTyped /\ HandsSound /\ Reserving /\ IdsKnown /\ pc[t] = "reserved" /\ Reserves(t)
  BY DEF Base, Settled, NameSlot, At, Reserves
<1>2. "open" \in PcPlaces /\ GoesTo(t, "open")
  BY DEF PcPlaces, NameSlot
<1>3. /\ pc'[t] = "open" /\ call' = call
      /\ \A r \in Threads \ {t} : pc'[r] = pc[r] /\ call'[r] = call[r]
  BY <1>1, <1>2, InHandTyped
<1>4. /\ type = "RESERVE" /\ call[t].id = lastId /\ lastId \notin known
      /\ \A r \in Threads : Reserves(r) => r = t
      /\ \A k \in 1 .. Len(pipe) : pipe[k].op # "O"
  BY <1>1 DEF Reserving
<1>5. id' = lastId /\ protocol' = "UNKNOWN" /\ lastId' = lastId /\ type' = type
      /\ pipe' = pipe /\ known' = known
  BY <1>4 DEF NameSlot
<1>6. Reserving'
  <2>1. \A r \in Threads : Reserves(r)' <=> Reserves(r)
    BY <1>1, <1>3 DEF Reserves
  <2> QED
    BY <1>1, <1>3, <1>4, <1>5, <2>1 DEF Reserving
<1>7. IdsKnown'
  <2>1. lastId' \in 0 .. lastId'
    BY <1>5 DEF Base, SlotTyped
  <2> QED
    BY <1>1, <1>3, <1>4, <1>5, <2>1 DEF IdsKnown, Live, NameSlot, Sends, Direct, HoldsLock
<1>8. Tagged' /\ OnResult'
  BY <1>4, <1>5 DEF Settled, Tagged, OnResult, Live, NameSlot
<1>9. Held'
  BY <1>3, <1>4, <1>5 DEF Settled, Held
<1>10. Own' /\ Idle'
  BY DEF Settled, Own, Idle, Live, NameSlot
<1> QED
  BY <1>6, <1>7, <1>8, <1>9, <1>10 DEF Settled

(* The OPEN command goes into the pipe: keeps Settled.                     *)
LEMMA SendOpenSettled ==
  ASSUME Base, Settled, NEW t \in Threads, SendOpen(t)
  PROVE  Settled'
<1>1. HandsTyped /\ HandsSound /\ Hand(t) /\ Reserving /\ IdsKnown /\ pc[t] = "open" /\ Reserves(t)
      /\ PipeTyped
  BY DEF Base, Settled, HandsSound, SendOpen, At, Reserves
<1>2. "out" \in PcPlaces /\ Returns(t) /\ call[t].op = "O"
  BY <1>1 DEF PcPlaces, SendOpen, Hand
<1>3. /\ pc'[t] = "out"
      /\ \A r \in Threads \ {t} : pc'[r] = pc[r] /\ call'[r] = call[r]
  BY <1>1, <1>2, InHandTyped
<1>4. /\ type = "RESERVE" /\ call[t].id = lastId /\ lastId \notin known
      /\ \A r \in Threads : Reserves(r) => r = t
      /\ \A k \in 1 .. Len(pipe) : pipe[k].op # "O"
      /\ id = lastId /\ protocol = "UNKNOWN"
  BY <1>1 DEF Reserving
<1>5. /\ pipe' = Append(pipe, call[t]) /\ known' = known \cup {lastId}
      /\ UNCHANGED <<slotVars, tag, pollVars, opened, lastId>>
  BY <1>4 DEF SendOpen
<1>6. /\ Len(pipe) \in Nat /\ Len(pipe') = Len(pipe) + 1
      /\ \A k \in 1 .. Len(pipe) : pipe'[k] = pipe[k] /\ k \in 1 .. Len(pipe')
      /\ pipe'[Len(pipe) + 1] = call[t] /\ Len(pipe) + 1 \in 1 .. Len(pipe')
      /\ \A k \in 1 .. Len(pipe') : k \in 1 .. Len(pipe) \/ k = Len(pipe) + 1
  BY <1>1, <1>5, Appended
<1>7. \A k \in 1 .. Len(pipe) : pipe[k].id \in known
  BY <1>1 DEF IdsKnown
<1>8. Reserving'
  <2>1. \A r \in Threads : ~Reserves(r)'
    BY <1>3, <1>4 DEF Reserves
  <2>2. ASSUME NEW k \in 1 .. Len(pipe'), pipe'[k].op = "O"
        PROVE  /\ type' = "RESERVE" /\ id' = lastId' /\ pipe'[k].id = lastId'
               /\ protocol' = "UNKNOWN"
               /\ \A j \in 1 .. Len(pipe') : j < k => pipe'[j].id # lastId'
               /\ \A j \in 1 .. Len(pipe') : pipe'[j].op = "O" => j = k
    <3>1. k = Len(pipe) + 1
      BY <1>4, <1>6, <2>2
    <3>2. \A j \in 1 .. Len(pipe') : j < k => j \in 1 .. Len(pipe)
      BY <1>6, <3>1
    <3> QED
      BY <1>4, <1>5, <1>6, <1>7, <3>1, <3>2
  <2>3. \E k \in 1 .. Len(pipe') : pipe'[k].op = "O"
    BY <1>2, <1>6
  <2> QED
    BY <2>1, <2>2, <2>3 DEF Reserving
<1>9. IdsKnown'
  <2>1. lastId \in 1 .. lastId
    BY <1>1, <1>4 DEF Base, SlotTyped, Hand, Calls, Ids
  <2>2. \A k \in 1 .. Len(pipe') : pipe'[k].id \in known'
    BY <1>4, <1>5, <1>6, <1>7
  <2>3. \A r \in Threads : pc'[r] \in Sends => call'[r].id \in known'
    BY <1>1, <1>3, <1>5 DEF IdsKnown, Sends, Direct, HoldsLock
  <2> QED
    BY <1>1, <1>5, <2>1, <2>2, <2>3 DEF IdsKnown, Live
<1>10. Tagged' /\ OnResult'
  BY <1>5 DEF Settled, Tagged, OnResult, Live
<1>11. Held'
  BY <1>3, <1>5 DEF Settled, Held
<1>12. Own' /\ Idle'
  BY DEF Settled, Own, Idle, Live, SendOpen
<1> QED
  BY <1>8, <1>9, <1>10, <1>11, <1>12 DEF Settled

(* A command that is not an open, put into the pipe by a thread.           *)
LEMMA PushSettled ==
  ASSUME Base, Settled, NEW t \in Threads, NEW c \in Calls, c.op # "O", c.id \in known,
         pipe' = Append(pipe, c),
         \A r \in Threads \ {t} : pc'[r] = pc[r] /\ call'[r] = call[r],
         ~Reserves(t), pc'[t] = "out",
         UNCHANGED <<slotVars, tag, pollVars, known, opened, lastId>>, Own', Idle'
  PROVE  Settled'
<1>1. Reserving /\ IdsKnown /\ PipeTyped
  BY DEF Base, Settled
<1>2. /\ Len(pipe) \in Nat /\ Len(pipe') = Len(pipe) + 1
      /\ \A k \in 1 .. Len(pipe) : pipe'[k] = pipe[k] /\ k \in 1 .. Len(pipe')
      /\ pipe'[Len(pipe) + 1] = c /\ Len(pipe) + 1 \in 1 .. Len(pipe')
      /\ \A k \in 1 .. Len(pipe') : k \in 1 .. Len(pipe) \/ k = Len(pipe) + 1
  BY <1>1, Appended
<1>3. Reserving'
  <2>1. \A r \in Threads : Reserves(r)' <=> Reserves(r)
    BY DEF Reserves
  <2>2. ASSUME NEW r \in Threads, Reserves(r)
        PROVE  /\ type = "RESERVE" /\ call'[r].id = lastId /\ lastId \notin known
               /\ \A q \in Threads : Reserves(q) => q = r
               /\ \A k \in 1 .. Len(pipe') : pipe'[k].op # "O"
               /\ pc'[r] = "reserved" => id # lastId
               /\ pc'[r] = "open" => id = lastId /\ protocol = "UNKNOWN"
    <3>1. r # t
      BY <2>2
    <3> QED
      BY <1>1, <1>2, <2>2, <3>1 DEF Reserving
  <2>3. ASSUME NEW k \in 1 .. Len(pipe'), pipe'[k].op = "O"
        PROVE  /\ type = "RESERVE" /\ id = lastId /\ pipe'[k].id = lastId
               /\ protocol = "UNKNOWN"
               /\ \A j \in 1 .. Len(pipe') : j < k => pipe'[j].id # lastId
               /\ \A j \in 1 .. Len(pipe') : pipe'[j].op = "O" => j = k
    <3>1. k \in 1 .. Len(pipe) /\ pipe[k].op = "O" /\ pipe'[k] = pipe[k]
      BY <1>2, <2>3
    <3>2. /\ type = "RESERVE" /\ id = lastId /\ pipe[k].id = lastId
          /\ protocol = "UNKNOWN"
          /\ \A j \in 1 .. Len(pipe) : j < k => pipe[j].id # lastId
          /\ \A j \in 1 .. Len(pipe) : pipe[j].op = "O" => j = k
      BY <1>1, <3>1 DEF Reserving
    <3>3. \A j \in 1 .. Len(pipe') : j < k => j \in 1 .. Len(pipe)
      BY <1>2, <3>1
    <3>4. \A j \in 1 .. Len(pipe') : pipe'[j].op = "O" => j \in 1 .. Len(pipe)
      BY <1>2
    <3> QED
      BY <1>2, <3>1, <3>2, <3>3, <3>4
  <2>4. type = "RESERVE" => \/ \E r \in Threads : Reserves(r)
                            \/ \E k \in 1 .. Len(pipe') : pipe'[k].op = "O"
    BY <1>1, <1>2 DEF Reserving
  <2> QED
    BY <2>1, <2>2, <2>3, <2>4 DEF Reserving
<1>4. IdsKnown'
  <2>1. \A k \in 1 .. Len(pipe') : pipe'[k].id \in known
    BY <1>1, <1>2 DEF IdsKnown
  <2>2. \A r \in Threads : pc'[r] \in Sends => call'[r].id \in known
    BY <1>1 DEF IdsKnown, Sends, Direct, HoldsLock
  <2> QED
    BY <1>1, <2>1, <2>2 DEF IdsKnown, Live
<1>5. Tagged' /\ OnResult'
  BY DEF Settled, Tagged, OnResult, Live
<1>6. Held'
  BY DEF Settled, Held
<1> QED
  BY <1>3, <1>4, <1>5, <1>6 DEF Settled

(* start(), close() and shutdown() put a command into the pipe: keeps      *)
(* Settled.                                                                *)
LEMMA RequestSettled ==
  ASSUME Base, Settled, NEW t \in Threads, Request(t)
  PROVE  Settled'
<1>1. HandsTyped /\ ToldTyped
  BY DEF Base
<1>2. PICK op \in {"S", "K", "K1"}, i \in known :
        Begins(t, op) /\ pipe' = Append(pipe, NewCall(t, op, i))
  BY DEF Request
<1> DEFINE c == NewCall(t, op, i)
<1>7. i \in Ids /\ pc[t] = "out"
  BY <1>1, <1>2 DEF ToldTyped, Begins
<1>3. c \in Calls /\ c.op = op /\ c.id = i /\ pc[t] = "out"
  BY <1>1, <1>2, <1>7, NewCallTyped
<1>4. pipe' = Append(pipe, c)
  BY <1>2
<1> HIDE DEF c
<1>5. UNCHANGED <<pc, call>> /\ Own' /\ Idle'
  BY DEF Settled, Own, Idle, Live, Request
<1>6. ~Reserves(t)
  BY <1>3 DEF Reserves
<1> QED
  BY <1>3, <1>4, <1>5, <1>6, PushSettled DEF Request

(* send_request() puts a send into the pipe: keeps Settled.                *)
LEMMA PushSendSettled ==
  ASSUME Base, Settled, NEW t \in Threads, PushSend(t)
  PROVE  Settled'
<1>1. HandsTyped /\ HandsSound /\ Hand(t) /\ IdsKnown /\ pc[t] = "push" /\ ListsTyped
  BY DEF Base, Settled, HandsSound, PushSend, At
<1>2. "out" \in PcPlaces /\ Returns(t)
  BY DEF PcPlaces, PushSend
<1>3. /\ pc'[t] = "out"
      /\ \A r \in Threads \ {t} : pc'[r] = pc[r] /\ call'[r] = call[r]
  BY <1>1, <1>2, InHandTyped
<1>4. call[t] \in Calls /\ call[t].id \in known /\ call[t] \in sent
  BY <1>1 DEF Hand, IdsKnown, Sends
<1>5. call[t].op # "O"
  BY <1>1, <1>4 DEF ListsTyped, Messages
<1>6. pipe' = Append(pipe, call[t]) /\ Own' /\ Idle'
  BY DEF Settled, Own, Idle, Live, PushSend
<1>7. ~Reserves(t)
  BY <1>1 DEF Reserves
<1> QED
  BY <1>3, <1>4, <1>5, <1>6, <1>7, PushSettled DEF PushSend

(* open_socket() connects: keeps Settled.                                  *)
LEMMA OpenSocketSettled ==
  ASSUME Base, Settled, OpenSocket
  PROVE  Settled'
<1>1. /\ PipeTyped /\ pipe # <<>> /\ pipe' = Tail(pipe) /\ Head(pipe).op = "O"
      /\ Reserving /\ IdsKnown /\ poll = "loop" /\ result = NoResult
  BY DEF Base, Settled, PollTyped, OpenSocket, Command
<1>2. /\ \A k \in 1 .. Len(pipe') : pipe'[k] = pipe[k + 1] /\ k + 1 \in 1 .. Len(pipe)
      /\ Head(pipe) = pipe[1] /\ 1 \in 1 .. Len(pipe)
  BY <1>1, Taking
<1>3. /\ type = "RESERVE" /\ pipe[1].id = lastId /\ pipe[1].id \in known
      /\ \A j \in 1 .. Len(pipe) : pipe[j].op = "O" => j = 1
      /\ \A t \in Threads : ~Reserves(t)
  BY <1>1, <1>2 DEF Reserving, IdsKnown
<1>4. \A k \in 1 .. Len(pipe') : pipe'[k].op # "O"
  <2>1. \A k \in 1 .. Len(pipe') : k + 1 # 1
    OBVIOUS
  <2> QED
    BY <1>2, <1>3, <2>1
<1>5. /\ type' \in {"CONNECTED", "CONNECTING"} /\ id' = lastId /\ tag' = lastId
      /\ protocol' = "TCP" /\ UNCHANGED <<high, low, threadVars, known, lastId, pollVars>>
      /\ high = <<>> /\ low = <<>> /\ wire' = <<>> /\ dwBuffer' = <<>>
      /\ opened' = opened \/ opened' = opened \cup {lastId}
  BY <1>2, <1>3 DEF OpenSocket, NewFd, Opens, SendBufferEmpty
<1>6. Reserving'
  BY <1>3, <1>4, <1>5 DEF Reserving, Reserves
<1>7. IdsKnown'
  <2>1. lastId \in 0 .. lastId
    BY DEF Base, SlotTyped
  <2>2. \A k \in 1 .. Len(pipe') : pipe'[k].id \in known
    BY <1>1, <1>2 DEF IdsKnown
  <2> QED
    BY <1>1, <1>3, <1>5, <2>1, <2>2 DEF IdsKnown
<1>8. Tagged' /\ OnResult'
  BY <1>1, <1>5 DEF Tagged, OnResult
<1>9. Held'
  BY <1>3, <1>5 DEF Settled, Held
<1>10. Own' /\ Idle'
  BY <1>1, <1>5 DEF Own, Idle, Live
<1> QED
  BY <1>6, <1>7, <1>8, <1>9, <1>10 DEF Settled

(* open_socket() fails: keeps Settled.                                     *)
LEMMA OpenFailsSettled ==
  ASSUME Base, Settled, OpenFails
  PROVE  Settled'
<1>1. /\ PipeTyped /\ pipe # <<>> /\ pipe' = Tail(pipe) /\ Head(pipe).op = "O"
      /\ Reserving /\ IdsKnown
  BY DEF Base, Settled, OpenFails, Command
<1>2. /\ \A k \in 1 .. Len(pipe') : pipe'[k] = pipe[k + 1] /\ k + 1 \in 1 .. Len(pipe)
      /\ Head(pipe) = pipe[1] /\ 1 \in 1 .. Len(pipe)
  BY <1>1, Taking
<1>3. /\ type = "RESERVE" /\ \A t \in Threads : ~Reserves(t)
      /\ \A j \in 1 .. Len(pipe) : pipe[j].op = "O" => j = 1
  BY <1>1, <1>2 DEF Reserving
<1>4. \A k \in 1 .. Len(pipe') : pipe'[k].op # "O"
  <2>1. \A k \in 1 .. Len(pipe') : k + 1 # 1
    OBVIOUS
  <2> QED
    BY <1>2, <1>3, <2>1
<1>5. /\ type' = "INVALID" /\ poll' = "clear"
      /\ UNCHANGED <<id, protocol, tag, listVars, dwBuffer, watch, wire, threadVars, known, opened, lastId>>
  BY DEF OpenFails, Tells
<1>6. Reserving'
  BY <1>3, <1>4, <1>5 DEF Reserving, Reserves
<1>7. IdsKnown'
  <2>1. \A k \in 1 .. Len(pipe') : pipe'[k].id \in known
    BY <1>1, <1>2 DEF IdsKnown
  <2> QED
    BY <1>1, <1>5, <2>1 DEF IdsKnown, Live
<1>8. Tagged' /\ OnResult'
  BY <1>5 DEF Settled, Tagged, OnResult, Live
<1>9. Held'
  BY <1>3, <1>5 DEF Settled, Held
<1>10. Own' /\ Idle'
  BY <1>3, <1>5 DEF Settled, Own, Idle, Live
<1> QED
  BY <1>6, <1>7, <1>8, <1>9, <1>10 DEF Settled

(* A command that leaves the slot as it is.                                *)
LEMMA CommandQuiet ==
  ASSUME Base, Settled, ~StaleCommand, NEW op \in Operations \ {"O"}, Command(op),
         UNCHANGED <<slotVars, tag, threadVars, known, opened, lastId>>,
         OnResult', Own', Idle'
  PROVE  Settled'
<1>1. Reserving' /\ \A k \in 1 .. Len(pipe') : pipe'[k].id \in known
  BY CommandSettled
<1>2. IdsKnown'
  BY <1>1 DEF Settled, IdsKnown, Live
<1>3. Tagged' /\ Held'
  BY DEF Settled, Tagged, Held, Live
<1> QED
  BY <1>1, <1>2, <1>3 DEF Settled

(* start_socket() keeps Settled.                                           *)
LEMMA StartSocketSettled ==
  ASSUME Base, Settled, ~StaleCommand, StartSocket
  PROVE  Settled'
<1>1. "S" \in Operations \ {"O"} /\ Command("S") /\ poll = "loop" /\ result = NoResult
  BY DEF Base, PollTyped, StartSocket, Command, Operations
<1>2. /\ Head(pipe).id = id => type # "RESERVE"
      /\ Head(pipe).id \in known
      /\ \A k \in 1 .. Len(pipe') : pipe'[k].id \in known
      /\ type # "RESERVE" /\ type' # "RESERVE" /\ UNCHANGED <<threadVars>> => Reserving'
  BY <1>1, CommandSettled
<1>3. CASE Gone(Head(pipe).id)
  <2>1. /\ UNCHANGED <<slotVars, tag, threadVars, known, opened, lastId, watch>> /\ poll' = "clear"
        /\ UNCHANGED <<high, low, wire, dwBuffer>>
    BY <1>3 DEF StartSocket, Tells
  <2>2. OnResult' /\ Own' /\ Idle'
    BY <2>1 DEF Settled, OnResult, Own, Idle, Live
  <2> QED
    BY <1>1, <2>1, <2>2, CommandQuiet
<1>4. CASE ~Gone(Head(pipe).id)
  <2>1. Live /\ Head(pipe).id = id /\ type # "RESERVE"
    BY <1>2, <1>4 DEF Gone, Live
  <2>2. /\ type' = (IF type = "PACCEPT" THEN "CONNECTED" ELSE type)
        /\ UNCHANGED <<id, protocol, tag, threadVars, known, lastId, pollVars>>
        /\ UNCHANGED <<high, low, wire, dwBuffer>>
        /\ opened' = opened \/ opened' = opened \cup {id}
    BY <1>4, <2>1 DEF StartSocket, Opens
  <2>3. Live' /\ type' # "RESERVE"
    BY <2>1, <2>2 DEF Live
  <2>4. Reserving'
    BY <1>2, <2>1, <2>2, <2>3
  <2>5. IdsKnown' /\ Tagged'
    BY <1>2, <2>1, <2>2, <2>3 DEF Settled, IdsKnown, Tagged, Live
  <2>6. OnResult'
    BY <1>1, <2>2 DEF OnResult
  <2>7. Held'
    BY <2>2 DEF Settled, Held
  <2>8. Own' /\ Idle'
    BY <1>1, <2>2, <2>3 DEF Settled, Own, Idle
  <2> QED
    BY <2>4, <2>5, <2>6, <2>7, <2>8 DEF Settled
<1> QED
  BY <1>3, <1>4

(* close_socket() keeps Settled.                                           *)
LEMMA CloseSocketSettled ==
  ASSUME Base, Settled, ~StaleCommand, NEW op \in {"K", "K1"}, CloseSocket(op)
  PROVE  Settled'
<1>1. op \in Operations \ {"O"} /\ Command(op)
  BY DEF CloseSocket, Operations
<1>2. Head(pipe).id = id => type # "RESERVE"
  BY <1>1, CommandSettled
<1>3. UNCHANGED <<slotVars, tag, threadVars, known, opened, lastId, high, low, wire, dwBuffer, watch>>
  BY DEF CloseSocket, Tells
<1>4. OnResult' /\ poll' # "kill"
  BY <1>2 DEF CloseSocket, OnResult, Gone, Live
<1>5. Own' /\ Idle'
  BY <1>3, <1>4 DEF Settled, Own, Idle, Live
<1> QED
  BY <1>1, <1>3, <1>4, <1>5, CommandQuiet

(* send_socket() and dec_sending_ref() keep Settled.                       *)
LEMMA SendSocketSettled ==
  ASSUME Base, Settled, ~StaleCommand, NEW op \in {"D", "P"}, SendSocket(op)
  PROVE  Settled'
<1>1. op \in Operations \ {"O"} /\ Command(op) /\ poll = "loop"
  BY DEF SendSocket, Command, Operations
<1>2. Head(pipe).id = id => type # "RESERVE"
  BY <1>1, CommandSettled
<1>3. UNCHANGED <<slotVars, tag, threadVars, known, opened, lastId, wire, dwBuffer, pollVars>>
  BY DEF SendSocket
<1>4. OnResult'
  BY <1>3 DEF Settled, OnResult, Live
<1>5. Own' /\ Idle'
  <2>1. CASE Dropped(Head(pipe))
    BY <1>3, <2>1 DEF Settled, Own, Idle, Live, SendSocket
  <2>2. CASE ~Dropped(Head(pipe))
    <3> DEFINE u == Units(Head(pipe))
    <3>1. Live /\ Head(pipe).id = tag
      BY <1>2, <2>2 DEF Settled, Tagged, Live, Dropped, Gone
    <3>2. u \in Seq({Head(pipe)} \X (1 .. Size)) /\ AllOf(u, tag)
      BY <3>1, UnitsOf, UnitsAll
    <3>3. high \in Seq(Buffer) /\ low \in Seq(Buffer) /\ AllOf(high, tag) /\ AllOf(low, tag)
      BY DEF Base, ListsTyped, Settled, Own, AllOf
    <3>4. (high' = high \o u /\ low' = low) \/ (low' = low \o u /\ high' = high)
      BY <2>2 DEF SendSocket
    <3> HIDE DEF u
    <3>5. AllOf(high \o u, tag) /\ AllOf(low \o u, tag)
      BY <3>2, <3>3, JoinAll
    <3>6. AllOf(high', tag) /\ AllOf(low', tag)
      BY <3>3, <3>4, <3>5
    <3> QED
      BY <1>1, <1>3, <3>1, <3>6 DEF Settled, Own, AllOf, Idle, Live
  <2> QED
    BY <2>1, <2>2
<1> QED
  BY <1>1, <1>3, <1>4, <1>5, CommandQuiet

(* close_socket() closes the socket or makes it HALFCLOSE: keeps Settled.  *)
LEMMA DecideSettled ==
  ASSUME Base, Settled, Decide
  PROVE  Settled'
<1>1. poll = "decide" /\ Live /\ result.id = id
  BY DEF Base, PollTyped, Settled, OnResult, Decide
<1>2. /\ type' \in {type, "HALFCLOSE"} /\ poll' \in {"kill", "loop"}
      /\ poll' = "kill" => type' = type /\ result' = result
      /\ (high' = <<>> /\ low' = <<>> /\ watch' = "no") \/ (UNCHANGED <<high, low, watch>> /\ poll' = "loop")
      /\ UNCHANGED <<id, protocol, tag, threadVars, known, opened, pipe, lastId, wire, dwBuffer>>
  BY DEF Decide, FreeLists
<1>3. type' # "RESERVE" /\ Live'
  BY <1>1, <1>2 DEF Live
<1>4. Held'
  BY <1>2 DEF Settled, Held
<1>5. OnResult'
  BY <1>1, <1>2, <1>3 DEF OnResult
<1>6. Own' /\ Idle'
  BY <1>2, <1>3 DEF Settled, Own, Idle
<1>7. opened' \subseteq known
  BY <1>2 DEF Settled, IdsKnown
<1> QED
  BY <1>1, <1>2, <1>3, <1>4, <1>5, <1>6, <1>7, LiveSettled

(* force_close() under dw_lock: keeps Settled.                             *)
LEMMA CloseFdSettled ==
  ASSUME Base, Settled, CloseFd
  PROVE  Settled'
<1>1. poll = "kill" /\ Live /\ lock = "none" /\ poll' = "clear" /\ type' = "INVALID"
      /\ dwBuffer' = <<>>
      /\ UNCHANGED <<id, protocol, tag, threadVars, known, opened, pipe, lastId, wire, high, low, watch>>
  BY DEF Settled, OnResult, CloseFd, Tells
<1>2. Held'
  BY <1>1 DEF Base, Locked, HoldsLock, Held, Usage
<1>3. OnResult'
  BY <1>1 DEF OnResult
<1>4. Own' /\ Idle'
  BY <1>1 DEF Settled, Own, Idle
<1>5. opened' \subseteq known
  BY <1>1 DEF Settled, IdsKnown
<1> QED
  BY <1>1, <1>2, <1>3, <1>4, <1>5, LiveSettled

(* clear_closed_event() keeps Settled.                                     *)
LEMMA ClearClosedEventSettled ==
  ASSUME Base, Settled, ClearClosedEvent
  PROVE  Settled'
<1>1. /\ UNCHANGED <<slotVars, tag, threadVars, known, opened, pipe, lastId, wire, high, low, dwBuffer, watch>>
      /\ poll' = "loop"
  BY DEF ClearClosedEvent
<1>2. OnResult' /\ Own' /\ Idle'
  BY <1>1 DEF Settled, OnResult, Own, Idle, Live
<1> QED
  BY <1>1, <1>2, QuietSettled

(* send_buffer() has dw_lock: keeps Settled.                               *)
LEMMA LockForSendSettled ==
  ASSUME Base, Settled, LockForSend
  PROVE  Settled'
<1>1. /\ UNCHANGED <<slotVars, tag, threadVars, known, opened, pipe, lastId, wire, high, low, dwBuffer, watch, result>>
      /\ poll = "flush" /\ poll' \in {"send", "loop", "decide"}
      /\ poll' = "decide" => result # NoResult
  BY DEF LockForSend, NextAfterSend
<1>2. OnResult' /\ Own' /\ Idle'
  BY <1>1 DEF Settled, OnResult, Own, Idle, Live
<1> QED
  BY <1>1, <1>2, QuietSettled

(* What waits to be written is of the connection of the slot.              *)
LEMMA AllOwn ==
  ASSUME ListsTyped, Own, NEW k \in 0 .. Len(BeforeHigh \o low)
  PROVE  /\ AllOf(wire \o Taken(BeforeHigh \o low, k), tag)
         /\ AllOf(Left(BeforeHigh \o low, k), tag)
         /\ AllOf(BeforeHigh, tag)
<1>1. /\ high \in Seq(Buffer) /\ low \in Seq(Buffer) /\ dwBuffer \in Seq(Buffer)
      /\ wire \in Seq(Buffer)
  BY DEF ListsTyped
<1>2. AllOf(high, tag) /\ AllOf(low, tag) /\ AllOf(dwBuffer, tag) /\ AllOf(wire, tag)
  BY DEF Own, AllOf
<1>3. AllOf(BeforeHigh, tag) /\ BeforeHigh \in Seq(Buffer) /\ BeforeHigh \o low \in Seq(Buffer)
  BY <1>1, <1>2, JoinAll, AllTyped DEF BeforeHigh
<1>4. AllOf(BeforeHigh \o low, tag)
  BY <1>1, <1>2, <1>3, JoinAll
<1>5. AllOf(Taken(BeforeHigh \o low, k), tag) /\ AllOf(Left(BeforeHigh \o low, k), tag)
  BY <1>3, <1>4, CutAll
<1>6. Taken(BeforeHigh \o low, k) \in Seq(Buffer)
  BY <1>3, Cut
<1> QED
  BY <1>1, <1>2, <1>3, <1>5, <1>6, JoinAll

(* What is left of such lists after a write is of the connection too.      *)
LEMMA WroteOwn ==
  ASSUME ListsTyped, Own, NEW k \in 0 .. Len(BeforeHigh \o low), Wrote(k),
         tag' = tag, dwBuffer' = <<>>
  PROVE  Own'
<1> DEFINE all == BeforeHigh \o low
<1>1. AllOf(wire', tag) /\ AllOf(Left(all, k), tag) /\ AllOf(BeforeHigh, tag) /\ AllOf(low, tag)
  BY AllOwn DEF Wrote, Own, AllOf
<1>2. AllOf(high', tag) /\ AllOf(low', tag)
  <2>1. CASE k < Len(BeforeHigh)
    <3>1. BeforeHigh \in Seq(Buffer) /\ k \in 0 .. Len(BeforeHigh)
      BY <2>1, AllTyped
    <3>2. AllOf(Left(BeforeHigh, k), tag)
      BY <1>1, <3>1, CutAll
    <3> QED
      BY <1>1, <2>1, <3>2 DEF Wrote
  <2>2. CASE ~(k < Len(BeforeHigh))
    <3> DEFINE rest == Left(all, k)
               r == Raised(rest)
    <3>1. high' = Taken(rest, r) /\ low' = Left(rest, r)
      BY <2>2 DEF Wrote
    <3>2. rest \in Seq(Buffer)
      BY AllTyped, PartsTyped
    <3>3. r \in 0 .. Len(rest)
      <4>1. k >= Len(BeforeHigh)
        BY <2>2, AllTyped
      <4>2. k - Len(BeforeHigh) \in 0 .. Len(low) /\ rest = Left(low, k - Len(BeforeHigh))
        BY <4>1, RestIsLow
      <4>3. low \in Seq(sent \X (1 .. Size)) /\ Blocks(low)
        BY DEF ListsTyped, Buffer
      <4> QED
        BY <4>2, <4>3, RaisedFits
    <3>4. AllOf(rest, tag)
      BY <1>1
    <3> HIDE DEF rest, r
    <3>5. AllOf(Taken(rest, r), tag) /\ AllOf(Left(rest, r), tag)
      BY <3>2, <3>3, <3>4, CutAll
    <3> QED
      BY <3>1, <3>5
  <2> QED
    BY <2>1, <2>2
<1> QED
  BY <1>1, <1>2 DEF Own, AllOf

(* send_buffer() writes some of what waits, all of it, or ends a close.     *)
Goes(k) ==
  LET n == Len(BeforeHigh \o low) IN
  /\ Wrote(k)
  /\ \/ /\ k < n /\ poll' = NextAfterSend
        /\ UNCHANGED <<type, watch, result, toldVars>>
     \/ /\ k = n /\ type # "HALFCLOSE" /\ poll' = NextAfterSend
        /\ watch' = SpWrite(FALSE)
        /\ UNCHANGED <<type, result, toldVars>>
     \/ /\ k = n /\ type = "HALFCLOSE" /\ type' = "INVALID"
        /\ watch' = "no" /\ poll' = "clear" /\ Tells(id)
        /\ result' = [NoResult EXCEPT !.id = id]

(* SendBuffer is one of these.                                             *)
LEMMA SendBufferGoes ==
  ASSUME ListsTyped, SendBuffer
  PROVE  \E k \in 0 .. Len(BeforeHigh \o low) :
           k \in Writable(Len(BeforeHigh \o low)) /\ Goes(k)
<1> DEFINE n == Len(BeforeHigh \o low)
<1>1. n \in Nat
  BY AllTyped
<1>2. PICK k \in Writable(n) :
        /\ Wrote(k)
        /\ IF k < n
           THEN /\ poll' = NextAfterSend
                /\ UNCHANGED <<type, watch, result, toldVars>>
           ELSE IF type = "HALFCLOSE"
                THEN /\ type' = "INVALID" /\ watch' = "no"
                     /\ Tells(id)
                     /\ poll' = "clear" /\ result' = [NoResult EXCEPT !.id = id]
                ELSE /\ watch' = SpWrite(FALSE)
                     /\ poll' = NextAfterSend
                     /\ UNCHANGED <<type, result, toldVars>>
  BY DEF SendBuffer, Wrote, Free
<1>3. k \in 0 .. n
  BY <1>1 DEF Writable
<1>4. k < n \/ k = n
  BY <1>1, <1>3
<1>5. ~(k < n) => k = n
  BY <1>4
<1> HIDE DEF n
<1>6. Goes(k)
  BY <1>2, <1>5 DEF Goes, n
<1> QED
  BY <1>2, <1>3, <1>6 DEF n

(* When all is written, the lists are empty.                               *)
LEMMA AllWritten ==
  ASSUME ListsTyped, Wrote(Len(BeforeHigh \o low))
  PROVE  high' = <<>> /\ low' = <<>>
<1> DEFINE n == Len(BeforeHigh \o low)
<1>1. n \in 0 .. n /\ n \in Nat
  BY AllTyped
<1>2. /\ high' \in Seq(Buffer) /\ low' \in Seq(Buffer)
      /\ Len(high') + Len(low') = n - n
  BY <1>1, ListsLeft DEF Wrote
<1>3. Len(high') \in Nat /\ Len(low') \in Nat
  BY <1>2
<1>4. Len(high') = 0 /\ Len(low') = 0
  BY <1>1, <1>2, <1>3
<1> QED
  BY <1>2, <1>4

(* Empty lists are empty together.                                         *)
LEMMA NothingWaits ==
  ASSUME high = <<>>, low = <<>>, dwBuffer = <<>>
  PROVE  BeforeHigh = <<>> /\ BeforeHigh \o low = <<>> /\ Len(BeforeHigh \o low) = 0
  BY DEF BeforeHigh

(* send_buffer() writes what waits: keeps Settled.                         *)
LEMMA SendBufferSettled ==
  ASSUME Base, Settled, SendBuffer
  PROVE  Settled'
<1>1. ListsTyped /\ Own /\ Idle /\ OnResult /\ IdsKnown /\ poll = "send"
  BY DEF Base, Settled, SendBuffer
<1>2. PICK k \in 0 .. Len(BeforeHigh \o low) : Goes(k)
  BY <1>1, SendBufferGoes
<1>3. /\ UNCHANGED <<id, protocol, tag, threadVars, known, pipe, lastId>>
      /\ dwBuffer' = <<>>
  <2>1. dwBuffer' = <<>> /\ UNCHANGED <<id, protocol, refVars, pipe, threadVars, linkVars>>
    BY DEF SendBuffer
  <2>2. known' = known
    BY <1>2 DEF Goes, Tells
  <2> QED
    BY <2>1, <2>2
<1>4. Own'
  BY <1>1, <1>2, <1>3, WroteOwn DEF Goes
<1>5. opened' = opened
  BY <1>2 DEF Goes, Tells
<1>6. CASE UNCHANGED <<type, result>> /\ poll' = NextAfterSend /\ watch' \in {watch, SpWrite(FALSE)}
  <2>1. OnResult'
    BY <1>1, <1>3, <1>6 DEF OnResult, Live, NextAfterSend
  <2>2. Idle'
    <3>1. ASSUME ~Live  PROVE high' = <<>> /\ low' = <<>> /\ watch' = "no"
      <4>1. Len(BeforeHigh \o low) = 0 /\ watch = "no"
        BY <1>1, <3>1, NothingWaits DEF Idle
      <4>2. k = Len(BeforeHigh \o low)
        BY <4>1
      <4>3. high' = <<>> /\ low' = <<>>
        BY <1>1, <1>2, <4>2, AllWritten DEF Goes
      <4> QED
        BY <1>6, <4>1, <4>3 DEF SpWrite
    <3>2. poll' # "kill" /\ (Live' <=> Live)
      BY <1>6 DEF NextAfterSend, Live
    <3> QED
      BY <1>3, <3>1, <3>2 DEF Idle
  <2> QED
    BY <1>3, <1>4, <1>5, <1>6, <2>1, <2>2, QuietSettled
<1>7. CASE /\ k = Len(BeforeHigh \o low) /\ type = "HALFCLOSE" /\ type' = "INVALID"
           /\ watch' = "no" /\ poll' = "clear"
  <2>1. high' = <<>> /\ low' = <<>>
    BY <1>1, <1>2, <1>7, AllWritten DEF Goes
  <2>2. Idle' /\ OnResult'
    BY <1>3, <1>7, <2>1 DEF Idle, OnResult
  <2>3. Held'
    BY <1>1, <1>3 DEF Base, Locked, HoldsLock, Held
  <2>4. Live /\ type' # "RESERVE" /\ opened' \subseteq known
    BY <1>1, <1>5, <1>7 DEF Live, IdsKnown
  <2> QED
    BY <1>3, <1>4, <2>2, <2>3, <2>4, LiveSettled
<1> QED
  BY <1>2, <1>6, <1>7 DEF Goes

(* send_list_tcp() fails to write and closes: keeps Settled.               *)
LEMMA WriteFailsSettled ==
  ASSUME Base, Settled, WriteFails
  PROVE  Settled'
<1>1. ListsTyped /\ Own /\ Idle /\ IdsKnown /\ poll = "send"
  BY DEF Base, Settled, WriteFails
<1>2. PICK k \in 0 .. Len(BeforeHigh \o low) - 1 : wire' = wire \o Taken(BeforeHigh \o low, k)
  BY DEF WriteFails
<1>3. k \in 0 .. Len(BeforeHigh \o low) /\ Len(BeforeHigh \o low) # 0
  BY <1>1, <1>2, AllTyped
<1>4. Live
  BY <1>1, <1>3, NothingWaits DEF Idle
<1>5. /\ UNCHANGED <<id, protocol, tag, threadVars, known, opened, pipe, lastId>>
      /\ dwBuffer' = <<>> /\ high' = <<>> /\ low' = <<>>
      /\ type' = "INVALID" /\ watch' = "no" /\ poll' = "clear"
  BY DEF WriteFails, Tells
<1>6. AllOf(wire', tag)
  BY <1>1, <1>2, <1>3, AllOwn
<1>7. Own' /\ Idle' /\ OnResult'
  BY <1>5, <1>6 DEF Own, Idle, OnResult, AllOf
<1>8. Held'
  BY <1>1, <1>5 DEF Base, Locked, HoldsLock, Held
<1>9. opened' \subseteq known
  BY <1>1, <1>5 DEF IdsKnown
<1> QED
  BY <1>4, <1>5, <1>7, <1>8, <1>9, LiveSettled

(* report_connect() tells and asks for write events no more: keeps         *)
(* Settled.                                                                *)
LEMMA TellConnectedSettled ==
  ASSUME Base, Settled, TellConnected
  PROVE  Settled'
<1>1. Live /\ type = "CONNECTED" /\ IdsKnown
  BY DEF Settled, OnResult, Live, TellConnected
<1>2. /\ UNCHANGED <<slotVars, tag, threadVars, known, pipe, lastId, wire, high, low, dwBuffer>>
      /\ poll' = "loop" /\ opened' = opened \cup {id}
  BY DEF TellConnected, Opens
<1>3. opened' \subseteq known /\ type' # "RESERVE" /\ Live'
  BY <1>1, <1>2 DEF IdsKnown, Live
<1>4. Held'
  BY <1>2 DEF Settled, Held
<1>5. OnResult' /\ Own' /\ Idle'
  BY <1>2, <1>3 DEF Settled, OnResult, Own, Idle
<1> QED
  BY <1>1, <1>2, <1>3, <1>4, <1>5, LiveSettled

(* The end of the stream: keeps Settled.                                   *)
LEMMA EventEofSettled ==
  ASSUME Base, Settled, EventEof
  PROVE  Settled'
<1>1. /\ type # "INVALID" /\ type # "RESERVE" /\ high' = <<>> /\ low' = <<>> /\ watch' = "no"
      /\ UNCHANGED <<slotVars, tag, threadVars, known, opened, pipe, lastId, wire, dwBuffer>>
      /\ poll' = "kill" /\ result'.id = id
  BY DEF EventEof, FreeLists, NoResult
<1>2. Live /\ Live'
  BY <1>1 DEF Live
<1>3. OnResult' /\ Own' /\ Idle'
  BY <1>1, <1>2 DEF Settled, OnResult, Own, Idle
<1> QED
  BY <1>1, <1>3, QuietSettled

(* report_connect() finds an error: keeps Settled.                         *)
LEMMA ConnectFailsSettled ==
  ASSUME Base, Settled, ConnectFails
  PROVE  Settled'
<1>1. /\ type = "CONNECTING" /\ high' = <<>> /\ low' = <<>> /\ watch' = "no"
      /\ UNCHANGED <<slotVars, tag, threadVars, known, opened, pipe, lastId, wire, dwBuffer>>
      /\ poll' = "kill" /\ result'.id = id
  BY DEF ConnectFails, FreeLists, NoResult
<1>2. Live /\ Live'
  BY <1>1 DEF Live
<1>3. OnResult' /\ Own' /\ Idle'
  BY <1>1, <1>2 DEF Settled, OnResult, Own, Idle
<1> QED
  BY <1>1, <1>3, QuietSettled

(* A write event: keeps Settled.                                           *)
LEMMA EventWriteSettled ==
  ASSUME Base, Settled, EventWrite
  PROVE  Settled'
<1>1. /\ UNCHANGED <<slotVars, tag, threadVars, known, opened, pipe, lastId, wire, high, low, dwBuffer, watch>>
      /\ poll' = "flush" /\ result' = result /\ result = NoResult
  BY DEF Base, PollTyped, EventWrite, Dispatch, Dispatches
<1>2. OnResult' /\ Own' /\ Idle'
  BY <1>1 DEF Settled, OnResult, Own, Idle, Live
<1> QED
  BY <1>1, <1>2, QuietSettled

(* report_connect() finds the socket connected: keeps Settled.             *)
LEMMA ReportConnectSettled ==
  ASSUME Base, Settled, ReportConnect
  PROVE  Settled'
<1>1. /\ type = "CONNECTING" /\ type' = "CONNECTED" /\ poll' \in {"quiet", "opened"}
      /\ UNCHANGED <<id, protocol, tag, threadVars, known, opened, pipe, lastId, wire, high, low, dwBuffer, watch>>
  BY DEF ReportConnect
<1>2. Live /\ Live'
  BY <1>1 DEF Live
<1>3. OnResult' /\ Own' /\ Idle'
  BY <1>1, <1>2 DEF Settled, OnResult, Own, Idle
<1>4. Held' /\ opened' \subseteq known
  BY <1>1 DEF Settled, Held, IdsKnown
<1> QED
  BY <1>1, <1>2, <1>3, <1>4, LiveSettled

(* socket_server_poll() finds the pipe empty: keeps Settled.               *)
LEMMA NoCommandSettled ==
  ASSUME Base, Settled, NoCommand
  PROVE  Settled'
<1>1. UNCHANGED <<slotVars, tag, threadVars, known, opened, pipe, lastId, wire, high, low, dwBuffer, watch, pollVars>>
  BY DEF NoCommand
<1>2. OnResult' /\ Own' /\ Idle'
  BY <1>1 DEF Settled, OnResult, Own, Idle, Live
<1> QED
  BY <1>1, <1>2, QuietSettled

(* sp_wait() returns: keeps Settled.                                       *)
LEMMA WaitSettled ==
  ASSUME Base, Settled, NEW kind, Wait(kind)
  PROVE  Settled'
<1>1. /\ UNCHANGED <<slotVars, tag, threadVars, known, opened, pipe, lastId, wire, high, low, dwBuffer, watch>>
      /\ poll' \in {"loop", "first"}
  BY DEF Wait
<1>2. OnResult' /\ Own' /\ Idle'
  BY <1>1 DEF Settled, OnResult, Own, Idle, Live
<1> QED
  BY <1>1, <1>2, QuietSettled

(* The other side closes: keeps Settled.                                   *)
LEMMA PeerClosesSettled ==
  ASSUME Base, Settled, PeerCloses
  PROVE  Settled'
<1>1. UNCHANGED <<slotVars, tag, threadVars, known, opened, pipe, lastId, wire, high, low, dwBuffer, watch, pollVars>>
  BY DEF PeerCloses
<1>2. OnResult' /\ Own' /\ Idle'
  BY <1>1 DEF Settled, OnResult, Own, Idle, Live
<1> QED
  BY <1>1, <1>2, QuietSettled

(* report_accept() keeps Settled.                                          *)
LEMMA AcceptSettled ==
  ASSUME Base, Settled, Accept
  PROVE  Settled'
<1>1. /\ type = "INVALID" /\ lastId \in Nat /\ lastId' = lastId + 1
      /\ id' = lastId' /\ tag' = lastId' /\ protocol' = "TCP" /\ type' = "PACCEPT"
      /\ known' = known \cup {lastId'} /\ poll = "loop" /\ result = NoResult
      /\ wire' = <<>> /\ dwBuffer' = <<>> /\ high = <<>> /\ low = <<>>
      /\ UNCHANGED <<threadVars, pipe, opened, high, low, pollVars, watch>>
  BY DEF Base, SlotTyped, PollTyped, Accept, NewFd, SendBufferEmpty
<1>2. /\ \A t \in Threads : ~Reserves(t)
      /\ \A k \in 1 .. Len(pipe) : pipe[k].op # "O"
  BY <1>1, NobodyReserves DEF Settled
<1>3. Reserving'
  BY <1>1, <1>2 DEF Reserving, Reserves
<1>4. IdsKnown'
  <2>1. known \subseteq 1 .. lastId
    BY DEF Settled, IdsKnown
  <2>2. known' \subseteq 1 .. lastId' /\ lastId' \in 0 .. lastId'
    BY <1>1, <2>1
  <2> QED
    BY <1>1, <2>2 DEF Settled, IdsKnown
<1>5. Tagged' /\ OnResult'
  BY <1>1 DEF Tagged, OnResult
<1>6. Held'
  BY <1>1 DEF Settled, Held
<1>7. Own' /\ Idle'
  BY <1>1 DEF Own, Idle, Live
<1> QED
  BY <1>3, <1>4, <1>5, <1>6, <1>7 DEF Settled

(* Settled holds at the start.                                             *)
LEMMA InitSettled ==
  ASSUME Init
  PROVE  Settled
<1>1. Reserving /\ IdsKnown
  BY DEF Init, Reserving, Reserves, IdsKnown, Live, Sends, Direct, HoldsLock
<1>2. Tagged /\ OnResult /\ Held
  BY DEF Init, Tagged, OnResult, Held, Live, NoResult
<1>3. Own /\ Idle
  BY DEF Init, Own, Idle
<1> QED
  BY <1>1, <1>2, <1>3 DEF Settled

(* A step of a caller: keeps Settled.                                      *)
LEMMA CallerSettled ==
  ASSUME Base, Settled, NEW t \in Threads, Caller(t)
  PROVE  Settled'
<1>1. FirstTest(t) => Settled'
  BY ReadsListsSettled DEF FirstTest
<1>2. SecondTest(t) => Settled'
  BY ReadsListsSettled DEF SecondTest
<1> QED
  BY <1>1, <1>2, ReserveSettled, RequestSettled, SendGoneSettled, SendSettled,
     NameSlotSettled, SendOpenSettled, TryLockSettled, DirectWriteSettled,
     NoDirectWriteSettled, UnlockSettled, IncSendingRefSettled, PushSendSettled
     DEF Caller, InCall

(* A step of the socket thread or of the other side: keeps Settled.        *)
LEMMA ServerSettled ==
  ASSUME Base, Settled, ~StaleCommand,
         Poll \/ WaitWrite \/ WaitEof \/ Accept \/ PeerCloses
  PROVE  Settled'
<1>1. Commanded => Settled'
  BY OpenSocketSettled, OpenFailsSettled, StartSocketSettled,
     SendSocketSettled, CloseSocketSettled DEF Commanded
<1>2. Continued => Settled'
  BY DecideSettled, CloseFdSettled, ClearClosedEventSettled, LockForSendSettled,
     SendBufferSettled, WriteFailsSettled, TellConnectedSettled DEF Continued
<1>3. Dispatched => Settled'
  BY EventEofSettled, EventWriteSettled, ReportConnectSettled, ConnectFailsSettled
     DEF Dispatched
<1>4. NoCommand \/ Accept \/ PeerCloses => Settled'
  BY NoCommandSettled, AcceptSettled, PeerClosesSettled
<1>5. WaitPipe \/ WaitWrite \/ WaitEof => Settled'
  BY WaitSettled DEF WaitPipe, WaitWrite, WaitEof
<1> QED
  BY <1>1, <1>2, <1>3, <1>4, <1>5 DEF Poll

(* A step that changes nothing: keeps Settled.                             *)
LEMMA StutterSettled ==
  ASSUME Settled, UNCHANGED vars
  PROVE  Settled'
<1>1. Reserving' /\ IdsKnown'
  BY DEF Settled, Reserving, Reserves, IdsKnown, Live, vars
<1>2. Tagged' /\ OnResult' /\ Held'
  BY DEF Settled, Tagged, OnResult, Held, Live, vars
<1>3. Own' /\ Idle'
  BY DEF Settled, Own, Idle, Live, vars
<1> QED
  BY <1>1, <1>2, <1>3 DEF Settled

(* Settled is inductive.                                                   *)
LEMMA SettledKept ==
  ASSUME Base, Settled, [Next /\ ~StaleCommand]_vars
  PROVE  Settled'
  BY CallerSettled, ServerSettled, StutterSettled DEF Next

(* Settled holds in every reachable state of SettledSpec.                  *)
LEMMA SettledTheorem == SettledSpec => [](Base /\ Settled)
<1>1. Init => Base /\ Settled
  BY InitTypes, InitSettled
<1>2. Base /\ Settled /\ [Next /\ ~StaleCommand]_vars => Base' /\ Settled'
  BY BaseKept, SettledKept
<1> QED
  BY <1>1, <1>2, PTL DEF SettledSpec

(* A connection carries only what was sent to it, however many connections *)
(* of connect() and accept() use the slot one after the other, when no     *)
(* command of the last one is carried out between the two stores of        *)
(* reserve_id().                                                           *)
THEOREM SocketOwnMessages == SettledSpec => []OwnMessages
<1>1. Base /\ Settled => OwnMessages
  <2> SUFFICES ASSUME Base, Settled  PROVE OwnMessages
    OBVIOUS
  <2>1. DOMAIN wire = 1 .. Len(wire)
    BY DEF Base, ListsTyped
  <2> QED
    BY <2>1 DEF Settled, Own, Tagged, Live, OwnMessages
<1> QED
  BY <1>1, SettledTheorem, PTL

-----------------------------------------------------------------------------
(* Without connect(), or with one connection, no command is stale.         *)
OneUse == "O" \notin Ops \/ MaxId <= 1
(* Nobody is in connect() unless it is among the calls.                    *)
NoConnect == "O" \notin Ops => \A t \in Threads : ~Reserves(t)

(* Without connect(), nobody is in it.                                     *)
LEMMA NoConnectKept ==
  ASSUME Base, NoConnect, [Next]_vars
  PROVE  NoConnect'
<1> SUFFICES ASSUME "O" \notin Ops, NEW t \in Threads  PROVE ~Reserves(t)'
  BY DEF NoConnect
<1>1. \A r \in Threads : ~Reserves(r)
  BY DEF NoConnect
<1>2. pc \in [Threads -> PcPlaces]
  BY DEF Base, HandsTyped
<1>3. ASSUME NEW r \in Threads, Caller(r)  PROVE ~Reserves(t)'
  <2>1. ~Reserve(r)
    BY DEF Reserve, Begins
  <2>2. ~NameSlot(r) /\ ~SendOpen(r)
    BY <1>1 DEF NameSlot, SendOpen, Reserves, At
  <2>3. Request(r) \/ SendGone(r) => pc' = pc
    BY DEF Request, SendGone
  <2>4. Send(r) => \E p \in {"try", "ref"} : pc' = [pc EXCEPT ![r] = p]
    BY DEF Send, Enters
  <2>5. FirstTest(r) \/ SecondTest(r) =>
          \E p \in {"tryrest", "ref", "lockedrest", "refused"} : pc' = [pc EXCEPT ![r] = p]
    BY DEF FirstTest, SecondTest, ReadsLists, GoesTo
  <2>6. TryLock(r) \/ NoDirectWrite(r) \/ IncSendingRef(r) =>
          \E p \in {"locked", "ref", "refused", "push"} : pc' = [pc EXCEPT ![r] = p]
    BY DEF TryLock, NoDirectWrite, IncSendingRef, GoesTo
  <2>7. DirectWrite(r) => \E p \in {"written", "left"} : pc' = [pc EXCEPT ![r] = p]
    BY DEF DirectWrite, GoesTo
  <2>8. Unlock(r) \/ PushSend(r) => \E p \in {"ref", "out"} : pc' = [pc EXCEPT ![r] = p]
    BY DEF Unlock, PushSend, GoesTo, Returns
  <2>9. pc' = pc \/ \E p \in PcPlaces \ {"reserved", "open"} : pc' = [pc EXCEPT ![r] = p]
    BY <1>3, <2>1, <2>2, <2>3, <2>4, <2>5, <2>6, <2>7, <2>8 DEF Caller, InCall, PcPlaces
  <2> QED
    BY <1>1, <1>2, <2>9 DEF Reserves
<1>4. ASSUME Poll \/ WaitWrite \/ WaitEof \/ Accept \/ PeerCloses  PROVE pc' = pc
  <2>1. Commanded => pc' = pc
    BY DEF Commanded, OpenSocket, OpenFails, StartSocket, SendSocket, CloseSocket
  <2>2. Continued => pc' = pc
    BY DEF Continued, Decide, CloseFd, ClearClosedEvent, LockForSend, SendBuffer,
       WriteFails, TellConnected
  <2>3. Dispatched => pc' = pc
    BY DEF Dispatched, EventEof, EventWrite, ReportConnect, ConnectFails
  <2>4. NoCommand \/ Accept \/ PeerCloses => pc' = pc
    BY DEF NoCommand, Accept, PeerCloses
  <2>5. WaitPipe \/ WaitWrite \/ WaitEof => pc' = pc
    BY DEF WaitPipe, WaitWrite, WaitEof, Wait
  <2> QED
    BY <1>4, <2>1, <2>2, <2>3, <2>4, <2>5 DEF Poll
<1>5. UNCHANGED vars => pc' = pc
  BY DEF vars
<1>6. CASE pc' = pc
  BY <1>1, <1>6 DEF Reserves
<1> QED
  BY <1>3, <1>4, <1>5, <1>6 DEF Next

(* Then, or with one id, a command is not for an earlier connection than   *)
(* the one that reserves.                                                  *)
LEMMA NothingStale ==
  ASSUME Base, Settled, NoConnect, OneUse
  PROVE  ~StaleCommand
<1> SUFFICES ASSUME NEW t \in Threads, pc[t] = "reserved", pipe # <<>>  PROVE FALSE
  BY DEF StaleCommand, At
<1>1. Reserves(t) /\ MaxId <= 1
  BY DEF Reserves, NoConnect, OneUse
<1>2. /\ lastId \notin known /\ known \subseteq 1 .. lastId
      /\ \A k \in 1 .. Len(pipe) : pipe[k].id \in known
  BY <1>1 DEF Settled, Reserving, IdsKnown
<1>3. lastId \in 0 .. MaxId /\ MaxId \in Nat
  BY DEF Base, SlotTyped
<1>4. \A i \in known : i \in 1 .. lastId /\ i # lastId
  BY <1>2
<1>5. known = {}
  BY <1>1, <1>3, <1>4
<1>6. 1 \in 1 .. Len(pipe)
  BY DEF Base, PipeTyped
<1> QED
  BY <1>2, <1>5, <1>6

(* So Settled holds in every reachable state of Spec as well.              *)
LEMMA OneUseSettled == OneUse => (Spec => [](Base /\ Settled /\ NoConnect))
<1>1. Init => Base /\ Settled /\ NoConnect
  BY InitTypes, InitSettled DEF Init, NoConnect, Reserves
<1>2. ASSUME OneUse  PROVE Base /\ Settled /\ NoConnect /\ [Next]_vars => Base' /\ Settled' /\ NoConnect'
  BY <1>2, BaseKept, SettledKept, NoConnectKept, NothingStale
<1>3. OneUse => (Base /\ Settled /\ NoConnect /\ [Next]_vars => Base' /\ Settled' /\ NoConnect')
  BY <1>2
<1>4. CASE OneUse
  <2>1. Base /\ Settled /\ NoConnect /\ [Next]_vars => Base' /\ Settled' /\ NoConnect'
    BY <1>3, <1>4
  <2> QED
    BY <1>1, <2>1, PTL DEF Spec
<1> QED
  BY <1>4

(* The same of the unrestricted socket server, when its connections are    *)
(* accepted, or one only is opened.                                        *)
THEOREM SocketOwnMessagesOneUse == OneUse => (Spec => []OwnMessages)
<1>1. Base /\ Settled => OwnMessages
  <2> SUFFICES ASSUME Base, Settled  PROVE OwnMessages
    OBVIOUS
  <2>1. DOMAIN wire = 1 .. Len(wire)
    BY DEF Base, ListsTyped
  <2> QED
    BY <2>1 DEF Settled, Own, Tagged, Live, OwnMessages
<1>2. CASE OneUse
  <2>1. Spec => [](Base /\ Settled /\ NoConnect)
    BY <1>2, OneUseSettled
  <2> QED
    BY <1>1, <2>1, PTL
<1> QED
  BY <1>2

-----------------------------------------------------------------------------
(* Without connect(), no event outlives the connection it is for.          *)
Fresh == event # NoEvent =>
           /\ event.id = id
           /\ Live \/ (poll = "clear" /\ type = "INVALID" /\ result.id = id)

(* Without connect() the slot is never reserved.                           *)
NoneReserved == "O" \notin Ops => type # "RESERVE"

(* Callers do not touch what events depend on.                             *)
LEMMA ThreadsLeaveEvents ==
  ASSUME NEW t \in Threads, Caller(t), "O" \notin Ops, \A r \in Threads : ~Reserves(r)
  PROVE  UNCHANGED <<event, id, type, poll, result>>
<1>1. ~Reserve(t)
  BY DEF Reserve, Begins
<1>2. ~NameSlot(t) /\ ~SendOpen(t)
  BY DEF NameSlot, SendOpen, Reserves, At
<1>3. Request(t) \/ SendGone(t) \/ Send(t) => UNCHANGED <<event, id, type, poll, result>>
  BY DEF Request, SendGone, Send
<1>4. FirstTest(t) \/ SecondTest(t) \/ TryLock(t) \/ NoDirectWrite(t) \/ IncSendingRef(t) =>
        UNCHANGED <<event, id, type, poll, result>>
  BY DEF FirstTest, SecondTest, ReadsLists, TryLock, NoDirectWrite, IncSendingRef
<1>5. DirectWrite(t) \/ Unlock(t) \/ PushSend(t) => UNCHANGED <<event, id, type, poll, result>>
  BY DEF DirectWrite, Unlock, PushSend
<1> QED
  BY <1>1, <1>2, <1>3, <1>4, <1>5 DEF Caller, InCall

(* A slot that nobody reserves is not RESERVE.                             *)
LEMMA NeverReserved ==
  ASSUME NoConnect, NoneReserved, [Next]_vars
  PROVE  NoneReserved'
<1> SUFFICES ASSUME "O" \notin Ops  PROVE type' # "RESERVE"
  BY DEF NoneReserved
<1>1. type # "RESERVE" /\ \A r \in Threads : ~Reserves(r)
  BY DEF NoneReserved, NoConnect
<1>2. ASSUME NEW t \in Threads, Caller(t)  PROVE type' = type
  BY <1>1, <1>2, ThreadsLeaveEvents
<1>3. Commanded => type' \in {type, "CONNECTED", "CONNECTING", "INVALID"}
  BY DEF Commanded, OpenSocket, OpenFails, StartSocket, SendSocket, CloseSocket
<1>4. Continued => type' \in {type, "HALFCLOSE", "INVALID"}
  BY DEF Continued, Decide, CloseFd, ClearClosedEvent, LockForSend, SendBuffer,
     WriteFails, TellConnected
<1>5. Dispatched => type' \in {type, "CONNECTED"}
  BY DEF Dispatched, EventEof, EventWrite, ReportConnect, ConnectFails
<1>6. NoCommand \/ Accept \/ PeerCloses => type' \in {type, "PACCEPT"}
  BY DEF NoCommand, Accept, PeerCloses
<1>7. WaitPipe \/ WaitWrite \/ WaitEof => type' = type
  BY DEF WaitPipe, WaitWrite, WaitEof, Wait
<1>8. UNCHANGED vars => type' = type
  BY DEF vars
<1> QED
  BY <1>1, <1>2, <1>3, <1>4, <1>5, <1>6, <1>7, <1>8 DEF Next, Poll

(* No step leaves a stale event: a close that ends with CloseFd is         *)
(* followed by ClearClosedEvent while the slot is still INVALID.           *)
LEMMA FreshKept ==
  ASSUME Base, Settled, NoConnect, NoneReserved, "O" \notin Ops, Fresh, [Next]_vars
  PROVE  Fresh'
<1>1. \A r \in Threads : ~Reserves(r)
  BY DEF NoConnect
<1>2. OnResult /\ Idle /\ SlotTyped /\ PollTyped
  BY DEF Base, Settled
<1>3. UNCHANGED <<event, id, type, poll, result>> => Fresh'
  BY DEF Fresh, Live
<1>4. ASSUME NEW t \in Threads, Caller(t)  PROVE Fresh'
  BY <1>1, <1>3, <1>4, ThreadsLeaveEvents
<1>5. ~Command("O")
  <2>2. \A k \in 1 .. Len(pipe) : pipe[k].op # "O"
    BY DEF NoneReserved, Settled, Reserving
  <2>1. pipe # <<>> => Head(pipe) = pipe[1] /\ 1 \in 1 .. Len(pipe)
    BY DEF Base, PipeTyped
  <2> QED
    BY <2>1, <2>2 DEF Command
<1>6. StartSocket => Fresh'
  <2> SUFFICES ASSUME StartSocket  PROVE Fresh'
    OBVIOUS
  <2>1. /\ event' = event /\ id' = id /\ poll = "loop"
        /\ type' = type \/ (type = "PACCEPT" /\ type' = "CONNECTED")
    BY DEF StartSocket, Command
  <2> QED
    BY <2>1 DEF Fresh, Live
<1>7. ASSUME NEW op, SendSocket(op) \/ CloseSocket(op)  PROVE Fresh'
  <2>1. event' = event /\ id' = id /\ poll = "loop" /\ type' = type
    BY <1>7 DEF SendSocket, CloseSocket, Command
  <2> QED
    BY <2>1 DEF Fresh, Live
<1>8. Decide => Fresh'
  <2> SUFFICES ASSUME Decide  PROVE Fresh'
    OBVIOUS
  <2>1. event' = event /\ id' = id /\ poll = "decide" /\ type' \in {type, "HALFCLOSE"}
    BY DEF Decide
  <2> QED
    BY <2>1 DEF Fresh, Live
<1>9. CloseFd => Fresh'
  <2> SUFFICES ASSUME CloseFd  PROVE Fresh'
    OBVIOUS
  <2>1. event' = event /\ id' = id /\ poll = "kill" /\ type' = "INVALID" /\ poll' = "clear"
        /\ result' = result
    BY DEF CloseFd
  <2> QED
    BY <1>2, <2>1 DEF Fresh, OnResult
<1>10. ClearClosedEvent => Fresh'
  <2> SUFFICES ASSUME ClearClosedEvent  PROVE Fresh'
    OBVIOUS
  <2>1. id' = id /\ type' = type /\ event' = ClearEvent
    BY DEF ClearClosedEvent
  <2>2. event' # NoEvent => event' = event /\ ~(type = "INVALID" /\ id = result.id)
    BY <2>1 DEF ClearEvent
  <2> QED
    BY <2>1, <2>2 DEF Fresh, Live
<1>11. LockForSend => Fresh'
  <2> SUFFICES ASSUME LockForSend  PROVE Fresh'
    OBVIOUS
  <2>1. UNCHANGED <<event, id, type>> /\ poll = "flush"
    BY DEF LockForSend
  <2> QED
    BY <2>1 DEF Fresh, Live
<1>12. SendBuffer => Fresh'
  <2> SUFFICES ASSUME SendBuffer  PROVE Fresh'
    OBVIOUS
  <2>1. PICK k \in 0 .. Len(BeforeHigh \o low) : Goes(k)
    BY SendBufferGoes DEF Base
  <2>2. /\ event' = event /\ id' = id /\ poll = "send"
    BY DEF SendBuffer
  <2>3. \/ type' = type
        \/ type' = "INVALID" /\ poll' = "clear" /\ result'.id = id
    BY <2>1 DEF Goes, NoResult
  <2> QED
    BY <2>2, <2>3 DEF Fresh, Live
<1>13. WriteFails => Fresh'
  <2> SUFFICES ASSUME WriteFails  PROVE Fresh'
    OBVIOUS
  <2>1. /\ event' = event /\ id' = id /\ type' = "INVALID" /\ poll' = "clear" /\ result'.id = id
    BY DEF WriteFails, NoResult
  <2> QED
    BY <2>1 DEF Fresh, Live
<1>14. TellConnected => Fresh'
  <2> SUFFICES ASSUME TellConnected  PROVE Fresh'
    OBVIOUS
  <2>1. UNCHANGED <<event, id, type>> /\ poll \in {"quiet", "opened"}
    BY DEF TellConnected
  <2> QED
    BY <2>1 DEF Fresh, Live
<1>15. Dispatched => Fresh'
  BY DEF Dispatched, EventEof, EventWrite, ReportConnect, ConnectFails, Dispatch, Fresh
<1>16. NoCommand \/ PeerCloses => Fresh'
  BY <1>3 DEF NoCommand, PeerCloses
<1>17. WaitPipe \/ WaitWrite \/ WaitEof => Fresh'
  <2>1. WaitPipe => Fresh'
    BY DEF WaitPipe, Wait, Fresh
  <2>2. ASSUME NEW kind, Wait(kind), watch # "no"  PROVE Fresh'
    <3>1. Live /\ UNCHANGED <<id, type>> /\ event' \in {NoEvent, [kind |-> kind, id |-> id]}
      BY <1>2, <2>2 DEF Idle, Wait
    <3> QED
      BY <3>1 DEF Fresh, Live
  <2>3. WaitWrite \/ WaitEof => Fresh'
    BY <2>2 DEF WaitWrite, WaitEof
  <2> QED
    BY <2>1, <2>3
<1>18. Accept => Fresh'
  <2> SUFFICES ASSUME Accept  PROVE Fresh'
    OBVIOUS
  <2>1. event' = event /\ type = "INVALID" /\ poll = "loop"
    BY DEF Accept
  <2> QED
    BY <2>1 DEF Fresh, Live
<1>19. UNCHANGED vars => Fresh'
  BY <1>3 DEF vars
<1> QED
  BY <1>4, <1>5, <1>6, <1>7, <1>8, <1>9, <1>10, <1>11, <1>12, <1>13, <1>14, <1>15,
     <1>16, <1>17, <1>18, <1>19 DEF Next, Poll, Commanded, Continued, OpenSocket, OpenFails

(* An event is dispatched to the connection it was captured for, when      *)
(* connections are accepted: with connect(), reserve_id() may take the     *)
(* slot before clear_closed_event() looks at it, and the event stays.      *)
THEOREM SocketEventsAreFresh == "O" \notin Ops => (Spec => []EventsAreFresh)
<1> DEFINE Inv == Base /\ Settled /\ NoConnect /\ NoneReserved /\ Fresh
<1>1. Init => Inv
  BY InitTypes, InitSettled DEF Init, NoConnect, NoneReserved, Reserves, Fresh
<1>2. CASE "O" \notin Ops
  <2>1. OneUse
    BY <1>2 DEF OneUse
  <2>2. Inv /\ [Next]_vars => Inv'
    <3> SUFFICES ASSUME Inv, [Next]_vars  PROVE Inv'
      OBVIOUS
    <3>1. ~StaleCommand
      BY <2>1, NothingStale
    <3>2. Base' /\ Settled'
      BY <3>1, BaseKept, SettledKept
    <3>3. NoConnect' /\ NoneReserved'
      BY NoConnectKept, NeverReserved
    <3>4. Fresh'
      BY <1>2, FreshKept
    <3> QED
      BY <3>2, <3>3, <3>4
  <2>3. Inv => EventsAreFresh
    <3> SUFFICES ASSUME Inv, poll \in {"loop", "first"}, event # NoEvent
                 PROVE  event.id = id /\ type \notin {"INVALID", "RESERVE"}
      BY DEF EventsAreFresh, Dispatches
    <3> QED
      BY DEF Fresh, Live
  <2> HIDE DEF Inv
  <2> QED
    BY <1>1, <2>2, <2>3, PTL DEF Spec
<1> QED
  BY <1>2
=============================================================================
