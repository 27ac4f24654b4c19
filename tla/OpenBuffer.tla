------------------------------- MODULE OpenBuffer -------------------------------
(***************************************************************************)
(* OpenBuffer (open/openbuffer.h, open/openbuffer.cpp): a block of memory  *)
(* with the bytes in use at offset_, which is moved or grown when it is    *)
(* full; strings with their length before them, and integers of variable   *)
(* length in groups of seven bits.                                         *)
(*                                                                         *)
(* A length has four bytes in the code; here it has one.  A cell that      *)
(* nothing was written to is Junk.                                         *)
(***************************************************************************)
EXTENDS Integers, Sequences

CONSTANTS Byte,    (* bound: the bytes that are put in                       *)
          Junk,    (* what new memory holds                                  *)
          MiniCap, (* miniCap_                                               *)
          MaxSize, (* bound: on size_                                        *)
          MaxPush, (* bound: on the length of what is put in at once         *)
          Base,    (* 2^7: what a byte of an integer has room for           *)
          Word,    (* 2^32                                                   *)
          Values   (* bound: the numbers tried as integers                   *)

ASSUME SizesNat == MiniCap \in Nat \ {0} /\ MaxSize \in Nat /\ MaxPush \in Nat
(* Five groups are enough for a number, and four may be too few.           *)
ASSUME WordFits ==
  /\ Base \in Nat /\ Base > 1
  /\ Word \in Nat /\ Word <= Base * (Base * (Base * (Base * Base)))
ASSUME ValuesFit == Values \subseteq 0 .. Word - 1

VARIABLES mem,    \* what buffer_ points to, <<>> for NULL
          size, offset, cap,
          last    \* history: the last call, and the bytes it is about

bufferVars == <<mem, size, offset, cap, last>>

Strings == UNION {[1 .. n -> Byte] : n \in 0 .. MaxPush}
Fill(n, x) == [i \in 1 .. n |-> x]
bytes == SubSeq(mem, offset + 1, offset + size)
Did(op, data) == last' = [op |-> op, data |-> data]

BufferInit ==
  /\ mem = <<>> /\ size = 0 /\ offset = 0 /\ cap = 0
  /\ last = [op |-> "none", data |-> <<>>]

-----------------------------------------------------------------------------
(* pushBack() of no more than what is free behind the bytes, of what is    *)
(* free when the bytes are moved to the front, or else into new memory.    *)
doubled[k \in Nat] == IF k = 0 THEN MiniCap ELSE 2 * doubled[k - 1]
Doubled(need) ==
  doubled[CHOOSE k \in 0 .. need :
            doubled[k] >= need /\ \A j \in 0 .. k - 1 : doubled[j] < need]

Over(m, from, s) ==
  SubSeq(m, 1, from) \o s \o SubSeq(m, from + Len(s) + 1, Len(m))

(* Mutant: what was taken from the front counts as free.                   *)
RoomInAll(s) == cap >= size + Len(s)
Room(s) == cap - offset >= size + Len(s)

PushFits(s) ==
  /\ Room(s)
  /\ mem' = Over(mem, offset + size, s)
  /\ UNCHANGED <<offset, cap>>

PushMoves(s) ==
  /\ ~Room(s)
  /\ mem # <<>> /\ size + Len(s) < cap
  /\ mem' = Over(bytes \o Fill(cap + 1 - size, 0) \o <<mem[cap + 2]>>, size, s)
  /\ offset' = 0
  /\ UNCHANGED cap

PushGrows(s) ==
  /\ ~Room(s)
  /\ ~(mem # <<>> /\ size + Len(s) < cap)
  /\ cap' = Doubled(size + Len(s))
  /\ mem' = Over(bytes \o Fill(cap' + 2 - size, 0), size, s)
  /\ offset' = 0

PushBack(s) ==
  IF s = <<>> THEN UNCHANGED <<mem, size, offset, cap>>
  ELSE /\ PushFits(s) \/ PushMoves(s) \/ PushGrows(s)
       /\ size' = size + Len(s)

(* Without data the bytes are what the memory has there.                   *)
PushRoom(n) ==
  \E s \in {IF Room(Fill(n, 0)) THEN SubSeq(mem, offset + size + 1, offset + size + n)
            ELSE Fill(n, 0)} : PushBack(s) /\ Did("push", s)

Push == \E s \in Strings : /\ size + Len(s) <= MaxSize
                           /\ PushBack(s) /\ Did("push", s)
PushNull == \E n \in 1 .. MaxPush : size + n <= MaxSize /\ PushRoom(n)

(* pushString(): the length and then the bytes.                            *)
PushString ==
  \E s \in Strings :
    /\ size + Len(s) < MaxSize
    /\ PushBack(<<Len(s)>> \o s)
    /\ Did("push", <<Len(s)>> \o s)

-----------------------------------------------------------------------------
(* A call that asks for more than there is returns -1.  One that asks for  *)
(* nothing before there is memory fails an assertion, and is not a step.   *)
Fails == Did("none", <<>>) /\ UNCHANGED <<mem, size, offset, cap>>

TakeFront(n) ==
  /\ Did("front", SubSeq(bytes, 1, n))
  /\ offset' = offset + n
  /\ size' = size - n
  /\ UNCHANGED <<mem, cap>>

PopFront == \E n \in 0 .. MaxPush : IF n > size THEN Fails ELSE mem # <<>> /\ TakeFront(n)

PopBack ==
  \E n \in 0 .. MaxPush :
    IF n > size THEN Fails
    ELSE /\ mem # <<>>
         /\ Did("back", SubSeq(bytes, size - n + 1, size))
         /\ size' = size - n
         /\ UNCHANGED <<mem, offset, cap>>

(* popString(): when the bytes are not all there the length is gone, and   *)
(* without a length it asks for nothing.  What is at the front must be a   *)
(* length, or the call asks for any number.                                *)
PopString ==
  /\ mem # <<>>
  /\ IF size < 1 THEN Fails
     ELSE LET n == bytes[1] IN
          TakeFront(IF n \in 1 .. size - 1 THEN n + 1 ELSE 1)

(* data(): the byte behind the bytes is set to zero.                       *)
Data ==
  /\ Did("none", <<>>)
  /\ IF mem = <<>>
       THEN /\ cap' = MiniCap
            /\ mem' = <<0>> \o Fill(MiniCap + 1, Junk)
       ELSE mem' = [mem EXCEPT ![offset + size + 1] = 0] /\ UNCHANGED cap
  /\ UNCHANGED <<size, offset>>

(* clearResize(): the bytes are what the memory has.                       *)
ClearResize(n) ==
  /\ IF cap >= n
       THEN /\ mem' = [(IF mem = <<>> THEN Fill(cap + 2, Junk) ELSE mem)
                         EXCEPT ![cap + 1] = 0]
            /\ UNCHANGED cap
       ELSE cap' = n /\ mem' = Fill(n, Junk) \o <<0, Junk>>
  /\ offset' = 0
  /\ size' = n
  /\ Did("renew", SubSeq(mem', 1, n))

Clear ==
  /\ size' = 0
  /\ offset' = 0
  /\ Did("renew", <<>>)
  /\ UNCHANGED <<mem, cap>>

BufferNext ==
  \/ Push \/ PushNull \/ PushString
  \/ PopFront \/ PopBack \/ PopString
  \/ Data \/ Clear
  \/ \E n \in 0 .. MaxSize : ClearResize(n)

BufferSpec == BufferInit /\ [][BufferNext]_bufferVars

-----------------------------------------------------------------------------
(* pushVInt32(): groups of seven bits, the lowest first, with the eighth   *)
(* bit set but in the last; what is put in ends at the first zero, for     *)
(* strlen() counts it.                                                     *)
Shifted(n, i) ==
  LET shift[j \in 0 .. 5] == IF j = 0 THEN n ELSE shift[j - 1] \div Base IN shift[i]
Group(n, i) == Shifted(n, i) % Base
Groups(n) == CHOOSE k \in 1 .. 5 : /\ k = 5 \/ Shifted(n, k) = 0
                                   /\ \A j \in 1 .. k - 1 : Shifted(n, j) > 0
VInt(n) ==
  LET k == Groups(n)
      p == [i \in 1 .. k |-> Group(n, i - 1) + IF i < k THEN Base ELSE 0]
  IN  IF n = 0 THEN <<>> ELSE p

(* popVInt64(): the groups up to the first byte without the bit, collected *)
(* in 32 bits; the number and how many bytes it took.                      *)
PopVInt(p) ==
  LET k == CHOOSE k \in 1 .. Len(p) :
             p[k] < Base /\ \A j \in 1 .. k - 1 : p[j] >= Base
      from[i \in 1 .. k + 1] ==
        IF i = k + 1 THEN 0 ELSE (p[i] % Base) + Base * from[i + 1]
  IN  <<from[1] % Word, k>>

-----------------------------------------------------------------------------
(* The bytes are within the memory, and behind them is room for the zero   *)
(* that data() puts there; size_ and offset_ are within cap_.              *)
InMemory ==
  /\ size \in Nat /\ offset \in Nat /\ cap \in Nat
  /\ offset + size <= cap
  /\ Len(mem) = IF mem = <<>> THEN 0 ELSE cap + 2
  /\ mem = <<>> => cap = 0
  /\ last.op \in {"none", "push", "front", "back", "renew"}

(* Every number but 0 comes out of popVInt64() as it went in, whatever is  *)
(* behind it, and takes the bytes it was put in as (openbuffer.cpp:201).   *)
VIntsReturn ==
  \A n \in Values \ {0}, b \in 0 .. 2 * Base - 1 :
    PopVInt(VInt(n) \o <<b>>) = <<n, Len(VInt(n))>>

B == INSTANCE Bytes
(* What comes out of a buffer is what was put in, across moves and growth  *)
(* of its memory, which no call steps over; and integers come back.        *)
BufferSound == B!Spec /\ [][InMemory']_bufferVars /\ VIntsReturn
=============================================================================
