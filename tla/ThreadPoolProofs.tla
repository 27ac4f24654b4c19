-------------------------- MODULE ThreadPoolProofs --------------------------
(***************************************************************************)
(* Proofs about OpenThreadPool and its SafeMap, for any callers, names,    *)
(* capacity and calls: the types, the holders of the two locks, that the   *)
(* pid of a thread in the map is its slot, and that a name has one thread  *)
(* until stopAll() clears the map.  A step is proved to keep Inv in three  *)
(* parts: what it does to its caller ("Moves"), to the map and the thread  *)
(* objects ("Calm", all but SafeMap::set() and the setting of the pid),    *)
(* and to the locks.  NamesInv, on top of it, has the names.               *)
(***************************************************************************)
EXTENDS ThreadPool, TLAPS

(* What a caller looks a name up for. *)
Looks == {"unborn", "first", "locked", "again"}
(* Where a caller is on the way to a name or reads the map. *)
Searching == {"check", "capacity", "init", "key", "value", "found"}
(* Inside SafeMap::set(), or before the pid is set. *)
InSet(c) == pc[c] \in {"setkey", "setpid"}

(* The types of what belongs to the callers. *)
CallersTyped ==
  /\ pc \in [Callers -> Places] /\ look \in [Callers -> Looks]
  /\ at \in [Callers -> 0 .. Capacity] /\ sptr \in [Callers -> 0 .. MaxThread]
  /\ tries \in [Callers -> 0 .. 2] /\ on \in [Callers -> 0 .. MaxThread]
  /\ call \in [Callers -> Call] /\ calls \in [Callers -> Nat]

(* Where a caller is agrees with its call and with the slot it is at. *)
Placed(c) ==
  /\ pc[c] # "out" => Sensible(call[c])
  /\ pc[c] \in Searching => call[c].op # "stopAll"
  /\ pc[c] \in {"setkey", "setpid", "poll", "clearvalue"} => at[c] \in Slots
  /\ InSet(c) => sptr[c] \in Threads /\ Creates(c)

(* A thread in the map has been constructed, and the one that              *)
(* SafeMap::set() is putting there is in no second slot.                   *)
MapSound ==
  /\ \A s \in Slots : values[s] # 0 => obj[values[s]].state # "none"
  /\ \A c \in Callers, s \in Slots : InSet(c) /\ values[s] = sptr[c] => s = at[c]

(* The inductive invariant. PidIsSlot alone is not inductive: a second     *)
(* caller in SafeMap::set() could put its thread where the first has, and  *)
(* the pid that the first sets would be the slot of another thread. That   *)
(* mutex_ excludes it takes the account of the locks, and that in turn     *)
(* where each caller is and which call it makes.                           *)
Inv ==
  /\ TypeOK /\ CallersTyped
  /\ \A c \in Callers : Placed(c)
  /\ MapSound /\ PidIsSlot

USE CapacityNat, MaxThreadNat, NoNameFresh

(* Another caller than the one that moves. *)
Same(d) ==
  /\ pc'[d] = pc[d] /\ look'[d] = look[d] /\ at'[d] = at[d]
  /\ sptr'[d] = sptr[d] /\ call'[d] = call[d]
(* Only c moves, and is well placed afterwards. *)
Moves(c) == CallersTyped' /\ Placed(c)' /\ \A d \in Callers \ {c} : Same(d)

(* What a call is about, while it goes over names or pids. *)
LEMMA NameOf ==
  ASSUME NEW c \in Callers, Sensible(call[c]), call[c].op # "stopAll"
  PROVE  /\ ByPid(c) => Name(c) \in Slots
         /\ ~ByPid(c) => Name(c) \in Names
         /\ Creates(c) => ~ByPid(c)
<1>1. call[c].of # <<>>
  BY DEF Sensible
<1>2. CASE ByPid(c)
  <2>1. call[c].of \in Seq(Slots)
    BY <1>2 DEF Sensible, ByPid
  <2>2. Head(call[c].of) \in Slots
    BY <1>1, <2>1
  <2> QED
    BY <1>2, <2>2 DEF Name, Sensible, Creates, ByPid
<1>3. CASE ~ByPid(c)
  <2>1. call[c].of \in Seq(Names)
    BY <1>3 DEF Sensible, ByPid
  <2>2. Head(call[c].of) \in Names
    BY <1>1, <2>1
  <2> QED
    BY <1>3, <2>2 DEF Name
<1> QED
  BY <1>2, <1>3

(* The rest of a sequence of two or more. *)
LEMMA TailOf ==
  ASSUME NEW S, NEW q \in Seq(S), Len(q) > 1
  PROVE  Tail(q) \in Seq(S) /\ Tail(q) # <<>>
<1>1. Tail(q) \in Seq(S) /\ Len(Tail(q)) = Len(q) - 1
  OBVIOUS
<1>2. Len(q) - 1 > 0
  OBVIOUS
<1>3. Len(Tail(q)) > 0
  BY <1>1, <1>2
<1> QED
  BY <1>1, <1>3

(* The overloads that take a list call themselves for each member: the     *)
(* rest of a sensible call is sensible.                                    *)
LEMMA TailSensible ==
  ASSUME NEW k, Sensible(k), Len(k.of) > 1
  PROVE  /\ Sensible([k EXCEPT !.of = Tail(@)])
         /\ [k EXCEPT !.of = Tail(@)] \in Call
<1> DEFINE S == IF k.by = "pid" THEN Slots ELSE Names
           t == [k EXCEPT !.of = Tail(@)]
<1>1. k.of \in Seq(S) /\ k \in Call
  BY DEF Sensible
<1> HIDE DEF S
<1>2. Tail(k.of) \in Seq(S) /\ Tail(k.of) # <<>>
  BY <1>1, TailOf
<1>3. /\ t.of = Tail(k.of) /\ t.by = k.by /\ t.op = k.op
  BY <1>1 DEF Call
<1>4. S \subseteq Names \cup Slots
  BY DEF S
<1>5. Tail(k.of) \in Seq(Names \cup Slots)
  BY <1>2, <1>4
<1>6. t \in Call
  BY <1>1, <1>5 DEF Call
<1> QED
  BY <1>1, <1>2, <1>3, <1>6 DEF Sensible, S

(* A caller that begins to read SafeMap moves alone and stays well placed. *)
LEMMA SearchMoves ==
  ASSUME CallersTyped, NEW c \in Callers, NEW why \in Looks, Search(c, why),
         Sensible(call[c]), call[c].op # "stopAll",
         UNCHANGED <<call, on, calls>>, tries' \in [Callers -> 0 .. 2]
  PROVE  /\ Moves(c)
         /\ pc'[c] \in {"key", "value"} /\ look'[c] = why
<1>1. /\ ByPid(c) => Name(c) \in 0 .. Capacity
      /\ Creates(c) => ~ByPid(c)
  BY NameOf DEF Slots
<1>2. CallersTyped'
  <2>1. sptr' \in [Callers -> 0 .. MaxThread]
    BY DEF CallersTyped, Search
  <2>2. at' \in [Callers -> 0 .. Capacity]
    BY <1>1 DEF CallersTyped, Search
  <2> QED
    BY <2>1, <2>2 DEF CallersTyped, Search, Goto, Places
<1>3. pc'[c] \in {"key", "value"} /\ look'[c] = why
  BY DEF CallersTyped, Search, Goto
<1>4. \A d \in Callers \ {c} : Same(d)
  BY DEF CallersTyped, Search, Goto, Same
<1>5. Placed(c)'
  BY <1>3 DEF Placed, InSet
<1> QED
  BY <1>2, <1>3, <1>4, <1>5 DEF Moves

(* A caller whose call returns moves alone and is outside of the pool. *)
LEMMA ReturnMoves ==
  ASSUME CallersTyped, NEW c \in Callers, Return(c)
  PROVE  Moves(c) /\ pc'[c] = "out"
<1>1. NoCall \in Call
  BY DEF NoCall, Call
<1>2. CallersTyped'
  BY <1>1 DEF CallersTyped, Return, Goto, Places, Looks
<1>3. pc'[c] = "out"
  BY DEF CallersTyped, Return, Goto
<1>4. \A d \in Callers \ {c} : Same(d)
  BY DEF CallersTyped, Return, Goto, Same
<1>5. Placed(c)'
  BY <1>3 DEF Placed, InSet, Searching
<1> QED
  BY <1>2, <1>3, <1>4, <1>5 DEF Moves

(* A caller that goes on to the next member of its list, or returns, moves *)
(* alone.                                                                  *)
LEMMA NextOfMoves ==
  ASSUME CallersTyped, NEW c \in Callers, Placed(c), pc[c] # "out", NextOf(c)
  PROVE  Moves(c) /\ pc'[c] \in {"enter", "out"}
<1>1. CASE Len(call[c].of) > 1
  <2>1. Sensible(call[c])
    BY DEF Placed
  <2>2. /\ Sensible([call[c] EXCEPT !.of = Tail(@)])
        /\ [call[c] EXCEPT !.of = Tail(@)] \in Call
    BY <1>1, <2>1, TailSensible
  <2>3. /\ call' = [call EXCEPT ![c] = [call[c] EXCEPT !.of = Tail(@)]]
        /\ pc' = [pc EXCEPT ![c] = "enter"]
        /\ UNCHANGED <<look, at, sptr, tries, on, calls>>
    BY <1>1 DEF NextOf, Goto
  <2>4. CallersTyped'
    BY <2>2, <2>3 DEF CallersTyped, Places
  <2>5. Sensible(call'[c]) /\ pc'[c] = "enter"
    BY <2>2, <2>3 DEF CallersTyped
  <2>6. \A d \in Callers \ {c} : Same(d)
    BY <2>3 DEF CallersTyped, Same
  <2>7. Placed(c)'
    BY <2>5 DEF Placed, InSet, Searching
  <2> QED
    BY <2>4, <2>5, <2>6, <2>7 DEF Moves
<1>2. CASE ~(Len(call[c].of) > 1)
  BY <1>2, ReturnMoves DEF NextOf
<1> QED
  BY <1>1, <1>2

(* A thread object. *)
ObjType == [name : Names \cup {NoName}, pid : Slots \cup {-1},
            state : {"none", "STOP", "START", "RUN"}, told : BOOLEAN]
(* The types are kept, values of the map only go away, and no pid changes. *)
Calm ==
  /\ isInit' \in BOOLEAN /\ isClearIng' \in BOOLEAN /\ closed' \in BOOLEAN
  /\ keys' \in [Slots -> Names \cup {NoName}]
  /\ values' \in [Slots -> 0 .. MaxThread]
  /\ obj' \in [Threads -> ObjType]
  /\ \A s \in Slots : values'[s] \in {values[s], 0}
  /\ \A v \in Threads : /\ obj'[v].pid = obj[v].pid
                        /\ obj[v].state # "none" => obj'[v].state # "none"

(* A step that leaves the map and the thread objects alone is calm. *)
LEMMA CalmSame ==
  ASSUME Typed, UNCHANGED <<flagVars, mapVars, obj, closed>>
  PROVE  Calm
BY DEF Typed, flagVars, mapVars, Calm, ObjType

(* Calm steps keep the types of the shared state. *)
LEMMA TypedStays ==
  ASSUME Calm, CallersTyped'
  PROVE  Typed'
BY DEF Calm, CallersTyped, Typed, ObjType, Looks

(* A caller that stays in SafeMap::set() with its thread and slot. *)
Kept(d) == InSet(d) /\ InSet(d)' /\ sptr'[d] = sptr[d] /\ at'[d] = at[d]

(* A caller that does not move stays well placed, in SafeMap::set() or     *)
(* outside of it.                                                          *)
LEMMA SameKept ==
  ASSUME NEW d, Placed(d), Same(d)
  PROVE  Placed(d)' /\ (Kept(d) \/ (~InSet(d) /\ ~InSet(d)'))
<1>1. InSet(d)' <=> InSet(d)
  BY DEF Same, InSet
<1>2. Placed(d)'
  BY <1>1 DEF Same, Placed, Creates
<1> QED
  BY <1>1, <1>2 DEF Same, Kept

(* A calm step keeps the invariant when no caller enters or leaves         *)
(* SafeMap::set(): entries of the map only go away, and no pid changes.    *)
LEMMA CalmStep ==
  ASSUME Inv, Calm, CallersTyped', LocksHeld',
         \A d \in Callers : Placed(d)' /\ (Kept(d) \/ (~InSet(d) /\ ~InSet(d)'))
  PROVE  Inv'
<1>1. Typed' /\ CallersTyped'
  BY TypedStays
<1>3. ASSUME NEW d \in Callers, InSet(d)'
      PROVE  InSet(d) /\ sptr'[d] = sptr[d] /\ at'[d] = at[d] /\ sptr[d] \in Threads
  <2>1. Kept(d) /\ Placed(d)
    BY <1>3 DEF Inv
  <2> QED
    BY <2>1 DEF Kept, Placed
<1>4. ASSUME NEW s \in Slots, values'[s] # 0
      PROVE  /\ values'[s] = values[s] /\ values[s] \in Threads
             /\ obj'[values[s]].pid = obj[values[s]].pid
             /\ obj[values[s]].state # "none" => obj'[values[s]].state # "none"
  <2>1. values'[s] = values[s] /\ values[s] \in 0 .. MaxThread
    BY <1>4 DEF Calm, Inv, TypeOK, Typed
  <2>2. values[s] \in Threads
    BY <1>4, <2>1 DEF Threads
  <2>3. \A v \in Threads :
          /\ obj'[v].pid = obj[v].pid
          /\ obj[v].state # "none" => obj'[v].state # "none"
    BY DEF Calm
  <2> QED
    BY <2>1, <2>2, <2>3
<1>5. MapSound'
  <2>1. ASSUME NEW s \in Slots, values'[s] # 0 PROVE obj'[values'[s]].state # "none"
    <3>1. obj[values[s]].state # "none"
      BY <1>4, <2>1 DEF Inv, MapSound
    <3> QED
      BY <1>4, <2>1, <3>1
  <2>2. ASSUME NEW d \in Callers, NEW s \in Slots, InSet(d)', values'[s] = sptr'[d]
        PROVE  s = at'[d]
    <3>1. values'[s] # 0
      BY <1>3, <2>2 DEF Threads
    <3>2. values[s] = sptr[d] /\ InSet(d)
      BY <1>3, <1>4, <2>2, <3>1
    <3>3. s = at[d]
      BY <3>2 DEF Inv, MapSound
    <3> QED
      BY <1>3, <2>2, <3>3
  <2> QED
    BY <2>1, <2>2 DEF MapSound
<1>6. PidIsSlot'
  <2>1. ASSUME NEW s \in Slots, values'[s] # 0
        PROVE  \/ obj'[values'[s]].pid = s
               \/ \E d \in Callers : /\ pc'[d] \in {"setkey", "setpid"}
                                     /\ sptr'[d] = values'[s] /\ at'[d] = s
    <3>1. CASE obj[values[s]].pid = s
      BY <1>4, <2>1, <3>1
    <3>2. CASE obj[values[s]].pid # s
      <4>1. values[s] # 0
        BY <1>4, <2>1
      <4>2. PICK d \in Callers : /\ pc[d] \in {"setkey", "setpid"}
                                 /\ sptr[d] = values[s] /\ at[d] = s
        BY <3>2, <4>1 DEF Inv, PidIsSlot
      <4>4. Kept(d)
        BY <4>2 DEF InSet
      <4> QED
        BY <1>4, <2>1, <4>2, <4>4 DEF Kept, InSet
    <3> QED
      BY <3>1, <3>2
  <2> QED
    BY <2>1 DEF PidIsSlot
<1> QED
  BY <1>1, <1>5, <1>6 DEF Inv, TypeOK

(* A step that takes and gives back no lock keeps the account of the two   *)
(* locks.                                                                  *)
LEMMA LocksStay ==
  ASSUME Inv, NEW c \in Callers, Moves(c), UNCHANGED lockVars,
         HoldsMutex(c)' <=> HoldsMutex(c), HoldsCloseMutex(c)' <=> HoldsCloseMutex(c)
  PROVE  LocksHeld'
<1>1. ASSUME NEW d \in Callers, d # c
      PROVE  (HoldsMutex(d)' <=> HoldsMutex(d)) /\ (HoldsCloseMutex(d)' <=> HoldsCloseMutex(d))
  <2>1. Same(d)
    BY <1>1 DEF Moves
  <2> QED
    BY <2>1 DEF Same, HoldsMutex, HoldsCloseMutex, Creates
<1> QED
  BY <1>1 DEF Inv, TypeOK, LocksHeld, lockVars

(* So does one in which the caller that moves takes or gives back a lock. *)
LEMMA LocksMove ==
  ASSUME Inv, NEW c \in Callers, Moves(c),
         mutex' \subseteq Callers, closeMutex' \subseteq Callers,
         \/ mutex' = {} \/ mutex' = {c} \/ mutex' = mutex,
         \/ closeMutex' = {} \/ closeMutex' = {c} \/ closeMutex' = closeMutex,
         mutex' # mutex => mutex \subseteq {c},
         closeMutex' # closeMutex => closeMutex \subseteq {c},
         c \in mutex' <=> HoldsMutex(c)', c \in closeMutex' <=> HoldsCloseMutex(c)'
  PROVE  LocksHeld'
<1>1. ASSUME NEW d \in Callers, d # c
      PROVE  /\ HoldsMutex(d)' <=> HoldsMutex(d)
             /\ HoldsCloseMutex(d)' <=> HoldsCloseMutex(d)
  <2>1. Same(d)
    BY <1>1 DEF Moves
  <2> QED
    BY <2>1 DEF Same, HoldsMutex, HoldsCloseMutex, Creates
<1>2. LocksHeld
  BY DEF Inv, TypeOK
<1>3. ASSUME NEW d \in Callers
      PROVE  (d \in mutex' <=> HoldsMutex(d)') /\ (d \in closeMutex' <=> HoldsCloseMutex(d)')
  <2>1. CASE d # c
    <3>1. (d \in mutex' <=> d \in mutex) /\ (d \in closeMutex' <=> d \in closeMutex)
      BY <2>1
    <3> QED
      BY <1>1, <1>2, <2>1, <3>1 DEF LocksHeld
  <2> QED
    BY <2>1
<1>4. \A d, e \in mutex' : d = e
  BY <1>2 DEF LocksHeld
<1>5. \A d, e \in closeMutex' : d = e
  BY <1>2 DEF LocksHeld
<1> QED
  BY <1>3, <1>4, <1>5 DEF LocksHeld

(* The loops over vectKeys_ and vectValues_ stay within the map. *)
LEMMA NextSlot ==
  /\ Slots \subseteq 0 .. Capacity /\ 0 \in 0 .. Capacity /\ 0 \in Slots
  /\ \A i \in 0 .. Capacity : i # Capacity => i \in Slots
  /\ \A i \in Slots : i # Capacity /\ i + 1 \in 0 .. Capacity
BY DEF Slots

(* What the invariant says of one caller. *)
LEMMA Known ==
  ASSUME Inv, NEW c \in Callers
  PROVE  /\ Typed /\ CallersTyped /\ Placed(c) /\ LocksHeld
         /\ pc[c] \in Places /\ at[c] \in 0 .. Capacity /\ sptr[c] \in 0 .. MaxThread
         /\ look[c] \in Looks
         /\ \A s \in Slots : values[s] \in 0 .. MaxThread
BY DEF Inv, TypeOK, CallersTyped, Typed

(* A caller inside a call that goes on to another line of it moves alone. *)
LEMMA Goes ==
  ASSUME Inv, NEW c \in Callers,
         NEW p \in Places \ {"out", "setkey", "setpid"},
         NEW i \in 0 .. Capacity, NEW v \in 0 .. MaxThread,
         pc[c] # "out", ~InSet(c), Goto(c, p),
         at' \in {at, [at EXCEPT ![c] = i]}, sptr' \in {sptr, [sptr EXCEPT ![c] = v]},
         tries' \in [Callers -> 0 .. 2], UNCHANGED <<look, callVars>>,
         p \in Searching => call[c].op # "stopAll",
         p \in {"poll", "clearvalue"} => at'[c] \in Slots
  PROVE  Moves(c) /\ pc'[c] = p /\ ~InSet(c)'
<1>1. CallersTyped /\ Placed(c)
  BY Known
<1>2. pc' \in [Callers -> Places] /\ pc'[c] = p
  BY <1>1 DEF CallersTyped, Goto
<1>3. at' \in [Callers -> 0 .. Capacity]
  BY <1>1 DEF CallersTyped
<1>4. sptr' \in [Callers -> 0 .. MaxThread]
  BY <1>1 DEF CallersTyped
<1>5. CallersTyped'
  BY <1>1, <1>2, <1>3, <1>4 DEF CallersTyped, callVars
<1>6. \A d \in Callers \ {c} : Same(d)
  BY <1>1 DEF CallersTyped, Goto, Same, callVars
<1>7. ~InSet(c)'
  BY <1>2 DEF InSet
<1>8. Placed(c)'
  BY <1>1, <1>2, <1>7 DEF Placed, callVars, InSet, Creates
<1> QED
  BY <1>2, <1>5, <1>6, <1>7, <1>8 DEF Moves

(* Holds no lock. *)
Free(c) == ~HoldsMutex(c) /\ ~HoldsCloseMutex(c) /\ ~InSet(c)

(* A calm step of a caller outside of SafeMap::set() keeps the invariant   *)
(* when the locks are accounted for.                                       *)
LEMMA CallerSteps ==
  ASSUME Inv, NEW c \in Callers, Moves(c), Calm, ~InSet(c), ~InSet(c)', LocksHeld'
  PROVE  Inv'
<1>1. CallersTyped' /\ Placed(c)' /\ \A d \in Callers \ {c} : Same(d)
  BY DEF Moves
<1>2. \A d \in Callers : Placed(d)' /\ (Kept(d) \/ (~InSet(d) /\ ~InSet(d)'))
  BY <1>1, Known, SameKept
<1> QED
  BY <1>1, <1>2, CalmStep

(* The same for a step that takes and gives back no lock. *)
LEMMA KeepsLocks ==
  ASSUME Inv, NEW c \in Callers, Moves(c), Calm, UNCHANGED lockVars,
         ~InSet(c), ~InSet(c)',
         HoldsMutex(c)' <=> HoldsMutex(c), HoldsCloseMutex(c)' <=> HoldsCloseMutex(c)
  PROVE  Inv'
BY LocksStay, CallerSteps

(* The same for a caller that holds no lock before or after its step. *)
LEMMA FreeStep ==
  ASSUME Inv, NEW c \in Callers, Moves(c), Calm, UNCHANGED lockVars, Free(c), Free(c)'
  PROVE  Inv'
BY KeepsLocks DEF Free

(* The lines of a call that run under no lock. *)
FreePlaces == {"out", "enter", "check", "capacity", "init", "created", "startkey",
               "startlock", "starting", "joining", "back", "close"}

(* Where a caller holds neither lock. *)
LEMMA FreeAt ==
  ASSUME NEW c
  PROVE  /\ pc[c] \in FreePlaces => Free(c)
         /\ pc[c] \in {"key", "value", "found"} /\ (Creates(c) => look[c] \in {"unborn", "first"})
              => Free(c)
BY DEF Free, FreePlaces, HoldsMutex, HoldsCloseMutex, InSet

(* The same after a step. *)
LEMMA FreeNext ==
  ASSUME NEW c
  PROVE  /\ pc'[c] \in FreePlaces => Free(c)'
         /\ pc'[c] \in {"key", "value", "found"} /\ look'[c] \in {"unborn", "first"} => Free(c)'
BY DEF Free, FreePlaces, HoldsMutex, HoldsCloseMutex, InSet

(* A call that holds no lock returns. *)
LEMMA Returns ==
  ASSUME Inv, NEW c \in Callers, Free(c), Return(c), Calm, UNCHANGED lockVars
  PROVE  Inv'
<1>1. Moves(c) /\ pc'[c] = "out"
  BY Known, ReturnMoves
<1> QED
  BY <1>1, FreeNext, FreeStep DEF FreePlaces

(* A call that holds no lock goes on with its list. *)
LEMMA AsksNext ==
  ASSUME Inv, NEW c \in Callers, Free(c), pc[c] # "out", NextOf(c), Calm, UNCHANGED lockVars
  PROVE  Inv'
<1>1. Moves(c) /\ pc'[c] \in {"enter", "out"}
  BY Known, NextOfMoves
<1> QED
  BY <1>1, FreeNext, FreeStep DEF FreePlaces

(* A call that holds no lock begins to look for a name or a pid, as        *)
(* thread(), getThread() and the first look of create() do.                *)
LEMMA Searches ==
  ASSUME Inv, NEW c \in Callers, Free(c), pc[c] # "out", call[c].op # "stopAll",
         NEW why \in {"unborn", "first"}, Search(c, why), UNCHANGED <<callVars, tries>>,
         Calm, UNCHANGED lockVars
  PROVE  Inv'
<1>1. CallersTyped /\ Sensible(call[c])
  BY Known DEF Placed
<1>2. UNCHANGED <<call, on, calls>> /\ tries' \in [Callers -> 0 .. 2]
  BY <1>1 DEF callVars, CallersTyped
<1>3. why \in Looks
  BY DEF Looks
<1>4. Moves(c) /\ pc'[c] \in {"key", "value"} /\ look'[c] = why
  BY <1>1, <1>2, <1>3, SearchMoves
<1> QED
  BY <1>4, FreeNext, FreeStep

(* A call that holds no lock goes on. *)
LEMMA GoesFree ==
  ASSUME Inv, NEW c \in Callers, Free(c), pc[c] # "out", NEW p \in FreePlaces \ {"out"},
         Goto(c, p), p \in Searching => call[c].op # "stopAll",
         NEW i \in 0 .. Capacity, at' \in {at, [at EXCEPT ![c] = i]},
         UNCHANGED <<sptr, look, tries, callVars>>, Calm, UNCHANGED lockVars
  PROVE  Inv'
<1>1. p \in Places \ {"out", "setkey", "setpid"} /\ p \notin {"poll", "clearvalue"}
  BY DEF FreePlaces, Places
<1>2. tries' \in [Callers -> 0 .. 2] /\ sptr[c] \in 0 .. MaxThread
  BY Known DEF CallersTyped
<1>3. Moves(c) /\ pc'[c] = p
  BY <1>1, <1>2, Goes DEF Free
<1> QED
  BY <1>3, FreeNext, FreeStep
-----------------------------------------------------------------------------

(* The ends of start(), getThread(), send(), ThreadJoin() and stopAll()    *)
(* keep the invariant.                                                     *)
LEMMA ReturnKeeps ==
  ASSUME Inv, NEW c \in Callers,
         \/ StartReturns(c) \/ GiveThread(c) \/ Send(c) \/ Joined(c) \/ Back(c)
  PROVE  Inv'
<1>1. Typed
  BY Known
<1>2. CASE StartReturns(c)
  BY <1>1, <1>2, CalmSame, FreeAt, Returns DEF StartReturns, FreePlaces
<1>3. CASE Back(c)
  BY <1>1, <1>3, CalmSame, FreeAt, Returns DEF Back, FreePlaces, history
<1>4. CASE Joined(c)
  BY <1>1, <1>4, CalmSame, FreeAt, AsksNext DEF Joined, FreePlaces, history
<1>5. CASE GiveThread(c) \/ Send(c)
  <2>1. Free(c)
    BY <1>5, FreeAt DEF GiveThread, Send, Found, Creates
  <2> QED
    BY <1>1, <1>5, <2>1, CalmSame, AsksNext DEF GiveThread, Send, Found, history
<1> QED
  BY <1>2, <1>3, <1>4, <1>5

(* OpenThread::start() looks at the state without the spin lock. *)
LEMMA StartKeeps ==
  ASSUME Inv, NEW c \in Callers, StartLooks(c)
  PROVE  Inv'
<1>1. Free(c) /\ Calm /\ pc[c] # "out"
  BY Known, CalmSame, FreeAt DEF StartLooks, FreePlaces
<1>2. CASE Return(c)
  BY <1>1, <1>2, Returns DEF StartLooks
<1>3. CASE ~Return(c)
  <2>1. Goto(c, "startlock") /\ UNCHANGED <<at, sptr, heldVars>>
    BY <1>3 DEF StartLooks
  <2>2. "startlock" \in FreePlaces \ {"out"} /\ "startlock" \notin Searching
    BY DEF FreePlaces, Searching
  <2> QED
    BY <1>1, <2>1, <2>2, NextSlot, GoesFree DEF StartLooks, heldVars
<1> QED
  BY <1>2, <1>3

(* A thread that is told to stop, or no longer is, is still a thread       *)
(* object.                                                                 *)
LEMMA ToldTyped ==
  ASSUME Typed, NEW v, NEW t \in BOOLEAN, NEW o, o = [obj EXCEPT ![v].told = t]
  PROVE  o \in [Threads -> ObjType]
BY DEF Typed, ObjType

(* OpenThread::stop() changes neither the map nor a pid. *)
LEMMA CalmTell ==
  ASSUME Typed, UNCHANGED <<flagVars, mapVars, closed>>, NEW v, obj' = Tell(v) \/ obj' = obj
  PROVE  Calm
<1>1. PICK t \in BOOLEAN : Tell(v) = [obj EXCEPT ![v].told = t]
  <2>1. (obj[v].told \/ Running(v)) \in BOOLEAN
    BY Zenon
  <2>2. Tell(v) = [obj EXCEPT ![v].told = (obj[v].told \/ Running(v))]
    BY DEF Tell
  <2> QED
    BY <2>1, <2>2, Zenon
<1>2. Tell(v) \in [Threads -> ObjType]
  BY <1>1, ToldTyped
<1>3. \A w \in Threads : Tell(v)[w].pid = obj[w].pid /\ Tell(v)[w].state = obj[w].state
  BY <1>1 DEF Typed
<1>4. /\ obj' \in [Threads -> ObjType]
      /\ \A w \in Threads : obj'[w].pid = obj[w].pid /\ obj'[w].state = obj[w].state
  BY <1>2, <1>3 DEF Typed, ObjType
<1> QED
  BY <1>4 DEF Typed, Calm, flagVars, mapVars

(* A change of threadState_ changes neither the map nor a pid. *)
LEMMA CalmState ==
  ASSUME Typed, UNCHANGED <<flagVars, mapVars, closed>>, NEW v,
         NEW st \in {"STOP", "START", "RUN"},
         \/ obj' = [obj EXCEPT ![v].state = st]
         \/ obj' = [obj EXCEPT ![v].state = st, ![v].told = FALSE]
  PROVE  Calm
<1>1. obj' \in [Threads -> ObjType]
  <2>1. obj \in [Threads -> ObjType]
    BY DEF Typed, ObjType
  <2>2. \A o \in ObjType : [o EXCEPT !.state = st] \in ObjType
    BY DEF ObjType
  <2>3. \A o \in ObjType : [o EXCEPT !.state = st, !.told = FALSE] \in ObjType
    BY DEF ObjType
  <2>4. CASE obj' = [obj EXCEPT ![v].state = st]
    BY <2>1, <2>2, <2>4
  <2>5. CASE obj' = [obj EXCEPT ![v].state = st, ![v].told = FALSE]
    BY <2>1, <2>3, <2>5
  <2> QED
    BY <2>4, <2>5
<1>2. \A w \in Threads : obj'[w].pid = obj[w].pid /\ obj'[w].state \in {obj[w].state, st}
  BY DEF Typed
<1> QED
  BY <1>1, <1>2 DEF Typed, Calm, flagVars, mapVars

(* start() under the spin lock of the thread. *)
LEMMA StartLocksKeeps ==
  ASSUME Inv, NEW c \in Callers, StartLocks(c)
  PROVE  Inv'
<1>1. Free(c) /\ pc[c] # "out" /\ Typed
  BY Known, FreeAt DEF StartLocks, FreePlaces
<1>2. CASE obj[sptr[c]].state = "STOP"
  <2>1. Calm
    BY <1>1, <1>2, CalmState DEF StartLocks
  <2>2. "starting" \in FreePlaces \ {"out"} /\ "starting" \notin Searching
    BY DEF FreePlaces, Searching
  <2> QED
    BY <1>1, <1>2, <2>1, <2>2, NextSlot, GoesFree DEF StartLocks, heldVars
<1>3. CASE obj[sptr[c]].state # "STOP"
  BY <1>1, <1>3, CalmSame, Returns DEF StartLocks
<1> QED
  BY <1>2, <1>3

(* stop() of a thread, ThreadJoin() and the stop of a thread by its own    *)
(* callback.                                                               *)
LEMMA StopKeeps ==
  ASSUME Inv, NEW c \in Callers, Stop(c) \/ Join(c) \/ Halt(c)
  PROVE  Inv'
<1>1. Free(c) /\ pc[c] # "out" /\ Typed
  BY Known, FreeAt DEF Stop, Join, Halt, Found, Creates
<1>2. Calm /\ UNCHANGED lockVars
  BY <1>1, CalmTell DEF Stop, Join, Halt, history
<1>3. CASE NextOf(c)
  BY <1>1, <1>2, <1>3, AsksNext
<1>4. CASE ~NextOf(c)
  <2>1. Goto(c, "joining") /\ UNCHANGED <<at, sptr, heldVars>>
    BY <1>4 DEF Stop, Join, Halt
  <2>2. "joining" \in FreePlaces \ {"out"} /\ "joining" \notin Searching
    BY DEF FreePlaces, Searching
  <2> QED
    BY <1>1, <1>2, <2>1, <2>2, NextSlot, GoesFree DEF heldVars
<1> QED
  BY <1>3, <1>4

(* What a call does with the thread it has found, or has not. *)
LEMMA LaunchKeeps ==
  ASSUME Inv, NEW c \in Callers, Launch(c)
  PROVE  Inv'
<1>1. Free(c) /\ Calm /\ pc[c] # "out" /\ call[c].op # "stopAll"
  BY Known, CalmSame, FreeAt DEF Launch, Placed, Searching
<1>2. CASE sptr[c] # 0
  BY <1>1, <1>2, Returns DEF Launch
<1>3. CASE sptr[c] = 0
  BY <1>1, <1>3, Searches DEF Launch
<1> QED
  BY <1>2, <1>3

(* The end of create(), with the pid taken for a boolean. *)
LEMMA CreatedKeeps ==
  ASSUME Inv, NEW c \in Callers, Created(c)
  PROVE  Inv'
<1>1. Free(c) /\ Calm /\ pc[c] # "out"
  BY Known, CalmSame, FreeAt DEF Created, FreePlaces
<1>2. CASE Return(c)
  BY <1>1, <1>2, Returns DEF Created
<1>3. CASE ~Return(c)
  <2>1. Goto(c, "startkey") /\ at' = [at EXCEPT ![c] = 0] /\ UNCHANGED <<sptr, heldVars>>
    BY <1>3 DEF Created
  <2>2. "startkey" \in FreePlaces \ {"out"} /\ "startkey" \notin Searching
    BY DEF FreePlaces, Searching
  <2> QED
    BY <1>1, <2>1, <2>2, NextSlot, GoesFree DEF Created, heldVars
<1> QED
  BY <1>2, <1>3

(* A call enters the pool and tests isClearIng_ or the name. *)
LEMMA EnterKeeps ==
  ASSUME Inv, NEW c \in Callers, Enter(c)
  PROVE  Inv'
<1>1. Free(c) /\ Calm /\ pc[c] # "out"
  BY Known, CalmSame, FreeAt DEF Enter, FreePlaces, history
<1>2. First(c) \in {"unborn", "first"}
  BY DEF First
<1>3. CASE call[c].op # "stopAll" /\ Search(c, First(c))
  BY <1>1, <1>2, <1>3, Searches DEF Enter
<1>4. CASE ~(call[c].op # "stopAll" /\ Search(c, First(c)))
  <2>1. PICK p \in {"back", "close", "capacity", "check"} :
          /\ Goto(c, p) /\ UNCHANGED <<look, at, sptr>>
          /\ p \in {"capacity", "check"} => call[c].op # "stopAll"
    BY <1>4 DEF Enter
  <2>2. p \in FreePlaces \ {"out"} /\ (p \in Searching => call[c].op # "stopAll")
    BY <2>1 DEF FreePlaces, Searching
  <2> QED
    BY <1>1, <2>1, <2>2, NextSlot, GoesFree DEF Enter
<1> QED
  BY <1>3, <1>4

(* It tests isInit_ without a lock. *)
LEMMA CheckInitKeeps ==
  ASSUME Inv, NEW c \in Callers, CheckInit(c)
  PROVE  Inv'
<1>1. Free(c) /\ Calm /\ pc[c] # "out" /\ call[c].op # "stopAll"
  BY Known, CalmSame, FreeAt DEF CheckInit, FreePlaces, history, Placed, Searching
<1>2. First(c) \in {"unborn", "first"}
  BY DEF First
<1>3. CASE Search(c, First(c))
  BY <1>1, <1>2, <1>3, Searches DEF CheckInit
<1>4. CASE ~Search(c, First(c))
  <2>1. PICK p \in {"back", "init"} : Goto(c, p) /\ UNCHANGED <<look, at, sptr>>
    BY <1>4 DEF CheckInit
  <2>2. p \in FreePlaces \ {"out"}
    BY DEF FreePlaces
  <2> QED
    BY <1>1, <2>1, <2>2, NextSlot, GoesFree DEF CheckInit
<1> QED
  BY <1>3, <1>4

(* init() under mutex_. *)
LEMMA InitPoolKeeps ==
  ASSUME Inv, NEW c \in Callers, InitPool(c)
  PROVE  Inv'
<1>1. Free(c) /\ pc[c] # "out" /\ call[c].op # "stopAll"
  BY Known, FreeAt DEF InitPool, FreePlaces, Placed, Searching
<1>2. Calm
  BY Known DEF InitPool, Calm, Typed, mapVars, ObjType
<1>3. First(c) \in {"unborn", "first"}
  BY DEF First
<1>4. CASE isClearIng
  <2>1. "back" \in FreePlaces \ {"out"} /\ "back" \notin Searching
    BY DEF FreePlaces, Searching
  <2> QED
    BY <1>1, <1>2, <1>4, <2>1, NextSlot, GoesFree DEF InitPool
<1>5. CASE ~isClearIng
  BY <1>1, <1>2, <1>3, <1>5, Searches DEF InitPool
<1> QED
  BY <1>4, <1>5
-----------------------------------------------------------------------------

(* A call begins, with the arguments of some call of the caller. *)
LEMMA BeginKeeps ==
  ASSUME Inv, NEW c \in Callers, Begin(c)
  PROVE  Inv'
<1>1. CallersTyped /\ Free(c) /\ Calm
  BY Known, CalmSame, FreeAt DEF Begin, FreePlaces, history
<1>2. PICK k \in Calls[c][calls[c] + 1] : call' = [call EXCEPT ![c] = k]
  BY DEF Begin
<1>3. Sensible(k) /\ k \in Call
  <2>1. calls[c] \in Nat /\ Calls[c] \in Seq(SUBSET Call) /\ calls[c] < Len(Calls[c])
    BY <1>1, CallsType DEF CallersTyped, Begin
  <2>2. calls[c] + 1 \in DOMAIN Calls[c]
    BY <2>1
  <2>3. Sensible(k)
    BY <1>2, <2>2, CallsType
  <2> QED
    BY <2>3 DEF Sensible
<1>4. on' \in [Callers -> 0 .. MaxThread]
  <2>1. CASE UNCHANGED on
    BY <1>1, <2>1 DEF CallersTyped
  <2>2. CASE ~UNCHANGED on
    <3>1. PICK v \in Threads : on' = [on EXCEPT ![c] = v]
      BY <2>2 DEF Begin
    <3> QED
      BY <1>1, <3>1 DEF CallersTyped, Threads
  <2> QED
    BY <2>1, <2>2
<1>5. CallersTyped' /\ pc'[c] = "enter" /\ call'[c] = k
  <2>1. pc' \in [Callers -> Places] /\ pc'[c] = "enter"
    BY <1>1 DEF CallersTyped, Begin, Goto, Places
  <2>2. call' \in [Callers -> Call] /\ call'[c] = k
    BY <1>1, <1>2, <1>3 DEF CallersTyped
  <2>3. calls' \in [Callers -> Nat]
    BY <1>1 DEF CallersTyped, Begin
  <2> QED
    BY <1>1, <1>4, <2>1, <2>2, <2>3 DEF CallersTyped, Begin
<1>6. \A d \in Callers \ {c} : Same(d)
  BY <1>1, <1>2 DEF CallersTyped, Begin, Goto, Same
<1>7. Placed(c)'
  BY <1>3, <1>5 DEF Placed, Searching, InSet
<1>8. Moves(c)
  BY <1>5, <1>6, <1>7 DEF Moves
<1> QED
  BY <1>1, <1>5, <1>8, FreeNext, FreeStep DEF Begin, FreePlaces

(* SafeMap::operator[] reads a key, under mutex_ or under no lock. *)
LEMMA ReadKeyKeeps ==
  ASSUME Inv, NEW c \in Callers, ReadKey(c)
  PROVE  Inv'
<1>1. CallersTyped /\ Placed(c) /\ Calm /\ ~InSet(c)
  BY Known, CalmSame DEF ReadKey, history, InSet
<1>2. PICK p \in {"key", "value", "found"}, i \in 0 .. Capacity :
        Goto(c, p) /\ at' \in {at, [at EXCEPT ![c] = i]}
  <2>1. \/ (Goto(c, "found") \/ Goto(c, "value")) /\ UNCHANGED at
        \/ at[c] \in Slots /\ at' = [at EXCEPT ![c] = at[c] + 1] /\ UNCHANGED pc
    BY Known, NextSlot DEF ReadKey
  <2>2. CASE (Goto(c, "found") \/ Goto(c, "value")) /\ UNCHANGED at
    BY <2>2, NextSlot
  <2>3. CASE at[c] \in Slots /\ at' = [at EXCEPT ![c] = at[c] + 1] /\ UNCHANGED pc
    <3>1. Goto(c, "key")
      BY <1>1, <2>3 DEF Goto, ReadKey, CallersTyped
    <3> QED
      BY <2>3, <3>1, NextSlot
  <2> QED
    BY <2>1, <2>2, <2>3
<1>3. p \in Places \ {"out", "setkey", "setpid"}
  BY DEF Places
<1>4. tries' \in [Callers -> 0 .. 2] /\ 0 \in 0 .. MaxThread
  BY <1>1 DEF ReadKey, heldVars, CallersTyped
<1>5. Moves(c) /\ pc'[c] = p /\ ~InSet(c)'
  BY <1>1, <1>2, <1>3, <1>4, Goes DEF ReadKey, heldVars, Placed, Searching
<1>6. /\ HoldsMutex(c)' <=> HoldsMutex(c)
      /\ HoldsCloseMutex(c)' <=> HoldsCloseMutex(c)
  BY <1>5 DEF ReadKey, heldVars, callVars, HoldsMutex, HoldsCloseMutex, Creates
<1> QED
  BY <1>1, <1>5, <1>6, KeepsLocks DEF ReadKey

(* It reads the value beside that key. *)
LEMMA ReadValueKeeps ==
  ASSUME Inv, NEW c \in Callers, ReadValue(c)
  PROVE  Inv'
<1>1. CallersTyped /\ Placed(c) /\ Calm /\ ~InSet(c)
  BY Known, CalmSame DEF ReadValue, InSet
<1>2. PICK v \in 0 .. MaxThread : sptr' = [sptr EXCEPT ![c] = v]
  <2>1. at[c] < Capacity => at[c] \in Slots
    BY Known, NextSlot
  <2> DEFINE v == IF at[c] < Capacity THEN values[at[c]] ELSE 0
  <2>2. v \in 0 .. MaxThread
    BY <2>1, Known
  <2>3. sptr' = [sptr EXCEPT ![c] = v]
    BY DEF ReadValue
  <2> QED
    BY <2>2, <2>3
<1>3. "found" \in Places \ {"out", "setkey", "setpid"} /\ 0 \in 0 .. Capacity
  BY DEF Places
<1>4. tries' \in [Callers -> 0 .. 2]
  BY <1>1 DEF ReadValue, heldVars, CallersTyped
<1>5. Moves(c) /\ pc'[c] = "found" /\ ~InSet(c)'
  BY <1>1, <1>2, <1>3, <1>4, Goes DEF ReadValue, heldVars, Placed, Searching
<1>6. /\ HoldsMutex(c)' <=> HoldsMutex(c)
      /\ HoldsCloseMutex(c)' <=> HoldsCloseMutex(c)
  BY <1>5 DEF ReadValue, heldVars, callVars, HoldsMutex, HoldsCloseMutex, Creates
<1> QED
  BY <1>1, <1>5, <1>6, KeepsLocks DEF ReadValue

(* create() takes mutex_. *)
LEMMA LockToCreateKeeps ==
  ASSUME Inv, NEW c \in Callers, LockToCreate(c)
  PROVE  Inv'
<1>1. CallersTyped /\ Placed(c) /\ Calm /\ ~InSet(c) /\ LocksHeld /\ Creates(c)
  BY Known, CalmSame DEF LockToCreate, history, InSet
<1>2. Sensible(call[c]) /\ call[c].op # "stopAll" /\ "locked" \in Looks
  BY <1>1 DEF LockToCreate, Placed, Searching, Looks
<1>3. UNCHANGED <<call, on, calls>> /\ tries' \in [Callers -> 0 .. 2]
  BY <1>1 DEF LockToCreate, callVars, CallersTyped
<1>4. Moves(c) /\ pc'[c] \in {"key", "value"} /\ look'[c] = "locked"
  BY <1>1, <1>2, <1>3, SearchMoves DEF LockToCreate
<1>5. HoldsMutex(c)' /\ ~InSet(c)'
  BY <1>1, <1>3, <1>4 DEF HoldsMutex, InSet, Creates
<1>6. c \in closeMutex' <=> HoldsCloseMutex(c)'
  BY <1>1, <1>4 DEF LockToCreate, LocksHeld, HoldsCloseMutex
<1>7. LocksHeld'
  BY <1>1, <1>4, <1>5, <1>6, LocksMove DEF LockToCreate, LocksHeld
<1> QED
  BY <1>1, <1>4, <1>5, <1>7, CallerSteps

(* The second look of create(), under mutex_. *)
LEMMA LookAgainKeeps ==
  ASSUME Inv, NEW c \in Callers, LookAgain(c)
  PROVE  Inv'
<1>1. CallersTyped /\ Placed(c) /\ Calm /\ ~InSet(c) /\ LocksHeld /\ Creates(c)
  BY Known, CalmSame DEF LookAgain, history, InSet
<1>2. HoldsMutex(c) /\ ~HoldsCloseMutex(c)
  BY <1>1 DEF LookAgain, HoldsMutex, HoldsCloseMutex
<1>3. CASE Search(c, "again")
  <2>1. Sensible(call[c]) /\ call[c].op # "stopAll" /\ "again" \in Looks
    BY <1>1 DEF LookAgain, Placed, Searching, Looks
  <2>2. UNCHANGED <<call, on, calls>> /\ tries' \in [Callers -> 0 .. 2]
    BY <1>1 DEF LookAgain, callVars, CallersTyped
  <2>3. Moves(c) /\ pc'[c] \in {"key", "value"} /\ look'[c] = "again"
    BY <1>1, <1>3, <2>1, <2>2, SearchMoves
  <2>4. HoldsMutex(c)' /\ ~HoldsCloseMutex(c)' /\ ~InSet(c)'
    BY <1>1, <2>2, <2>3 DEF HoldsMutex, HoldsCloseMutex, InSet, Creates
  <2> QED
    BY <1>1, <1>2, <2>3, <2>4, KeepsLocks DEF LookAgain
<1>4. CASE ~Search(c, "again")
  <2>1. Goto(c, "unlock") /\ UNCHANGED <<look, at, sptr>>
    BY <1>4 DEF LookAgain
  <2>2. /\ "unlock" \in Places \ {"out", "setkey", "setpid"} /\ 0 \in 0 .. Capacity
        /\ 0 \in 0 .. MaxThread /\ "unlock" \notin Searching
    BY DEF Places, Searching
  <2>3. tries' \in [Callers -> 0 .. 2] /\ pc[c] # "out"
    BY <1>1 DEF LookAgain, CallersTyped
  <2>4. Moves(c) /\ pc'[c] = "unlock" /\ ~InSet(c)'
    BY <1>1, <2>1, <2>2, <2>3, Goes DEF LookAgain
  <2>5. HoldsMutex(c)' /\ ~HoldsCloseMutex(c)'
    BY <2>4 DEF HoldsMutex, HoldsCloseMutex
  <2> QED
    BY <1>1, <1>2, <2>4, <2>5, KeepsLocks DEF LookAgain
<1> QED
  BY <1>3, <1>4

(* create() gives mutex_ back. *)
LEMMA UnlockKeeps ==
  ASSUME Inv, NEW c \in Callers, Unlock(c)
  PROVE  Inv'
<1>1. CallersTyped /\ Placed(c) /\ Calm /\ ~InSet(c) /\ LocksHeld
  BY Known, CalmSame DEF Unlock, history, InSet
<1>2. mutex = {c} /\ mutex' = {} /\ UNCHANGED closeMutex
  BY <1>1 DEF Unlock, LocksHeld, HoldsMutex
<1>3. /\ "created" \in Places \ {"out", "setkey", "setpid"} /\ 0 \in 0 .. Capacity
      /\ 0 \in 0 .. MaxThread /\ "created" \notin Searching
  BY DEF Places, Searching
<1>4. tries' \in [Callers -> 0 .. 2]
  BY <1>1 DEF Unlock, heldVars, CallersTyped
<1>5. Moves(c) /\ pc'[c] = "created" /\ ~InSet(c)'
  BY <1>1, <1>3, <1>4, Goes DEF Unlock, heldVars
<1>6. ~HoldsMutex(c)' /\ (c \in closeMutex' <=> HoldsCloseMutex(c)')
  BY <1>1, <1>2, <1>5 DEF Unlock, LocksHeld, HoldsMutex, HoldsCloseMutex
<1>7. LocksHeld'
  BY <1>1, <1>2, <1>5, <1>6, LocksMove DEF LocksHeld
<1> QED
  BY <1>1, <1>5, <1>7, CallerSteps
-----------------------------------------------------------------------------

(* mutex_ lets only one caller be inside SafeMap::set(), for it alone is   *)
(* called under that lock.                                                 *)
LEMMA AloneInSet ==
  ASSUME Inv, NEW c \in Callers, HoldsMutex(c)
  PROVE  \A d \in Callers : InSet(d) => d = c
<1>1. LocksHeld
  BY Known
<1> QED
  BY <1>1 DEF LocksHeld, InSet, HoldsMutex

(* SafeMap::set() writes the value: the slot has a new thread whose pid is *)
(* not set yet, and its caller is on the way to set it.                    *)
LEMMA SetValueKeeps ==
  ASSUME Inv, NEW c \in Callers, SetValue(c)
  PROVE  Inv'
<1>1. /\ Typed /\ CallersTyped /\ Placed(c) /\ pc[c] = "found" /\ Creates(c)
      /\ MapSound /\ PidIsSlot
  BY Known DEF SetValue, Inv
<1>2. Name(c) \in Names
  BY <1>1, NameOf DEF Placed, Searching
<1>3. HoldsMutex(c) /\ ~HoldsCloseMutex(c)
  BY <1>1 DEF SetValue, HoldsMutex, HoldsCloseMutex
<1>4. \A d \in Callers : ~InSet(d)
  BY <1>1, <1>3, AloneInSet DEF InSet
<1>5. PICK v \in NewThread, s \in SlotFor(Name(c)) :
        /\ obj' = [obj EXCEPT ![v] =
             [name |-> Name(c), pid |-> -1, state |-> "STOP", told |-> FALSE]]
        /\ values' = [values EXCEPT ![s] = v]
        /\ sptr' = [sptr EXCEPT ![c] = v]
        /\ at' = [at EXCEPT ![c] = s]
  BY DEF SetValue
<1>6. v \in Threads /\ v \in 0 .. MaxThread /\ v # 0 /\ obj[v].state = "none" /\ s \in Slots
  BY <1>5 DEF NewThread, SlotFor, Threads
<1>7. \A r \in Slots : values[r] # v
  BY <1>1, <1>6 DEF MapSound
<1>8. Typed'
  <2>1. obj' \in [Threads -> ObjType]
    BY <1>1, <1>2, <1>5 DEF Typed, ObjType
  <2>2. values' \in [Slots -> 0 .. MaxThread]
    BY <1>1, <1>5, <1>6 DEF Typed
  <2>3. CallersTyped'
    <3>1. pc' \in [Callers -> Places]
      BY <1>1 DEF CallersTyped, Places, SetValue, Goto
    <3>2. at' \in [Callers -> 0 .. Capacity]
      BY <1>1, <1>5, <1>6, NextSlot DEF CallersTyped
    <3>3. sptr' \in [Callers -> 0 .. MaxThread]
      BY <1>1, <1>5, <1>6 DEF CallersTyped
    <3> QED
      BY <1>1, <3>1, <3>2, <3>3 DEF CallersTyped, SetValue, heldVars, callVars
  <2> QED
    BY <1>1, <2>1, <2>2, <2>3 DEF Typed, ObjType, CallersTyped, Looks, SetValue, flagVars, history
<1>9. /\ CallersTyped'
      /\ pc'[c] = "setkey" /\ at'[c] = s /\ sptr'[c] = v
      /\ \A d \in Callers \ {c} : Same(d)
  BY <1>1, <1>5, <1>8 DEF CallersTyped, Typed, Looks, Same, SetValue, Goto, heldVars, callVars
<1>10. Placed(c)'
  BY <1>1, <1>6, <1>9 DEF Placed, InSet, Searching, Creates, SetValue, heldVars, callVars
<1>11. Moves(c)
  BY <1>9, <1>10 DEF Moves
<1>12. LocksHeld'
  <2>1. HoldsMutex(c)' /\ ~HoldsCloseMutex(c)'
    BY <1>9 DEF HoldsMutex, HoldsCloseMutex
  <2> QED
    BY <1>3, <1>11, <2>1, LocksStay DEF SetValue
<1>13. \A d \in Callers : Placed(d)' /\ (d # c => ~InSet(d)')
  BY <1>4, <1>9, <1>10, Known, SameKept DEF Kept
<1>14. MapSound'
  <2>1. \A r \in Slots : values'[r] # 0 => obj'[values'[r]].state # "none"
    BY <1>1, <1>5, <1>6, <1>7 DEF MapSound, Typed, Threads
  <2>2. \A r \in Slots : values'[r] = v => r = s
    BY <1>1, <1>5, <1>7 DEF Typed
  <2> QED
    BY <1>9, <1>13, <2>1, <2>2 DEF MapSound
<1>15. PidIsSlot'
  <2>1. ASSUME NEW r \in Slots, values'[r] # 0, r # s PROVE obj'[values'[r]].pid = r
    <3>1. values'[r] = values[r] /\ values[r] \in Threads /\ values[r] # v
      BY <1>1, <1>5, <1>7, <2>1 DEF Typed, Threads
    <3>2. obj[values[r]].pid = r
      BY <1>1, <1>4, <2>1, <3>1 DEF PidIsSlot, InSet
    <3> QED
      BY <1>1, <1>5, <3>1, <3>2 DEF Typed
  <2>2. values'[s] = v
    BY <1>1, <1>5, <1>6 DEF Typed
  <2> QED
    BY <1>9, <2>1, <2>2 DEF PidIsSlot
<1> QED
  BY <1>8, <1>9, <1>12, <1>13, <1>14, <1>15 DEF Inv, TypeOK

(* SafeMap::set() writes the key. *)
LEMMA SetKeyKeeps ==
  ASSUME Inv, NEW c \in Callers, SetKey(c)
  PROVE  Inv'
<1>1. /\ Typed /\ CallersTyped /\ Placed(c) /\ pc[c] = "setkey" /\ at[c] \in Slots
      /\ Creates(c) /\ sptr[c] \in Threads
  BY Known DEF SetKey, Placed, InSet
<1>2. Name(c) \in Names
  BY <1>1, NameOf DEF Placed, Creates
<1>3. Calm
  <2>1. keys' \in [Slots -> Names \cup {NoName}]
    BY <1>1, <1>2 DEF SetKey, Typed
  <2> QED
    BY <1>1, <2>1 DEF SetKey, Calm, Typed, ObjType, flagVars, history
<1>4. CallersTyped' /\ pc'[c] = "setpid" /\ \A d \in Callers \ {c} : Same(d)
  <2>1. pc' \in [Callers -> Places]
    BY <1>1 DEF CallersTyped, Places, SetKey, Goto
  <2> QED
    BY <1>1, <2>1 DEF CallersTyped, Same, SetKey, Goto, heldVars, callVars
<1>5. Placed(c)' /\ Kept(c)
  BY <1>1, <1>4 DEF Placed, Kept, InSet, Searching, Creates, SetKey, heldVars, callVars
<1>6. Moves(c)
  BY <1>4, <1>5 DEF Moves
<1>7. LocksHeld'
  <2>1. /\ HoldsMutex(c)' <=> HoldsMutex(c)
        /\ HoldsCloseMutex(c)' <=> HoldsCloseMutex(c)
    BY <1>1, <1>4 DEF HoldsMutex, HoldsCloseMutex
  <2> QED
    BY <1>6, <2>1, LocksStay DEF SetKey
<1>8. \A d \in Callers : Placed(d)' /\ (Kept(d) \/ (~InSet(d) /\ ~InSet(d)'))
  BY <1>4, <1>5, Known, SameKept
<1> QED
  BY <1>3, <1>4, <1>7, <1>8, CalmStep

(* create() sets the pid of the thread it has just put into the map: the   *)
(* slot is in order again.                                                 *)
LEMMA SetPidKeeps ==
  ASSUME Inv, NEW c \in Callers, SetPid(c)
  PROVE  Inv'
<1>1. /\ Typed /\ CallersTyped /\ Placed(c) /\ pc[c] = "setpid" /\ Creates(c)
      /\ at[c] \in Slots /\ sptr[c] \in Threads /\ MapSound /\ PidIsSlot
  BY Known DEF SetPid, Placed, InSet, Inv
<1>2. HoldsMutex(c) /\ ~HoldsCloseMutex(c)
  BY <1>1 DEF HoldsMutex, HoldsCloseMutex
<1>3. \A d \in Callers : InSet(d) => d = c
  BY <1>2, AloneInSet
<1>4. UNCHANGED <<values, keys, mutex, closeMutex, call, on, calls, tries, isInit, isClearIng, closed>>
  BY DEF SetPid, flagVars, lockVars, mapVars, callVars, history
<1>5. obj' = [obj EXCEPT ![sptr[c]].pid = at[c]]
  BY DEF SetPid
<1>6. Moves(c) /\ ~InSet(c)' /\ HoldsMutex(c)' /\ ~HoldsCloseMutex(c)'
  <2>1. CASE at[c] = 0
    <3>1. pc' = [pc EXCEPT ![c] = "unlock"] /\ UNCHANGED <<look, at, sptr>>
      BY <2>1 DEF SetPid, Goto
    <3>2. pc' \in [Callers -> Places] /\ pc'[c] = "unlock"
      BY <1>1, <3>1 DEF CallersTyped, Places
    <3>3. CallersTyped' /\ \A d \in Callers \ {c} : Same(d)
      BY <1>1, <1>4, <3>1, <3>2 DEF CallersTyped, Same
    <3>4. Placed(c)'
      BY <1>1, <1>4, <3>2 DEF Placed, InSet, Searching
    <3> QED
      BY <3>2, <3>3, <3>4 DEF Moves, InSet, HoldsMutex, HoldsCloseMutex
  <2>2. CASE at[c] # 0
    <3>1. Search(c, "again")
      BY <2>2 DEF SetPid
    <3>2. Sensible(call[c]) /\ call[c].op # "stopAll" /\ "again" \in Looks
      BY <1>1 DEF Placed, Creates, Looks
    <3>3. tries' \in [Callers -> 0 .. 2]
      BY <1>1, <1>4 DEF CallersTyped
    <3>4. Moves(c) /\ pc'[c] \in {"key", "value"} /\ look'[c] = "again"
      BY <1>1, <1>4, <3>1, <3>2, <3>3, SearchMoves
    <3> QED
      BY <1>1, <1>4, <3>4 DEF InSet, HoldsMutex, HoldsCloseMutex, Creates
  <2> QED
    BY <2>1, <2>2
<1>7. LocksHeld'
  BY <1>2, <1>4, <1>6, LocksStay DEF lockVars
<1>8. \A d \in Callers : Placed(d)' /\ ~InSet(d)'
  BY <1>3, <1>6, Known, SameKept DEF Kept, Moves
<1>9. /\ obj' \in [Threads -> ObjType]
      /\ \A w \in Threads : /\ obj'[w].state = obj[w].state
                            /\ obj'[w].pid = IF w = sptr[c] THEN at[c] ELSE obj[w].pid
  BY <1>1, <1>5 DEF Typed, ObjType
<1>10. Typed'
  BY <1>1, <1>4, <1>6, <1>9 DEF Moves, Typed, CallersTyped, ObjType, Looks
<1>11. \A s \in Slots : values[s] # 0 => values[s] \in Threads
  BY <1>1 DEF Typed, Threads
<1>12. MapSound'
  BY <1>1, <1>4, <1>8, <1>9, <1>11 DEF MapSound
<1>13. PidIsSlot'
  <2>1. ASSUME NEW s \in Slots, values[s] # 0 PROVE obj'[values[s]].pid = s
    <3>1. CASE values[s] = sptr[c]
      <4>1. s = at[c]
        BY <1>1, <3>1 DEF MapSound, InSet
      <4> QED
        BY <1>1, <1>9, <3>1, <4>1
    <3>2. CASE values[s] # sptr[c]
      <4>1. obj[values[s]].pid = s
        BY <1>1, <1>3, <2>1, <3>2 DEF PidIsSlot, InSet
      <4> QED
        BY <1>9, <1>11, <2>1, <3>2, <4>1
    <3> QED
      BY <3>1, <3>2
  <2> QED
    BY <1>4, <2>1 DEF PidIsSlot
<1> QED
  BY <1>6, <1>7, <1>8, <1>10, <1>12, <1>13 DEF Inv, TypeOK, Moves
-----------------------------------------------------------------------------

(* stopAll() sets isClearIng_ and takes mutex_close_. *)
LEMMA CloseKeeps ==
  ASSUME Inv, NEW c \in Callers, Close(c)
  PROVE  Inv'
<1>1. CallersTyped /\ Placed(c) /\ LocksHeld /\ ~InSet(c) /\ pc[c] = "close"
  BY Known DEF Close, InSet
<1>2. Calm
  BY Known DEF Close, Calm, Typed, ObjType, mapVars
<1>3. PICK p \in {"sweep", "back"} :
        /\ Goto(c, p) /\ at' \in {at, [at EXCEPT ![c] = 0]}
        /\ IF p = "sweep" THEN closeMutex = {} /\ closeMutex' = {c}
           ELSE UNCHANGED closeMutex
  BY DEF Close
<1>4. p \in Places \ {"out", "setkey", "setpid"} /\ p \notin Searching
  BY DEF Places, Searching
<1>5. tries' \in [Callers -> 0 .. 2] /\ 0 \in 0 .. MaxThread
  BY <1>1 DEF Close, heldVars, CallersTyped
<1>6. Moves(c) /\ pc'[c] = p /\ ~InSet(c)'
  BY <1>1, <1>3, <1>4, <1>5, NextSlot, Goes DEF Close, heldVars
<1>7. ~HoldsMutex(c)' /\ ~HoldsMutex(c) /\ ~HoldsCloseMutex(c)
  BY <1>1, <1>6 DEF HoldsMutex, HoldsCloseMutex
<1>8. c \in closeMutex' <=> HoldsCloseMutex(c)'
  BY <1>1, <1>3, <1>6, <1>7 DEF HoldsCloseMutex, LocksHeld
<1>9. LocksHeld'
  BY <1>1, <1>3, <1>6, <1>7, <1>8, LocksMove DEF Close, LocksHeld
<1> QED
  BY <1>1, <1>2, <1>6, <1>9, CallerSteps

(* stopAll() tells a thread again, and looks whether it has stopped. *)
LEMMA PollKeeps ==
  ASSUME Inv, NEW c \in Callers, TellAgain(c) \/ Poll(c)
  PROVE  Inv'
<1>1. Typed /\ CallersTyped /\ Placed(c) /\ ~InSet(c) /\ pc[c] = "poll" /\ at[c] \in Slots
  BY Known DEF TellAgain, Poll, InSet, Placed
<1>2. Calm
  BY <1>1, CalmTell DEF TellAgain, Poll, history
<1>3. PICK p \in {"poll", "sweep"}, i \in 0 .. Capacity :
        /\ Goto(c, p) /\ at' \in {at, [at EXCEPT ![c] = i]}
        /\ p = "poll" => at' = at
  <2>1. CASE TellAgain(c)
    <3>1. Goto(c, "poll") /\ at' = at
      BY <1>1, <2>1 DEF TellAgain, Goto, CallersTyped
    <3> QED
      BY <3>1, NextSlot
  <2>2. CASE Poll(c)
    BY <1>1, <2>2, NextSlot DEF Poll
  <2> QED
    BY <2>1, <2>2
<1>4. p \in Places \ {"out", "setkey", "setpid"} /\ p \notin Searching /\ 0 \in 0 .. MaxThread
  BY DEF Places, Searching
<1>5. tries' \in [Callers -> 0 .. 2]
  BY <1>1 DEF TellAgain, Poll, heldVars, CallersTyped
<1>6. UNCHANGED <<sptr, look, callVars>> /\ UNCHANGED lockVars
  BY DEF TellAgain, Poll, heldVars
<1>7. Moves(c) /\ pc'[c] = p /\ ~InSet(c)'
  BY <1>1, <1>3, <1>4, <1>5, <1>6, Goes
<1>8. /\ ~HoldsMutex(c)' /\ ~HoldsMutex(c)
      /\ HoldsCloseMutex(c)' /\ HoldsCloseMutex(c)
  BY <1>1, <1>3, <1>7 DEF HoldsMutex, HoldsCloseMutex
<1> QED
  BY <1>1, <1>2, <1>6, <1>7, <1>8, KeepsLocks

(* stopAll() comes to the next value of the map. *)
LEMMA SweepKeeps ==
  ASSUME Inv, NEW c \in Callers, Sweep(c)
  PROVE  Inv'
<1>1. /\ Typed /\ CallersTyped /\ Placed(c) /\ ~InSet(c) /\ pc[c] = "sweep"
      /\ at[c] \in 0 .. Capacity
  BY Known DEF Sweep, InSet
<1>2. Calm
  BY <1>1, CalmTell DEF Sweep
<1>3. PICK p \in {"sweep", "clearkey", "poll"}, i \in 0 .. Capacity, v \in 0 .. MaxThread :
        /\ Goto(c, p) /\ at' \in {at, [at EXCEPT ![c] = i]}
        /\ sptr' \in {sptr, [sptr EXCEPT ![c] = v]}
        /\ p = "poll" => at' = at /\ at[c] \in Slots
  <2>1. CASE at[c] = Capacity
    <3>1. Goto(c, "clearkey") /\ at' = [at EXCEPT ![c] = 0] /\ UNCHANGED sptr
      BY <2>1 DEF Sweep
    <3>2. 0 \in 0 .. Capacity /\ 0 \in 0 .. MaxThread
      OBVIOUS
    <3> QED
      BY <3>1, <3>2
  <2>2. CASE at[c] # Capacity
    <3> DEFINE v == values[at[c]]
    <3>1. at[c] \in Slots /\ v \in 0 .. MaxThread /\ at[c] + 1 \in 0 .. Capacity
      BY <1>1, <2>2, NextSlot, Known
    <3>2. sptr' = [sptr EXCEPT ![c] = v]
      BY <2>2 DEF Sweep
    <3>3. \/ Goto(c, "poll") /\ UNCHANGED at
          \/ at' = [at EXCEPT ![c] = at[c] + 1] /\ UNCHANGED pc
      BY <2>2 DEF Sweep
    <3>4. UNCHANGED pc => Goto(c, "sweep")
      BY <1>1 DEF Goto, CallersTyped
    <3> HIDE DEF v
    <3> QED
      BY <3>1, <3>2, <3>3, <3>4
  <2> QED
    BY <2>1, <2>2
<1>4. p \in Places \ {"out", "setkey", "setpid"} /\ p \notin Searching /\ p # "clearvalue"
  BY DEF Places, Searching
<1>5. tries' \in [Callers -> 0 .. 2]
  BY <1>1 DEF Sweep, CallersTyped
<1>6. Moves(c) /\ pc'[c] = p /\ ~InSet(c)'
  BY <1>1, <1>3, <1>4, <1>5, Goes DEF Sweep
<1>7. /\ ~HoldsMutex(c)' /\ ~HoldsMutex(c)
      /\ HoldsCloseMutex(c)' /\ HoldsCloseMutex(c)
  BY <1>1, <1>3, <1>6 DEF HoldsMutex, HoldsCloseMutex
<1> QED
  BY <1>1, <1>2, <1>6, <1>7, KeepsLocks DEF Sweep

(* SafeMap::clear() empties a key, under mutex_close_ and not under        *)
(* mutex_.                                                                 *)
LEMMA ClearKeyKeeps ==
  ASSUME Inv, NEW c \in Callers, ClearKey(c)
  PROVE  Inv'
<1>1. /\ Typed /\ CallersTyped /\ Placed(c) /\ ~InSet(c) /\ pc[c] = "clearkey" /\ LocksHeld
      /\ at[c] \in 0 .. Capacity
  BY Known DEF ClearKey, InSet
<1>2. Calm
  BY <1>1 DEF ClearKey, Calm, Typed, ObjType, history
<1>3. PICK p \in {"back", "clearvalue"} :
        /\ Goto(c, p)
        /\ p = "clearvalue" => at[c] \in Slots /\ UNCHANGED closeMutex
        /\ p = "back" => closeMutex' = closeMutex \ {c}
  BY <1>1, NextSlot DEF ClearKey
<1>4. /\ p \in Places \ {"out", "setkey", "setpid"} /\ p \notin Searching /\ p # "poll"
      /\ 0 \in 0 .. Capacity /\ 0 \in 0 .. MaxThread
  BY DEF Places, Searching
<1>5. tries' \in [Callers -> 0 .. 2]
  BY <1>1 DEF ClearKey, heldVars, CallersTyped
<1>6. Moves(c) /\ pc'[c] = p /\ ~InSet(c)'
  BY <1>1, <1>3, <1>4, <1>5, Goes DEF ClearKey, heldVars
<1>7. ~HoldsMutex(c)' /\ ~HoldsMutex(c) /\ HoldsCloseMutex(c)
  BY <1>1, <1>3, <1>6 DEF HoldsMutex, HoldsCloseMutex
<1>8. /\ closeMutex = {c} /\ closeMutex' \in {{}, {c}}
      /\ c \in closeMutex' <=> HoldsCloseMutex(c)'
  BY <1>1, <1>3, <1>6, <1>7 DEF HoldsCloseMutex, LocksHeld
<1>9. LocksHeld'
  BY <1>1, <1>6, <1>7, <1>8, LocksMove DEF ClearKey, LocksHeld
<1> QED
  BY <1>1, <1>2, <1>6, <1>9, CallerSteps

(* SafeMap::clear() empties a value, which may be the one a create() has   *)
(* just written.                                                           *)
LEMMA ClearValueKeeps ==
  ASSUME Inv, NEW c \in Callers, ClearValue(c)
  PROVE  Inv'
<1>1. /\ Typed /\ CallersTyped /\ Placed(c) /\ ~InSet(c) /\ pc[c] = "clearvalue"
      /\ at[c] \in Slots
  BY Known DEF ClearValue, InSet, Placed
<1>2. Calm
  <2>1. /\ values' \in [Slots -> 0 .. MaxThread]
        /\ \A s \in Slots : values'[s] \in {values[s], 0}
    BY <1>1 DEF ClearValue, Typed
  <2> QED
    BY <1>1, <2>1 DEF ClearValue, Calm, Typed, ObjType, flagVars, history
<1>3. /\ "clearkey" \in Places \ {"out", "setkey", "setpid"} /\ "clearkey" \notin Searching
      /\ 0 \in 0 .. MaxThread /\ at[c] + 1 \in 0 .. Capacity
  <2>1. "clearkey" \in Places \ {"out", "setkey", "setpid"} /\ "clearkey" \notin Searching
    BY DEF Places, Searching
  <2>2. 0 \in 0 .. MaxThread
    OBVIOUS
  <2>3. at[c] + 1 \in 0 .. Capacity
    BY <1>1 DEF Slots
  <2> QED
    BY <2>1, <2>2, <2>3
<1>4. tries' \in [Callers -> 0 .. 2]
  BY <1>1 DEF ClearValue, heldVars, CallersTyped
<1>5. Moves(c) /\ pc'[c] = "clearkey" /\ ~InSet(c)'
  BY <1>1, <1>3, <1>4, Goes DEF ClearValue, heldVars
<1>6. /\ ~HoldsMutex(c)' /\ ~HoldsMutex(c)
      /\ HoldsCloseMutex(c)' /\ HoldsCloseMutex(c)
  BY <1>1, <1>5 DEF HoldsMutex, HoldsCloseMutex
<1> QED
  BY <1>1, <1>2, <1>5, <1>6, KeepsLocks DEF ClearValue

(* What the threads of the pool do: they run and they end. *)
LEMMA ThreadKeeps ==
  ASSUME Inv, NEW v \in Threads, Runs(v) \/ Ends(v)
  PROVE  Inv'
<1>1. Typed /\ CallersTyped /\ LocksHeld /\ \A d \in Callers : Placed(d)
  BY DEF Inv, TypeOK
<1>2. Calm
  BY <1>1, CalmState DEF Runs, Ends, history
<1>3. UNCHANGED <<pc, look, at, sptr, tries, on, call, calls, mutex, closeMutex>>
  BY DEF Runs, Ends, heldVars, callVars, lockVars
<1>4. CallersTyped' /\ \A d \in Callers : Same(d)
  BY <1>1, <1>3 DEF CallersTyped, Same
<1>5. LocksHeld'
  BY <1>1, <1>3 DEF LocksHeld, HoldsMutex, HoldsCloseMutex, Creates
<1> QED
  BY <1>1, <1>2, <1>4, <1>5, SameKept, CalmStep

(* The pool as it is constructed. *)
LEMMA InitInv == Init => Inv
<1> SUFFICES ASSUME Init PROVE Inv
  OBVIOUS
<1>1. NoCall \in Call /\ Unused \in ObjType
  BY DEF NoCall, Call, Unused, ObjType
<1>2. CallersTyped
  BY <1>1 DEF Init, CallersTyped, Places, Looks
<1>3. Typed
  <2>1. 0 \in 0 .. Capacity /\ 0 \in 0 .. MaxThread /\ 0 \in 0 .. 2
    OBVIOUS
  <2>2. obj \in [Threads -> ObjType]
    BY <1>1 DEF Init
  <2>3. keys \in [Slots -> Names \cup {NoName}] /\ values \in [Slots -> 0 .. MaxThread]
    BY <2>1 DEF Init
  <2>4. /\ isInit \in BOOLEAN /\ isClearIng \in BOOLEAN /\ closed \in BOOLEAN
        /\ given \in [Names -> SUBSET Threads]
    BY DEF Init
  <2> QED
    BY <1>2, <2>2, <2>3, <2>4 DEF Typed, CallersTyped, Looks, ObjType
<1>4. LocksHeld
  BY DEF Init, LocksHeld, HoldsMutex, HoldsCloseMutex
<1>5. \A c \in Callers : Placed(c) /\ ~InSet(c)
  BY DEF Init, Placed, InSet, Searching
<1>6. MapSound /\ PidIsSlot
  BY <1>5 DEF Init, MapSound, PidIsSlot
<1> QED
  BY <1>2, <1>3, <1>4, <1>5, <1>6 DEF Inv, TypeOK

(* Every step keeps the invariant. *)
LEMMA NextInv == Inv /\ [Next]_vars => Inv'
<1> SUFFICES ASSUME Inv, [Next]_vars PROVE Inv'
  OBVIOUS
<1>1. ASSUME NEW c \in Callers, Begin(c) \/ Step(c) PROVE Inv'
  BY <1>1, BeginKeeps, EnterKeeps, CheckInitKeeps, InitPoolKeeps, ReadKeyKeeps,
     ReadValueKeeps, LaunchKeeps, LockToCreateKeeps, SetValueKeeps, SetKeyKeeps,
     SetPidKeeps, LookAgainKeeps, UnlockKeeps, CreatedKeeps, StartKeeps,
     StartLocksKeeps, StopKeeps, ReturnKeeps, CloseKeeps, SweepKeeps, PollKeeps,
     ClearKeyKeeps, ClearValueKeeps DEF Step
<1>2. CASE UNCHANGED vars
  BY <1>2 DEF vars, flagVars, lockVars, mapVars, heldVars, callVars, history,
       Inv, TypeOK, Typed, LocksHeld, CallersTyped, Placed, MapSound, PidIsSlot,
       HoldsMutex, HoldsCloseMutex, InSet, Creates
<1> QED
  BY <1>1, <1>2, ThreadKeeps DEF Next

(* For any callers, names, capacity and calls: the shared state has its    *)
(* types, and mutex_ and mutex_close_ have exactly the holders that the    *)
(* places of the callers say, so that SafeMap::set() and the sweep of      *)
(* stopAll() run under the lock they are written for.                      *)
THEOREM PoolTypes == Spec => []TypeOK
<1>1. Inv => TypeOK
  BY DEF Inv
<1> QED
  BY <1>1, InitInv, NextInv, PTL DEF Spec

(* For any callers, names, capacity and calls: a thread in the map has its *)
(* slot as its pid, except while the create() that has put it there is     *)
(* about to set it.                                                        *)
THEOREM PidsTheorem == Spec => []PidIsSlot
<1>1. Inv => PidIsSlot
  BY DEF Inv
<1> QED
  BY <1>1, InitInv, NextInv, PTL DEF Spec

-----------------------------------------------------------------------------
(* One thread for a name, whoever creates it at the same time, until       *)
(* stopAll() clears the map.                                               *)

(* The map has v under the name n. *)
Keyed(n, v) == \E s \in Slots : keys[s] = n /\ values[s] = v
(* No key is n. *)
Absent(n) == \A s \in Slots : keys[s] # n
(* In the sweep of stopAll(), or behind set() without a create(). *)
Astray(c) ==
  \/ pc[c] \in {"sweep", "poll", "clearkey", "clearvalue"}
  \/ pc[c] \in {"unlock", "created"} /\ ~Creates(c)
(* A key has a value, no two are the same, and there is no gap among them. *)
MapInOrder ==
  /\ \A s \in Slots : keys[s] # NoName => values[s] # 0
  /\ \A r, s \in Slots : keys[r] = keys[s] => keys[r] = NoName \/ r = s
  /\ \A s \in Slots : \A r \in 0 .. s - 1 : keys[r] = NoName => keys[s] = NoName
(* What a caller of create(n) knows of the map, by its place: what it has  *)
(* in hand is under n, and under mutex_ the keys it has passed are not n.  *)
Has(c, n) ==
  /\ pc[c] = "value" => at[c] \in Slots /\ keys[at[c]] = n
  /\ pc[c] \in {"found", "setpid", "unlock", "created"} /\ sptr[c] # 0 => Keyed(n, sptr[c])
  /\ pc[c] = "key" => sptr[c] = 0
  /\ pc[c] = "key" /\ look[c] = "locked" => \A r \in 0 .. at[c] - 1 : keys[r] # n
  /\ pc[c] = "found" /\ look[c] = "locked" /\ sptr[c] = 0 => Absent(n)
  /\ pc[c] = "setkey" => /\ keys[at[c]] = NoName /\ values[at[c]] = sptr[c]
                         /\ Absent(n)
                         /\ \A r \in 0 .. at[c] - 1 : keys[r] # NoName
(* As long as no stopAll() has begun, the map only grows; the threads that *)
(* were given for a name are those under it.                               *)
NamesSound ==
  /\ MapInOrder
  /\ \A c \in Callers : ~Astray(c)
  /\ \A c \in Callers : Creates(c) => Has(c, Name(c))
  /\ \A n \in Names : \A v \in given[n] : Keyed(n, v)
NamesInv == ~closed => NamesSound

(* Places where nothing is said of the map. *)
Quiet == {"out", "enter", "check", "capacity", "init", "startkey", "startlock",
          "starting", "joining", "back", "close"}
(* Only c moves. *)
Alone(c) == \A d \in Callers \ {c} : Same(d)
(* Neither the map nor what was given changes. *)
MapStays == UNCHANGED <<keys, values, given>>

(* A caller that does not move, while the map stays as it is, keeps what   *)
(* holds of it.                                                            *)
LEMMA HasStays ==
  ASSUME NEW d, Same(d), UNCHANGED mapVars
  PROVE  /\ Astray(d)' <=> Astray(d)
         /\ (Creates(d) => Has(d, Name(d))) => (Creates(d) => Has(d, Name(d)))'
BY DEF Same, mapVars, Astray, Creates, Has, Name, Keyed, Absent

(* A step of one caller that leaves the map alone keeps NamesSound when it *)
(* does so for that caller.                                                *)
LEMMA OwnStep ==
  ASSUME NamesSound, NEW c \in Callers, Alone(c), MapStays, ~Astray(c)',
         (Creates(c) => Has(c, Name(c)))'
  PROVE  NamesSound'
<1>1. \A d \in Callers : ~Astray(d)' /\ (Creates(d) => Has(d, Name(d)))'
  BY HasStays DEF NamesSound, Alone, MapStays, mapVars
<1> QED
  BY <1>1 DEF NamesSound, MapStays, MapInOrder, Keyed

(* So does one to a place where nothing is said of the map. *)
LEMMA QuietStep ==
  ASSUME NamesSound, NEW c \in Callers, Alone(c), MapStays, pc'[c] \in Quiet
  PROVE  NamesSound'
BY OwnStep DEF Quiet, Astray, Has

(* And one that begins to read the map without mutex_, or after set(). *)
LEMMA LooksStep ==
  ASSUME NamesSound, NEW c \in Callers, Alone(c), MapStays,
         pc'[c] \in {"key", "value"}, Creates(c)' => pc'[c] = "key",
         pc'[c] = "key" => look'[c] # "locked" /\ sptr'[c] = 0
  PROVE  NamesSound'
BY OwnStep DEF Astray, Has

(* A caller that goes to another line moves alone. *)
LEMMA GotoAlone ==
  ASSUME CallersTyped, NEW c \in Callers, NEW p, NEW i, NEW v,
         Goto(c, p), UNCHANGED <<look, call>>,
         at' \in {at, [at EXCEPT ![c] = i]}, sptr' \in {sptr, [sptr EXCEPT ![c] = v]}
  PROVE  Alone(c) /\ pc'[c] = p
BY DEF CallersTyped, Goto, Alone, Same

(* So does one that begins to read the map. *)
LEMMA SearchAlone ==
  ASSUME CallersTyped, NEW c \in Callers, NEW why, Search(c, why), UNCHANGED call
  PROVE  /\ Alone(c) /\ look'[c] = why /\ sptr'[c] = 0
         /\ pc'[c] = IF ByPid(c) THEN "value" ELSE "key"
         /\ ~ByPid(c) => at'[c] = 0
BY DEF CallersTyped, Search, Goto, Alone, Same

(* And one whose call returns or goes on with its list. *)
LEMMA ReturnAlone ==
  ASSUME Inv, NEW c \in Callers, Return(c) \/ (NextOf(c) /\ pc[c] # "out")
  PROVE  Alone(c) /\ pc'[c] \in Quiet
BY Known, ReturnMoves, NextOfMoves DEF Moves, Alone, Quiet

(* create() and its kin are given names. *)
LEMMA CreatesName ==
  ASSUME Inv, NEW c \in Callers, Creates(c), pc[c] # "out"
  PROVE  ~ByPid(c) /\ Name(c) \in Names /\ Name(c) # NoName
<1>1. Sensible(call[c]) /\ call[c].op # "stopAll"
  BY Known DEF Placed, Creates
<1> QED
  BY <1>1, NameOf

(* A search without mutex_, or the look after set(), begins with nothing   *)
(* in hand.                                                                *)
LEMMA SearchStep ==
  ASSUME Inv, NamesSound, NEW c \in Callers, pc[c] # "out", NEW why, why # "locked",
         Search(c, why), UNCHANGED call, MapStays
  PROVE  NamesSound'
<1>1. /\ Alone(c) /\ look'[c] = why /\ sptr'[c] = 0
      /\ pc'[c] = IF ByPid(c) THEN "value" ELSE "key"
  BY Known, SearchAlone
<1>2. Creates(c)' => ~ByPid(c)
  BY CreatesName DEF Creates
<1> QED
  BY <1>1, <1>2, LooksStep

-----------------------------------------------------------------------------
(* A call begins. *)
LEMMA BeginNames ==
  ASSUME Inv, NamesSound, NEW c \in Callers, Begin(c)
  PROVE  NamesSound'
<1>1. Alone(c) /\ pc'[c] = "enter"
  BY Known DEF Begin, Goto, CallersTyped, Alone, Same
<1> QED
  BY <1>1, QuietStep DEF Begin, Quiet, MapStays, mapVars, history

(* A call enters the pool. *)
LEMMA EnterNames ==
  ASSUME Inv, NamesSound, NEW c \in Callers, Enter(c)
  PROVE  NamesSound'
<1>1. pc[c] # "out" /\ UNCHANGED call /\ MapStays
  BY DEF Enter, callVars, MapStays, mapVars, history
<1>2. CASE Search(c, First(c))
  BY <1>1, <1>2, SearchStep DEF First
<1>3. CASE /\ \E p \in {"back", "close", "capacity", "check"} : Goto(c, p)
           /\ UNCHANGED <<look, at, sptr>>
  BY <1>1, <1>3, Known, GotoAlone, QuietStep DEF Quiet
<1> QED
  BY <1>2, <1>3 DEF Enter

(* It tests isInit_, and makes the pool. *)
LEMMA CheckInitNames ==
  ASSUME Inv, NamesSound, NEW c \in Callers, CheckInit(c) \/ InitPool(c)
  PROVE  NamesSound'
<1>1. pc[c] # "out" /\ UNCHANGED call /\ MapStays
  BY DEF CheckInit, InitPool, callVars, MapStays, mapVars, history
<1>2. CASE Search(c, First(c))
  BY <1>1, <1>2, SearchStep DEF First
<1>3. CASE /\ \E p \in {"back", "init"} : Goto(c, p)
           /\ UNCHANGED <<look, at, sptr>>
  BY <1>1, <1>3, Known, GotoAlone, QuietStep DEF Quiet
<1> QED
  BY <1>2, <1>3 DEF CheckInit, InitPool

(* operator[] ends at the name, or at an empty key or the end: then the    *)
(* name is in no slot, for the keys have no gap.                           *)
LEMMA ReadKeyNames ==
  ASSUME Inv, NamesSound, NEW c \in Callers, ReadKey(c)
  PROVE  NamesSound'
<1>1. CallersTyped /\ at[c] \in 0 .. Capacity /\ pc[c] = "key"
  BY Known DEF ReadKey
<1>2. PICK p \in {"found", "value", "key"} :
        /\ Goto(c, p) /\ at' \in {at, [at EXCEPT ![c] = at[c] + 1]}
        /\ p = "found" => UNCHANGED at /\ (at[c] = Capacity \/ keys[at[c]] = NoName)
        /\ p = "value" => UNCHANGED at /\ at[c] < Capacity /\ keys[at[c]] = Name(c)
        /\ p = "key" => /\ at' = [at EXCEPT ![c] = at[c] + 1]
                        /\ at[c] < Capacity /\ keys[at[c]] # Name(c)
  BY <1>1 DEF ReadKey, Goto, CallersTyped
<1>3. UNCHANGED <<look, call, sptr>> /\ MapStays
  BY DEF ReadKey, heldVars, callVars, MapStays, mapVars, history
<1>4. Alone(c) /\ pc'[c] = p
  BY <1>1, <1>2, <1>3, GotoAlone
<1>5. at'[c] = IF p = "key" THEN at[c] + 1 ELSE at[c]
  BY <1>1, <1>2 DEF CallersTyped
<1>6. ASSUME Creates(c) PROVE Has(c, Name(c))'
  <2>1. Has(c, Name(c)) /\ Name(c) # NoName
    BY <1>1, <1>6, CreatesName DEF NamesSound
  <2>2. /\ sptr[c] = 0
        /\ look[c] = "locked" => \A r \in 0 .. at[c] - 1 : keys[r] # Name(c)
    BY <1>1, <2>1 DEF Has
  <2>3. CASE p = "found"
    <3>1. ASSUME look[c] = "locked" PROVE Absent(Name(c))
      <4>1. \A s \in Slots : s < at[c] \/ s >= at[c]
        BY <1>1 DEF Slots
      <4>2. ASSUME NEW s \in Slots PROVE keys[s] # Name(c)
        <5>1. CASE s < at[c]
          BY <1>1, <2>2, <3>1, <5>1 DEF Slots
        <5>2. CASE s >= at[c]
          <6>1. at[c] \in Slots /\ keys[at[c]] = NoName
            BY <1>1, <1>2, <2>3, <5>2 DEF Slots
          <6>2. s = at[c] \/ at[c] \in 0 .. s - 1
            BY <1>1, <5>2, <6>1 DEF Slots
          <6>3. keys[s] = NoName
            BY <6>1, <6>2 DEF NamesSound, MapInOrder
          <6> QED
            BY <2>1, <6>3
        <5> QED
          BY <4>1, <5>1, <5>2
      <4> QED
        BY <4>2 DEF Absent
    <3> QED
      BY <1>3, <1>4, <2>2, <2>3, <3>1 DEF Has, Name, MapStays, Absent
  <2>4. CASE p = "value"
    <3>1. at[c] \in Slots
      BY <1>1, <1>2, <2>4 DEF Slots
    <3> QED
      BY <1>2, <1>3, <1>4, <1>5, <2>4, <3>1 DEF Has, Name, MapStays
  <2>5. CASE p = "key"
    <3>1. look[c] = "locked" => \A r \in 0 .. at'[c] - 1 : keys[r] # Name(c)
      BY <1>1, <1>2, <1>5, <2>2, <2>5
    <3> QED
      BY <1>3, <1>4, <2>2, <2>5, <3>1 DEF Has, Name, MapStays
  <2> QED
    BY <1>2, <2>3, <2>4, <2>5
<1> QED
  BY <1>2, <1>3, <1>4, <1>6, OwnStep DEF Astray, Creates

(* The value beside a key is a thread, for set() writes it before the key. *)
LEMMA ReadValueNames ==
  ASSUME Inv, NamesSound, NEW c \in Callers, ReadValue(c)
  PROVE  NamesSound'
<1>1. CallersTyped /\ at[c] \in 0 .. Capacity /\ pc[c] = "value"
  BY Known DEF ReadValue
<1>2. PICK v : sptr' = [sptr EXCEPT ![c] = v] /\ (at[c] < Capacity => v = values[at[c]])
  BY DEF ReadValue
<1>3. Goto(c, "found") /\ UNCHANGED <<look, call, at>> /\ MapStays
  BY DEF ReadValue, heldVars, callVars, MapStays, mapVars
<1>4. Alone(c) /\ pc'[c] = "found"
  BY <1>1, <1>2, <1>3, GotoAlone
<1>5. sptr'[c] = v
  BY <1>1, <1>2 DEF CallersTyped
<1>6. ASSUME Creates(c) PROVE Has(c, Name(c))'
  <2>1. Has(c, Name(c)) /\ Name(c) # NoName
    BY <1>1, <1>6, CreatesName DEF NamesSound
  <2>2. at[c] \in Slots /\ keys[at[c]] = Name(c)
    BY <1>1, <2>1 DEF Has
  <2>3. v = values[at[c]] /\ v # 0
    BY <1>1, <1>2, <2>1, <2>2 DEF Slots, NamesSound, MapInOrder
  <2>4. Keyed(Name(c), v)
    BY <2>2, <2>3 DEF Keyed
  <2> QED
    BY <1>3, <1>4, <1>5, <2>3, <2>4 DEF Has, Name, MapStays, Keyed
<1> QED
  BY <1>3, <1>4, <1>6, OwnStep DEF Astray, Creates

-----------------------------------------------------------------------------
(* OpenThreader::start() has looked for a thread of its name. *)
LEMMA LaunchNames ==
  ASSUME Inv, NamesSound, NEW c \in Callers, Launch(c)
  PROVE  NamesSound'
<1>1. MapStays /\ pc[c] # "out"
  BY DEF Launch, MapStays, mapVars
<1>2. CASE Return(c)
  BY <1>1, <1>2, ReturnAlone, QuietStep
<1>3. CASE Search(c, "first") /\ UNCHANGED callVars
  BY <1>1, <1>3, SearchStep DEF callVars
<1> QED
  BY <1>2, <1>3 DEF Launch

(* create() begins its second look under mutex_. *)
LEMMA LockToCreateNames ==
  ASSUME Inv, NamesSound, NEW c \in Callers, LockToCreate(c)
  PROVE  NamesSound'
<1>1. /\ MapStays /\ pc[c] = "found" /\ Creates(c) /\ Search(c, "locked")
      /\ UNCHANGED call
  BY DEF LockToCreate, MapStays, mapVars, history, callVars
<1>2. /\ Alone(c) /\ pc'[c] = "key" /\ sptr'[c] = 0 /\ at'[c] = 0
  BY <1>1, Known, SearchAlone, CreatesName
<1>3. Has(c, Name(c))'
  <2>1. \A r \in 0 .. at'[c] - 1 : FALSE
    BY <1>2
  <2> QED
    BY <1>2, <2>1 DEF Has
<1> QED
  BY <1>1, <1>2, <1>3, OwnStep DEF Astray, Creates

(* What set() has put under the name is what create() goes on with. *)
LEMMA SetPidNames ==
  ASSUME Inv, NamesSound, NEW c \in Callers, SetPid(c)
  PROVE  NamesSound'
<1>1. MapStays /\ pc[c] = "setpid" /\ UNCHANGED call /\ Creates(c)
  BY Known DEF SetPid, MapStays, mapVars, history, callVars, Placed, InSet
<1>2. CASE Goto(c, "unlock") /\ UNCHANGED <<look, at, sptr>>
  <2>1. Alone(c) /\ pc'[c] = "unlock"
    BY <1>1, <1>2, Known, GotoAlone
  <2>2. (Creates(c) => Has(c, Name(c)))'
    BY <1>1, <1>2, <2>1 DEF NamesSound, Has, Creates, Name, MapStays, Keyed
  <2> QED
    BY <1>1, <2>1, <2>2, OwnStep DEF Astray, Creates
<1>3. CASE Search(c, "again")
  BY <1>1, <1>3, SearchStep
<1> QED
  BY <1>2, <1>3 DEF SetPid

(* The look after set(), or that of a full map. *)
LEMMA LookAgainNames ==
  ASSUME Inv, NamesSound, NEW c \in Callers, LookAgain(c)
  PROVE  NamesSound'
<1>1. MapStays /\ pc[c] = "found" /\ UNCHANGED call /\ Creates(c)
  BY DEF LookAgain, MapStays, mapVars, history, callVars
<1>2. CASE Goto(c, "unlock") /\ UNCHANGED <<look, at, sptr>>
  <2>1. Alone(c) /\ pc'[c] = "unlock"
    BY <1>1, <1>2, Known, GotoAlone
  <2>2. (Creates(c) => Has(c, Name(c)))'
    BY <1>1, <1>2, <2>1 DEF NamesSound, Has, Creates, Name, MapStays, Keyed
  <2> QED
    BY <1>1, <2>1, <2>2, OwnStep DEF Astray, Creates
<1>3. CASE Search(c, "again")
  BY <1>1, <1>3, SearchStep
<1> QED
  BY <1>2, <1>3 DEF LookAgain

(* create() gives mutex_ back. *)
LEMMA UnlockNames ==
  ASSUME Inv, NamesSound, NEW c \in Callers, Unlock(c)
  PROVE  NamesSound'
<1>1. /\ MapStays /\ pc[c] = "unlock" /\ Goto(c, "created")
      /\ UNCHANGED <<look, call, at, sptr>> /\ Creates(c)
  BY DEF Unlock, MapStays, mapVars, history, heldVars, callVars, NamesSound, Astray
<1>2. Alone(c) /\ pc'[c] = "created"
  BY <1>1, Known, GotoAlone
<1>3. (Creates(c) => Has(c, Name(c)))'
  BY <1>1, <1>2 DEF NamesSound, Has, Creates, Name, MapStays, Keyed
<1> QED
  BY <1>1, <1>2, <1>3, OwnStep DEF Astray, Creates

(* What create() returns is the value under the name. *)
LEMMA CreatedNames ==
  ASSUME Inv, NamesSound, NEW c \in Callers, Created(c)
  PROVE  NamesSound'
<1>1. UNCHANGED mapVars /\ pc[c] \in {"created", "found"}
  BY DEF Created
<1>2. Creates(c)
  BY DEF Created, NamesSound, Astray
<1>3. Has(c, Name(c)) /\ Name(c) \in Names
  BY <1>1, <1>2, CreatesName DEF NamesSound
<1>4. \A n \in Names : \A v \in given'[n] : Keyed(n, v)
  <2>1. sptr[c] # 0 => Keyed(Name(c), sptr[c])
    BY <1>1, <1>3 DEF Has
  <2> QED
    BY <1>3, <2>1 DEF Created, NamesSound, Inv, TypeOK, Typed
<1>5. Alone(c) /\ pc'[c] \in Quiet
  <2>1. CASE Return(c)
    BY <2>1, ReturnAlone
  <2>2. CASE Goto(c, "startkey") /\ at' = [at EXCEPT ![c] = 0] /\ UNCHANGED <<sptr, heldVars>>
    BY <2>2, Known, GotoAlone DEF Quiet, heldVars, callVars
  <2> QED
    BY <2>1, <2>2 DEF Created
<1>6. \A d \in Callers : ~Astray(d)' /\ (Creates(d) => Has(d, Name(d)))'
  <2>1. ~Astray(c)' /\ Has(c, Name(c))'
    BY <1>5 DEF Quiet, Astray, Has
  <2> QED
    BY <1>1, <1>5, <2>1, HasStays DEF NamesSound, Alone
<1> QED
  BY <1>1, <1>4, <1>6 DEF NamesSound, MapInOrder, mapVars, Keyed

-----------------------------------------------------------------------------
(* OpenThread::start() does not write to the map. *)
LEMMA StartNames ==
  ASSUME Inv, NamesSound, NEW c \in Callers,
         StartLooks(c) \/ StartLocks(c) \/ StartReturns(c)
  PROVE  NamesSound'
<1>1. MapStays
  BY DEF StartLooks, StartLocks, StartReturns, MapStays, mapVars, history
<1>2. CASE Return(c)
  BY <1>1, <1>2, ReturnAlone, QuietStep
<1>3. CASE /\ \E p \in {"startlock", "starting"} : Goto(c, p)
           /\ UNCHANGED <<at, sptr, heldVars>>
  BY <1>1, <1>3, Known, GotoAlone, QuietStep DEF Quiet, heldVars, callVars
<1> QED
  BY <1>2, <1>3 DEF StartLooks, StartLocks, StartReturns

(* The other calls do not, either. *)
LEMMA CallNames ==
  ASSUME Inv, NamesSound, NEW c \in Callers,
         \/ GiveThread(c) \/ Send(c) \/ Stop(c) \/ Join(c) \/ Halt(c) \/ Joined(c)
         \/ Back(c)
  PROVE  NamesSound'
<1>1. MapStays /\ pc[c] # "out"
  BY DEF GiveThread, Send, Stop, Join, Halt, Joined, Back, Found, MapStays, mapVars,
         history
<1>2. CASE Return(c) \/ NextOf(c)
  BY <1>1, <1>2, ReturnAlone, QuietStep
<1>3. CASE Goto(c, "joining") /\ UNCHANGED <<at, sptr, heldVars>>
  BY <1>1, <1>3, Known, GotoAlone, QuietStep DEF Quiet, heldVars, callVars
<1> QED
  BY <1>2, <1>3 DEF GiveThread, Send, Stop, Join, Halt, Joined, Back

(* stopAll() is behind "closed". *)
LEMMA CloseNames ==
  ASSUME NamesSound, NEW c \in Callers
  PROVE  /\ Close(c) => closed'
         /\ ~(Sweep(c) \/ TellAgain(c) \/ Poll(c) \/ ClearKey(c) \/ ClearValue(c))
BY DEF NamesSound, Astray, Close, Sweep, TellAgain, Poll, ClearKey, ClearValue

(* What threads do is not seen in the map. *)
LEMMA StaysNames ==
  ASSUME NamesSound, UNCHANGED <<mapVars, pc, look, at, sptr, call, given>>
  PROVE  NamesSound'
<1>1. \A d \in Callers : ~Astray(d)' /\ (Creates(d) => Has(d, Name(d)))'
  BY HasStays DEF NamesSound, Same
<1> QED
  BY <1>1 DEF NamesSound, MapInOrder, mapVars, Keyed

(* set() writes the value beside a key that is empty: no name loses its    *)
(* thread. Another caller has no such key in hand, and mutex_ keeps it out *)
(* of set().                                                               *)
LEMMA SetValueNames ==
  ASSUME Inv, NamesSound, NEW c \in Callers, SetValue(c)
  PROVE  NamesSound'
<1>1. /\ pc[c] = "found" /\ Creates(c) /\ look[c] = "locked" /\ sptr[c] = 0
      /\ Goto(c, "setkey") /\ UNCHANGED <<keys, look, call, given>>
  BY DEF SetValue, heldVars, callVars, history
<1>2. PICK v \in NewThread, s \in SlotFor(Name(c)) :
        /\ values' = [values EXCEPT ![s] = v]
        /\ sptr' = [sptr EXCEPT ![c] = v] /\ at' = [at EXCEPT ![c] = s]
  BY DEF SetValue
<1>3. Alone(c) /\ pc'[c] = "setkey" /\ at'[c] = s /\ sptr'[c] = v
  BY <1>1, <1>2, Known, GotoAlone DEF CallersTyped
<1>4. Absent(Name(c)) /\ HoldsMutex(c)
  BY <1>1 DEF NamesSound, Has, HoldsMutex
<1>5. /\ s \in Slots /\ keys[s] = NoName
      /\ \A r \in 0 .. s - 1 : keys[r] # NoName
  BY <1>4 DEF SlotFor, Absent
<1>6. /\ \A r \in Slots : values'[r] = IF r = s THEN v ELSE values[r]
  BY <1>2, <1>5 DEF Inv, TypeOK, Typed
<1>7. \A n, w : n # NoName /\ Keyed(n, w) => Keyed(n, w)'
  BY <1>1, <1>5, <1>6 DEF Keyed
<1>8. Has(c, Name(c))'
  BY <1>1, <1>3, <1>4, <1>5, <1>6 DEF Has, Name, Absent
<1>9. ASSUME NEW d \in Callers, d # c
      PROVE  ~Astray(d)' /\ (Creates(d) => Has(d, Name(d)))'
  <2>1. Same(d) /\ ~InSet(d)
    BY <1>1, <1>3, <1>4, <1>9, AloneInSet DEF Alone
  <2>2. ~Astray(d)
    BY DEF NamesSound
  <2>3. ASSUME Creates(d) PROVE Has(d, Name(d))'
    <3>1. CASE pc[d] = "out"
      BY <2>1, <3>1 DEF Same, Has
    <3>2. CASE pc[d] # "out"
      <4>1. Has(d, Name(d)) /\ Name(d) # NoName
        BY <2>3, <3>2, CreatesName DEF NamesSound
      <4> QED
        BY <1>1, <1>7, <2>1, <4>1 DEF Has, Same, Name, InSet, Absent
    <3> QED
      BY <3>1, <3>2
  <2> QED
    BY <2>1, <2>2, <2>3 DEF Same, Astray, Creates
<1>10. \A d \in Callers : ~Astray(d)' /\ (Creates(d) => Has(d, Name(d)))'
  BY <1>3, <1>8, <1>9 DEF Astray
<1>11. MapInOrder'
  <2>1. \A r \in Slots : keys'[r] # NoName => values'[r] # 0
    BY <1>1, <1>5, <1>6 DEF NamesSound, MapInOrder
  <2> QED
    BY <1>1, <2>1 DEF NamesSound, MapInOrder
<1>12. \A n \in Names : \A w \in given'[n] : Keyed(n, w)'
  BY <1>1, <1>7 DEF NamesSound
<1> QED
  BY <1>10, <1>11, <1>12 DEF NamesSound

(* set() writes the key at the end of those there are. Another caller      *)
(* under mutex_ would have missed it; there is none.                       *)
LEMMA SetKeyNames ==
  ASSUME Inv, NamesSound, NEW c \in Callers, SetKey(c)
  PROVE  NamesSound'
<1>1. /\ pc[c] = "setkey" /\ Goto(c, "setpid")
      /\ keys' = [keys EXCEPT ![at[c]] = Name(c)]
      /\ UNCHANGED <<values, at, sptr, look, call, given>>
  BY DEF SetKey, heldVars, callVars, history
<1>2. at[c] \in Slots /\ sptr[c] \in Threads /\ Creates(c) /\ HoldsMutex(c)
  BY <1>1, Known DEF Placed, InSet, HoldsMutex
<1> DEFINE n == Name(c)
<1>3. Alone(c) /\ pc'[c] = "setpid"
  BY <1>1, Known, GotoAlone
<1>4. /\ keys[at[c]] = NoName /\ values[at[c]] = sptr[c] /\ Absent(n)
      /\ \A r \in 0 .. at[c] - 1 : keys[r] # NoName
      /\ n \in Names /\ n # NoName
  BY <1>1, <1>2, CreatesName DEF NamesSound, Has
<1>5. \A r \in Slots : keys'[r] = IF r = at[c] THEN n ELSE keys[r]
  BY <1>1, <1>2 DEF Inv, TypeOK, Typed
<1>6. \A m, w : m # NoName /\ Keyed(m, w) => Keyed(m, w)'
  BY <1>1, <1>4, <1>5 DEF Keyed
<1>7. Has(c, Name(c))'
  <2>1. keys'[at[c]] = n /\ values'[at[c]] = sptr'[c]
    BY <1>1, <1>2, <1>4, <1>5
  <2> QED
    BY <1>1, <1>2, <1>3, <2>1 DEF Has, Name, Keyed
<1>8. ASSUME NEW d \in Callers, d # c
      PROVE  ~Astray(d)' /\ (Creates(d) => Has(d, Name(d)))'
  <2>1. Same(d) /\ ~HoldsMutex(d)
    BY <1>2, <1>3, <1>8, Known DEF Alone, LocksHeld
  <2>2. ~Astray(d)
    BY DEF NamesSound
  <2>3. ASSUME Creates(d) PROVE Has(d, Name(d))'
    <3>1. CASE pc[d] = "out"
      BY <2>1, <3>1 DEF Same, Has
    <3>2. CASE pc[d] # "out"
      <4>1. look[d] # "locked" \/ pc[d] \notin {"key", "found"}
        BY <2>1, <2>3 DEF HoldsMutex
      <4>2. Has(d, Name(d)) /\ Name(d) # NoName
        BY <2>3, <3>2, CreatesName DEF NamesSound
      <4>3. pc[d] = "value" => at[d] \in Slots /\ keys'[at[d]] = Name(d)
        BY <1>4, <1>5, <4>2 DEF Has
      <4>4. pc[d] # "setkey"
        BY <2>1 DEF HoldsMutex
      <4> QED
        BY <1>6, <2>1, <4>1, <4>2, <4>3, <4>4 DEF Has, Same, Name
    <3> QED
      BY <3>1, <3>2
  <2> QED
    BY <2>1, <2>2, <2>3 DEF Same, Astray, Creates
<1>9. \A d \in Callers : ~Astray(d)' /\ (Creates(d) => Has(d, Name(d)))'
  BY <1>3, <1>7, <1>8 DEF Astray
<1>10. MapInOrder'
  <2>1. \A s \in Slots : keys'[s] # NoName => values'[s] # 0
    BY <1>1, <1>2, <1>4, <1>5 DEF NamesSound, MapInOrder, Threads
  <2>2. \A r, s \in Slots : keys'[r] = keys'[s] => keys'[r] = NoName \/ r = s
    BY <1>4, <1>5 DEF NamesSound, MapInOrder, Absent
  <2>3. ASSUME NEW s \in Slots, NEW r \in 0 .. s - 1, keys'[r] = NoName
        PROVE  keys'[s] = NoName
    <3>1. r \in Slots /\ keys[r] = NoName /\ r # at[c]
      BY <1>4, <1>5, <2>3 DEF Slots
    <3>2. keys[s] = NoName
      BY <3>1 DEF NamesSound, MapInOrder
    <3>3. s # at[c]
      BY <1>4, <3>1
    <3> QED
      BY <1>5, <3>2, <3>3
  <2> QED
    BY <2>1, <2>2, <2>3 DEF MapInOrder
<1>11. \A m \in Names : \A w \in given'[m] : Keyed(m, w)'
  BY <1>1, <1>6 DEF NamesSound
<1> QED
  BY <1>9, <1>10, <1>11 DEF NamesSound

(* The pool as it is constructed. *)
LEMMA NamesInit == Init => NamesInv
<1> SUFFICES ASSUME Init PROVE NamesSound
  BY DEF NamesInv
<1>1. \A c \in Callers : pc[c] = "out"
  BY DEF Init
<1>2. MapInOrder
  <2>1. \A s \in Slots : keys[s] = NoName
    BY DEF Init
  <2> QED
    BY <2>1 DEF MapInOrder
<1>3. \A n \in Names : given[n] = {}
  BY DEF Init
<1> QED
  BY <1>1, <1>2, <1>3 DEF NamesSound, Astray, Has

(* What was closed stays closed. *)
LEMMA ClosedStays == [Next]_vars => (closed => closed')
<1>1. ASSUME NEW c \in Callers,
             \/ Begin(c) \/ Enter(c) \/ CheckInit(c) \/ InitPool(c) \/ ReadKey(c)
             \/ ReadValue(c) \/ Launch(c) \/ LockToCreate(c) \/ SetValue(c)
      PROVE  closed => closed'
  BY <1>1 DEF Begin, Enter, CheckInit, InitPool, ReadKey, ReadValue, Launch, LockToCreate,
              SetValue, history
<1>2. ASSUME NEW c \in Callers,
             \/ SetKey(c) \/ SetPid(c) \/ LookAgain(c) \/ Unlock(c) \/ Created(c)
             \/ StartLooks(c) \/ StartLocks(c) \/ StartReturns(c) \/ GiveThread(c) \/ Send(c)
      PROVE  closed => closed'
  BY <1>2 DEF SetKey, SetPid, LookAgain, Unlock, Created, StartLooks, StartLocks,
              StartReturns, GiveThread, Send, history
<1>3. ASSUME NEW c \in Callers,
             \/ Stop(c) \/ Join(c) \/ Halt(c) \/ Joined(c) \/ Back(c) \/ Close(c)
             \/ Sweep(c) \/ TellAgain(c) \/ Poll(c) \/ ClearKey(c) \/ ClearValue(c)
      PROVE  closed => closed'
  BY <1>3 DEF Stop, Join, Halt, Joined, Back, Close, Sweep, TellAgain, Poll, ClearKey,
              ClearValue, history
<1>4. ASSUME NEW v \in Threads, Runs(v) \/ Ends(v) PROVE closed => closed'
  BY <1>4 DEF Runs, Ends, history
<1> QED
  BY <1>1, <1>2, <1>3, <1>4 DEF Next, Step, vars, history

(* Every step keeps NamesInv. *)
LEMMA NamesNext == Inv /\ NamesInv /\ [Next]_vars => NamesInv'
<1> SUFFICES ASSUME Inv, NamesInv, [Next]_vars, ~closed' PROVE NamesSound'
  BY DEF NamesInv
<1>1. NamesSound
  <2>1. CASE closed
    BY <2>1, ClosedStays
  <2> QED
    BY <2>1 DEF NamesInv
<1>2. ASSUME NEW c \in Callers, Begin(c) \/ Step(c) PROVE NamesSound'
  BY <1>1, <1>2, BeginNames, EnterNames, CheckInitNames, ReadKeyNames, ReadValueNames,
     LaunchNames, LockToCreateNames, SetValueNames, SetKeyNames, SetPidNames,
     LookAgainNames, UnlockNames, CreatedNames, StartNames, CallNames, CloseNames
     DEF Step
<1>3. ASSUME NEW v \in Threads, Runs(v) \/ Ends(v) PROVE NamesSound'
  BY <1>1, <1>3, StaysNames DEF Runs, Ends, heldVars, callVars, history
<1>4. CASE UNCHANGED vars
  BY <1>1, <1>4, StaysNames DEF vars, heldVars, callVars, history
<1> QED
  BY <1>2, <1>3, <1>4 DEF Next

(* For any callers, names, capacity and calls: before any stopAll() all    *)
(* who create a name are given the same thread, although create() looks    *)
(* for it without a lock first, and readers of the map never take one. The *)
(* test of the pid for a boolean, which sends the creator of the first     *)
(* slot another way than all others, does not change this.                 *)
THEOREM NamesTheorem == Spec => []OneThreadPerName
<1>1. Inv /\ NamesInv => OneThreadPerName
  <2> SUFFICES ASSUME Inv, NamesSound, NEW n \in Names, NEW v \in given[n], NEW w \in given[n]
               PROVE  v = w
    BY DEF NamesInv, OneThreadPerName
  <2>1. PICK s \in Slots : keys[s] = n /\ values[s] = v
    BY DEF NamesSound, Keyed
  <2>2. PICK r \in Slots : keys[r] = n /\ values[r] = w
    BY DEF NamesSound, Keyed
  <2> QED
    BY <2>1, <2>2 DEF NamesSound, MapInOrder
<1> QED
  BY <1>1, InitInv, NextInv, NamesInit, NamesNext, PTL DEF Spec
=============================================================================
