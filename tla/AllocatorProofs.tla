-------------------------- MODULE AllocatorProofs --------------------------
(***************************************************************************)
(* What is proved of Allocator, for every value of its constants.          *)
(*                                                                         *)
(* Types: TypeOK with CallShape, what the steps of a call take for granted *)
(* about its pointer and its result.  The lemmas type the parts actions    *)
(* are built from (sizes, pointers, blocks, calls), then take one group of *)
(* actions each.                                                           *)
(*                                                                         *)
(* Hands: no pointer is in two of them and no memory is lost, by kinds of  *)
(* moves an action can make.                                               *)
(*                                                                         *)
(* Orderly clients: the flags and the subsystems agree at every step of    *)
(* init and shutdown, nothing is held meanwhile, and every pointer has a   *)
(* header that leads back to its block.                                    *)
(*                                                                         *)
(* Sizes, contents and alignment, of any clients: what lies in a block at  *)
(* each step of the call that writes it.                                   *)
(*                                                                         *)
(* The totals: what the threads have added and what the blocks hold, block *)
(* by block, while no call leaves its size out of the totals.              *)
(***************************************************************************)
EXTENDS AllocatorReader, SumTheorems, TLAPS

\* The value of a counter that wraps.
LEMMA ModRange ==
  ASSUME NEW x \in Int, NEW n \in Nat \ {0}
  PROVE  x % n \in 0..(n - 1)
  OBVIOUS

\* align_up returns a number whatever it is given.
LEMMA AlignUpNat ==
  ASSUME NEW n \in Nat, NEW a \in Nat
  PROVE  AlignUp(n, a) \in Nat
<1>1. CASE a = 0
  BY <1>1 DEF AlignUp
<1>2. CASE a # 0
  <2> DEFINE m == (n + a - 1) % Word
  <2>1. m \in Nat
    BY <1>2, ConstantsOK, ModRange
  <2>2. m \div a \in Nat
    BY <1>2, <2>1
  <2> HIDE DEF m
  <2>3. (m \div a) * a \in Nat
    BY <2>1, <2>2
  <2> QED BY <1>2, <2>3 DEF AlignUp, m
<1> QED BY <1>1, <1>2

\* align_up returns at least its argument when the sum does not wrap.
LEMMA AlignUpAbove ==
  ASSUME NEW n \in Nat, NEW a \in Nat, n + a <= Word
  PROVE  AlignUp(n, a) >= n
<1>1. CASE a = 0
  BY <1>1 DEF AlignUp
<1>2. CASE a # 0
  <2> DEFINE m == n + a - 1
  <2>1. m % Word = m
    BY <1>2, ConstantsOK
  <2>2. m = a * (m \div a) + (m % a) /\ m % a < a
    BY <1>2
  <2>3. m \div a \in Int /\ m % a \in Int
    BY <1>2
  <2>4. (m \div a) * a = a * (m \div a)
    BY <2>3
  <2>5. a * (m \div a) >= n
    BY <2>2, <2>3
  <2> QED BY <1>2, <2>1, <2>4, <2>5 DEF AlignUp
<1> QED BY <1>1, <1>2

(***************************************************************************)
(* Types of what the actions build: the parts of a call, and of a block.   *)
(***************************************************************************)
LEMMA ConstantTypes ==
  /\ HeaderSize \in Nat /\ HeaderAlign \in Nat
  /\ Word \in Nat \ {0} /\ CounterWord \in Nat \ {0}
  /\ 0 \in 0..(CounterWord - 1)
  /\ Sizes \subseteq Nat /\ ReallocSizes \subseteq Nat
  /\ Counts \subseteq Nat /\ Aligns \subseteq Nat
  /\ Base \in [Blocks -> Nat]
  BY ConstantsOK

\* The fields of a call.
LEMMA CallFields ==
  ASSUME NEW c \in Call
  PROVE  /\ c.size \in Nat /\ c.align \in Aligns \cup {0} /\ c.len \in Nat /\ c.had \in Nat
         /\ c.old \in Nat /\ c.op \in CallOps
         /\ c.ptr \in Pointer \cup {NULL} /\ c.res \in Pointer \cup {NULL}
  BY DEF Call, PointerOrNull

\* The updates of a call that the actions make.
LEMMA CallUpdates ==
  ASSUME NEW c \in Call
  PROVE  /\ \A r \in Pointer \cup {NULL} : [c EXCEPT !.res = r] \in Call
         /\ \A r \in Pointer \cup {NULL} : [c EXCEPT !.ptr = r] \in Call
         /\ \A n \in Nat : [c EXCEPT !.size = n] \in Call
         /\ \A n \in Nat : [c EXCEPT !.old = n] \in Call
         /\ \A o \in CallOps : [c EXCEPT !.op = o] \in Call
         /\ \A o \in CallOps, n \in Nat : [c EXCEPT !.op = o, !.size = n] \in Call
         /\ \A n \in Nat, r \in Pointer \cup {NULL} :
              /\ [c EXCEPT !.size = n, !.res = r] \in Call
              /\ [c EXCEPT !.old = n, !.res = r] \in Call
              /\ [[c EXCEPT !.ptr = NULL] EXCEPT !.res = r] \in Call
  BY DEF Call, PointerOrNull

\* What an update of a call leaves of its pointer and its result.
LEMMA CallSelect ==
  ASSUME NEW c \in Call, NEW r, NEW n, NEW o
  PROVE  /\ [c EXCEPT !.res = r].res = r /\ [c EXCEPT !.res = r].ptr = c.ptr
         /\ [c EXCEPT !.res = r].op = c.op
         /\ [c EXCEPT !.ptr = r].ptr = r /\ [c EXCEPT !.ptr = r].res = c.res
         /\ [c EXCEPT !.ptr = r].op = c.op
         /\ [c EXCEPT !.op = o].ptr = c.ptr /\ [c EXCEPT !.op = o].res = c.res
         /\ [c EXCEPT !.op = o].op = o
         /\ [c EXCEPT !.op = o, !.size = n].ptr = c.ptr
         /\ [c EXCEPT !.op = o, !.size = n].res = c.res
         /\ [c EXCEPT !.op = o, !.size = n].op = o
         /\ [c EXCEPT !.size = n, !.res = r].ptr = c.ptr
         /\ [c EXCEPT !.size = n, !.res = r].res = r
         /\ [c EXCEPT !.size = n, !.res = r].op = c.op
         /\ [c EXCEPT !.old = n, !.res = r].ptr = c.ptr
         /\ [c EXCEPT !.old = n, !.res = r].res = r
         /\ [c EXCEPT !.old = n, !.res = r].op = c.op
         /\ [[c EXCEPT !.ptr = NULL] EXCEPT !.res = r].ptr = NULL
         /\ [[c EXCEPT !.ptr = NULL] EXCEPT !.res = r].res = r
         /\ [[c EXCEPT !.ptr = NULL] EXCEPT !.res = r].op = c.op
  BY DEF Call

\* A pointer made from typed parts, and NULL, which is none.
LEMMA PointerTypes ==
  /\ \A b \in Blocks, o, n \in Nat : Ptr(b, o, n) \in Pointer
  /\ \A p \in Pointer : p.blk \in Blocks /\ p.off \in Nat /\ p.len \in Nat
  /\ NULL \notin Pointer
  BY ConstantsOK DEF Ptr, Pointer

\* The blocks and headers that the actions write.
LEMMA BlockTypes ==
  /\ FreeBlock \in Block
  /\ NoHeader \in Header
  /\ \A o, n \in Nat : NewHeader(o, n) \in Header
  /\ \A c \in Nat, h \in Header : NewBlock(c, h) \in Block
  /\ \A k \in Block : /\ k.live \in BOOLEAN /\ k.cap \in Nat /\ k.data \in Nat
                       /\ k.hdr \in Header
                       /\ k.hdr.off \in Nat /\ k.hdr.raw \in Nat /\ k.hdr.req \in Nat
  /\ \A k \in Block, n \in Nat : /\ [k EXCEPT !.data = n] \in Block
                                /\ [k EXCEPT !.hdr.req = n] \in Block
  BY DEF FreeBlock, Block, NoHeader, Header, NewHeader, NewBlock

\* Writing one block keeps the heap a function from blocks.
LEMMA HeapUpdate ==
  ASSUME heap \in [Blocks -> Block], NEW b, NEW k \in Block
  PROVE  [heap EXCEPT ![b] = k] \in [Blocks -> Block]
  OBVIOUS

\* The sizes computed for libc.
LEMMA SizeTypes ==
  /\ \A n \in Nat : TotalSize(n) \in Nat
  /\ \A n, a \in Nat : AlignedSize(n, a) \in Nat
  /\ \A n \in Nat : AtLeastOne(n) \in Nat
  /\ \A m, n \in Nat : Smaller(m, n) \in Nat
<1>1. ASSUME NEW n \in Nat PROVE TotalSize(n) \in Nat
  <2>1. AlignUp(n, HeaderAlign) \in Nat
    BY ConstantTypes, AlignUpNat
  <2> QED BY <2>1, ConstantTypes, ModRange DEF TotalSize
<1>2. ASSUME NEW n \in Nat, NEW a \in Nat PROVE AlignedSize(n, a) \in Nat
  BY ConstantTypes, ModRange DEF AlignedSize
<1> QED BY <1>1, <1>2 DEF AtLeastOne, Smaller

\* A header placed for alignment a starts inside the block.
LEMMA AlignedOffsetType ==
  ASSUME NEW b \in Blocks, NEW a \in Aligns \cup {0}
  PROVE  AlignedOffset(b, a) \in Nat /\ AlignedOffset(b, a) >= HeaderSize
<1>1. Base[b] + HeaderSize \in Nat /\ Base[b] \in Nat /\ a \in Nat
  BY ConstantTypes
<1>0. Base[b] + HeaderSize + a <= Word
  BY ConstantsOK
<1>2. AlignUp(Base[b] + HeaderSize, a) >= Base[b] + HeaderSize
  BY <1>0, <1>1, AlignUpAbove
<1>3. AlignUp(Base[b] + HeaderSize, a) \in Nat
  BY <1>1, AlignUpNat
<1> QED BY <1>1, <1>2, <1>3, ConstantTypes DEF AlignedOffset

\* The idle call.
LEMMA NoCallType == NoCall \in Call
  BY ConstantTypes DEF NoCall, Call, PointerOrNull, CallOps

\* A client's call: only pc, call and owned change.
LEMMA BeginType ==
  ASSUME TypeOK, NEW t \in Threads, NEW op \in AllOps, NEW l \in Steps,
         NEW c \in Call, Begin(t, op, l, c)
  PROVE  TypeOK'
<1>1. [c EXCEPT !.op = op] \in Call
  BY CallUpdates DEF CallOps
<1>2. call' \in [Threads -> Call]
  BY <1>1 DEF Begin, Set, TypeOK
<1>3. pc' \in [Threads -> Steps]
  BY DEF Begin, Goto, TypeOK
<1>4. owned' \subseteq Pointer
  BY DEF Begin, TypeOK
<1> QED BY <1>2, <1>3, <1>4 DEF Begin, TypeOK, flags, totals

\* Every call a client makes is one of these: the pointer passed, if any, is
\* one it holds, and there is no result yet.
Entries == {"init", "sd_set", "enter", "free"}
EntryOf(op) == IF op = "init" THEN "init"
               ELSE IF op = "shutdown" THEN "sd_set"
               ELSE IF op = "free" THEN "free" ELSE "enter"

\* What a client can ask for; the size wraps where calloc's product does.
Lens == {0} \cup Sizes \cup ReallocSizes \cup {k * n : k \in Counts, n \in Sizes}

Asks(op, c) ==
  /\ c.res = NULL
  /\ c.ptr \in owned \cup {NULL}
  /\ op \notin {"realloc", "free"} => c.ptr = NULL
  /\ c.len \in Lens /\ c.size = c.len % Word
  /\ op = "realloc" => c.had = IF c.ptr = NULL THEN 0 ELSE c.ptr.len
  /\ op = "aligned" => c.align \in Aligns

CallsEntry(t) ==
  \E op \in AllOps, l \in Entries, c \in Call :
    l = EntryOf(op) /\ Asks(op, c) /\ Begin(t, op, l, c)

\* Each call of a client is Begin with a typed call.
LEMMA ClientCalls ==
  ASSUME TypeOK, NEW t \in Threads, Client(t), ~Return(t)
  PROVE  CallsEntry(t)
<1>0. NoCall \in Call
  BY NoCallType
<1>n. /\ \A n \in Sizes \cup ReallocSizes : n \in Nat /\ n % Word = n /\ n \in Lens
      /\ 0 % Word = 0 /\ 0 \in Lens
  <2>1. \A n \in 0..(Word - 1) : n \in Nat /\ n % Word = n
    BY ConstantsOK
  <2>2. 0 \in 0..(Word - 1) /\ Sizes \cup ReallocSizes \subseteq 0..(Word - 1)
    BY ConstantsOK
  <2> QED BY <2>1, <2>2 DEF Lens
<1>a. Asks("init", NoCall) /\ Asks("shutdown", NoCall)
  BY <1>n DEF NoCall, Asks
<1>b. ASSUME NEW op \in AllOps, NEW c \in Call, Asks(op, c), Begin(t, op, EntryOf(op), c)
      PROVE  CallsEntry(t)
  <2>1. EntryOf(op) \in Entries
    BY DEF EntryOf, Entries
  <2> QED BY <1>b, <2>1 DEF CallsEntry
<1> USE DEF AllOps, EntryOf
<1>1. CASE CallInit(t)
  BY <1>1, <1>0, <1>a, <1>b DEF CallInit
<1>2. CASE CallShutdown(t)
  BY <1>2, <1>0, <1>a, <1>b DEF CallShutdown
<1>3. CASE CallMalloc(t)
  <2>1. PICK n \in Sizes : Begin(t, "malloc", "enter", [NoCall EXCEPT !.size = n, !.len = n])
    BY <1>3 DEF CallMalloc
  <2> DEFINE c == [NoCall EXCEPT !.size = n, !.len = n]
  <2>2. c \in Call /\ Asks("malloc", c)
    BY <1>0, <1>n DEF Call, NoCall, Asks
  <2> HIDE DEF c
  <2> QED BY <2>1, <2>2, <1>b DEF c
<1>4. CASE CallCalloc(t)
  <2>1. PICK k \in Counts, n \in Sizes :
          Begin(t, "calloc", "enter", [NoCall EXCEPT !.size = (k * n) % Word, !.len = k * n])
    BY <1>4 DEF CallCalloc
  <2> DEFINE c == [NoCall EXCEPT !.size = (k * n) % Word, !.len = k * n]
  <2>2. (k * n) % Word \in Nat /\ k * n \in Nat /\ k * n \in Lens
    BY ConstantTypes, ModRange DEF Lens
  <2>3. c \in Call /\ Asks("calloc", c)
    BY <1>0, <2>2 DEF Call, NoCall, Asks
  <2> HIDE DEF c
  <2> QED BY <2>1, <2>3, <1>b DEF c
<1>5. CASE CallRealloc(t)
  <2>1. PICK p \in owned \cup {NULL}, n \in ReallocSizes :
          Begin(t, "realloc", "enter", [NoCall EXCEPT !.ptr = p, !.size = n, !.len = n,
                                         !.had = IF p = NULL THEN 0 ELSE p.len])
    BY <1>5 DEF CallRealloc
  <2> DEFINE c == [NoCall EXCEPT !.ptr = p, !.size = n, !.len = n,
                                 !.had = IF p = NULL THEN 0 ELSE p.len]
  <2>2. p \in Pointer \cup {NULL} /\ (IF p = NULL THEN 0 ELSE p.len) \in Nat
    BY PointerTypes DEF TypeOK
  <2>3. c \in Call /\ Asks("realloc", c)
    BY <1>0, <1>n, <2>2 DEF Call, PointerOrNull, NoCall, Asks
  <2> HIDE DEF c
  <2> QED BY <2>1, <2>3, <1>b DEF c
<1>6. CASE CallAligned(t)
  <2>1. PICK a \in Aligns, n \in Sizes :
          Begin(t, "aligned", "enter", [NoCall EXCEPT !.size = n, !.len = n, !.align = a])
    BY <1>6 DEF CallAligned
  <2> DEFINE c == [NoCall EXCEPT !.size = n, !.len = n, !.align = a]
  <2>2. c \in Call /\ Asks("aligned", c)
    BY <1>0, <1>n DEF Call, NoCall, Asks
  <2> HIDE DEF c
  <2> QED BY <2>1, <2>2, <1>b DEF c
<1>7. CASE CallFree(t)
  <2>1. PICK p \in owned \cup {NULL} : Begin(t, "free", "free", [NoCall EXCEPT !.ptr = p])
    BY <1>7 DEF CallFree
  <2> DEFINE c == [NoCall EXCEPT !.ptr = p]
  <2>2. p \in Pointer \cup {NULL}
    BY DEF TypeOK
  <2>3. c \in Call /\ Asks("free", c)
    BY <1>0, <1>n, <2>1, <2>2 DEF Call, PointerOrNull, NoCall, Asks
  <2> HIDE DEF c
  <2> QED BY <2>1, <2>3, <1>b DEF c
<1> QED BY <1>1, <1>2, <1>3, <1>4, <1>5, <1>6, <1>7 DEF Client

\* The calls and the return of a client.
LEMMA ClientType ==
  ASSUME TypeOK, NEW t \in Threads, Client(t)
  PROVE  TypeOK'
<1>1. CASE ~Return(t)
  BY <1>1, ClientCalls, BeginType DEF CallsEntry, Entries, Steps, LifecycleSteps
<1>2. CASE Return(t)
  <2>1. call[t].ptr \in Pointer \cup {NULL} /\ call[t].res \in Pointer \cup {NULL}
    BY CallFields DEF TypeOK
  <2>2. owned' \subseteq Pointer
    BY <1>2, <2>1 DEF Return, TypeOK
  <2>3. heap' \in [Blocks -> Block]
    <3>1. CASE call[t].res = NULL
      BY <1>2, <3>1 DEF Return, TypeOK
    <3>2. CASE call[t].res # NULL
      <4> DEFINE b == call[t].res.blk
      <4>1. b \in Blocks /\ call[t].res.len \in Nat
        BY <2>1, <3>2, PointerTypes
      <4>2. heap' = [heap EXCEPT ![b] = [heap[b] EXCEPT !.data = call[t].res.len]]
        BY <1>2, <3>2 DEF Return
      <4> QED BY <4>1, <4>2, BlockTypes, HeapUpdate DEF TypeOK
    <3> QED BY <3>1, <3>2
  <2>4. call' \in [Threads -> Call] /\ pc' \in [Threads -> Steps]
    BY <1>2, NoCallType DEF Return, Set, Goto, TypeOK, Steps
  <2> QED BY <1>2, <2>2, <2>3, <2>4 DEF Return, TypeOK, flags, totals
<1> QED BY <1>1, <1>2

\* libc hands out a block, or its realloc moves one: heap, pc and call change.
LEMMA LibcReallocType ==
  ASSUME TypeOK, NEW t \in Threads, LibcRealloc(t), call[t].ptr # NULL
  PROVE  /\ heap' \in [Blocks -> Block] /\ call' \in [Threads -> Call]
         /\ pc' \in [Threads -> Steps] /\ fault' \in BOOLEAN
<1> DEFINE c == call[t]
           p == c.ptr
<1>1. c \in Call /\ p \in Pointer /\ p.blk \in Blocks /\ p.len \in Nat
  BY CallFields, PointerTypes DEF TypeOK
<1>2. CASE ~ValidRaw(p.blk, p.off)
  BY <1>2 DEF LibcRealloc, TypeOK
<1>3. CASE ValidRaw(p.blk, p.off) /\ c.size = 0
  <2>1. [[c EXCEPT !.ptr = NULL] EXCEPT !.res = NULL] \in Call
    BY <1>1, CallUpdates
  <2>2. heap' = [heap EXCEPT ![p.blk] = FreeBlock] /\ UNCHANGED fault
        /\ Result(t, [c EXCEPT !.ptr = NULL], NULL)
    BY <1>3, <1>1, CallFields DEF LibcRealloc
  <2> QED BY <2>1, <2>2, BlockTypes DEF Result, Set, Goto, TypeOK, Steps
<1>4. CASE ValidRaw(p.blk, p.off) /\ c.size > 0
  <2>1. CASE Result(t, c, NULL) /\ UNCHANGED <<heap, fault>>
    BY <2>1, <1>1, CallUpdates DEF Result, Set, Goto, TypeOK, Steps
  <2>2. ASSUME NEW b \in Blocks, NEW k \in Block,
               heap' = [heap EXCEPT ![p.blk] = FreeBlock, ![b] = k],
               Result(t, [c EXCEPT !.ptr = NULL], Ptr(b, 0, c.len)), UNCHANGED fault
        PROVE  /\ heap' \in [Blocks -> Block] /\ call' \in [Threads -> Call]
               /\ pc' \in [Threads -> Steps] /\ fault' \in BOOLEAN
    <3>1. Ptr(b, 0, c.len) \in Pointer
      BY <1>1, CallFields, PointerTypes
    <3>2. [[c EXCEPT !.ptr = NULL] EXCEPT !.res = Ptr(b, 0, c.len)] \in Call
      BY <1>1, <3>1, CallUpdates
    <3> QED BY <2>2, <3>2, BlockTypes DEF Result, Set, Goto, TypeOK, Steps
  <2>3. [NewBlock(c.size, NoHeader) EXCEPT !.data = Smaller(heap[p.blk].data, c.size)] \in Block
    BY <1>1, CallFields, BlockTypes, SizeTypes DEF TypeOK
  <2>4. Available \cup {p.blk} \subseteq Blocks
    BY <1>1 DEF Available
  <2> QED BY <1>4, <1>1, <2>1, <2>2, <2>3, <2>4, CallFields DEF LibcRealloc
<1> QED BY <1>1, <1>2, <1>3, <1>4, CallFields DEF LibcRealloc

\* The block of an aligned allocation, with its header.
LEMMA AlignedBlockType ==
  ASSUME TypeOK, NEW t \in Threads, NEW n \in Nat, AlignedBlock(t, n)
  PROVE  /\ heap' \in [Blocks -> Block] /\ call' \in [Threads -> Call]
         /\ pc' \in [Threads -> Steps]
<1> DEFINE c == call[t]
<1>0. c \in Call /\ c.align \in Aligns \cup {0} /\ c.len \in Nat
  BY CallFields DEF TypeOK
<1>a. \A a \in Aligns \cup {0} : a \in Nat
  BY ConstantTypes
<1>1. c \in Call /\ c.align \in Aligns \cup {0} /\ c.align \in Nat /\ c.len \in Nat
  BY <1>0, <1>a, Zenon
<1>2. CASE Result(t, c, NULL) /\ UNCHANGED heap
  BY <1>1, <1>2, CallUpdates DEF Result, Set, Goto, TypeOK, Steps
<1>3. ASSUME NEW b \in Available,
        heap' = [heap EXCEPT ![b] =
                   NewBlock(AlignedSize(n, c.align), NewHeader(AlignedOffset(b, c.align), n))],
        Result(t, c, Ptr(b, AlignedOffset(b, c.align), c.len))
      PROVE /\ heap' \in [Blocks -> Block] /\ call' \in [Threads -> Call]
            /\ pc' \in [Threads -> Steps]
  <2>1. b \in Blocks /\ AlignedOffset(b, c.align) \in Nat /\ AlignedSize(n, c.align) \in Nat
    BY <1>1, AlignedOffsetType, SizeTypes DEF Available
  <2>2. Ptr(b, AlignedOffset(b, c.align), c.len) \in Pointer
    BY <1>1, <2>1, PointerTypes
  <2> QED BY <1>1, <1>3, <2>1, <2>2, BlockTypes, HeapUpdate, CallUpdates
          DEF Result, Set, Goto, TypeOK, Steps
<1> QED BY <1>2, <1>3 DEF AlignedBlock

\* The guard of the entry points and its fallbacks to libc.
LEMMA GuardType ==
  ASSUME TypeOK, NEW t \in Threads, Guard(t)
  PROVE  TypeOK'
<1> DEFINE c == call[t]
<1>c. c \in Call /\ c.size \in Nat /\ c.len \in Nat
  BY CallFields DEF TypeOK
<1>1. CASE Enter(t)
  BY <1>1 DEF Enter, Goto, TypeOK, flags, totals, Steps
<1>2. CASE EnterInitializing(t)
  BY <1>2 DEF EnterInitializing, Goto, TypeOK, flags, totals, Steps, LifecycleSteps
<1>3. CASE SystemMalloc(t)
  <2>1. CASE Result(t, c, NULL) /\ UNCHANGED heap
    BY <1>c, <1>3, <2>1, CallUpdates
       DEF SystemMalloc, Result, Set, Goto, TypeOK, flags, totals, Steps
  <2>2. ASSUME NEW b \in Available,
          heap' = [heap EXCEPT ![b] =
                     [NewBlock(c.size, NoHeader) EXCEPT !.data = Cleared(c, c.size)]],
          Result(t, c, Ptr(b, 0, c.len))
        PROVE TypeOK'
    <3>1. b \in Blocks /\ Cleared(c, c.size) \in Nat
      BY <1>c DEF Available, Cleared
    <3>2. Ptr(b, 0, c.len) \in Pointer
      BY <1>c, <3>1, PointerTypes
    <3>3. [NewBlock(c.size, NoHeader) EXCEPT !.data = Cleared(c, c.size)] \in Block
      BY <1>c, <3>1, BlockTypes
    <3>4. heap' \in [Blocks -> Block]
      BY <2>2, <3>3, HeapUpdate DEF TypeOK
    <3> QED BY <1>c, <1>3, <2>2, <3>2, <3>4, CallUpdates
            DEF SystemMalloc, Result, Set, Goto, TypeOK, flags, totals, Steps
  <2> QED BY <1>3, <2>1, <2>2 DEF SystemMalloc
<1>4. CASE SystemAligned(t)
  BY <1>4, <1>c, AlignedBlockType DEF SystemAligned, TypeOK, flags, totals
<1>5. CASE SystemRealloc(t)
  BY <1>5, LibcReallocType DEF SystemRealloc, TypeOK, flags, totals
<1> QED BY <1>1, <1>2, <1>3, <1>4, <1>5 DEF Guard

\* A new headered block for malloc or a growing realloc.
LEMMA HeaderedBlockType ==
  ASSUME TypeOK, NEW t \in Threads, NEW n \in Nat, HeaderedBlock(t, n)
  PROVE  heap' \in [Blocks -> Block] /\ call' \in [Threads -> Call]
<1>1. call[t] \in Call /\ call[t].len \in Nat
  BY CallFields DEF TypeOK
<1>2. PICK b \in Available :
        /\ heap' = [heap EXCEPT ![b] = NewBlock(TotalSize(n), NewHeader(HeaderSize, n))]
        /\ Set(t, [call[t] EXCEPT !.size = n, !.res = Ptr(b, HeaderSize, call[t].len)])
  BY DEF HeaderedBlock
<1>3. b \in Blocks /\ Ptr(b, HeaderSize, call[t].len) \in Pointer
  BY <1>1, PointerTypes, ConstantTypes DEF Available
<1>4. NewBlock(TotalSize(n), NewHeader(HeaderSize, n)) \in Block
  BY BlockTypes, SizeTypes, ConstantTypes
<1> QED BY <1>1, <1>2, <1>3, <1>4, CallUpdates, HeapUpdate DEF Set, TypeOK

\* malloc's block.
LEMMA MallocType ==
  ASSUME TypeOK, NEW t \in Threads, Malloc(t)
  PROVE  TypeOK'
<1>1. call[t] \in Call /\ AtLeastOne(call[t].size) \in Nat
  BY CallFields, SizeTypes DEF TypeOK
<1>2. CASE Result(t, call[t], NULL) /\ UNCHANGED heap
  BY <1>1, <1>2, CallUpdates DEF Malloc, Result, Set, Goto, TypeOK, flags, totals, Steps
<1>3. CASE HeaderedBlock(t, AtLeastOne(call[t].size)) /\ Goto(t, "malloc_count")
  BY <1>1, <1>3, HeaderedBlockType DEF Malloc, Goto, TypeOK, flags, totals, Steps
<1> QED BY <1>2, <1>3 DEF Malloc

\* The new block of a growing realloc.
LEMMA ReallocGrowType ==
  ASSUME TypeOK, NEW t \in Threads, ReallocGrow(t)
  PROVE  TypeOK'
<1> DEFINE c == call[t]
           p == c.ptr
           moved == [NewBlock(TotalSize(c.size), NewHeader(HeaderSize, c.size)) EXCEPT
                       !.data = Copied(p)]
<1>1. c \in Call /\ c.size \in Nat /\ c.len \in Nat /\ p \in Pointer
  BY CallFields DEF ReallocGrow, TypeOK
<1>2. heap[p.blk] \in Block
  BY <1>1, PointerTypes DEF TypeOK
<1>3. heap[p.blk].data \in Nat /\ HeaderOf(p).req \in Nat
  BY <1>2, BlockTypes DEF HeaderOf
<1>4. moved \in Block
  BY <1>1, <1>3, BlockTypes, SizeTypes, ConstantTypes DEF Copied
<1>5. CASE Result(t, c, NULL) /\ UNCHANGED heap
  BY <1>1, <1>5, CallUpdates DEF ReallocGrow, Result, Set, Goto, TypeOK, flags, totals, Steps
<1>6. ASSUME NEW b \in Available,
        heap' = [heap EXCEPT ![b] = moved],
        Set(t, [c EXCEPT !.old = HeaderOf(p).req, !.res = Ptr(b, HeaderSize, c.len)]),
        Goto(t, "realloc_freed")
      PROVE TypeOK'
  <2>1. Ptr(b, HeaderSize, c.len) \in Pointer
    BY <1>1, PointerTypes, ConstantTypes DEF Available
  <2>2. call' \in [Threads -> Call]
    BY <1>1, <1>3, <1>6, <2>1, CallUpdates DEF Set, TypeOK
  <2>3. heap' \in [Blocks -> Block]
    BY <1>4, <1>6, HeapUpdate DEF TypeOK
  <2> QED BY <1>6, <2>2, <2>3 DEF ReallocGrow, Goto, TypeOK, flags, totals, Steps
<1> QED BY <1>5, <1>6 DEF ReallocGrow

\* Both totals stay below CounterWord whatever is added to them.
LEMMA TotalsType ==
  ASSUME TypeOK, NEW n \in Nat
  PROVE  /\ (total_allocated + n) % CounterWord \in 0..(CounterWord - 1)
         /\ (total_freed + n) % CounterWord \in 0..(CounterWord - 1)
  BY ConstantTypes, ModRange DEF TypeOK

\* The bodies of the entry points.
LEMMA BodyType ==
  ASSUME TypeOK, CallShape, NEW t \in Threads, Body(t)
  PROVE  TypeOK'
<1> DEFINE c == call[t]
           p == c.ptr
<1>c. c \in Call /\ c.size \in Nat /\ c.len \in Nat /\ c.old \in Nat
  BY CallFields DEF TypeOK
<1>p. ASSUME p # NULL PROVE p \in Pointer /\ p.blk \in Blocks /\ p.off \in Nat
  BY <1>c, <1>p, CallFields, PointerTypes
<1>h. ASSUME p # NULL PROVE heap[p.blk] \in Block /\ HeaderOf(p).req \in Nat
  BY <1>p, <1>h, BlockTypes DEF HeaderOf, TypeOK
<1> USE DEF flags, totals
<1>1. CASE Malloc(t)
  BY <1>1, MallocType
<1>2. CASE MallocCount(t)
  <2>1. Cleared(c, c.size) \in Nat
    BY <1>c DEF Cleared
  <2>2. heap' \in [Blocks -> Block]
    BY <1>2, <2>1, BlockTypes DEF MallocCount, TypeOK
  <2> QED BY <1>2, <1>c, <2>2, TotalsType DEF MallocCount, Goto, TypeOK, Steps
<1>3. CASE Calloc(t)
  <2>1. "calloc_malloc" \in CallOps /\ AtLeastOne(c.size) \in Nat
    BY <1>c, SizeTypes DEF CallOps
  <2>2. call' = [call EXCEPT ![t] = [c EXCEPT !.op = "calloc_malloc", !.size = AtLeastOne(c.size)]]
    BY <1>3 DEF Calloc, Set
  <2>3. [c EXCEPT !.op = "calloc_malloc", !.size = AtLeastOne(c.size)] \in Call
    BY <1>c, <2>1, CallUpdates
  <2> QED BY <1>3, <2>2, <2>3 DEF Calloc, Goto, TypeOK, Steps
<1>4. CASE Aligned(t)
  <2>1. CASE AlignedBlock(t, AtLeastOne(c.size))
    BY <1>4, <1>c, <2>1, SizeTypes, AlignedBlockType DEF Aligned, TypeOK
  <2>2. CASE Result(t, c, NULL) /\ UNCHANGED heap
    BY <1>4, <1>c, <2>2, CallUpdates DEF Aligned, Result, Set, Goto, TypeOK, Steps
  <2> QED BY <1>4, <2>1, <2>2 DEF Aligned
<1>5. CASE ReallocForward(t)
  <2>1. "malloc" \in CallOps
    BY DEF CallOps, AllOps
  <2>2. [c EXCEPT !.op = "malloc"] \in Call
    BY <1>c, <2>1, CallUpdates
  <2> QED BY <1>5, <2>2 DEF ReallocForward, Set, Goto, TypeOK, Steps
<1>6. CASE ReallocForeign(t)
  BY <1>6, LibcReallocType DEF ReallocForeign, TypeOK
<1>7. CASE ReallocShrink(t)
  <2>1. p # NULL
    BY <1>7 DEF ReallocShrink
  <2>2. Ptr(p.blk, p.off, c.len) \in Pointer
    BY <2>1, <1>p, <1>c, PointerTypes
  <2>3. heap' = [heap EXCEPT ![p.blk] = [heap[p.blk] EXCEPT !.hdr.req = c.size]]
    BY <1>7 DEF ReallocShrink
  <2>4. heap' \in [Blocks -> Block]
    BY <1>c, <1>h, <2>1, <2>3, BlockTypes, HeapUpdate DEF TypeOK
  <2>5. [[c EXCEPT !.ptr = NULL] EXCEPT !.res = Ptr(p.blk, p.off, c.len)] \in Call
    BY <1>c, <2>2, CallUpdates
  <2>6. Result(t, [c EXCEPT !.ptr = NULL], Ptr(p.blk, p.off, c.len))
    BY <1>7 DEF ReallocShrink
  <2>7. call' \in [Threads -> Call] /\ pc' \in [Threads -> Steps]
    BY <2>5, <2>6 DEF Result, Set, Goto, TypeOK, Steps
  <2> QED BY <1>7, <2>4, <2>7 DEF ReallocShrink, TypeOK
<1>8. CASE ReallocGrow(t)
  BY <1>8, ReallocGrowType
<1>9. CASE ReallocFreed(t)
  BY <1>9, <1>c, TotalsType DEF ReallocFreed, Goto, TypeOK, Steps
<1>10. CASE ReallocAllocated(t)
  BY <1>10, <1>c, TotalsType DEF ReallocAllocated, Goto, TypeOK, Steps
<1>11. CASE Free(t)
  BY <1>11 DEF Free, Goto, TypeOK, Steps
<1>12. CASE FreeInitializing(t)
  BY <1>12 DEF FreeInitializing, Goto, TypeOK, Steps
<1>13. CASE FreeHeader(t)
  <2>1. p # NULL
    BY <1>13 DEF FreeHeader, Running, CallShape, Shape
  <2>2. total_freed' \in 0..(CounterWord - 1)
    BY <1>13, <2>1, <1>h, TotalsType DEF FreeHeader, TypeOK
  <2> QED BY <1>13, <2>2 DEF FreeHeader, Goto, TypeOK, Steps
<1>14. ASSUME NEW b, NEW o, LibcFree(b, o)
       PROVE  heap' \in [Blocks -> Block] /\ fault' \in BOOLEAN
  BY <1>14, BlockTypes, HeapUpdate DEF LibcFree, TypeOK
<1>15. [c EXCEPT !.ptr = NULL] \in Call
  BY <1>c, CallUpdates
<1>16. CASE FreeBlockOf(t)
  BY <1>14, <1>15, <1>16 DEF FreeBlockOf, Set, Goto, TypeOK, Steps
<1>17. CASE FreeRaw(t)
  BY <1>14, <1>15, <1>17 DEF FreeRaw, Set, Goto, TypeOK, Steps
<1> QED BY <1>1, <1>2, <1>3, <1>4, <1>5, <1>6, <1>7, <1>8, <1>9, <1>10, <1>11,
           <1>12, <1>13, <1>16, <1>17 DEF Body

\* allocator_init and allocator_shutdown.
LEMMA LifecycleType ==
  ASSUME TypeOK, NEW t \in Threads, Start(t) \/ Stop(t)
  PROVE  TypeOK'
<1> USE ConstantTypes DEF Goto, InitReturn, TypeOK, flags, totals, Steps, LifecycleSteps
<1>1. CASE InitEntry(t)
  BY <1>1 DEF InitEntry
<1>2. CASE InitCheck(t)
  BY <1>2 DEF InitCheck
<1>3. CASE InitSet(t)
  BY <1>3 DEF InitSet
<1>4. CASE InitClear(t)
  BY <1>4 DEF InitClear
<1>5. CASE InitFlag(t)
  BY <1>5 DEF InitFlag
<1>6. CASE InitSubsystems(t)
  BY <1>6 DEF InitSubsystems
<1>7. CASE InitUndo(t)
  BY <1>7 DEF InitUndo
<1>8. CASE InitUndoFlag(t)
  BY <1>8 DEF InitUndoFlag
<1>9. CASE InitTotals(t)
  BY <1>9 DEF InitTotals
<1>10. CASE InitDone(t)
  BY <1>10 DEF InitDone
<1>11. CASE ShutdownSet(t)
  BY <1>11 DEF ShutdownSet
<1>12. CASE ShutdownCheck(t)
  BY <1>12 DEF ShutdownCheck
<1>13. CASE ShutdownTeardown(t)
  BY <1>13 DEF ShutdownTeardown
<1>14. CASE ShutdownTotals(t)
  BY <1>14 DEF ShutdownTotals
<1>15. CASE ShutdownFlag(t)
  BY <1>15 DEF ShutdownFlag
<1>16. CASE ShutdownClear(t)
  BY <1>16 DEF ShutdownClear
<1>17. CASE ShutdownDone(t)
  BY <1>17 DEF ShutdownDone
<1> QED BY <1>1, <1>2, <1>3, <1>4, <1>5, <1>6, <1>7, <1>8, <1>9, <1>10, <1>11, <1>12,
           <1>13, <1>14, <1>15, <1>16, <1>17 DEF Start, Stop

(***************************************************************************)
(* A step of a thread moves no other thread and leaves the other calls     *)
(* alone.                                                                  *)
(***************************************************************************)
Step(t) == Client(t) \/ Guard(t) \/ Body(t) \/ Start(t) \/ Stop(t)

Only(t) == \A u \in Threads \ {t} : pc'[u] = pc[u] /\ call'[u] = call[u]

\* A step of a thread moves no other thread.
LEMMA OnlyOne ==
  ASSUME TypeOK, NEW t \in Threads, Step(t)
  PROVE  Only(t)
<1> USE DEF Only, Goto, Set, Result, TypeOK
<1>1. CASE Client(t)
  BY <1>1 DEF Client, Begin, CallInit, CallShutdown, CallMalloc, CallCalloc, CallRealloc,
              CallAligned, CallFree, Return
<1>r. ASSUME LibcRealloc(t) PROVE Only(t)
  BY <1>r DEF LibcRealloc
<1>a. ASSUME NEW n, AlignedBlock(t, n) PROVE Only(t)
  BY <1>a DEF AlignedBlock
<1>2. CASE Guard(t)
  BY <1>2, <1>r, <1>a DEF Guard, Enter, EnterInitializing, SystemMalloc, SystemAligned,
                          SystemRealloc
<1>3. CASE Body(t)
  <2>1. CASE Malloc(t) \/ MallocCount(t) \/ Calloc(t) \/ Aligned(t)
    BY <2>1, <1>a DEF Malloc, HeaderedBlock, MallocCount, Calloc, Aligned
  <2>2. CASE ReallocForward(t) \/ ReallocForeign(t) \/ ReallocShrink(t) \/ ReallocGrow(t)
    BY <2>2, <1>r DEF ReallocForward, ReallocForeign, ReallocShrink, ReallocGrow
  <2>3. CASE ReallocFreed(t) \/ ReallocAllocated(t) \/ Free(t) \/ FreeInitializing(t)
    BY <2>3 DEF ReallocFreed, ReallocAllocated, Free, FreeInitializing
  <2>4. CASE FreeHeader(t) \/ FreeBlockOf(t) \/ FreeRaw(t)
    BY <2>4 DEF FreeHeader, FreeBlockOf, FreeRaw
  <2> QED BY <1>3, <2>1, <2>2, <2>3, <2>4 DEF Body
<1>4. CASE Start(t)
  BY <1>4 DEF Start, InitReturn, InitEntry, InitCheck, InitSet, InitClear, InitFlag,
              InitSubsystems, InitUndo, InitUndoFlag, InitTotals, InitDone
<1>5. CASE Stop(t)
  BY <1>5 DEF Stop, ShutdownSet, ShutdownCheck, ShutdownTeardown, ShutdownTotals,
              ShutdownFlag, ShutdownClear, ShutdownDone
<1> QED BY <1>1, <1>2, <1>3, <1>4, <1>5 DEF Step

\* Every step keeps the shape of the calls.
LEMMA CallShapeStep ==
  ASSUME TypeOK, CallShape, NEW t \in Threads, Step(t)
  PROVE  CallShape'
<1>0. call[t] \in Call /\ pc \in [Threads -> Steps] /\ call \in [Threads -> Call]
  BY DEF TypeOK
<1>s. Shape(t)
  BY DEF CallShape
<1> SUFFICES Shape(t)'
  BY OnlyOne DEF Only, CallShape, Shape
<1> DEFINE c == call[t]
<1>u. \A r, n, o :
         /\ [c EXCEPT !.res = r].ptr = c.ptr /\ [c EXCEPT !.res = r].op = c.op
         /\ [c EXCEPT !.res = r].res = r
         /\ [c EXCEPT !.ptr = r].res = c.res /\ [c EXCEPT !.ptr = r].ptr = r
         /\ [c EXCEPT !.op = o].ptr = c.ptr /\ [c EXCEPT !.op = o].res = c.res
         /\ [c EXCEPT !.op = o].op = o
         /\ [c EXCEPT !.op = o, !.size = n].ptr = c.ptr
         /\ [c EXCEPT !.op = o, !.size = n].res = c.res
         /\ [c EXCEPT !.old = n, !.res = r].ptr = c.ptr
         /\ [c EXCEPT !.old = n, !.res = r].op = c.op
         /\ [[c EXCEPT !.ptr = NULL] EXCEPT !.res = r].ptr = NULL
  BY <1>0, CallSelect
<1> USE <1>0, <1>s DEF Goto, Set, Result, Running, Shape, LifecycleSteps
<1>e. ASSUME pc'[t] = "return", call'[t].ptr = NULL PROVE Shape(t)'
  BY <1>e
<1>v. ASSUME pc' = pc, call' = call PROVE Shape(t)'
  BY <1>v
<1>w. ASSUME Running(t, "body") \/ Running(t, "system"), Result(t, c, NULL) PROVE Shape(t)'
  <2>1. pc'[t] = "return" /\ call'[t] = [c EXCEPT !.res = NULL]
    BY <1>w
  <2>2. call'[t].res = NULL /\ call'[t].ptr = c.ptr /\ call'[t].op = c.op
    BY <2>1, <1>u
  <2> QED BY <2>1, <2>2, <1>w
<1>g. ASSUME NEW r, c.ptr = NULL, Result(t, c, r) PROVE Shape(t)'
  <2>1. pc'[t] = "return" /\ call'[t] = [c EXCEPT !.res = r]
    BY <1>g
  <2> QED BY <2>1, <1>u, <1>e, <1>g
<1>1. CASE Client(t)
  <2>1. CASE ~Return(t)
    <3>1. PICK op \in AllOps, l \in Entries, d \in Call :
                 /\ d.res = NULL /\ Begin(t, op, l, d)
                 /\ op \notin {"realloc", "free"} => d.ptr = NULL
      BY <1>1, <2>1, ClientCalls DEF CallsEntry, Asks
    <3>2. /\ [d EXCEPT !.op = op].res = NULL /\ [d EXCEPT !.op = op].op = op
          /\ [d EXCEPT !.op = op].ptr = d.ptr
      BY <3>1, CallSelect
    <3>3. pc'[t] = l /\ call'[t] = [d EXCEPT !.op = op]
      BY <3>1 DEF Begin
    <3> QED BY <3>1, <3>2, <3>3 DEF Entries
  <2>2. CASE Return(t)
    BY <2>2, NoCallType DEF Return, NoCall
  <2> QED BY <2>1, <2>2
<1>r. ASSUME LibcRealloc(t), Running(t, "body") \/ Running(t, "system") PROVE Shape(t)'
  <2>1. CASE pc' = pc /\ call' = call
    BY <2>1, <1>v
  <2>2. CASE Result(t, c, NULL)
    BY <2>2, <1>r, <1>w
  <2>3. ASSUME NEW r, Result(t, [c EXCEPT !.ptr = NULL], r) PROVE Shape(t)'
    <3>1. pc'[t] = "return" /\ call'[t] = [[c EXCEPT !.ptr = NULL] EXCEPT !.res = r]
      BY <2>3
    <3> QED BY <3>1, <1>u, <1>e
  <2> QED BY <1>r, <2>1, <2>2, <2>3 DEF LibcRealloc
<1>a. ASSUME NEW n, AlignedBlock(t, n), c.op = "aligned" PROVE Shape(t)'
  BY <1>a, <1>g DEF AlignedBlock
<1>2. CASE Guard(t)
  <2>1. CASE Enter(t) \/ EnterInitializing(t)
    BY <2>1 DEF Enter, EnterInitializing
  <2>2. CASE SystemMalloc(t)
    <3>1. c.ptr = NULL
      BY <2>2 DEF SystemMalloc
    <3> QED BY <2>2, <3>1, <1>g DEF SystemMalloc
  <2>3. CASE SystemAligned(t)
    BY <2>3, <1>a DEF SystemAligned
  <2>4. CASE SystemRealloc(t)
    BY <2>4, <1>r DEF SystemRealloc
  <2> QED BY <1>2, <2>1, <2>2, <2>3, <2>4 DEF Guard
<1>3. CASE Body(t)
  <2>1. CASE Malloc(t)
    <3>1. c.ptr = NULL
      BY <2>1 DEF Malloc
    <3>2. ASSUME NEW n, NEW b \in Blocks, pc' = [pc EXCEPT ![t] = "malloc_count"],
                 call' = [call EXCEPT ![t] =
                            [c EXCEPT !.size = n, !.res = Ptr(b, HeaderSize, c.len)]]
          PROVE  Shape(t)'
      <4>1. call'[t].ptr = c.ptr /\ call'[t].res = Ptr(b, HeaderSize, c.len)
        BY <3>2, CallSelect
      <4>2. HeaderSize \in Nat /\ c.len \in Nat
        BY ConstantTypes, CallFields
      <4>3. Ptr(b, HeaderSize, c.len) # NULL
        BY <4>2, PointerTypes
      <4> QED BY <3>1, <3>2, <4>1, <4>3
    <3>3. CASE Result(t, c, NULL)
      BY <3>1, <3>3, <1>g
    <3>4. CASE HeaderedBlock(t, AtLeastOne(c.size)) /\ Goto(t, "malloc_count")
      BY <3>2, <3>4 DEF HeaderedBlock, Available
    <3> QED BY <2>1, <3>3, <3>4 DEF Malloc
  <2>2. CASE MallocCount(t)
    BY <2>2 DEF MallocCount
  <2>3. CASE Aligned(t)
    BY <2>3, <1>a, <1>w DEF Aligned
  <2>4. CASE Calloc(t)
    <3>1. call'[t] = [c EXCEPT !.op = "calloc_malloc", !.size = AtLeastOne(c.size)]
      BY <2>4 DEF Calloc
    <3>2. call'[t].ptr = NULL /\ call'[t].res = NULL
      BY <2>4, <3>1, <1>u DEF Calloc
    <3> QED BY <2>4, <3>2 DEF Calloc
  <2>5. CASE ReallocForward(t)
    <3>1. CASE /\ c.ptr = NULL /\ Goto(t, "enter")
               /\ call' = [call EXCEPT ![t] = [call[t] EXCEPT !.op = "malloc"]]
      BY <2>5, <3>1, <1>u DEF ReallocForward
    <3>2. CASE Goto(t, "free") /\ UNCHANGED call
      BY <2>5, <3>2 DEF ReallocForward
    <3> QED BY <2>5, <3>1, <3>2 DEF ReallocForward
  <2>6. CASE ReallocForeign(t)
    BY <2>6, <1>r DEF ReallocForeign
  <2>7. CASE ReallocShrink(t)
    <3>1. PICK r : Result(t, [c EXCEPT !.ptr = NULL], r)
      BY <2>7 DEF ReallocShrink
    <3>2. pc'[t] = "return" /\ call'[t] = [[c EXCEPT !.ptr = NULL] EXCEPT !.res = r]
      BY <3>1
    <3> QED BY <3>2, <1>u, <1>e
  <2>8. CASE ReallocGrow(t)
    <3>1. CASE Result(t, c, NULL)
      BY <2>8, <3>1, <1>w DEF ReallocGrow
    <3>2. ASSUME NEW n, NEW r, call[t].ptr # NULL, c.op = "realloc", Goto(t, "realloc_freed"),
                 Set(t, [call[t] EXCEPT !.old = n, !.res = r])
          PROVE  Shape(t)'
      BY <3>2, <1>u
    <3>3. call[t].ptr # NULL /\ c.op = "realloc"
      BY <2>8 DEF ReallocGrow
    <3>4. ASSUME ~Result(t, c, NULL)
          PROVE  \E n, r : /\ Goto(t, "realloc_freed")
                           /\ Set(t, [call[t] EXCEPT !.old = n, !.res = r])
      BY <2>8, <3>4 DEF ReallocGrow
    <3> QED BY <3>1, <3>2, <3>3, <3>4
  <2>9. CASE ReallocFreed(t) \/ ReallocAllocated(t) \/ Free(t) \/ FreeInitializing(t)
    BY <2>9 DEF ReallocFreed, ReallocAllocated, Free, FreeInitializing
  <2>10. CASE FreeHeader(t) \/ FreeBlockOf(t) \/ FreeRaw(t)
    <3>1. CASE FreeHeader(t)
      BY <3>1 DEF FreeHeader
    <3>2. CASE FreeBlockOf(t)
      BY <3>2, <1>u, <1>e DEF FreeBlockOf
    <3>3. CASE FreeRaw(t)
      BY <3>3, <1>u, <1>e DEF FreeRaw
    <3> QED BY <2>10, <3>1, <3>2, <3>3
  <2> QED BY <1>3, <2>1, <2>2, <2>3, <2>4, <2>5, <2>6, <2>7, <2>8, <2>9, <2>10 DEF Body
<1>4. CASE Start(t)
  BY <1>4 DEF Start, InitReturn, InitEntry, InitCheck, InitSet, InitClear, InitFlag,
              InitSubsystems, InitUndo, InitUndoFlag, InitTotals, InitDone
<1>5. CASE Stop(t)
  BY <1>5 DEF Stop, ShutdownSet, ShutdownCheck, ShutdownTeardown, ShutdownTotals,
              ShutdownFlag, ShutdownClear, ShutdownDone
<1> QED BY <1>1, <1>2, <1>3, <1>4, <1>5 DEF Step

\* Type correctness, with the check of free that it rests on: for every number
\* of threads and blocks, with orderly clients or not.
THEOREM TypeCorrect == Spec => [](TypeOK /\ CallShape)
<1>1. Init => TypeOK /\ CallShape
  <2>1. Init => TypeOK
    BY ConstantTypes, BlockTypes, NoCallType DEF Init, TypeOK, Steps
  <2>2. Init => CallShape
    BY DEF Init, CallShape, Shape, NoCall
  <2> QED BY <2>1, <2>2
<1>2. TypeOK /\ CallShape /\ [Next]_vars => (TypeOK /\ CallShape)'
  <2> SUFFICES ASSUME TypeOK, CallShape, [Next]_vars PROVE (TypeOK /\ CallShape)'
    OBVIOUS
  <2>1. CASE UNCHANGED vars
    BY <2>1 DEF vars, flags, totals, TypeOK, CallShape, Shape
  <2>2. ASSUME NEW t \in Threads, Step(t) PROVE (TypeOK /\ CallShape)'
    BY <2>2, ClientType, GuardType, BodyType, LifecycleType, CallShapeStep DEF Step
  <2> QED BY <2>1, <2>2 DEF Next, Step
<1> QED BY <1>1, <1>2, PTL DEF Spec

-----------------------------------------------------------------------------
(* No pointer in two hands and no memory lost, for any clients, orderly or *)
(* not.  Each step of Allocator is one of six kinds of move of pointers    *)
(* between clients, calls and libc; both invariants are then proved kind   *)
(* by kind.                                                                *)

SameCall(t) == call'[t].ptr = call[t].ptr /\ call'[t].res = call[t].res
SameLive(S) == \A b \in S : heap'[b].live = heap[b].live

\* Nothing changes hands.
Stays(t) ==
  /\ owned' = owned /\ SameCall(t) /\ SameLive(Blocks)
  /\ fault => fault'

\* A client passes a pointer it holds, or NULL, to a call.
Takes(t) ==
  /\ call[t].ptr = NULL /\ call[t].res = NULL /\ call'[t].res = NULL
  /\ call'[t].ptr \in owned \cup {NULL}
  /\ owned' = owned \ {call'[t].ptr}
  /\ SameLive(Blocks) /\ fault' = fault

\* A call gets a block that was not in use.
Gets(t) ==
  \E b \in Blocks :
    /\ call'[t].ptr = call[t].ptr /\ call[t].res = NULL
    /\ call'[t].res # NULL /\ call'[t].res.blk = b
    /\ ~heap[b].live /\ heap'[b].live /\ SameLive(Blocks \ {b})
    /\ owned' = owned /\ fault' = fault

\* realloc returns the block it was given, or another one it moved it to.
Moves(t) ==
  \E b \in Blocks :
    /\ call[t].ptr # NULL /\ call'[t].ptr = NULL /\ call[t].res = NULL
    /\ call'[t].res # NULL /\ call'[t].res.blk = b
    /\ \/ b = call[t].ptr.blk /\ (heap[b].live => heap'[b].live)
       \/ ~heap[b].live /\ heap'[b].live /\ ~heap'[call[t].ptr.blk].live
    /\ SameLive(Blocks \ {b, call[t].ptr.blk})
    /\ owned' = owned /\ fault' = fault

\* A call gives the block of its pointer back to libc, or fails to.
Drops(t) ==
  /\ call[t].ptr # NULL /\ call'[t].ptr = NULL /\ call'[t].res = call[t].res
  /\ owned' = owned
  /\ \/ /\ ~heap'[call[t].ptr.blk].live
        /\ SameLive(Blocks \ {call[t].ptr.blk}) /\ fault' = fault
     \/ SameLive(Blocks) /\ fault'

\* A call returns what it has to the client.
Gives(t) ==
  /\ owned' = owned \cup InCall(t)
  /\ call'[t].ptr = NULL /\ call'[t].res = NULL
  /\ SameLive(Blocks) /\ fault' = fault

Kind(t) == Stays(t) \/ Takes(t) \/ Gets(t) \/ Moves(t) \/ Drops(t) \/ Gives(t)

\* The blocks of the pointers inside a call.
LEMMA CallHands ==
  ASSUME TypeOK, NEW t \in Threads
  PROVE  /\ call[t].ptr \in Pointer \cup {NULL} /\ call[t].res \in Pointer \cup {NULL}
         /\ call[t].ptr # NULL => call[t].ptr.blk \in Blocks
         /\ call[t].res # NULL => call[t].res.blk \in Blocks
  BY CallFields, PointerTypes DEF TypeOK

\* Every kind of step keeps the blocks in hands apart.
LEMMA ExclusiveKind ==
  ASSUME TypeOK, TypeOK', Exclusive, NEW t \in Threads, Only(t), Kind(t)
  PROVE  Exclusive'
<1>1. /\ \A p \in owned : p.blk \in Blocks
      /\ \A u \in Threads : \A p \in InCall(u) : p.blk \in Blocks
  BY CallHands, PointerTypes DEF TypeOK, InCall
<1>2. \A u \in Threads \ {t} : InCall(u)' = InCall(u)
  BY DEF Only, InCall
<1>3. NULL \notin owned
  BY PointerTypes DEF TypeOK
<1>4. CASE Stays(t)
  <2>1. InCall(t)' = InCall(t)
    BY <1>4 DEF Stays, SameCall, InCall
  <2> QED BY <1>1, <1>2, <1>4, <2>1 DEF Exclusive, Stays, SameCall, SameLive, Only
<1>5. CASE Takes(t)
  <2>1. InCall(t)' = {call'[t].ptr} \ {NULL} /\ InCall(t) = {}
    BY <1>5 DEF Takes, InCall
  <2> QED BY <1>1, <1>2, <1>3, <1>5, <2>1 DEF Exclusive, Takes, SameLive, Only
<1>6. CASE Gets(t)
  <2>1. InCall(t)' = InCall(t) \cup {call'[t].res}
    BY <1>6 DEF Gets, InCall
  <2> QED BY <1>1, <1>2, <1>6, <2>1 DEF Exclusive, Gets, SameLive, Only, InCall
<1>7. CASE Moves(t)
  <2>1. InCall(t)' = {call'[t].res} /\ InCall(t) = {call[t].ptr}
    BY <1>7 DEF Moves, InCall
  <2> QED BY <1>1, <1>2, <1>7, <2>1 DEF Exclusive, Moves, SameLive, Only
<1>8. CASE Drops(t)
  <2>1. InCall(t)' = {call[t].res} \ {NULL} /\ call[t].ptr \in InCall(t)
    BY <1>8 DEF Drops, InCall
  <2> QED BY <1>1, <1>2, <1>8, <2>1 DEF Exclusive, Drops, SameLive, Only, InCall
<1>9. CASE Gives(t)
  <2>1. InCall(t)' = {}
    BY <1>9 DEF Gives, InCall
  <2> QED BY <1>1, <1>2, <1>9, <2>1 DEF Exclusive, Gives, SameLive, Only, InCall
<1> QED BY <1>4, <1>5, <1>6, <1>7, <1>8, <1>9 DEF Kind

Held(b) == \/ \E p \in owned : p.blk = b
           \/ \E t \in Threads : \E p \in InCall(t) : p.blk = b

\* Every kind of step keeps each block in somebody's hands.
LEMMA NoLeakKind ==
  ASSUME TypeOK, TypeOK', NoLeak, NEW t \in Threads, Only(t), Kind(t)
  PROVE  NoLeak'
<1> SUFFICES ASSUME NEW b \in Blocks, heap'[b].live, ~fault'
             PROVE  Held(b)'
  BY DEF NoLeak, Held
<1>0. heap[b].live /\ ~fault => Held(b)
  BY DEF NoLeak, Held
<1>1. \A u \in Threads \ {t} : InCall(u)' = InCall(u)
  BY DEF Only, InCall
<1>4. CASE Stays(t)
  <2>1. InCall(t)' = InCall(t)
    BY <1>4 DEF Stays, SameCall, InCall
  <2> QED BY <1>0, <1>1, <1>4, <2>1 DEF Held, Stays, SameLive
<1>5. CASE Takes(t)
  <2>1. InCall(t)' = {call'[t].ptr} \ {NULL} /\ InCall(t) = {}
    BY <1>5 DEF Takes, InCall
  <2>2. NULL \notin owned
    BY PointerTypes DEF TypeOK
  <2> QED BY <1>0, <1>1, <1>5, <2>1, <2>2 DEF Held, Takes, SameLive
<1>6. CASE Gets(t)
  <2>1. InCall(t)' = InCall(t) \cup {call'[t].res}
    BY <1>6 DEF Gets, InCall
  <2> QED BY <1>0, <1>1, <1>6, <2>1 DEF Held, Gets, SameLive
<1>7. CASE Moves(t)
  <2>1. InCall(t)' = {call'[t].res} /\ InCall(t) = {call[t].ptr}
    BY <1>7 DEF Moves, InCall
  <2> QED BY <1>0, <1>1, <1>7, <2>1 DEF Held, Moves, SameLive
<1>8. CASE Drops(t)
  <2>1. InCall(t)' = {call[t].res} \ {NULL} /\ InCall(t) = {call[t].ptr, call[t].res} \ {NULL}
    BY <1>8 DEF Drops, InCall
  <2> QED BY <1>0, <1>1, <1>8, <2>1 DEF Held, Drops, SameLive
<1>9. CASE Gives(t)
  <2>1. InCall(t)' = {}
    BY <1>9 DEF Gives, InCall
  <2> QED BY <1>0, <1>1, <1>9, <2>1 DEF Held, Gives, SameLive
<1> QED BY <1>4, <1>5, <1>6, <1>7, <1>8, <1>9 DEF Kind

(***************************************************************************)
(* Every step is of one of the kinds.                                      *)
(***************************************************************************)
\* What heap, pc and call of a step look like when nothing changes hands.
LEMMA QuietStep ==
  ASSUME TypeOK, NEW t \in Threads, UNCHANGED <<heap, owned>>, fault => fault', SameCall(t)
  PROVE  Kind(t)
  BY DEF Kind, Stays, SameLive

\* A call that fails takes nothing and changes nothing.
LEMMA FailedStep ==
  ASSUME TypeOK, NEW t \in Threads, Result(t, call[t], NULL), UNCHANGED <<heap, owned, fault>>,
         call[t].res = NULL
  PROVE  Kind(t)
<1>1. call[t] \in Call
  BY DEF TypeOK
<1>2. call'[t] = [call[t] EXCEPT !.res = NULL]
  BY DEF Result, Set, TypeOK
<1>3. SameCall(t)
  BY <1>1, <1>2, CallSelect DEF SameCall
<1> QED BY <1>3, QuietStep

\* A block that libc hands out becomes the result of the call.
LEMMA NewStep ==
  ASSUME TypeOK, NEW t \in Threads, call[t].res = NULL, NEW b \in Available,
         NEW k \in Block, k.live, heap' = [heap EXCEPT ![b] = k],
         call'[t].ptr = call[t].ptr, call'[t].res # NULL, call'[t].res.blk = b,
         UNCHANGED <<owned, fault>>
  PROVE  Kind(t)
<1>1. b \in Blocks /\ ~heap[b].live
  BY DEF Available
<1> QED BY <1>1 DEF Kind, Gets, SameLive, TypeOK

\* The fields of the pointers and blocks that the actions make.
LEMMA NewTypes ==
  /\ \A c \in Nat, h \in Header : NewBlock(c, h).live
  /\ \A c, n \in Nat, h \in Header :
       [NewBlock(c, h) EXCEPT !.data = n].live /\ [NewBlock(c, h) EXCEPT !.data = n] \in Block
  /\ ~FreeBlock.live
  /\ \A k \in Block, n \in Nat : /\ [k EXCEPT !.data = n].live = k.live
                                /\ [k EXCEPT !.hdr.req = n].live = k.live
  /\ \A b \in Blocks, o, n \in Nat : Ptr(b, o, n).blk = b /\ Ptr(b, o, n) # NULL
<1>1. \A b \in Blocks, o, n \in Nat : Ptr(b, o, n).blk = b /\ Ptr(b, o, n) # NULL
  BY PointerTypes DEF Ptr
<1> QED BY <1>1 DEF NewBlock, FreeBlock, Block

\* The calls and the return of a client.
LEMMA ClientKind ==
  ASSUME TypeOK, CallShape, NEW t \in Threads, Client(t)
  PROVE  Kind(t)
<1>0. Shape(t)
  BY DEF CallShape
<1>1. CASE ~Return(t)
  <2>1. PICK op \in AllOps, l \in Entries, c \in Call :
               c.res = NULL /\ c.ptr \in owned \cup {NULL} /\ Begin(t, op, l, c)
    BY <1>1, ClientCalls DEF CallsEntry, Asks
  <2>2. call'[t] = [c EXCEPT !.op = op]
    BY <2>1 DEF Begin, Set, TypeOK
  <2>3. call'[t].ptr = c.ptr /\ call'[t].res = NULL
    BY <2>1, <2>2, CallSelect
  <2>4. call[t].ptr = NULL /\ call[t].res = NULL
    BY <1>0, <2>1 DEF Begin, Running, Shape
  <2> QED BY <2>1, <2>3, <2>4 DEF Begin, Kind, Takes, SameLive
<1>2. CASE Return(t)
  <2>1. call'[t].ptr = NULL /\ call'[t].res = NULL
    BY <1>2 DEF Return, Set, TypeOK, NoCall
  <2>2. SameLive(Blocks)
    <3>1. CASE call[t].res = NULL
      BY <1>2, <3>1 DEF Return, SameLive
    <3>2. CASE call[t].res # NULL
      <4>1. call[t].res.len \in Nat
        BY <3>2, CallHands, PointerTypes
      <4>2. heap' = [heap EXCEPT ![call[t].res.blk] =
                        [heap[call[t].res.blk] EXCEPT !.data = call[t].res.len]]
        BY <1>2, <3>2 DEF Return
      <4> QED BY <4>1, <4>2, NewTypes DEF SameLive, TypeOK
    <3> QED BY <3>1, <3>2
  <2>3. owned' = owned \cup InCall(t)
    BY <1>0, <1>2 DEF Return, Running, Shape, InCall
  <2> QED BY <1>2, <2>1, <2>2, <2>3 DEF Return, Kind, Gives
<1> QED BY <1>1, <1>2

\* libc's realloc frees, keeps or moves.
LEMMA LibcReallocKind ==
  ASSUME TypeOK, NEW t \in Threads, call[t].ptr # NULL, call[t].res = NULL, LibcRealloc(t),
         UNCHANGED owned
  PROVE  Kind(t)
<1> DEFINE c == call[t]
           p == c.ptr
           moved(b) == [NewBlock(c.size, NoHeader) EXCEPT
                          !.data = Smaller(heap[p.blk].data, c.size)]
<1>1. c \in Call /\ p \in Pointer /\ p.blk \in Blocks /\ c.size \in Nat /\ c.len \in Nat
  BY CallFields, PointerTypes DEF TypeOK
<1>2. \A b : moved(b) \in Block /\ moved(b).live
  BY <1>1, BlockTypes, NewTypes, SizeTypes DEF TypeOK
<1>3. ~FreeBlock.live
  BY NewTypes
<1>4. CASE ~ValidRaw(p.blk, p.off) /\ fault' = TRUE /\ UNCHANGED <<heap, pc, call>>
  BY <1>4, QuietStep DEF SameCall
<1>5. CASE /\ heap' = [heap EXCEPT ![p.blk] = FreeBlock]
           /\ Result(t, [c EXCEPT !.ptr = NULL], NULL) /\ UNCHANGED fault
  <2>1. call'[t] = [[c EXCEPT !.ptr = NULL] EXCEPT !.res = NULL]
    BY <1>5 DEF Result, Set, TypeOK
  <2>2. call'[t].ptr = NULL /\ call'[t].res = NULL
    BY <1>1, <2>1, CallSelect
  <2> QED BY <1>1, <1>3, <1>5, <2>2 DEF Kind, Drops, SameLive, TypeOK
<1>6. CASE Result(t, c, NULL) /\ UNCHANGED <<heap, fault>>
  BY <1>6, FailedStep
<1>7. ASSUME NEW b \in Available \cup {p.blk},
             heap' = [heap EXCEPT ![p.blk] = FreeBlock, ![b] = moved(b)],
             Result(t, [c EXCEPT !.ptr = NULL], Ptr(b, 0, c.len)), UNCHANGED fault
      PROVE  Kind(t)
  <2>1. b \in Blocks /\ (b = p.blk \/ ~heap[b].live)
    BY <1>1 DEF Available
  <2>2. call'[t] = [[c EXCEPT !.ptr = NULL] EXCEPT !.res = Ptr(b, 0, c.len)]
    BY <1>7 DEF Result, Set, TypeOK
  <2>3. Ptr(b, 0, c.len).blk = b /\ Ptr(b, 0, c.len) # NULL
    BY <1>1, <2>1, NewTypes
  <2>4. call'[t].ptr = NULL /\ call'[t].res # NULL /\ call'[t].res.blk = b
    BY <1>1, <2>2, <2>3, CallSelect
  <2>5. heap'[b] = moved(b) /\ (b # p.blk => heap'[p.blk] = FreeBlock)
        /\ \A d \in Blocks \ {b, p.blk} : heap'[d] = heap[d]
    BY <1>1, <1>7, <2>1 DEF TypeOK
  <2>6. heap'[b].live /\ (b # p.blk => ~heap'[p.blk].live) /\ SameLive(Blocks \ {b, p.blk})
    BY <1>2, <1>3, <2>5 DEF SameLive
  <2> HIDE DEF moved, c, p
  <2> QED BY <1>7, <2>1, <2>4, <2>6 DEF Kind, Moves, c, p
<1> QED BY <1>4, <1>5, <1>6, <1>7 DEF LibcRealloc

\* An aligned allocation gets a block or fails.
LEMMA AlignedBlockKind ==
  ASSUME TypeOK, NEW t \in Threads, NEW n \in Nat, AlignedBlock(t, n), call[t].res = NULL,
         UNCHANGED <<owned, fault>>
  PROVE  Kind(t)
<1> DEFINE c == call[t]
<1>1. c \in Call /\ c.align \in Aligns \cup {0} /\ c.len \in Nat
  BY CallFields DEF TypeOK
<1>2. CASE Result(t, c, NULL) /\ UNCHANGED heap
  BY <1>2, FailedStep
<1>3. ASSUME NEW b \in Available,
        heap' = [heap EXCEPT ![b] =
                   NewBlock(AlignedSize(n, c.align), NewHeader(AlignedOffset(b, c.align), n))],
        Result(t, c, Ptr(b, AlignedOffset(b, c.align), c.len))
      PROVE Kind(t)
  <2> DEFINE k == NewBlock(AlignedSize(n, c.align), NewHeader(AlignedOffset(b, c.align), n))
             r == Ptr(b, AlignedOffset(b, c.align), c.len)
  <2>0. \A a \in Aligns \cup {0} : a \in Nat
    BY ConstantTypes
  <2>1. b \in Blocks /\ AlignedOffset(b, c.align) \in Nat /\ AlignedSize(n, c.align) \in Nat
    BY <1>1, <2>0, AlignedOffsetType, SizeTypes DEF Available
  <2>2. k \in Block /\ k.live
    BY <2>1, BlockTypes, NewTypes
  <2>3. r # NULL /\ r.blk = b
    BY <1>1, <2>1, NewTypes
  <2>4. call'[t] = [c EXCEPT !.res = r]
    BY <1>3 DEF Result, Set, TypeOK
  <2>5. call'[t].ptr = call[t].ptr /\ call'[t].res = r
    BY <1>1, <2>4, CallSelect
  <2> HIDE DEF k, r
  <2> QED BY <1>3, <2>2, <2>3, <2>5, NewStep DEF k
<1> QED BY <1>2, <1>3 DEF AlignedBlock

\* The guard of the entry points and its fallbacks to libc.
LEMMA GuardKind ==
  ASSUME TypeOK, CallShape, NEW t \in Threads, Guard(t)
  PROVE  Kind(t)
<1> DEFINE c == call[t]
<1>0. Shape(t) /\ c \in Call /\ c.size \in Nat /\ c.len \in Nat
  BY CallFields DEF CallShape, TypeOK
<1>1. CASE Enter(t)
  BY <1>1, QuietStep DEF Enter, SameCall
<1>2. CASE EnterInitializing(t)
  BY <1>2, QuietStep DEF EnterInitializing, SameCall
<1>r. ASSUME Running(t, "system") PROVE c.res = NULL
  BY <1>0, <1>r DEF Shape, Running
<1>3. CASE SystemMalloc(t)
  <2>1. CASE Result(t, c, NULL) /\ UNCHANGED heap
    BY <1>3, <1>r, <2>1, FailedStep DEF SystemMalloc
  <2>2. ASSUME NEW b \in Available,
          heap' = [heap EXCEPT ![b] =
                     [NewBlock(c.size, NoHeader) EXCEPT !.data = Cleared(c, c.size)]],
          Result(t, c, Ptr(b, 0, c.len))
        PROVE Kind(t)
    <3> DEFINE k == [NewBlock(c.size, NoHeader) EXCEPT !.data = Cleared(c, c.size)]
               r == Ptr(b, 0, c.len)
    <3>1. b \in Blocks /\ Cleared(c, c.size) \in Nat
      BY <1>0 DEF Available, Cleared
    <3>2. k \in Block /\ k.live
      BY <1>0, <3>1, BlockTypes, NewTypes
    <3>3. r # NULL /\ r.blk = b
      <4>1. b \in Blocks /\ c.len \in Nat
        BY <1>0, <3>1
      <4>2. \A m \in Nat : Ptr(b, 0, m) # NULL /\ Ptr(b, 0, m).blk = b
        BY <4>1, NewTypes
      <4> QED BY <4>1, <4>2
    <3>4. call'[t] = [c EXCEPT !.res = r]
      BY <2>2 DEF Result, Set, TypeOK
    <3>5. call'[t].ptr = call[t].ptr /\ call'[t].res = r
      BY <1>0, <3>4, CallSelect
    <3> HIDE DEF k, r
    <3> QED BY <1>3, <1>r, <2>2, <3>2, <3>3, <3>5, NewStep DEF k, SystemMalloc
  <2> QED BY <1>3, <2>1, <2>2 DEF SystemMalloc
<1>4. CASE SystemAligned(t)
  BY <1>4, <1>0, <1>r, AlignedBlockKind DEF SystemAligned
<1>5. CASE SystemRealloc(t)
  BY <1>5, <1>r, LibcReallocKind DEF SystemRealloc
<1> QED BY <1>1, <1>2, <1>3, <1>4, <1>5 DEF Guard

\* allocator_init and allocator_shutdown touch no block.
LEMMA LifecycleKind ==
  ASSUME TypeOK, NEW t \in Threads, Start(t) \/ Stop(t)
  PROVE  Kind(t)
<1>1. UNCHANGED <<heap, owned, call, fault>>
  BY DEF Start, Stop, flags, totals, InitEntry, InitCheck, InitSet, InitClear, InitFlag,
         InitSubsystems, InitUndo, InitUndoFlag, InitTotals, InitDone, ShutdownSet,
         ShutdownCheck, ShutdownTeardown, ShutdownTotals, ShutdownFlag, ShutdownClear,
         ShutdownDone
<1> QED BY <1>1, QuietStep DEF SameCall

\* malloc gets a block or fails.
LEMMA MallocKind ==
  ASSUME TypeOK, CallShape, NEW t \in Threads, Malloc(t)
  PROVE  Kind(t)
<1> DEFINE n == AtLeastOne(call[t].size)
           k == NewBlock(TotalSize(n), NewHeader(HeaderSize, n))
<1>1. Shape(t) /\ call[t] \in Call /\ call[t].len \in Nat /\ n \in Nat
  BY CallFields, SizeTypes DEF CallShape, TypeOK
<1>2. call[t].res = NULL
  BY <1>1 DEF Malloc, Running, Shape
<1>3. CASE Result(t, call[t], NULL) /\ UNCHANGED heap
  BY <1>2, <1>3, FailedStep DEF Malloc
<1>4. CASE HeaderedBlock(t, n)
  <2>1. PICK b \in Available :
          /\ heap' = [heap EXCEPT ![b] = k]
          /\ Set(t, [call[t] EXCEPT !.size = n, !.res = Ptr(b, HeaderSize, call[t].len)])
    BY <1>4 DEF HeaderedBlock
  <2>2. k \in Block /\ k.live
    BY <1>1, BlockTypes, NewTypes, SizeTypes, ConstantTypes
  <2>3. b \in Blocks /\ HeaderSize \in Nat /\ call[t].len \in Nat
    BY <1>1, ConstantTypes DEF Available
  <2>4. Ptr(b, HeaderSize, call[t].len) # NULL /\ Ptr(b, HeaderSize, call[t].len).blk = b
    BY <2>3, NewTypes
  <2>5. call'[t] = [call[t] EXCEPT !.size = n, !.res = Ptr(b, HeaderSize, call[t].len)]
    BY <2>1 DEF Set, TypeOK
  <2>6. call'[t].ptr = call[t].ptr /\ call'[t].res = Ptr(b, HeaderSize, call[t].len)
    BY <1>1, <2>5, CallSelect
  <2>7. UNCHANGED <<owned, fault>>
    BY DEF Malloc
  <2> HIDE DEF k, n
  <2> QED BY <1>2, <2>1, <2>2, <2>4, <2>6, <2>7, NewStep
<1> QED BY <1>3, <1>4 DEF Malloc

\* A growing realloc gets its new block before it gives up the old one.
LEMMA ReallocGrowKind ==
  ASSUME TypeOK, CallShape, NEW t \in Threads, ReallocGrow(t)
  PROVE  Kind(t)
<1> DEFINE c == call[t]
           p == c.ptr
           k == [NewBlock(TotalSize(c.size), NewHeader(HeaderSize, c.size)) EXCEPT
                   !.data = Copied(p)]
<1>1. c \in Call /\ c.size \in Nat /\ c.len \in Nat /\ p \in Pointer /\ Shape(t)
  BY CallFields DEF ReallocGrow, CallShape, TypeOK
<1>2. call[t].res = NULL
  BY <1>1 DEF ReallocGrow, Running, Shape
<1>3. heap[p.blk] \in Block
  BY <1>1, PointerTypes DEF TypeOK
<1>4. heap[p.blk].data \in Nat /\ HeaderOf(p).req \in Nat
  BY <1>3, BlockTypes DEF HeaderOf
<1>5. k \in Block /\ k.live
  BY <1>1, <1>4, BlockTypes, NewTypes, SizeTypes, ConstantTypes DEF Copied
<1>6. UNCHANGED <<owned, fault>>
  BY DEF ReallocGrow
<1>7. CASE Result(t, c, NULL) /\ UNCHANGED heap
  BY <1>2, <1>6, <1>7, FailedStep
<1>8. ASSUME NEW b \in Available, heap' = [heap EXCEPT ![b] = k],
        Set(t, [c EXCEPT !.old = HeaderOf(p).req, !.res = Ptr(b, HeaderSize, c.len)])
      PROVE Kind(t)
  <2>1. b \in Blocks /\ HeaderSize \in Nat /\ c.len \in Nat
    BY <1>1, ConstantTypes DEF Available
  <2>2. Ptr(b, HeaderSize, c.len) # NULL /\ Ptr(b, HeaderSize, c.len).blk = b
    BY <2>1, NewTypes
  <2>3. call'[t] = [c EXCEPT !.old = HeaderOf(p).req, !.res = Ptr(b, HeaderSize, c.len)]
    BY <1>8 DEF Set, TypeOK
  <2>4. call'[t].ptr = call[t].ptr /\ call'[t].res = Ptr(b, HeaderSize, c.len)
    BY <1>1, <2>3, CallSelect
  <2> HIDE DEF k
  <2> QED BY <1>2, <1>5, <1>6, <1>8, <2>2, <2>4, NewStep
<1> QED BY <1>7, <1>8 DEF ReallocGrow

\* A shrinking realloc passes its pointer on.
LEMMA ReallocShrinkKind ==
  ASSUME TypeOK, CallShape, NEW t \in Threads, ReallocShrink(t)
  PROVE  Kind(t)
<1> DEFINE c == call[t]
           p == c.ptr
           r == Ptr(p.blk, p.off, c.len)
<1>1. c \in Call /\ c.size \in Nat /\ c.len \in Nat /\ p \in Pointer /\ p # NULL /\ Shape(t)
  BY CallFields DEF ReallocShrink, CallShape, TypeOK
<1>2. c.res = NULL
  BY <1>1 DEF ReallocShrink, Running, Shape
<1>3. p.blk \in Blocks /\ p.off \in Nat /\ heap[p.blk] \in Block
  BY <1>1, PointerTypes DEF TypeOK
<1>4. r # NULL /\ r.blk = p.blk
  BY <1>1, <1>3, NewTypes
<1>5. call'[t] = [[c EXCEPT !.ptr = NULL] EXCEPT !.res = r]
  BY DEF ReallocShrink, Result, Set, TypeOK
<1>6. call'[t].ptr = NULL /\ call'[t].res = r
  BY <1>1, <1>5, CallSelect
<1>7. heap' = [heap EXCEPT ![p.blk] = [heap[p.blk] EXCEPT !.hdr.req = c.size]]
  BY DEF ReallocShrink
<1>8. SameLive(Blocks)
  BY <1>1, <1>3, <1>7, NewTypes DEF SameLive, TypeOK
<1> QED BY <1>1, <1>2, <1>3, <1>4, <1>6, <1>8 DEF ReallocShrink, Kind, Moves, SameLive

\* The bodies of the entry points.
LEMMA BodyKind ==
  ASSUME TypeOK, CallShape, NEW t \in Threads, Body(t)
  PROVE  Kind(t)
<1> DEFINE c == call[t]
           p == c.ptr
<1>0. /\ c \in Call /\ c.size \in Nat /\ Shape(t)
      /\ Running(t, "body") => c.res = NULL
  BY CallFields DEF CallShape, Shape, Running, TypeOK
<1>1. CASE Malloc(t)
  BY <1>1, MallocKind
<1>2. CASE MallocCount(t)
  <2>1. heap' = [heap EXCEPT ![c.res.blk] = [heap[c.res.blk] EXCEPT !.data = Cleared(c, c.size)]]
    BY <1>2 DEF MallocCount
  <2>2. Cleared(c, c.size) \in Nat
    BY <1>0 DEF Cleared
  <2>3. SameLive(Blocks)
    BY <2>1, <2>2, NewTypes DEF SameLive, TypeOK
  <2> QED BY <1>2, <2>3 DEF MallocCount, Kind, Stays, SameCall
<1>3. CASE Calloc(t)
  <2>1. call'[t] = [c EXCEPT !.op = "calloc_malloc", !.size = AtLeastOne(c.size)]
    BY <1>3 DEF Calloc, Set, TypeOK
  <2>2. SameCall(t)
    BY <1>0, <2>1, CallSelect DEF SameCall
  <2> QED BY <1>3, <2>2, QuietStep DEF Calloc
<1>4. CASE Aligned(t)
  <2>1. AtLeastOne(c.size) \in Nat
    BY <1>0, SizeTypes
  <2> QED BY <1>4, <1>0, <2>1, AlignedBlockKind, FailedStep DEF Aligned
<1>5. CASE ReallocForward(t)
  <2>1. CASE Set(t, [c EXCEPT !.op = "malloc"])
    <3>1. call'[t] = [c EXCEPT !.op = "malloc"]
      BY <2>1 DEF Set, TypeOK
    <3>2. SameCall(t)
      BY <1>0, <3>1, CallSelect DEF SameCall
    <3> QED BY <1>5, <3>2, QuietStep DEF ReallocForward
  <2>2. CASE UNCHANGED call
    BY <1>5, <2>2, QuietStep DEF ReallocForward, SameCall
  <2> QED BY <1>5, <2>1, <2>2 DEF ReallocForward
<1>6. CASE ReallocForeign(t)
  BY <1>6, <1>0, LibcReallocKind DEF ReallocForeign
<1>7. CASE ReallocShrink(t)
  BY <1>7, ReallocShrinkKind
<1>8. CASE ReallocGrow(t)
  BY <1>8, ReallocGrowKind
<1>9. CASE ReallocFreed(t) \/ ReallocAllocated(t) \/ Free(t) \/ FreeInitializing(t)
           \/ FreeHeader(t)
  BY <1>9, QuietStep DEF ReallocFreed, ReallocAllocated, Free, FreeInitializing,
                         FreeHeader, SameCall
<1>f. ASSUME NEW o, p # NULL, LibcFree(p.blk, o), Set(t, [c EXCEPT !.ptr = NULL]),
             UNCHANGED owned
      PROVE  Kind(t)
  <2>1. call'[t] = [c EXCEPT !.ptr = NULL]
    BY <1>f DEF Set, TypeOK
  <2>2. call'[t].ptr = NULL /\ call'[t].res = c.res
    BY <1>0, <2>1, CallSelect
  <2>3. p.blk \in Blocks /\ ~FreeBlock.live
    BY <1>f, CallHands, NewTypes
  <2>4. CASE heap' = [heap EXCEPT ![p.blk] = FreeBlock] /\ UNCHANGED fault
    BY <1>f, <2>2, <2>3, <2>4 DEF Kind, Drops, SameLive, TypeOK
  <2>5. CASE fault' /\ UNCHANGED heap
    BY <1>f, <2>2, <2>5 DEF Kind, Drops, SameLive
  <2> QED BY <1>f, <2>4, <2>5 DEF LibcFree
<1>10. CASE FreeBlockOf(t)
  BY <1>10, <1>0, <1>f DEF FreeBlockOf, Running, Shape
<1>11. CASE FreeRaw(t)
  BY <1>11, <1>0, <1>f DEF FreeRaw, Running, Shape
<1> QED BY <1>1, <1>2, <1>3, <1>4, <1>5, <1>6, <1>7, <1>8, <1>9, <1>10, <1>11 DEF Body

\* Exclusive and NoLeak in every reachable state of every instance: calls that
\* race with each other, with initialization and with shutdown included.
THEOREM HandsCorrect == Spec => [](Exclusive /\ NoLeak)
<1> DEFINE Inv == TypeOK /\ CallShape
<1>1. Init => Exclusive /\ NoLeak
  BY DEF Init, Exclusive, NoLeak, InCall, NoCall, FreeBlock
<1>2. Inv /\ Inv' /\ Exclusive /\ NoLeak /\ [Next]_vars => Exclusive' /\ NoLeak'
  <2> SUFFICES ASSUME TypeOK, CallShape, TypeOK', Exclusive, NoLeak, [Next]_vars
               PROVE  Exclusive' /\ NoLeak'
    OBVIOUS
  <2>1. CASE UNCHANGED vars
    BY <2>1 DEF vars, Exclusive, NoLeak, InCall
  <2>2. ASSUME NEW t \in Threads, Step(t) PROVE Exclusive' /\ NoLeak'
    <3>1. Kind(t)
      BY <2>2, ClientKind, GuardKind, BodyKind, LifecycleKind DEF Step
    <3> QED BY <2>2, <3>1, OnlyOne, ExclusiveKind, NoLeakKind
  <2> QED BY <2>1, <2>2 DEF Next, Step
<1> QED BY <1>1, <1>2, TypeCorrect, PTL DEF Spec

\* libc's blocks that are in use are reachable from a pointer somebody holds, in
\* every reachable state: no path of free, realloc or a failed call loses one.
THEOREM NothingLeaks == Spec => []NoLeak
<1>1. Exclusive /\ NoLeak => NoLeak
  OBVIOUS
<1> QED BY HandsCorrect, <1>1, PTL

-----------------------------------------------------------------------------

(***************************************************************************)
(* Orderly clients.  Main starts and stops the allocator with every other  *)
(* thread idle, and from the first flag it changes to the last nobody      *)
(* holds a pointer.                                                        *)
(***************************************************************************)
Empty == owned = {} /\ \A t \in Threads : InCall(t) = {}
Up    == initialized /\ ~initializing /\ subsystems
Down  == ~initialized /\ ~initializing /\ ~subsystems

\* The steps of Main between its first write of a flag and its last.
Changing == LifecycleSteps \ {"init", "init_check", "init_set", "sd_set"}

FlagsFollow ==
  /\ pc[Main] \notin Changing => Up \/ Down
  /\ pc[Main] \in {"enter_initializing", "init_check", "init_set"} => Down
  /\ pc[Main] = "body" => Up
  /\ pc[Main] \in {"init_clear", "init_flag"} => ~initialized /\ initializing /\ ~subsystems
  /\ pc[Main] \in {"init_subsystems", "init_undo"} => initialized /\ initializing /\ ~subsystems
  /\ pc[Main] = "init_undo_flag" => initialized /\ ~initializing /\ ~subsystems
  /\ pc[Main] \in {"init_totals", "init_done"} => initialized /\ initializing /\ subsystems
  /\ pc[Main] = "sd_check" => initializing /\ initialized = subsystems
  /\ pc[Main] = "sd_teardown" => initialized /\ initializing /\ subsystems
  /\ pc[Main] \in {"sd_totals", "sd_flag"} => initialized /\ initializing /\ ~subsystems
  /\ pc[Main] \in {"sd_clear", "sd_done"} => ~initialized /\ initializing /\ ~subsystems

MainAlone   == ~Up \/ pc[Main] \in LifecycleSteps => OthersIdle(Main)
NothingHeld == ~Up \/ pc[Main] \in LifecycleSteps \ {"init"} => Empty
OnlyMain    == \A t \in Threads \ {Main} :
                 pc[t] \notin LifecycleSteps \cup {"enter_initializing"}
NoFallback  == \A t \in Threads : pc[t] \notin {"system", "free_raw"}

LifeInv == FlagsFollow /\ MainAlone /\ NothingHeld /\ OnlyMain /\ NoFallback

\* Every pointer in hands has a header that leads back to libc's address.
Headed(p) == HasHeader(p) /\ HeaderOf(p).raw = 0
HeadersKept == /\ \A p \in owned : Headed(p)
               /\ \A t \in Threads : \A p \in InCall(t) : Headed(p)

-----------------------------------------------------------------------------
\* A step of a thread writes only blocks that nobody holds and its own call's.
Local(t) == \A b \in Blocks :
  heap[b].live /\ (\A p \in InCall(t) : p.blk # b) => heap'[b] = heap[b]

\* Every step of a thread writes only blocks it may write.
LEMMA LocalStep ==
  ASSUME TypeOK, CallShape, NEW t \in Threads, Step(t)
  PROVE  Local(t)
<1> DEFINE c == call[t]
<1>0. c.ptr # NULL => c.ptr \in InCall(t)
  BY DEF InCall
<1>1. c.res # NULL => c.res \in InCall(t)
  BY DEF InCall
<1>2. Shape(t) /\ heap \in [Blocks -> Block]
  BY DEF CallShape, TypeOK
<1>q. ASSUME UNCHANGED heap PROVE Local(t)
  BY <1>q DEF Local
<1>n. ASSUME NEW b \in Available, NEW k, heap' = [heap EXCEPT ![b] = k] PROVE Local(t)
  BY <1>n, <1>2 DEF Local, Available
<1>o. ASSUME NEW p \in InCall(t), NEW k, heap' = [heap EXCEPT ![p.blk] = k] PROVE Local(t)
  BY <1>o, <1>2 DEF Local
<1>r. ASSUME LibcRealloc(t), c.ptr # NULL PROVE Local(t)
  <2>1. ASSUME NEW b \in Available \cup {c.ptr.blk}, NEW k,
               heap' = [heap EXCEPT ![c.ptr.blk] = FreeBlock, ![b] = k]
        PROVE  Local(t)
    BY <1>0, <1>2, <1>r, <2>1 DEF Local, Available
  <2> QED BY <1>0, <1>q, <1>o, <1>r, <2>1 DEF LibcRealloc
<1>a. ASSUME NEW n, AlignedBlock(t, n) PROVE Local(t)
  BY <1>a, <1>q, <1>n DEF AlignedBlock
<1>3. CASE Client(t)
  BY <1>3, <1>1, <1>q, <1>o DEF Client, Begin, CallInit, CallShutdown, CallMalloc, CallCalloc,
                                CallRealloc, CallAligned, CallFree, Return
<1>4. CASE Guard(t)
  BY <1>4, <1>q, <1>n, <1>r, <1>a DEF Guard, Enter, EnterInitializing, SystemMalloc,
                                      SystemAligned, SystemRealloc
<1>5. CASE Body(t)
  <2>1. CASE Malloc(t)
    BY <2>1, <1>q, <1>n DEF Malloc, HeaderedBlock
  <2>2. CASE MallocCount(t)
    BY <2>2, <1>1, <1>2, <1>o DEF MallocCount, Running, Shape
  <2>3. CASE Calloc(t) \/ Aligned(t) \/ ReallocForward(t) \/ ReallocForeign(t)
    BY <2>3, <1>q, <1>a, <1>r DEF Calloc, Aligned, ReallocForward, ReallocForeign
  <2>4. CASE ReallocShrink(t) \/ ReallocGrow(t)
    BY <2>4, <1>0, <1>q, <1>o, <1>n DEF ReallocShrink, ReallocGrow
  <2>5. CASE ReallocFreed(t) \/ ReallocAllocated(t) \/ Free(t) \/ FreeInitializing(t)
             \/ FreeHeader(t)
    BY <2>5, <1>q DEF ReallocFreed, ReallocAllocated, Free, FreeInitializing, FreeHeader
  <2>6. CASE FreeBlockOf(t) \/ FreeRaw(t)
    BY <2>6, <1>0, <1>2, <1>q, <1>o DEF FreeBlockOf, FreeRaw, LibcFree, Running, Shape
  <2> QED BY <1>5, <2>1, <2>2, <2>3, <2>4, <2>5, <2>6 DEF Body
<1>6. CASE Start(t) \/ Stop(t)
  BY <1>6, <1>q DEF Start, Stop, InitEntry, InitCheck, InitSet, InitClear, InitFlag,
         InitSubsystems, InitUndo, InitUndoFlag, InitTotals, InitDone, ShutdownSet,
         ShutdownCheck, ShutdownTeardown, ShutdownTotals, ShutdownFlag, ShutdownClear,
         ShutdownDone
<1> QED BY <1>3, <1>4, <1>5, <1>6 DEF Step

\* So the blocks of the clients and of the other calls stay as they are.
LEMMA OthersKept ==
  ASSUME TypeOK, Exclusive, NEW t \in Threads, Local(t)
  PROVE  /\ \A p \in owned : heap'[p.blk] = heap[p.blk]
         /\ \A u \in Threads \ {t} : \A p \in InCall(u) : heap'[p.blk] = heap[p.blk]
<1>1. \A p \in owned : p.blk \in Blocks
  BY PointerTypes DEF TypeOK
<1>2. \A u \in Threads : \A p \in InCall(u) : p.blk \in Blocks
  BY CallHands DEF InCall
<1>3. ASSUME NEW p \in owned PROVE heap'[p.blk] = heap[p.blk]
  BY <1>1 DEF Exclusive, Local
<1>4. ASSUME NEW u \in Threads \ {t}, NEW p \in InCall(u) PROVE heap'[p.blk] = heap[p.blk]
  BY <1>2 DEF Exclusive, Local
<1> QED BY <1>3, <1>4

\* Where a pointer can come from in a step: the client gets what the call had,
\* the call gets what the client passes, or the block is a new one.
LEMMA OwnedFrom ==
  ASSUME NEW t \in Threads, Kind(t)
  PROVE  owned' \subseteq owned \cup InCall(t)
  BY DEF Kind, Stays, Takes, Gets, Moves, Drops, Gives

(***************************************************************************)
(* Any clients.  NoWrap keeps the arithmetic of calloc, align_up and the   *)
(* two size computations below SIZE_MAX, for whatever a client can ask;    *)
(* Even lets a pointer from aligned_alloc pass through realloc.            *)
(***************************************************************************)
NoWrap == \A n \in Lens :
  /\ n < Word
  /\ AtLeastOne(n) + HeaderSize + 2 * HeaderAlign <= Word
  /\ \A a \in Aligns : AtLeastOne(n) + a + HeaderSize < Word

Even == /\ HeaderSize % HeaderAlign = 0
        /\ \A b \in Blocks : Base[b] % HeaderAlign = 0
        /\ \A a \in Aligns : a > 0 /\ a % HeaderAlign = 0

\* Request and header of a pointer lie inside its block.
Sound(p) ==
  /\ p.off + p.len <= heap[p.blk].cap
  /\ HasHeader(p) => /\ p.off >= HeaderSize
                     /\ HeaderOf(p).req \in {p.len, AtLeastOne(p.len)}
                     /\ p.off + HeaderOf(p).req <= heap[p.blk].cap

Filled(p) == heap[p.blk].data = p.len
OnGrid(p) == (Base[p.blk] + p.off) % HeaderAlign = 0

Asking(t) == pc[t] \in {"enter", "enter_initializing", "system", "body"} \cup LifecycleSteps

\* What a call knows of what it was asked for.
Asked(t) ==
  /\ call[t].len \in Lens
  /\ Asking(t) => call[t].size \in {call[t].len, AtLeastOne(call[t].len)}
  /\ Asking(t) /\ call[t].op = "realloc" => call[t].size = call[t].len
  /\ pc[t] = "malloc_count" => call[t].size >= call[t].len /\ call[t].op # "realloc"
  /\ call[t].res # NULL => call[t].res.len = call[t].len
  /\ call[t].op = "realloc" /\ call[t].ptr # NULL => call[t].had = call[t].ptr.len
  /\ call[t].op = "realloc" /\ call[t].ptr = NULL /\ call[t].res = NULL /\ Asking(t)
       => call[t].had = 0

\* What the block of a result holds before the client gets it.
Answered(t) ==
  call[t].res # NULL =>
    /\ call[t].op = "realloc"
         => heap[call[t].res.blk].data >= Smaller(call[t].had, call[t].len)
    /\ call[t].op \in {"calloc", "calloc_malloc"} /\ pc[t] # "malloc_count"
         => heap[call[t].res.blk].data >= call[t].len

\* A call: what it was passed is as the client left it, what it got is big enough.
InOrder(t) ==
  /\ Asked(t) /\ Answered(t)
  /\ call[t].ptr # NULL => Sound(call[t].ptr) /\ Filled(call[t].ptr)
  /\ call[t].res # NULL => Sound(call[t].res)

SpaceInv == /\ \A p \in owned : Sound(p) /\ Filled(p)
            /\ \A t \in Threads : InOrder(t)

\* The alignment that was asked for, where one was.
AsAligned(t) ==
  call[t].op = "aligned" =>
    /\ call[t].align \in Aligns
    /\ call[t].res # NULL =>
         (Base[call[t].res.blk] + call[t].res.off) % call[t].align = 0

GridInv == /\ \A p \in owned : OnGrid(p)
           /\ \A t \in Threads : \A p \in InCall(t) : OnGrid(p)
           /\ \A t \in Threads : AsAligned(t)

-----------------------------------------------------------------------------
(* Orderly clients: the flags and the steps of Main.                       *)

\* Init and shutdown belong to Main alone.
LEMMA LifecycleLife ==
  ASSUME TypeOK, LifeInv, NEW t \in Threads, Start(t) \/ Stop(t), Only(t)
  PROVE  LifeInv'
<1>1. pc[t] \in LifecycleSteps /\ UNCHANGED <<owned, call>>
  BY DEF Start, Stop, flags, totals, Running, LifecycleSteps, InitEntry, InitCheck, InitSet,
         InitClear, InitFlag, InitSubsystems, InitUndo, InitUndoFlag, InitTotals, InitDone,
         ShutdownSet, ShutdownCheck, ShutdownTeardown, ShutdownTotals, ShutdownFlag,
         ShutdownClear, ShutdownDone
<1>2. t = Main
  BY <1>1 DEF LifeInv, OnlyMain
<1>3. OthersIdle(Main)'
  BY <1>1, <1>2 DEF LifeInv, MainAlone, OthersIdle, Only
<1>4. Empty' = Empty
  BY <1>1 DEF Empty, InCall
<1>5. /\ FlagsFollow' /\ pc'[Main] \notin {"system", "free_raw"}
      /\ ~Up' \/ pc'[Main] \in LifecycleSteps \ {"init"}
           => ~Up \/ pc[Main] \in LifecycleSteps \ {"init"}
  <2> USE <1>2, ConstantsOK DEF LifeInv, FlagsFollow, Up, Down, Changing, LifecycleSteps,
          Goto, InitReturn, Running, TypeOK, flags, totals
  <2>1. CASE InitEntry(t)
    BY <2>1 DEF InitEntry
  <2>2. CASE InitCheck(t) \/ InitSet(t) \/ InitClear(t) \/ InitFlag(t)
    BY <2>2 DEF InitCheck, InitSet, InitClear, InitFlag
  <2>3. CASE InitSubsystems(t) \/ InitUndo(t) \/ InitUndoFlag(t)
    BY <2>3 DEF InitSubsystems, InitUndo, InitUndoFlag
  <2>4. CASE InitTotals(t) \/ InitDone(t)
    BY <2>4 DEF InitTotals, InitDone
  <2>5. CASE ShutdownSet(t) \/ ShutdownCheck(t) \/ ShutdownTeardown(t)
    BY <2>5 DEF ShutdownSet, ShutdownCheck, ShutdownTeardown
  <2>6. CASE ShutdownTotals(t) \/ ShutdownFlag(t) \/ ShutdownClear(t) \/ ShutdownDone(t)
    BY <2>6 DEF ShutdownTotals, ShutdownFlag, ShutdownClear, ShutdownDone
  <2> QED BY <2>1, <2>2, <2>3, <2>4, <2>5, <2>6 DEF Start, Stop
<1>6. NothingHeld'
  BY <1>4, <1>5 DEF LifeInv, NothingHeld
<1>7. OnlyMain' /\ NoFallback'
  BY <1>2, <1>5 DEF LifeInv, OnlyMain, NoFallback, Only
<1> QED BY <1>3, <1>5, <1>6, <1>7 DEF LifeInv, MainAlone

\* A step that leaves the flags alone, while the allocator is up and Main is
\* not about to change that.
LEMMA UpLife ==
  ASSUME LifeInv, NEW t \in Threads, Only(t), UNCHANGED flags, Up,
         pc[Main] \notin LifecycleSteps,
         pc'[t] \notin LifecycleSteps \cup {"enter_initializing", "system", "free_raw"}
  PROVE  LifeInv'
<1>1. pc'[Main] \notin LifecycleSteps \cup {"enter_initializing"} /\ Up'
  <2>1. CASE t = Main
    BY <2>1 DEF Up, flags
  <2>2. CASE t # Main
    BY <2>2, ConstantsOK DEF Up, Down, flags, Only, LifeInv, FlagsFollow
  <2> QED BY <2>1, <2>2
<1>2. FlagsFollow'
  BY <1>1 DEF FlagsFollow, LifecycleSteps
<1>3. OnlyMain' /\ NoFallback'
  BY DEF LifeInv, OnlyMain, NoFallback, Only
<1> QED BY <1>1, <1>2, <1>3 DEF LifeInv, MainAlone, NothingHeld

\* A step of Main that leaves the flags alone while nobody holds anything.
LEMMA DownLife ==
  ASSUME LifeInv, Only(Main), UNCHANGED flags, OthersIdle(Main), Empty',
         Up \/ Down,
         \/ pc'[Main] \in {"idle", "init", "sd_set", "enter", "free", "return"}
         \/ pc'[Main] = "enter_initializing" /\ Down
  PROVE  LifeInv'
<1>1. OthersIdle(Main)'
  BY DEF OthersIdle, Only
<1>2. FlagsFollow'
  BY DEF FlagsFollow, Up, Down, flags, Changing, LifecycleSteps
<1>3. OnlyMain' /\ NoFallback'
  BY ConstantsOK DEF LifeInv, OnlyMain, NoFallback, Only
<1> QED BY <1>1, <1>2, <1>3 DEF LifeInv, MainAlone, NothingHeld

\* A thread in the middle of a call finds the allocator up, or is Main before it
\* starts it.
Serving == Up /\ pc[Main] \notin LifecycleSteps

\* A call that runs while the allocator does not serve is the main thread's own.
LEMMA WhoRuns ==
  ASSUME LifeInv, NEW t \in Threads, pc[t] \notin LifecycleSteps \cup {"idle"}, ~Serving
  PROVE  t = Main /\ Down /\ Empty /\ OthersIdle(Main)
<1>1. OthersIdle(Main)
  BY DEF LifeInv, MainAlone, Serving
<1>2. t = Main
  BY <1>1 DEF OthersIdle
<1>3. Down /\ Empty
  BY <1>2 DEF Serving, LifeInv, FlagsFollow, NothingHeld, Changing, Up, Down
<1> QED BY <1>1, <1>2, <1>3

\* A call with nothing in hand.
LEMMA NothingInCall ==
  ASSUME NEW t \in Threads, Empty
  PROVE  call[t].ptr = NULL /\ call[t].res = NULL
  BY DEF Empty, InCall

\* The calls of orderly clients.
LEMMA ClientLife ==
  ASSUME Orderly, TypeOK, CallShape, LifeInv, NEW t \in Threads, Client(t), Only(t)
  PROVE  LifeInv'
<1>0. UNCHANGED flags /\ pc[t] \in {"idle", "return"}
  BY DEF Client, flags, Begin, Running, CallInit, CallShutdown, CallMalloc, CallCalloc,
         CallRealloc, CallAligned, CallFree, Return
<1>f. pc[t] \notin LifecycleSteps
  BY <1>0 DEF LifecycleSteps
<1>1. CASE Return(t)
  <2>1. pc'[t] = "idle"
    BY <1>1 DEF Return, Goto, TypeOK
  <2>2. CASE Serving
    BY <1>0, <2>1, <2>2, UpLife DEF Serving, LifecycleSteps
  <2>3. CASE ~Serving
    <3>1. t = Main /\ Down /\ Empty /\ OthersIdle(Main)
      BY <1>1, <1>f, <2>3, WhoRuns DEF Return, Running
    <3>2. owned' = {} /\ InCall(Main)' = {}
      BY <1>1, <3>1, NothingInCall DEF Empty, Return, Set, TypeOK, InCall, NoCall
    <3>3. Empty'
      BY <3>1, <3>2 DEF Empty, Only, InCall
    <3> QED BY <1>0, <2>1, <3>1, <3>3, DownLife
  <2> QED BY <2>2, <2>3
<1>2. CASE ~Return(t)
  <2>1. PICK op \in AllOps, l \in Entries, c \in Call :
          l = EntryOf(op) /\ Asks(op, c) /\ Begin(t, op, l, c)
    BY <1>2, ClientCalls DEF CallsEntry
  <2>2. /\ pc[t] = "idle" /\ pc'[t] = l /\ MayCall(t, op)
        /\ owned' = owned \ {c.ptr} /\ call'[t] = [c EXCEPT !.op = op]
    BY <2>1 DEF Begin, Goto, Set, Running, TypeOK
  <2>3. call'[t].ptr = c.ptr /\ call'[t].res = NULL
    BY <2>1, <2>2, CallSelect DEF Asks
  <2>4. InCall(t) = {}
    BY <2>2 DEF CallShape, Shape, InCall
  <2>5. \A u \in Threads \ {t} : InCall(u)' = InCall(u)
    BY DEF Only, InCall
  <2>6. CASE op \notin {"init", "shutdown"} /\ Ready
    <3>1. pc[Main] \notin LifecycleSteps /\ l \in {"enter", "free"}
      BY <2>1, <2>2, <2>6 DEF MayCall, EntryOf
    <3>2. Up
      BY <2>6, <3>1 DEF LifeInv, FlagsFollow, Up, Down, Ready, Changing
    <3> QED BY <1>0, <2>2, <3>1, <3>2, UpLife DEF LifecycleSteps
  <2>7. CASE op \in {"init", "shutdown"} \/ ~Ready
    <3>1. t = Main /\ OthersIdle(Main) /\ (op = "shutdown" => owned = {})
      BY <2>2, <2>7 DEF MayCall
    <3>2. pc[Main] \notin LifecycleSteps
      BY <1>f, <3>1
    <3>3. Up \/ Down
      BY <3>2 DEF LifeInv, FlagsFollow, Changing
    <3>4. CASE op = "init" /\ Up
      <4>1. pc'[Main] = "init" /\ Up'
        BY <1>0, <2>1, <2>2, <3>1, <3>4 DEF EntryOf, Up, flags
      <4>2. FlagsFollow'
        BY <4>1 DEF FlagsFollow, Changing
      <4>3. OthersIdle(Main)'
        BY <3>1 DEF OthersIdle, Only
      <4>4. OnlyMain' /\ NoFallback'
        BY <3>1, <4>1 DEF LifeInv, OnlyMain, NoFallback, Only
      <4> QED BY <4>1, <4>2, <4>3, <4>4 DEF LifeInv, MainAlone, NothingHeld
    <3>5. CASE ~(op = "init" /\ Up)
      <4>1. owned = {}
        BY <2>7, <3>1, <3>3, <3>5 DEF Up, Down, Ready, LifeInv, NothingHeld, Empty
      <4>2. \A u \in Threads : InCall(u) = {}
        <5>1. \A u \in Threads : pc[u] = "idle"
          BY <2>2, <3>1 DEF OthersIdle
        <5> QED BY <5>1 DEF CallShape, Shape, InCall
      <4>3. c.ptr = NULL
        BY <2>1, <4>1 DEF Asks
      <4>4. Empty'
        <5>1. owned' = {}
          BY <2>2, <4>1
        <5>2. InCall(t)' = {}
          BY <2>3, <4>3 DEF InCall
        <5>3. \A u \in Threads : InCall(u)' = {}
          BY <2>5, <4>2, <5>2
        <5> QED BY <5>1, <5>3 DEF Empty
      <4>5. l \in {"init", "sd_set", "enter", "free"}
        BY DEF Entries
      <4>6. Only(Main) /\ pc'[Main] \in {"idle", "init", "sd_set", "enter", "free", "return"}
        BY <2>2, <3>1, <4>5
      <4> QED BY <1>0, <3>1, <3>3, <4>4, <4>6, DownLife
    <3> QED BY <3>4, <3>5
  <2> QED BY <2>6, <2>7
<1> QED BY <1>1, <1>2

\* The guard of an entry point sends an orderly client to the body, or Main to
\* init.
LEMMA GuardLife ==
  ASSUME TypeOK, LifeInv, NEW t \in Threads, Guard(t), Only(t)
  PROVE  LifeInv'
<1>1. Enter(t) \/ EnterInitializing(t)
  BY DEF Guard, LifeInv, NoFallback, SystemMalloc, SystemAligned, SystemRealloc, Running
<1>2. UNCHANGED flags /\ UNCHANGED <<owned, call>> /\ pc[t] \in {"enter", "enter_initializing"}
  BY <1>1 DEF Enter, EnterInitializing, Running
<1>3. pc[t] \notin LifecycleSteps \cup {"idle"}
  BY <1>2 DEF LifecycleSteps
<1>4. CASE Serving
  <2>1. Enter(t)
    BY <1>1, <1>4 DEF EnterInitializing, Running, Serving, LifeInv, FlagsFollow, OnlyMain, Up, Down
  <2>2. pc'[t] = "body"
    BY <1>4, <2>1 DEF Enter, Goto, TypeOK, Serving, Up
  <2> QED BY <1>2, <1>4, <2>2, UpLife DEF Serving, LifecycleSteps
<1>5. CASE ~Serving
  <2>1. t = Main /\ Down /\ Empty /\ OthersIdle(Main)
    BY <1>3, <1>5, WhoRuns
  <2>2. pc'[Main] \in {"enter_initializing", "init"}
    BY <1>1, <2>1 DEF Enter, EnterInitializing, Goto, TypeOK, Down
  <2>3. Empty'
    BY <1>2, <2>1 DEF Empty, InCall
  <2> QED BY <1>2, <2>1, <2>2, <2>3, DownLife
<1> QED BY <1>4, <1>5

\* The bodies run while the allocator is up; only free(NULL) also runs before.
LEMMA BodyLife ==
  ASSUME TypeOK, CallShape, LifeInv, HeadersKept, NEW t \in Threads, Body(t), Only(t)
  PROVE  LifeInv'
<1>0. Shape(t)
  BY DEF CallShape
<1>1. CASE Serving
  <2>1. UNCHANGED flags
    BY DEF Body, flags, Malloc, MallocCount, Calloc, Aligned, ReallocForward, ReallocForeign,
           ReallocShrink, ReallocGrow, ReallocFreed, ReallocAllocated, Free,
           FreeInitializing, FreeHeader, FreeBlockOf, FreeRaw
  <2>2. pc'[t] \in {"return", "body", "malloc_count", "enter", "free", "realloc_freed",
                    "realloc_allocated", "free_block", "free_initializing", "free_header"}
    <3> USE DEF Goto, Result, Running, TypeOK
    <3>1. CASE Malloc(t) \/ MallocCount(t) \/ Calloc(t) \/ ReallocForward(t)
      BY <3>1 DEF Malloc, MallocCount, Calloc, ReallocForward
    <3>2. CASE Aligned(t) \/ ReallocForeign(t)
      BY <3>2 DEF Aligned, AlignedBlock, ReallocForeign, LibcRealloc
    <3>3. CASE ReallocShrink(t) \/ ReallocGrow(t) \/ ReallocFreed(t) \/ ReallocAllocated(t)
      BY <3>3 DEF ReallocShrink, ReallocGrow, ReallocFreed, ReallocAllocated
    <3>4. CASE Free(t) \/ FreeInitializing(t)
      BY <1>1, <3>4 DEF Free, FreeInitializing, Serving, Up
    <3>5. CASE FreeHeader(t)
      <4>1. call[t].ptr # NULL
        BY <1>0, <3>5 DEF FreeHeader, Shape
      <4>2. HasHeader(call[t].ptr)
        BY <4>1 DEF HeadersKept, Headed, InCall
      <4> QED BY <3>5, <4>2 DEF FreeHeader
    <3>6. CASE FreeBlockOf(t) \/ FreeRaw(t)
      BY <3>6 DEF FreeBlockOf, FreeRaw
    <3> QED BY <3>1, <3>2, <3>3, <3>4, <3>5, <3>6 DEF Body
  <2> QED BY <1>1, <2>1, <2>2, UpLife DEF Serving, LifecycleSteps
<1>2. CASE ~Serving
  <2>1. pc[t] \in {"body", "malloc_count", "realloc_freed", "realloc_allocated", "free",
                   "free_initializing", "free_header", "free_block", "free_raw"}
    BY DEF Body, Running, Malloc, MallocCount, Calloc, Aligned, ReallocForward, ReallocForeign,
           ReallocShrink, ReallocGrow, ReallocFreed, ReallocAllocated, Free,
           FreeInitializing, FreeHeader, FreeBlockOf, FreeRaw
  <2>2. t = Main /\ Down /\ Empty /\ OthersIdle(Main)
    BY <1>2, <2>1, WhoRuns DEF LifecycleSteps
  <2>3. call[t].ptr = NULL /\ call[t].res = NULL
    BY <2>2, NothingInCall
  <2>4. pc[t] = "free"
    BY <1>0, <2>1, <2>2, <2>3 DEF Shape, LifeInv, FlagsFollow, Up, Down
  <2>5. Free(t)
    BY <2>4 DEF Body, Running, Malloc, MallocCount, Calloc, Aligned, ReallocForward,
           ReallocForeign, ReallocShrink, ReallocGrow, ReallocFreed, ReallocAllocated,
           FreeInitializing, FreeHeader, FreeBlockOf, FreeRaw
  <2>6. pc'[t] = "return" /\ UNCHANGED flags /\ UNCHANGED <<owned, call>>
    BY <2>3, <2>5 DEF Free, Goto, TypeOK
  <2>7. Empty'
    BY <2>2, <2>6 DEF Empty, InCall
  <2> QED BY <2>2, <2>6, <2>7, DownLife
<1> QED BY <1>1, <1>2

\* A step that writes no block keeps the headers.
LEMMA QuietHeaders ==
  ASSUME HeadersKept, NEW t \in Threads, Only(t), UNCHANGED heap,
         owned' \subseteq owned \cup InCall(t), InCall(t)' \subseteq owned \cup InCall(t)
  PROVE  HeadersKept'
<1>1. \A p : Headed(p)' = Headed(p)
  BY DEF Headed, HasHeader, HeaderOf
<1>2. \A u \in Threads \ {t} : InCall(u)' = InCall(u)
  BY DEF Only, InCall
<1> QED BY <1>1, <1>2 DEF HeadersKept

\* For one that writes a block, what is left to show are its own pointers.
LEMMA OwnHeaders ==
  ASSUME TypeOK, Exclusive, HeadersKept, NEW t \in Threads, Only(t), Local(t),
         owned' \subseteq owned \cup InCall(t),
         \A p \in InCall(t)' \cup (InCall(t) \cap owned') : Headed(p)'
  PROVE  HeadersKept'
<1>1. /\ \A p \in owned : heap'[p.blk] = heap[p.blk]
      /\ \A u \in Threads \ {t} : \A p \in InCall(u) : heap'[p.blk] = heap[p.blk]
  BY OthersKept
<1>2. \A p : heap'[p.blk] = heap[p.blk] /\ Headed(p) => Headed(p)'
  BY DEF Headed, HasHeader, HeaderOf
<1>3. \A u \in Threads \ {t} : InCall(u)' = InCall(u)
  BY DEF Only, InCall
<1>4. \A p \in owned' : Headed(p)'
  BY <1>1, <1>2 DEF HeadersKept
<1>5. ASSUME NEW u \in Threads, NEW p \in InCall(u)' PROVE Headed(p)'
  <2>1. CASE u = t
    BY <2>1, <1>5
  <2>2. CASE u # t
    <3>1. p \in InCall(u) /\ u \in Threads \ {t}
      BY <1>3, <1>5, <2>2
    <3> QED BY <1>1, <1>2, <3>1 DEF HeadersKept
  <2> QED BY <2>1, <2>2
<1> QED BY <1>4, <1>5 DEF HeadersKept

\* A block with a new header, and a pointer behind it.
LEMMA NewHeaded ==
  ASSUME NEW b \in Blocks, NEW o \in Nat, NEW n \in Nat, NEW m \in Nat, NEW k \in Block,
         o > 0, heap'[b] = k, k.hdr = NewHeader(o, n)
  PROVE  Headed(Ptr(b, o, m))'
  BY DEF Headed, HasHeader, HeaderOf, Ptr, NewHeader

\* The header of each block an action builds.
LEMMA HeaderOfNew ==
  /\ \A c, h : NewBlock(c, h).hdr = h
  /\ \A c, h, n : [NewBlock(c, h) EXCEPT !.data = n].hdr = h
  BY DEF NewBlock

\* Every step of orderly clients keeps the headers.
LEMMA HeadersStep ==
  ASSUME Orderly, TypeOK, CallShape, Exclusive, LifeInv, HeadersKept, NEW t \in Threads,
         Step(t), Only(t), Local(t), Kind(t)
  PROVE  HeadersKept'
<1>c. PICK c : c = call[t]
  OBVIOUS
<1> USE <1>c
<1> DEFINE p == c.ptr
<1>0. /\ Shape(t) /\ c \in Call /\ c.len \in Nat /\ c.size \in Nat
      /\ c.align \in Aligns \cup {0} /\ c.ptr \in Pointer \cup {NULL}
  BY CallFields DEF CallShape, TypeOK
<1>1. owned' \subseteq owned \cup InCall(t)
  BY OwnedFrom
<1>2. p # NULL => p \in InCall(t) /\ Headed(p)
  BY DEF HeadersKept, InCall
<1>3. c.res # NULL => c.res \in InCall(t) /\ Headed(c.res)
  BY DEF HeadersKept, InCall
<1>h. HeaderSize \in Nat /\ HeaderSize > 0
  BY ConstantsOK
<1>q. ASSUME UNCHANGED heap, SameCall(t) PROVE HeadersKept'
  <2>1. InCall(t)' = InCall(t)
    BY <1>q DEF SameCall, InCall
  <2> QED BY <1>1, <1>q, <2>1, QuietHeaders
<1>f. ASSUME UNCHANGED heap, Result(t, c, NULL), c.res = NULL PROVE HeadersKept'
  <2>1. call'[t] = [c EXCEPT !.res = NULL]
    BY <1>f DEF Result, Set, TypeOK
  <2>2. SameCall(t)
    BY <1>0, <1>f, <2>1, CallSelect DEF SameCall
  <2> QED BY <1>f, <1>q, <2>2
<1>n. ASSUME NEW b \in Available, NEW o \in Nat, NEW n \in Nat, NEW k \in Block, o > 0,
             heap' = [heap EXCEPT ![b] = k], k.hdr = NewHeader(o, n),
             call'[t].ptr = p, call'[t].res = Ptr(b, o, c.len), c.res = NULL,
             UNCHANGED owned
      PROVE  HeadersKept'
  <2>1. b \in Blocks /\ ~heap[b].live /\ heap'[b] = k
    BY <1>n DEF Available, TypeOK
  <2>2. Headed(Ptr(b, o, c.len))'
    BY <1>0, <1>n, <2>1, NewHeaded
  <2>3. p # NULL => Headed(p)'
    <3>1. p # NULL => p.blk # b /\ p.blk \in Blocks
      BY <1>2, <2>1, CallHands DEF Exclusive
    <3> QED BY <1>2, <1>n, <3>1 DEF Headed, HasHeader, HeaderOf, TypeOK
  <2>4. InCall(t) \cap owned' = {}
    BY <1>n DEF Exclusive
  <2> QED BY <1>1, <1>n, <2>2, <2>3, <2>4, OwnHeaders DEF InCall
<1>a. ASSUME NEW n \in Nat, AlignedBlock(t, n), c.res = NULL, UNCHANGED owned PROVE HeadersKept'
  <2>1. ASSUME NEW b \in Available,
          heap' = [heap EXCEPT ![b] =
                     NewBlock(AlignedSize(n, c.align), NewHeader(AlignedOffset(b, c.align), n))],
          Result(t, c, Ptr(b, AlignedOffset(b, c.align), c.len))
        PROVE HeadersKept'
    <3> DEFINE o == AlignedOffset(b, c.align)
               k == NewBlock(AlignedSize(n, c.align), NewHeader(o, n))
    <3>0. \A a \in Aligns \cup {0} : a \in Nat
      BY ConstantTypes
    <3>1. b \in Blocks /\ o \in Nat /\ o >= HeaderSize /\ AlignedSize(n, c.align) \in Nat
      BY <1>0, <3>0, AlignedOffsetType, SizeTypes DEF Available
    <3>2. k \in Block /\ k.hdr = NewHeader(o, n)
      BY <3>1, BlockTypes, HeaderOfNew
    <3>3. call'[t] = [c EXCEPT !.res = Ptr(b, o, c.len)]
      BY <2>1 DEF Result, Set, TypeOK
    <3>4. call'[t].ptr = p /\ call'[t].res = Ptr(b, o, c.len)
      BY <1>0, <3>3, CallSelect
    <3>5. heap' = [heap EXCEPT ![b] = k] /\ o > 0
      BY <1>h, <2>1, <3>1
    <3> HIDE DEF o, k
    <3> QED BY <1>a, <1>n, <3>1, <3>2, <3>4, <3>5
  <2> QED BY <1>a, <1>f, <2>1 DEF AlignedBlock
<1>4. CASE Client(t)
  <2>1. CASE ~Return(t)
    <3>1. PICK op \in AllOps, l \in Entries, d \in Call : Asks(op, d) /\ Begin(t, op, l, d)
      BY <1>4, <2>1, ClientCalls DEF CallsEntry
    <3>2. call'[t] = [d EXCEPT !.op = op] /\ UNCHANGED heap
      BY <3>1 DEF Begin, Set, TypeOK
    <3>3. InCall(t)' \subseteq owned
      BY <3>1, <3>2, CallSelect DEF Asks, InCall
    <3> QED BY <1>1, <3>2, <3>3, QuietHeaders
  <2>2. CASE Return(t)
    <3>1. InCall(t)' = {}
      BY <2>2 DEF Return, Set, TypeOK, InCall, NoCall
    <3>2. CASE c.res = NULL
      BY <1>1, <2>2, <3>1, <3>2, QuietHeaders DEF Return
    <3>3. CASE c.res # NULL
      <4>1. InCall(t) = {c.res}
        BY <1>0, <2>2, <3>3 DEF Return, Running, Shape, InCall
      <4>2. c.res.blk \in Blocks
        BY <3>3, CallHands
      <4>3. heap'[c.res.blk] = [heap[c.res.blk] EXCEPT !.data = c.res.len]
        BY <2>2, <3>3, <4>2 DEF Return, TypeOK
      <4>4. heap'[c.res.blk].hdr = heap[c.res.blk].hdr
        BY <4>2, <4>3 DEF TypeOK, Block
      <4>5. Headed(c.res)'
        BY <1>3, <3>3, <4>4 DEF Headed, HasHeader, HeaderOf
      <4> QED BY <1>1, <3>1, <4>1, <4>5, OwnHeaders
    <3> QED BY <3>2, <3>3
  <2> QED BY <2>1, <2>2
<1>5. CASE Guard(t)
  <2>1. Enter(t) \/ EnterInitializing(t)
    BY <1>5 DEF Guard, LifeInv, NoFallback, SystemMalloc, SystemAligned, SystemRealloc, Running
  <2> QED BY <1>q, <2>1 DEF Enter, EnterInitializing, SameCall
<1>6. CASE Body(t)
  <2>0. Running(t, "body") => c.res = NULL
    BY <1>0 DEF Running, Shape
  <2>1. CASE Malloc(t)
    <3> DEFINE n == AtLeastOne(c.size)
               k == NewBlock(TotalSize(n), NewHeader(HeaderSize, n))
    <3>0. n \in Nat /\ TotalSize(n) \in Nat
      BY <1>0, SizeTypes
    <3>1. k \in Block /\ k.hdr = NewHeader(HeaderSize, n)
      BY <1>h, <3>0, BlockTypes, HeaderOfNew
    <3>2. CASE HeaderedBlock(t, n)
      <4>1. PICK b \in Available : heap' = [heap EXCEPT ![b] = k]
              /\ Set(t, [c EXCEPT !.size = n, !.res = Ptr(b, HeaderSize, c.len)])
        BY <3>2 DEF HeaderedBlock
      <4>2. call'[t] = [c EXCEPT !.size = n, !.res = Ptr(b, HeaderSize, c.len)]
        BY <4>1 DEF Set, TypeOK
      <4>3. call'[t].ptr = p /\ call'[t].res = Ptr(b, HeaderSize, c.len)
        BY <1>0, <4>2, CallSelect
      <4>4. c.res = NULL /\ UNCHANGED owned
        BY <2>0, <2>1 DEF Malloc
      <4> HIDE DEF k, n
      <4> QED BY <1>h, <1>n, <3>0, <3>1, <4>1, <4>3, <4>4
    <3> QED BY <1>f, <2>0, <2>1, <3>2 DEF Malloc
  <2>2. CASE MallocCount(t)
    <3>1. c.res # NULL /\ p = NULL /\ SameCall(t)
      BY <1>0, <2>2 DEF MallocCount, Running, Shape, SameCall
    <3>2. c.res.blk \in Blocks
      BY <3>1, CallHands
    <3>3. heap'[c.res.blk] = [heap[c.res.blk] EXCEPT !.data = Cleared(c, c.size)]
      BY <2>2, <3>2 DEF MallocCount, TypeOK
    <3>4. heap'[c.res.blk].hdr = heap[c.res.blk].hdr
      BY <3>2, <3>3 DEF TypeOK, Block
    <3>5. Headed(c.res)'
      BY <1>3, <3>1, <3>4 DEF Headed, HasHeader, HeaderOf
    <3>6. InCall(t) = {c.res} /\ InCall(t)' = {c.res}
      BY <3>1 DEF InCall, SameCall
    <3> QED BY <1>1, <3>5, <3>6, OwnHeaders
  <2>3. CASE Calloc(t)
    <3>1. call'[t] = [c EXCEPT !.op = "calloc_malloc", !.size = AtLeastOne(c.size)]
      BY <2>3 DEF Calloc, Set, TypeOK
    <3>2. SameCall(t)
      BY <1>0, <3>1, CallSelect DEF SameCall
    <3> QED BY <1>q, <2>3, <3>2 DEF Calloc
  <2>4. CASE Aligned(t)
    <3>1. AtLeastOne(c.size) \in Nat
      BY <1>0, SizeTypes
    <3> QED BY <1>a, <1>f, <2>0, <2>4, <3>1 DEF Aligned
  <2>5. CASE ReallocForward(t)
    <3>1. CASE Set(t, [c EXCEPT !.op = "malloc"])
      <4>1. call'[t] = [c EXCEPT !.op = "malloc"]
        BY <3>1 DEF Set, TypeOK
      <4>2. SameCall(t)
        BY <1>0, <4>1, CallSelect DEF SameCall
      <4> QED BY <1>q, <2>5, <4>2 DEF ReallocForward
    <3>2. CASE UNCHANGED call
      BY <1>q, <2>5, <3>2 DEF ReallocForward, SameCall
    <3> QED BY <2>5, <3>1, <3>2 DEF ReallocForward
  <2>6. CASE ReallocForeign(t)
    BY <1>2, <2>6 DEF ReallocForeign, Headed
  <2>7. CASE ReallocShrink(t)
    <3> DEFINE r == Ptr(p.blk, p.off, c.len)
    <3>1. p # NULL /\ c.res = NULL /\ p \in Pointer
      BY <1>0, <2>0, <2>7 DEF ReallocShrink
    <3>2. p.blk \in Blocks /\ heap[p.blk] \in Block
      BY <3>1, PointerTypes DEF TypeOK
    <3>3. call'[t] = [[c EXCEPT !.ptr = NULL] EXCEPT !.res = r]
      BY <2>7 DEF ReallocShrink, Result, Set, TypeOK
    <3>4. call'[t].ptr = NULL /\ call'[t].res = r
      BY <1>0, <3>3, CallSelect
    <3>5. heap'[p.blk] = [heap[p.blk] EXCEPT !.hdr.req = c.size]
      BY <2>7, <3>2 DEF ReallocShrink, TypeOK
    <3>6. /\ heap'[p.blk].hdr.off = heap[p.blk].hdr.off
          /\ heap'[p.blk].hdr.raw = heap[p.blk].hdr.raw
      BY <3>2, <3>5 DEF Block, Header
    <3>7. r.blk = p.blk /\ r.off = p.off
      BY DEF Ptr
    <3>8. Headed(r)'
      BY <1>2, <3>1, <3>6, <3>7 DEF Headed, HasHeader, HeaderOf
    <3>9. InCall(t)' \subseteq {r} /\ InCall(t) \cap owned' = {}
      BY <2>7, <3>4 DEF InCall, ReallocShrink, Exclusive
    <3> HIDE DEF r
    <3> QED BY <1>1, <3>8, <3>9, OwnHeaders
  <2>8. CASE ReallocGrow(t)
    <3> DEFINE k == [NewBlock(TotalSize(c.size), NewHeader(HeaderSize, c.size)) EXCEPT
                       !.data = Copied(p)]
    <3>1. p \in Pointer /\ p.blk \in Blocks /\ heap[p.blk] \in Block
      BY <1>0, <2>8, PointerTypes DEF ReallocGrow, TypeOK
    <3>2. heap[p.blk].data \in Nat /\ HeaderOf(p).req \in Nat
      BY <3>1, BlockTypes DEF HeaderOf
    <3>3. k \in Block /\ k.hdr = NewHeader(HeaderSize, c.size)
      <4>1. TotalSize(c.size) \in Nat /\ Copied(p) \in Nat
        BY <1>0, <3>2, SizeTypes DEF Copied
      <4>2. NewHeader(HeaderSize, c.size) \in Header
        BY <1>0, <1>h, BlockTypes
      <4> QED BY <4>1, <4>2, NewTypes, HeaderOfNew
    <3>4. ASSUME NEW b \in Available, heap' = [heap EXCEPT ![b] = k],
                 Set(t, [c EXCEPT !.old = HeaderOf(p).req, !.res = Ptr(b, HeaderSize, c.len)])
          PROVE HeadersKept'
      <4>1. call'[t] = [c EXCEPT !.old = HeaderOf(p).req, !.res = Ptr(b, HeaderSize, c.len)]
        BY <3>4 DEF Set, TypeOK
      <4>2. call'[t].ptr = p /\ call'[t].res = Ptr(b, HeaderSize, c.len)
        BY <1>0, <4>1, CallSelect
      <4>3. c.res = NULL /\ UNCHANGED owned
        BY <2>0, <2>8 DEF ReallocGrow
      <4> HIDE DEF k
      <4> QED BY <1>0, <1>h, <1>n, <3>3, <3>4, <4>2, <4>3
    <3> QED BY <1>f, <2>0, <2>8, <3>4 DEF ReallocGrow
  <2>9. CASE ReallocFreed(t) \/ ReallocAllocated(t) \/ Free(t) \/ FreeInitializing(t)
             \/ FreeHeader(t)
    BY <1>q, <2>9 DEF ReallocFreed, ReallocAllocated, Free, FreeInitializing,
                      FreeHeader, SameCall
  <2>10. CASE FreeBlockOf(t)
    <3>1. p # NULL
      BY <1>0, <2>10 DEF FreeBlockOf, Running, Shape
    <3>2. call'[t] = [c EXCEPT !.ptr = NULL] /\ UNCHANGED owned
      BY <2>10 DEF FreeBlockOf, Set, TypeOK
    <3>3. call'[t].ptr = NULL /\ call'[t].res = c.res
      BY <1>0, <3>2, CallSelect
    <3>4. p.blk \in Blocks /\ (c.res # NULL => c.res.blk # p.blk /\ c.res.blk \in Blocks)
      BY <3>1, CallHands DEF Exclusive
    <3>5. c.res # NULL => heap'[c.res.blk] = heap[c.res.blk]
      BY <2>10, <3>4 DEF FreeBlockOf, LibcFree, TypeOK
    <3>6. c.res # NULL => Headed(c.res)'
      BY <1>3, <3>5 DEF Headed, HasHeader, HeaderOf
    <3>7. InCall(t)' \subseteq {c.res} \ {NULL} /\ InCall(t) \cap owned' = {}
      BY <3>2, <3>3 DEF InCall, Exclusive
    <3> QED BY <1>1, <3>6, <3>7, OwnHeaders
  <2>11. CASE FreeRaw(t)
    BY <2>11 DEF FreeRaw, Running, LifeInv, NoFallback
  <2> QED BY <1>6, <2>1, <2>2, <2>3, <2>4, <2>5, <2>6, <2>7, <2>8, <2>9, <2>10, <2>11 DEF Body
<1>7. CASE Start(t) \/ Stop(t)
  <2>1. UNCHANGED <<heap, call>>
    BY <1>7 DEF Start, Stop, flags, totals, InitEntry, InitCheck, InitSet, InitClear, InitFlag,
         InitSubsystems, InitUndo, InitUndoFlag, InitTotals, InitDone, ShutdownSet,
         ShutdownCheck, ShutdownTeardown, ShutdownTotals, ShutdownFlag, ShutdownClear,
         ShutdownDone
  <2> QED BY <1>q, <2>1 DEF SameCall
<1> QED BY <1>4, <1>5, <1>6, <1>7 DEF Step

\* free reaches libc with the address a header kept, realloc never does.
LEMMA NoBadFreeStep ==
  ASSUME TypeOK, CallShape, Exclusive, LifeInv, HeadersKept, NoBadFree, NEW t \in Threads,
         Step(t)
  PROVE  NoBadFree'
<1> DEFINE p == call[t].ptr
<1>0. Shape(t)
  BY DEF CallShape
<1>1. p # NULL => Headed(p) /\ heap[p.blk].live
  BY DEF HeadersKept, InCall, Exclusive
<1>2. CASE Client(t)
  BY <1>2 DEF NoBadFree, Client, Begin, Running, CallInit, CallShutdown, CallMalloc, CallCalloc,
              CallRealloc, CallAligned, CallFree, Return
<1>3. CASE Guard(t)
  BY <1>3 DEF NoBadFree, Guard, LifeInv, NoFallback, Enter, EnterInitializing, SystemMalloc,
              SystemAligned, SystemRealloc, Running
<1>4. CASE Body(t)
  <2>1. CASE ReallocForeign(t)
    BY <1>1, <2>1 DEF ReallocForeign, Headed
  <2>2. CASE FreeBlockOf(t)
    <3>1. p # NULL /\ LibcFree(p.blk, HeaderOf(p).raw)
      BY <1>0, <2>2 DEF FreeBlockOf, Running, Shape
    <3> QED BY <1>1, <3>1 DEF LibcFree, ValidRaw, Headed, NoBadFree
  <2>3. CASE FreeRaw(t)
    BY <2>3 DEF FreeRaw, Running, LifeInv, NoFallback
  <2> QED BY <1>4, <2>1, <2>2, <2>3 DEF Body, NoBadFree, Malloc, MallocCount, Calloc, Aligned,
             ReallocForward, ReallocShrink, ReallocGrow, ReallocFreed, ReallocAllocated, Free,
             FreeInitializing, FreeHeader
<1>5. CASE Start(t) \/ Stop(t)
  BY <1>5 DEF NoBadFree, Start, Stop, flags, totals, InitEntry, InitCheck, InitSet, InitClear,
         InitFlag, InitSubsystems, InitUndo, InitUndoFlag, InitTotals, InitDone, ShutdownSet,
         ShutdownCheck, ShutdownTeardown, ShutdownTotals, ShutdownFlag, ShutdownClear,
         ShutdownDone
<1> QED BY <1>2, <1>3, <1>4, <1>5 DEF Step

\* What orderly clients keep: the life of the allocator, and a header in front
\* of every pointer.
OrderlyInv == LifeInv /\ HeadersKept /\ NoBadFree

\* What orderly clients keep.
LEMMA OrderlyCorrect ==
  ASSUME Orderly
  PROVE  Spec => []OrderlyInv
<1> DEFINE Known == TypeOK /\ CallShape /\ Exclusive /\ NoLeak
<1>1. Init => OrderlyInv
  BY ConstantsOK DEF Init, OrderlyInv, LifeInv, FlagsFollow, MainAlone, NothingHeld, OnlyMain,
     NoFallback, HeadersKept, NoBadFree, OthersIdle, Empty, InCall, NoCall, Up, Down, Changing,
     LifecycleSteps
<1>2. Known /\ OrderlyInv /\ [Next]_vars => OrderlyInv'
  <2> SUFFICES ASSUME Known, OrderlyInv, [Next]_vars PROVE OrderlyInv'
    OBVIOUS
  <2>1. CASE UNCHANGED vars
    BY <2>1 DEF vars, flags, totals, OrderlyInv, LifeInv, FlagsFollow, MainAlone, NothingHeld,
       OnlyMain, NoFallback, HeadersKept, NoBadFree, OthersIdle, Empty, InCall, Up, Down,
       Headed, HasHeader, HeaderOf
  <2>2. ASSUME NEW t \in Threads, Step(t) PROVE OrderlyInv'
    <3>1. Only(t) /\ Local(t)
      BY <2>2, OnlyOne, LocalStep
    <3>2. Kind(t)
      BY <2>2, ClientKind, GuardKind, BodyKind, LifecycleKind DEF Step
    <3>3. LifeInv'
      BY <2>2, <3>1, ClientLife, GuardLife, BodyLife, LifecycleLife DEF OrderlyInv, Step
    <3>4. HeadersKept' /\ NoBadFree'
      BY <2>2, <3>1, <3>2, HeadersStep, NoBadFreeStep DEF OrderlyInv
    <3> QED BY <3>3, <3>4 DEF OrderlyInv
  <2> QED BY <2>1, <2>2 DEF Next, Step
<1> QED BY <1>1, <1>2, TypeCorrect, HandsCorrect, PTL DEF Spec

\* Clients that start and stop the allocator as the tests do never make free or
\* realloc give libc an address it did not return or got back already.
THEOREM OrderlyFreesWell == Orderly => (Spec => []NoBadFree)
<1> SUFFICES ASSUME Orderly PROVE Spec => []NoBadFree
  OBVIOUS
<1>1. OrderlyInv => NoBadFree
  BY DEF OrderlyInv
<1> QED BY <1>1, OrderlyCorrect, PTL

\* And between their calls the allocator is completely up or completely down,
\* whether allocator_init succeeded or undid what it had done.
THEOREM OrderlyLifecycle == Orderly => (Spec => []LifecycleAgrees)
<1> SUFFICES ASSUME Orderly PROVE Spec => []LifecycleAgrees
  OBVIOUS
<1>1. TypeOK /\ OrderlyInv => LifecycleAgrees
  <2>1. ASSUME OrderlyInv, pc[Main] = "idle" PROVE Up \/ Down
    BY <2>1 DEF OrderlyInv, LifeInv, FlagsFollow, Changing, LifecycleSteps
  <2>2. TypeOK /\ (Up \/ Down) => ~initializing /\ initialized = subsystems
    BY DEF Up, Down, TypeOK
  <2> QED BY <2>1, <2>2, ConstantsOK DEF LifecycleAgrees
<1> QED BY <1>1, OrderlyCorrect, TypeCorrect, PTL

-----------------------------------------------------------------------------
(* Any clients: the sizes and the contents.                                *)

\* align_up adds less than the alignment when the sum does not wrap.
LEMMA AlignUpBelow ==
  ASSUME NEW n \in Nat, NEW a \in Nat, n + a <= Word
  PROVE  AlignUp(n, a) <= n + a /\ (a > 0 => AlignUp(n, a) < n + a)
<1>1. CASE a = 0
  BY <1>1 DEF AlignUp
<1>2. CASE a # 0
  <2> DEFINE m == n + a - 1
  <2>1. m % Word = m
    BY <1>2, ConstantsOK
  <2>2. m = a * (m \div a) + (m % a) /\ m % a >= 0
    BY <1>2
  <2>3. m \div a \in Int /\ m % a \in Int
    BY <1>2
  <2>4. (m \div a) * a = a * (m \div a) /\ (m \div a) * a \in Int
    BY <2>3
  <2>5. AlignUp(n, a) = (m \div a) * a
    BY <1>2, <2>1 DEF AlignUp
  <2> HIDE DEF m
  <2>6. AlignUp(n, a) <= m
    BY <2>2, <2>3, <2>4, <2>5
  <2> QED BY <1>2, <2>4, <2>5, <2>6 DEF m
<1> QED BY <1>1, <1>2

\* A size the arithmetic of the allocator can take.
Small(m) == /\ m + HeaderSize + 2 * HeaderAlign <= Word
            /\ \A a \in Aligns : m + a + HeaderSize < Word

\* A size that is asked for does not wrap, and neither does its minimum of one byte.
LEMMA LensSmall ==
  ASSUME NoWrap, NEW n \in Lens, NEW m \in {n, AtLeastOne(n)}
  PROVE  /\ n \in Nat /\ n % Word = n /\ m \in Nat /\ m >= n /\ Small(m)
<1>1. n \in Nat
  BY ConstantTypes DEF Lens
<1>2. n < Word
  BY DEF NoWrap
<1>3. n % Word = n
  BY <1>1, <1>2, ConstantTypes
<1>4. m \in Nat /\ m >= n /\ m <= AtLeastOne(n) /\ AtLeastOne(n) \in Nat
  BY <1>1 DEF AtLeastOne
<1>5. AtLeastOne(n) + HeaderSize + 2 * HeaderAlign <= Word
  BY DEF NoWrap
<1>6. \A a \in Aligns : AtLeastOne(n) + a + HeaderSize < Word
  BY DEF NoWrap
<1>7. Aligns \subseteq Nat /\ HeaderSize \in Nat /\ HeaderAlign \in Nat /\ Word \in Nat
  BY ConstantTypes
<1>8. m + HeaderSize + 2 * HeaderAlign <= Word
  BY <1>4, <1>5, <1>7
<1>9. \A a \in Aligns : m + a + HeaderSize < Word
  BY <1>4, <1>6, <1>7
<1> QED BY <1>1, <1>3, <1>4, <1>8, <1>9 DEF Small

\* calculate_total_size leaves room for the header and the request.
LEMMA TotalFits ==
  ASSUME NEW m \in Nat, Small(m)
  PROVE  HeaderSize + m <= TotalSize(m)
<1>1. HeaderSize \in Nat /\ HeaderAlign \in Nat \ {0} /\ Word \in Nat \ {0}
  BY ConstantsOK
<1>2. m + HeaderSize + 2 * HeaderAlign <= Word
  BY DEF Small
<1>3. m + HeaderAlign <= Word
  BY <1>1, <1>2
<1>4. AlignUp(m, HeaderAlign) >= m
  BY <1>1, <1>3, AlignUpAbove
<1>5. AlignUp(m, HeaderAlign) < m + HeaderAlign
  BY <1>1, <1>3, AlignUpBelow
<1>6. AlignUp(m, HeaderAlign) \in Nat
  BY <1>1, AlignUpNat
<1> DEFINE s == AlignUp(m, HeaderAlign) + HeaderSize + HeaderAlign
<1>7. s \in Nat /\ s < Word /\ s >= HeaderSize + m
  BY <1>1, <1>2, <1>4, <1>5, <1>6
<1> HIDE DEF s
<1>8. s % Word = s
  BY <1>1, <1>7
<1> QED BY <1>7, <1>8 DEF TotalSize, s

\* So does the size of an aligned allocation, wherever the block starts.
LEMMA AlignedFits ==
  ASSUME NEW m \in Nat, Small(m), NEW b \in Blocks, NEW a \in Aligns \cup {0}
  PROVE  AlignedOffset(b, a) + m <= AlignedSize(m, a)
<1>1. /\ HeaderSize \in Nat /\ HeaderAlign \in Nat \ {0} /\ Word \in Nat \ {0}
      /\ a \in Nat /\ Base[b] \in Nat
  BY ConstantsOK, ConstantTypes
<1>2. Base[b] + HeaderSize + a <= Word
  BY ConstantsOK
<1>3. AlignUp(Base[b] + HeaderSize, a) <= Base[b] + HeaderSize + a
  <2> DEFINE n == Base[b] + HeaderSize
  <2>1. n \in Nat /\ n + a <= Word
    BY <1>1, <1>2
  <2> HIDE DEF n
  <2>2. AlignUp(n, a) <= n + a
    BY <1>1, <2>1, AlignUpBelow
  <2> QED BY <2>2 DEF n
<1>4. AlignUp(Base[b] + HeaderSize, a) \in Nat
  <2> DEFINE n == Base[b] + HeaderSize
  <2>1. n \in Nat
    BY <1>1
  <2> HIDE DEF n
  <2>2. AlignUp(n, a) \in Nat
    BY <1>1, <2>1, AlignUpNat
  <2> QED BY <2>2 DEF n
<1>5. AlignedOffset(b, a) <= HeaderSize + a /\ AlignedOffset(b, a) \in Int
  BY <1>1, <1>3, <1>4 DEF AlignedOffset
<1>6. m + a + HeaderSize < Word
  BY <1>1 DEF Small
<1> DEFINE s == m + a + HeaderSize
<1>7. s \in Nat /\ s < Word /\ AlignedOffset(b, a) + m <= s
  BY <1>1, <1>5, <1>6
<1> HIDE DEF s
<1>8. s % Word = s
  BY <1>1, <1>7
<1> QED BY <1>7, <1>8 DEF AlignedSize, s

\* What an update of a call leaves of the other fields.
LEMMA CallRest ==
  ASSUME NEW c \in Call, NEW r, NEW n, NEW o
  PROVE  /\ [c EXCEPT !.res = r].len = c.len /\ [c EXCEPT !.res = r].had = c.had
         /\ [c EXCEPT !.res = r].size = c.size /\ [c EXCEPT !.res = r].align = c.align
         /\ [c EXCEPT !.ptr = r].len = c.len /\ [c EXCEPT !.ptr = r].had = c.had
         /\ [c EXCEPT !.ptr = r].size = c.size /\ [c EXCEPT !.ptr = r].align = c.align
         /\ [c EXCEPT !.op = o].len = c.len /\ [c EXCEPT !.op = o].had = c.had
         /\ [c EXCEPT !.op = o].size = c.size /\ [c EXCEPT !.op = o].align = c.align
         /\ [c EXCEPT !.op = o, !.size = n].len = c.len
         /\ [c EXCEPT !.op = o, !.size = n].had = c.had
         /\ [c EXCEPT !.op = o, !.size = n].size = n
         /\ [c EXCEPT !.size = n, !.res = r].len = c.len
         /\ [c EXCEPT !.size = n, !.res = r].had = c.had
         /\ [c EXCEPT !.size = n, !.res = r].size = n
         /\ [c EXCEPT !.old = n, !.res = r].len = c.len
         /\ [c EXCEPT !.old = n, !.res = r].had = c.had
         /\ [c EXCEPT !.old = n, !.res = r].size = c.size
         /\ [[c EXCEPT !.ptr = NULL] EXCEPT !.res = r].len = c.len
         /\ [[c EXCEPT !.ptr = NULL] EXCEPT !.res = r].had = c.had
         /\ [[c EXCEPT !.ptr = NULL] EXCEPT !.res = r].size = c.size
  BY DEF Call

\* A block that is not written keeps what is said of a pointer to it.
LEMMA SameBlock ==
  ASSUME NEW p, heap'[p.blk] = heap[p.blk]
  PROVE  Sound(p)' = Sound(p) /\ Filled(p)' = Filled(p)
  BY DEF Sound, Filled, HasHeader, HeaderOf

\* The calls and the pointers of the others stay in order; what is left to show
\* of a step is its own call and what it returns.
LEMMA OwnSpace ==
  ASSUME TypeOK, Exclusive, SpaceInv, NEW t \in Threads, Only(t), Local(t),
         owned' \subseteq owned \cup InCall(t), InOrder(t)',
         \A p \in InCall(t) \cap owned' : Sound(p)' /\ Filled(p)'
  PROVE  SpaceInv'
<1>1. /\ \A p \in owned : heap'[p.blk] = heap[p.blk]
      /\ \A u \in Threads \ {t} : \A p \in InCall(u) : heap'[p.blk] = heap[p.blk]
  BY OthersKept
<1>2. ASSUME NEW p \in owned' PROVE Sound(p)' /\ Filled(p)'
  <2>1. CASE p \in owned
    BY <1>1, <2>1, SameBlock DEF SpaceInv
  <2>2. CASE p \notin owned
    BY <1>2, <2>2
  <2> QED BY <2>1, <2>2
<1>3. ASSUME NEW u \in Threads \ {t} PROVE InOrder(u)'
  <2>1. pc'[u] = pc[u] /\ call'[u] = call[u] /\ InOrder(u)
    BY DEF Only, SpaceInv
  <2>2. call[u].ptr # NULL => heap'[call[u].ptr.blk] = heap[call[u].ptr.blk]
    BY <1>1 DEF InCall
  <2>3. call[u].res # NULL => heap'[call[u].res.blk] = heap[call[u].res.blk]
    BY <1>1 DEF InCall
  <2>4. Asked(u)' /\ Answered(u)'
    BY <2>1, <2>3 DEF InOrder, Asked, Answered, Asking
  <2>5. call'[u].ptr # NULL => Sound(call[u].ptr)' /\ Filled(call[u].ptr)'
    BY <2>1, <2>2, SameBlock DEF InOrder
  <2>6. call'[u].res # NULL => Sound(call[u].res)'
    BY <2>1, <2>3, SameBlock DEF InOrder
  <2> QED BY <2>1, <2>4, <2>5, <2>6 DEF InOrder
<1> QED BY <1>2, <1>3 DEF SpaceInv

\* A call whose blocks are not written, and that goes on asking only if it was.
LEMMA QuietOrder ==
  ASSUME NEW t \in Threads, InOrder(t), call'[t] = call[t],
         call[t].ptr # NULL => heap'[call[t].ptr.blk] = heap[call[t].ptr.blk],
         call[t].res # NULL => heap'[call[t].res.blk] = heap[call[t].res.blk],
         Asking(t)' => Asking(t), pc[t] # "malloc_count", pc'[t] # "malloc_count"
  PROVE  InOrder(t)'
<1>1. Asked(t)' /\ Answered(t)'
  BY DEF InOrder, Asked, Answered
<1>2. call'[t].ptr # NULL => Sound(call[t].ptr)' /\ Filled(call[t].ptr)'
  BY SameBlock DEF InOrder
<1>3. call'[t].res # NULL => Sound(call[t].res)'
  BY SameBlock DEF InOrder
<1> QED BY <1>1, <1>2, <1>3 DEF InOrder

\* A call that fails has what it was passed and nothing else.
LEMMA FailedOrder ==
  ASSUME TypeOK, NEW t \in Threads, InOrder(t), UNCHANGED heap, Result(t, call[t], NULL),
         call[t].res = NULL
  PROVE  InOrder(t)'
<1>c. PICK c : c = call[t]
  OBVIOUS
<1> USE <1>c
<1>1. c \in Call
  BY DEF TypeOK
<1>2. call'[t] = [c EXCEPT !.res = NULL] /\ pc'[t] = "return"
  BY DEF Result, Set, Goto, TypeOK
<1>3. /\ call'[t].res = NULL /\ call'[t].ptr = c.ptr /\ call'[t].op = c.op
      /\ call'[t].len = c.len /\ call'[t].had = c.had
  BY <1>1, <1>2, CallSelect, CallRest
<1>4. ~Asking(t)'
  BY <1>2 DEF Asking, LifecycleSteps
<1>5. Asked(t)' /\ Answered(t)'
  BY <1>2, <1>3, <1>4 DEF InOrder, Asked, Answered
<1>6. call'[t].ptr # NULL => Sound(call[t].ptr)' /\ Filled(call[t].ptr)'
  BY <1>3, SameBlock DEF InOrder
<1> QED BY <1>3, <1>5, <1>6 DEF InOrder

\* A pointer to a block without a header, and to one with it.
LEMMA NewSound ==
  ASSUME NEW b \in Blocks, NEW o \in Nat, NEW m \in Nat, NEW k \in Block, heap'[b] = k,
         o + m <= k.cap,
         o = 0 \/ /\ o >= HeaderSize /\ k.hdr.req \in {m, AtLeastOne(m)}
                  /\ o + k.hdr.req <= k.cap
  PROVE  Sound(Ptr(b, o, m))'
  BY DEF Sound, Ptr, HasHeader, HeaderOf

\* A call that got a block.
LEMMA NewOrder ==
  ASSUME TypeOK, NEW t \in Threads, NEW c, c = call[t],
         InOrder(t), NEW b \in Blocks, NEW o \in Nat,
         call'[t].res = Ptr(b, o, c.len), call'[t].ptr \in {NULL, c.ptr},
         call'[t].op = c.op, call'[t].len = c.len, call'[t].had = c.had,
         pc'[t] \in {"return", "malloc_count", "realloc_freed"},
         pc'[t] = "malloc_count" => call'[t].size >= c.len /\ c.op # "realloc",
         call'[t].ptr # NULL => heap'[c.ptr.blk] = heap[c.ptr.blk],
         Sound(Ptr(b, o, c.len))',
         c.op = "realloc" => heap'[b].data >= Smaller(c.had, c.len),
         c.op \in {"calloc", "calloc_malloc"} /\ pc'[t] # "malloc_count"
           => heap'[b].data >= c.len
  PROVE  InOrder(t)'
<1>1. Ptr(b, o, c.len).blk = b /\ Ptr(b, o, c.len).len = c.len
  BY DEF Ptr
<1>2. ~Asking(t)'
  BY DEF Asking, LifecycleSteps
<1>3. Asked(t)'
  BY <1>1, <1>2 DEF InOrder, Asked
<1>4. Answered(t)'
  BY <1>1 DEF Answered
<1>5. call'[t].ptr # NULL => Sound(c.ptr)' /\ Filled(c.ptr)'
  BY SameBlock DEF InOrder
<1>6. Sound(call[t].res)'
  OBVIOUS
<1> QED BY <1>3, <1>4, <1>5, <1>6 DEF InOrder

\* libc's realloc keeps the common prefix.
LEMMA LibcReallocOrder ==
  ASSUME NoWrap, TypeOK, NEW t \in Threads, InOrder(t), LibcRealloc(t), call[t].ptr # NULL,
         call[t].res = NULL, call[t].op = "realloc", pc[t] \in {"system", "body"}
  PROVE  InOrder(t)'
<1>c. PICK c : c = call[t]
  OBVIOUS
<1> USE <1>c
<1> DEFINE p == c.ptr
           kept == Smaller(heap[p.blk].data, c.size)
           k == [NewBlock(c.size, NoHeader) EXCEPT !.data = kept]
<1>1. /\ c \in Call /\ p \in Pointer /\ p.blk \in Blocks /\ c.size \in Nat /\ c.len \in Nat
      /\ c.had \in Nat /\ p.len \in Nat /\ heap[p.blk] \in Block
  BY CallFields, PointerTypes DEF TypeOK
<1>2. heap[p.blk].data = p.len /\ c.had = p.len /\ c.size = c.len /\ c.len \in Lens
  BY DEF InOrder, Asked, Asking, Filled
<1>3. CASE fault' = TRUE /\ UNCHANGED <<heap, pc, call>>
  BY <1>3, QuietOrder DEF Asking
<1>4. CASE /\ heap' = [heap EXCEPT ![p.blk] = FreeBlock]
           /\ Result(t, [c EXCEPT !.ptr = NULL], NULL)
  <2>1. call'[t] = [[c EXCEPT !.ptr = NULL] EXCEPT !.res = NULL] /\ pc'[t] = "return"
    BY <1>4 DEF Result, Set, Goto, TypeOK
  <2>2. call'[t].ptr = NULL /\ call'[t].res = NULL /\ call'[t].len = c.len
    BY <1>1, <2>1, CallSelect, CallRest
  <2> QED BY <1>2, <2>1, <2>2 DEF InOrder, Asked, Answered, Asking, LifecycleSteps
<1>5. CASE Result(t, c, NULL) /\ UNCHANGED heap
  BY <1>5, FailedOrder
<1>6. ASSUME NEW b \in Available \cup {p.blk},
             heap' = [heap EXCEPT ![p.blk] = FreeBlock, ![b] = k],
             Result(t, [c EXCEPT !.ptr = NULL], Ptr(b, 0, c.len))
      PROVE  InOrder(t)'
  <2>1. b \in Blocks
    BY <1>1 DEF Available
  <2>2. call'[t] = [[c EXCEPT !.ptr = NULL] EXCEPT !.res = Ptr(b, 0, c.len)]
        /\ pc'[t] = "return"
    BY <1>6 DEF Result, Set, Goto, TypeOK
  <2>3. /\ call'[t].ptr = NULL /\ call'[t].res = Ptr(b, 0, c.len) /\ call'[t].op = c.op
        /\ call'[t].len = c.len /\ call'[t].had = c.had
    BY <1>1, <2>2, CallSelect, CallRest
  <2>4. heap'[b] = k
    BY <1>6, <2>1 DEF TypeOK
  <2>5. k.cap = c.len /\ k.data = Smaller(c.had, c.len) /\ k \in Block
    BY <1>1, <1>2, BlockTypes, NewTypes, SizeTypes DEF NewBlock
  <2> HIDE DEF k
  <2>6. Sound(Ptr(b, 0, c.len))'
    BY <1>1, <2>1, <2>4, <2>5, NewSound
  <2>7. heap'[b].data >= Smaller(c.had, c.len)
    <3>1. Smaller(c.had, c.len) \in Nat
      BY <1>1, SizeTypes
    <3>2. heap'[b].data = Smaller(c.had, c.len)
      BY <2>4, <2>5
    <3> QED BY <3>1, <3>2
  <2>8. pc'[t] = "return" /\ c.op = "realloc"
    BY <2>2
  <2> HIDE DEF p
  <2> QED BY <2>1, <2>3, <2>6, <2>7, <2>8, NewOrder
<1> QED BY <1>3, <1>4, <1>5, <1>6 DEF LibcRealloc

\* An aligned allocation has room for its header and the request.
LEMMA AlignedBlockOrder ==
  ASSUME NoWrap, TypeOK, NEW t \in Threads, InOrder(t), NEW n \in Nat, AlignedBlock(t, n),
         n \in {call[t].len, AtLeastOne(call[t].len)}, call[t].res = NULL,
         call[t].op = "aligned", call[t].ptr = NULL
  PROVE  InOrder(t)'
<1>c. PICK c : c = call[t]
  OBVIOUS
<1> USE <1>c
<1>1. c \in Call /\ c.align \in Aligns \cup {0} /\ c.len \in Nat
  BY CallFields DEF TypeOK
<1>2. Small(n) /\ n >= c.len
  BY LensSmall DEF InOrder, Asked
<1>3. CASE Result(t, c, NULL) /\ UNCHANGED heap
  BY <1>3, FailedOrder
<1>4. ASSUME NEW b \in Available,
        heap' = [heap EXCEPT ![b] =
                   NewBlock(AlignedSize(n, c.align), NewHeader(AlignedOffset(b, c.align), n))],
        Result(t, c, Ptr(b, AlignedOffset(b, c.align), c.len))
      PROVE InOrder(t)'
  <2> DEFINE o == AlignedOffset(b, c.align)
             s == AlignedSize(n, c.align)
             k == NewBlock(s, NewHeader(o, n))
  <2>0. \A a \in Aligns \cup {0} : a \in Nat
    BY ConstantTypes
  <2>1. b \in Blocks /\ o \in Nat /\ o >= HeaderSize /\ s \in Nat
    BY <1>1, <2>0, AlignedOffsetType, SizeTypes DEF Available
  <2>2. o + n <= s
    BY <1>1, <1>2, <2>1, AlignedFits
  <2>3. call'[t] = [c EXCEPT !.res = Ptr(b, o, c.len)] /\ pc'[t] = "return"
    BY <1>4 DEF Result, Set, Goto, TypeOK
  <2>4. /\ call'[t].ptr = c.ptr /\ call'[t].res = Ptr(b, o, c.len) /\ call'[t].op = c.op
        /\ call'[t].len = c.len /\ call'[t].had = c.had
    BY <1>1, <2>3, CallSelect, CallRest
  <2>5. heap'[b] = k
    BY <1>4, <2>1 DEF TypeOK
  <2> HIDE DEF o, s
  <2>6. k \in Block /\ k.cap = s /\ k.hdr.req = n
    BY <2>1, BlockTypes DEF NewBlock, NewHeader
  <2>7. o + c.len <= s
    BY <1>1, <1>2, <2>1, <2>2
  <2> HIDE DEF k
  <2>8. Sound(Ptr(b, o, c.len))'
    BY <1>1, <2>1, <2>2, <2>5, <2>6, <2>7, NewSound
  <2> QED BY <2>1, <2>3, <2>4, <2>8, NewOrder
<1> QED BY <1>3, <1>4 DEF AlignedBlock

\* The calls and the return of a client.
LEMMA ClientSpace ==
  ASSUME NoWrap, TypeOK, CallShape, Exclusive, SpaceInv, NEW t \in Threads, Client(t), Only(t),
         Local(t), owned' \subseteq owned \cup InCall(t)
  PROVE  SpaceInv'
<1>c. PICK c : c = call[t]
  OBVIOUS
<1> USE <1>c
<1>0. Shape(t) /\ InOrder(t) /\ c \in Call
  BY DEF CallShape, SpaceInv, TypeOK
<1>1. CASE ~Return(t)
  <2>1. PICK op \in AllOps, l \in Entries, d \in Call :
          l = EntryOf(op) /\ Asks(op, d) /\ Begin(t, op, l, d)
    BY <1>1, ClientCalls DEF CallsEntry
  <2>2. /\ pc[t] = "idle" /\ pc'[t] = l /\ call'[t] = [d EXCEPT !.op = op]
        /\ UNCHANGED heap
    BY <2>1 DEF Begin, Set, Goto, Running, TypeOK
  <2>3. /\ call'[t].ptr = d.ptr /\ call'[t].res = NULL /\ call'[t].op = op
        /\ call'[t].len = d.len /\ call'[t].size = d.size /\ call'[t].had = d.had
    BY <2>1, <2>2, CallSelect, CallRest DEF Asks
  <2>4. d.len \in Lens /\ d.size = d.len
    BY <2>1, LensSmall DEF Asks
  <2>5. d.ptr # NULL => Sound(d.ptr) /\ Filled(d.ptr)
    BY <2>1 DEF Asks, SpaceInv
  <2>6. d.ptr # NULL => Sound(d.ptr)' /\ Filled(d.ptr)'
    BY <2>2, <2>5, SameBlock
  <2>7. l # "malloc_count"
    BY <2>1 DEF Entries
  <2>8. Asked(t)'
    BY <2>1, <2>2, <2>3, <2>4, <2>7 DEF Asked, Asks
  <2>9. InOrder(t)'
    BY <2>3, <2>6, <2>8 DEF InOrder, Answered
  <2>10. InCall(t) = {}
    BY <1>0, <2>2 DEF Shape, InCall
  <2> QED BY <2>9, <2>10, OwnSpace
<1>2. CASE Return(t)
  <2>1. call'[t] = NoCall /\ pc'[t] = "idle"
    BY <1>2 DEF Return, Set, Goto, TypeOK
  <2>2. 0 \in Lens
    BY DEF Lens
  <2>3. InOrder(t)'
    BY <2>1, <2>2 DEF InOrder, Asked, Answered, Asking, LifecycleSteps, NoCall
  <2>4. CASE c.res = NULL
    <3>1. UNCHANGED heap
      BY <1>2, <2>4 DEF Return
    <3>2. InCall(t) = {c.ptr} \ {NULL}
      BY <2>4 DEF InCall
    <3>3. \A p \in InCall(t) : Sound(p)' /\ Filled(p)'
      BY <1>0, <3>1, <3>2, SameBlock DEF InOrder
    <3> QED BY <2>3, <3>3, OwnSpace
  <2>5. CASE c.res # NULL
    <3>1. InCall(t) = {c.res}
      BY <1>0, <1>2, <2>5 DEF Return, Running, Shape, InCall
    <3>2. c.res.blk \in Blocks /\ c.res.len \in Nat
      BY <2>5, CallHands, PointerTypes
    <3>3. heap'[c.res.blk] = [heap[c.res.blk] EXCEPT !.data = c.res.len]
      BY <1>2, <2>5, <3>2 DEF Return, TypeOK
    <3>4. /\ heap'[c.res.blk].hdr = heap[c.res.blk].hdr
          /\ heap'[c.res.blk].cap = heap[c.res.blk].cap
          /\ heap'[c.res.blk].data = c.res.len
      BY <3>2, <3>3 DEF TypeOK, Block
    <3>5. Sound(c.res)' /\ Filled(c.res)'
      BY <1>0, <2>5, <3>4 DEF InOrder, Sound, Filled, HasHeader, HeaderOf
    <3> QED BY <2>3, <3>1, <3>5, OwnSpace
  <2> QED BY <2>4, <2>5
<1> QED BY <1>1, <1>2

\* The guard and its fallbacks to libc.
LEMMA GuardOrder ==
  ASSUME NoWrap, TypeOK, CallShape, NEW t \in Threads, InOrder(t), Guard(t)
  PROVE  InOrder(t)'
<1>c. PICK c : c = call[t]
  OBVIOUS
<1> USE <1>c
<1>0. Shape(t) /\ c \in Call /\ c.size \in Nat /\ c.len \in Nat /\ c.had \in Nat
  BY CallFields DEF CallShape, TypeOK
<1>1. CASE Enter(t) \/ EnterInitializing(t)
  <2>1. /\ UNCHANGED <<heap, call>> /\ pc[t] \in {"enter", "enter_initializing"}
        /\ pc'[t] \in {"body", "enter_initializing", "system", "init"}
    BY <1>1 DEF Enter, EnterInitializing, Running, Goto, TypeOK
  <2> QED BY <2>1, QuietOrder DEF Asking
<1>r. ASSUME Running(t, "system")
      PROVE  /\ c.res = NULL /\ c.size \in {c.len, AtLeastOne(c.len)} /\ c.len \in Lens
             /\ c.op = "realloc" /\ c.ptr = NULL => c.had = 0
  BY <1>0, <1>r DEF Shape, Running, InOrder, Asked, Asking
<1>2. CASE SystemMalloc(t)
  <2>0. /\ Running(t, "system")
        /\ \/ c.op \in {"malloc", "calloc", "calloc_malloc"}
           \/ c.op = "realloc" /\ c.ptr = NULL
    BY <1>2 DEF SystemMalloc
  <2>1. CASE Result(t, c, NULL) /\ UNCHANGED heap
    BY <1>r, <2>0, <2>1, FailedOrder
  <2>2. ASSUME NEW b \in Available,
          heap' = [heap EXCEPT ![b] =
                     [NewBlock(c.size, NoHeader) EXCEPT !.data = Cleared(c, c.size)]],
          Result(t, c, Ptr(b, 0, c.len))
        PROVE InOrder(t)'
    <3> DEFINE k == [NewBlock(c.size, NoHeader) EXCEPT !.data = Cleared(c, c.size)]
    <3>1. b \in Blocks /\ Cleared(c, c.size) \in Nat
      BY <1>0 DEF Available, Cleared
    <3>2. k \in Block /\ k.cap = c.size /\ k.data = Cleared(c, c.size)
      BY <1>0, <3>1, BlockTypes, NewTypes DEF NewBlock
    <3>3. call'[t] = [c EXCEPT !.res = Ptr(b, 0, c.len)] /\ pc'[t] = "return"
      BY <2>2 DEF Result, Set, Goto, TypeOK
    <3>4. /\ call'[t].ptr = c.ptr /\ call'[t].res = Ptr(b, 0, c.len) /\ call'[t].op = c.op
          /\ call'[t].len = c.len /\ call'[t].had = c.had
      BY <1>0, <3>3, CallSelect, CallRest
    <3>5. heap'[b] = k
      BY <2>2, <3>1 DEF TypeOK
    <3> HIDE DEF k
    <3>6. c.size >= c.len
      BY <1>0, <1>r, <2>0 DEF AtLeastOne
    <3>7. Sound(Ptr(b, 0, c.len))'
      BY <1>0, <3>1, <3>2, <3>5, <3>6, NewSound
    <3>8. c.ptr = NULL
      BY <1>0, <2>0 DEF Shape
    <3>9. c.op = "realloc" => heap'[b].data >= Smaller(c.had, c.len)
      BY <1>0, <1>r, <2>0, <3>1, <3>2, <3>5, <3>8 DEF Smaller
    <3>10. c.op \in {"calloc", "calloc_malloc"} => heap'[b].data >= c.len
      BY <3>2, <3>5, <3>6 DEF Cleared
    <3> QED BY <3>1, <3>3, <3>4, <3>7, <3>8, <3>9, <3>10, NewOrder
  <2> QED BY <1>2, <2>1, <2>2 DEF SystemMalloc
<1>3. CASE SystemAligned(t)
  <2>1. c.ptr = NULL
    BY <1>0, <1>3 DEF SystemAligned, Shape
  <2> QED BY <1>0, <1>3, <1>r, <2>1, AlignedBlockOrder DEF SystemAligned
<1>4. CASE SystemRealloc(t)
  BY <1>4, <1>r, LibcReallocOrder DEF SystemRealloc, Running
<1> QED BY <1>1, <1>2, <1>3, <1>4 DEF Guard

\* malloc has room for its header and the request.
LEMMA MallocOrder ==
  ASSUME NoWrap, TypeOK, CallShape, NEW t \in Threads, InOrder(t), Malloc(t)
  PROVE  InOrder(t)'
<1>c. PICK c : c = call[t]
  OBVIOUS
<1> USE <1>c
<1> DEFINE n == AtLeastOne(c.size)
           k == NewBlock(TotalSize(n), NewHeader(HeaderSize, n))
<1>0. Shape(t) /\ c \in Call /\ c.size \in Nat /\ c.len \in Nat
  BY CallFields DEF CallShape, TypeOK
<1>1. c.res = NULL /\ c.ptr = NULL /\ c.op \in {"malloc", "calloc_malloc"}
  BY <1>0 DEF Malloc, Running, Shape
<1>2. c.size \in {c.len, AtLeastOne(c.len)} /\ c.len \in Lens
  BY DEF Malloc, Running, InOrder, Asked, Asking
<1>3. n = AtLeastOne(c.len)
  BY <1>0, <1>2 DEF AtLeastOne
<1>4. n \in Nat /\ n >= c.len /\ Small(n)
  BY <1>2, <1>3, LensSmall
<1>5. HeaderSize \in Nat /\ TotalSize(n) \in Nat /\ HeaderSize + n <= TotalSize(n)
  BY <1>4, ConstantTypes, SizeTypes, TotalFits
<1>6. CASE Result(t, c, NULL) /\ UNCHANGED heap
  BY <1>1, <1>6, FailedOrder
<1>7. CASE HeaderedBlock(t, n) /\ Goto(t, "malloc_count")
  <2>1. PICK b \in Available : heap' = [heap EXCEPT ![b] = k]
          /\ Set(t, [c EXCEPT !.size = n, !.res = Ptr(b, HeaderSize, c.len)])
    BY <1>7 DEF HeaderedBlock
  <2>2. call'[t] = [c EXCEPT !.size = n, !.res = Ptr(b, HeaderSize, c.len)]
        /\ pc'[t] = "malloc_count"
    BY <1>7, <2>1 DEF Set, Goto, TypeOK
  <2> HIDE DEF n
  <2>3. /\ call'[t].ptr = c.ptr /\ call'[t].res = Ptr(b, HeaderSize, c.len)
        /\ call'[t].op = c.op /\ call'[t].len = c.len /\ call'[t].had = c.had
        /\ call'[t].size = n
    BY <1>0, <2>2, CallSelect, CallRest
  <2>4. b \in Blocks /\ heap'[b] = k
    BY <2>1 DEF Available, TypeOK
  <2>5. k \in Block /\ k.cap = TotalSize(n) /\ k.hdr.req = n
    BY <1>4, <1>5, BlockTypes DEF NewBlock, NewHeader
  <2> HIDE DEF k
  <2>6. HeaderSize + c.len <= TotalSize(n)
    BY <1>0, <1>4, <1>5
  <2>7. Sound(Ptr(b, HeaderSize, c.len))'
    BY <1>0, <1>3, <1>5, <2>4, <2>5, <2>6, NewSound
  <2> QED BY <1>1, <1>4, <1>5, <2>2, <2>3, <2>4, <2>7, NewOrder
<1> QED BY <1>6, <1>7 DEF Malloc

\* calloc clears its block before it returns it.
LEMMA MallocCountOrder ==
  ASSUME TypeOK, CallShape, NEW t \in Threads, InOrder(t), MallocCount(t)
  PROVE  InOrder(t)'
<1>c. PICK c : c = call[t]
  OBVIOUS
<1> USE <1>c
<1>0. Shape(t) /\ c \in Call /\ c.size \in Nat /\ c.len \in Nat
  BY CallFields DEF CallShape, TypeOK
<1>1. /\ c.res # NULL /\ c.ptr = NULL /\ pc'[t] = "return" /\ call'[t] = c
      /\ pc[t] = "malloc_count"
  BY <1>0 DEF MallocCount, Running, Shape, Goto, TypeOK
<1>2. c.op # "realloc" /\ c.size >= c.len
  BY <1>1 DEF InOrder, Asked, MallocCount, Running
<1>3. c.res.blk \in Blocks
  BY <1>1, CallHands
<1>4. heap'[c.res.blk] = [heap[c.res.blk] EXCEPT !.data = Cleared(c, c.size)]
  BY <1>3 DEF MallocCount, TypeOK
<1>5. /\ heap'[c.res.blk].hdr = heap[c.res.blk].hdr
      /\ heap'[c.res.blk].cap = heap[c.res.blk].cap
      /\ heap'[c.res.blk].data = Cleared(c, c.size)
  BY <1>3, <1>4 DEF TypeOK, Block
<1>6. Sound(c.res)'
  BY <1>1, <1>5 DEF InOrder, Sound, HasHeader, HeaderOf
<1>7. Asked(t)'
  BY <1>1 DEF InOrder, Asked, Asking, LifecycleSteps
<1>8. Answered(t)'
  BY <1>1, <1>2, <1>5 DEF Answered, Cleared
<1> QED BY <1>1, <1>6, <1>7, <1>8 DEF InOrder

\* A shrinking realloc rewrites the size in the header and nothing else.
LEMMA ReallocShrinkOrder ==
  ASSUME NoWrap, TypeOK, CallShape, NEW t \in Threads, InOrder(t), ReallocShrink(t)
  PROVE  InOrder(t)'
<1>c. PICK c : c = call[t]
  OBVIOUS
<1> USE <1>c
<1> DEFINE p == c.ptr
           r == Ptr(p.blk, p.off, c.len)
<1>0. /\ c \in Call /\ c.size \in Nat /\ c.len \in Nat /\ c.had \in Nat
      /\ c.ptr \in Pointer \cup {NULL}
  BY CallFields DEF TypeOK
<1>1. /\ pc[t] = "body" /\ c.op = "realloc" /\ p # NULL /\ HasHeader(p)
      /\ c.size <= HeaderOf(p).req
  BY DEF ReallocShrink, Running
<1>2. p \in Pointer /\ p.blk \in Blocks /\ p.off \in Nat /\ p.len \in Nat /\ heap[p.blk] \in Block
  BY <1>0, <1>1, PointerTypes DEF TypeOK
<1>3. c.size = c.len /\ c.had = p.len /\ Sound(p) /\ heap[p.blk].data = p.len
  BY <1>1 DEF InOrder, Asked, Asking, Filled
<1>4. call'[t] = [[c EXCEPT !.ptr = NULL] EXCEPT !.res = r] /\ pc'[t] = "return"
  BY DEF ReallocShrink, Result, Set, Goto, TypeOK
<1>5. /\ call'[t].ptr = NULL /\ call'[t].res = r /\ call'[t].op = c.op
      /\ call'[t].len = c.len /\ call'[t].had = c.had
  BY <1>0, <1>4, CallSelect, CallRest
<1>6. heap'[p.blk] = [heap[p.blk] EXCEPT !.hdr.req = c.size]
  BY <1>2 DEF ReallocShrink, TypeOK
<1>7. /\ heap'[p.blk].hdr.req = c.size /\ heap'[p.blk].cap = heap[p.blk].cap
      /\ heap'[p.blk].data = heap[p.blk].data
  BY <1>2, <1>6 DEF Block, Header
<1>8. /\ heap[p.blk].cap \in Nat /\ HeaderOf(p).req \in Nat /\ HeaderSize \in Nat
      /\ heap'[p.blk] \in Block
  <2>1. heap[p.blk].cap \in Nat /\ HeaderOf(p).req \in Nat
    BY <1>2, BlockTypes DEF HeaderOf
  <2>2. \A k \in Block, n \in Nat : [k EXCEPT !.hdr.req = n] \in Block
    BY BlockTypes
  <2>3. [heap[p.blk] EXCEPT !.hdr.req = c.size] \in Block
    BY <1>0, <1>2, <2>2, Zenon
  <2>4. heap'[p.blk] \in Block
    BY <1>6, <2>3, Zenon
  <2> QED BY <2>1, <2>4, ConstantTypes
<1>9. p.off >= HeaderSize /\ p.off + HeaderOf(p).req <= heap[p.blk].cap
  BY <1>1, <1>3 DEF Sound
<1>10. p.off + c.len <= heap'[p.blk].cap
  BY <1>0, <1>1, <1>2, <1>3, <1>7, <1>8, <1>9
<1> HIDE DEF p
<1>11. Sound(Ptr(p.blk, p.off, c.len))'
  <2>1. /\ heap'[p.blk].hdr.req \in {c.len, AtLeastOne(c.len)}
        /\ p.off + heap'[p.blk].hdr.req <= heap'[p.blk].cap
    BY <1>3, <1>7, <1>10
  <2> QED BY <1>0, <1>2, <1>8, <1>9, <1>10, <2>1, NewSound
<1>12. heap'[p.blk].data >= Smaller(c.had, c.len)
  BY <1>0, <1>2, <1>3, <1>7 DEF Smaller
<1> QED BY <1>1, <1>2, <1>4, <1>5, <1>11, <1>12, NewOrder

\* A growing realloc copies as much as its owner had.
LEMMA ReallocGrowOrder ==
  ASSUME NoWrap, TypeOK, CallShape, Exclusive, NEW t \in Threads, InOrder(t), ReallocGrow(t)
  PROVE  InOrder(t)'
<1>c. PICK c : c = call[t]
  OBVIOUS
<1> USE <1>c
<1> DEFINE p == c.ptr
           k == [NewBlock(TotalSize(c.size), NewHeader(HeaderSize, c.size)) EXCEPT
                   !.data = Copied(p)]
<1>0. /\ Shape(t) /\ c \in Call /\ c.size \in Nat /\ c.len \in Nat /\ c.had \in Nat
      /\ c.ptr \in Pointer \cup {NULL}
  BY CallFields DEF CallShape, TypeOK
<1>1. /\ pc[t] = "body" /\ c.op = "realloc" /\ p # NULL /\ HasHeader(p) /\ c.res = NULL
  BY <1>0 DEF ReallocGrow, Running, Shape
<1>2. /\ p \in Pointer /\ p.blk \in Blocks /\ p.len \in Nat /\ heap[p.blk] \in Block
      /\ heap[p.blk].live
  BY <1>0, <1>1, PointerTypes DEF TypeOK, Exclusive, InCall
<1>3. /\ c.size = c.len /\ c.had = p.len /\ Sound(p) /\ heap[p.blk].data = p.len
      /\ c.len \in Lens
  BY <1>1 DEF InOrder, Asked, Asking, Filled
<1>4. HeaderOf(p).req \in {p.len, AtLeastOne(p.len)}
  BY <1>1, <1>3 DEF Sound
<1>5. Copied(p) = p.len
  BY <1>2, <1>3, <1>4 DEF Copied, Smaller, AtLeastOne
<1>6. /\ HeaderSize \in Nat /\ TotalSize(c.size) \in Nat
      /\ HeaderSize + c.size <= TotalSize(c.size)
  BY <1>0, <1>3, LensSmall, TotalFits, ConstantTypes, SizeTypes
<1>7. k \in Block /\ k.cap = TotalSize(c.size) /\ k.hdr.req = c.size /\ k.data = p.len
  <2>1. NewHeader(HeaderSize, c.size) \in Header /\ Copied(p) \in Nat
    BY <1>0, <1>2, <1>5, <1>6, BlockTypes
  <2>2. k \in Block
    BY <1>6, <2>1, NewTypes
  <2> QED BY <1>5, <2>2 DEF NewBlock, NewHeader
<1>8. CASE Result(t, c, NULL) /\ UNCHANGED heap
  BY <1>1, <1>8, FailedOrder
<1>9. ASSUME NEW b \in Available, heap' = [heap EXCEPT ![b] = k], Goto(t, "realloc_freed"),
             Set(t, [c EXCEPT !.old = HeaderOf(p).req, !.res = Ptr(b, HeaderSize, c.len)])
      PROVE InOrder(t)'
  <2>1. call'[t] = [c EXCEPT !.old = HeaderOf(p).req, !.res = Ptr(b, HeaderSize, c.len)]
    BY <1>9 DEF Set, TypeOK
  <2>2. /\ call'[t].ptr = p /\ call'[t].res = Ptr(b, HeaderSize, c.len)
        /\ call'[t].op = c.op /\ call'[t].len = c.len /\ call'[t].had = c.had
    BY <1>0, <2>1, CallSelect, CallRest
  <2>3. b \in Blocks /\ ~heap[b].live /\ heap'[b] = k
    BY <1>9 DEF Available, TypeOK
  <2>4. heap'[p.blk] = heap[p.blk]
    BY <1>2, <1>9, <2>3 DEF TypeOK
  <2>5. pc'[t] = "realloc_freed"
    BY <1>9 DEF Goto, TypeOK
  <2> HIDE DEF k, p
  <2>6. Sound(Ptr(b, HeaderSize, c.len))'
    BY <1>0, <1>3, <1>6, <1>7, <2>3, NewSound
  <2>7. heap'[b].data >= Smaller(c.had, c.len)
    BY <1>0, <1>2, <1>3, <1>7, <2>3 DEF Smaller
  <2>8. call'[t].ptr \in {NULL, c.ptr} /\ heap'[c.ptr.blk] = heap[c.ptr.blk]
    BY <2>2, <2>4 DEF p
  <2> QED BY <1>1, <1>6, <2>2, <2>3, <2>5, <2>6, <2>7, <2>8, NewOrder
<1> QED BY <1>8, <1>9 DEF ReallocGrow

\* The bodies of the entry points.
LEMMA BodyOrder ==
  ASSUME NoWrap, TypeOK, CallShape, Exclusive, NEW t \in Threads, InOrder(t), Body(t)
  PROVE  InOrder(t)'
<1>c. PICK c : c = call[t]
  OBVIOUS
<1> USE <1>c
<1> DEFINE p == c.ptr
<1>0. Shape(t) /\ c \in Call /\ c.size \in Nat /\ c.len \in Nat
  BY CallFields DEF CallShape, TypeOK
<1>b. ASSUME Running(t, "body")
      PROVE  /\ pc[t] = "body" /\ c.res = NULL
             /\ c.size \in {c.len, AtLeastOne(c.len)} /\ c.len \in Lens
  BY <1>0, <1>b DEF Shape, Running, InOrder, Asked, Asking
<1>a. c.size \in {c.len, AtLeastOne(c.len)}
        => AtLeastOne(c.size) \in {c.len, AtLeastOne(c.len)} /\ AtLeastOne(c.size) \in Nat
  BY <1>0 DEF AtLeastOne
<1>1. CASE Malloc(t)
  BY <1>1, MallocOrder
<1>2. CASE MallocCount(t)
  BY <1>2, MallocCountOrder
<1>3. CASE Calloc(t)
  <2>1. /\ call'[t] = [c EXCEPT !.op = "calloc_malloc", !.size = AtLeastOne(c.size)]
        /\ pc'[t] = "enter" /\ UNCHANGED heap /\ c.op = "calloc" /\ Running(t, "body")
    BY <1>3 DEF Calloc, Set, Goto, TypeOK
  <2>2. /\ call'[t].ptr = c.ptr /\ call'[t].res = c.res /\ call'[t].op = "calloc_malloc"
        /\ call'[t].len = c.len /\ call'[t].size = AtLeastOne(c.size)
    BY <1>0, <2>1, CallSelect, CallRest
  <2>3. c.res = NULL /\ c.ptr = NULL
    BY <1>0, <1>b, <2>1 DEF Shape
  <2> QED BY <1>a, <1>b, <2>1, <2>2, <2>3 DEF InOrder, Asked, Answered
<1>4. CASE Aligned(t)
  <2>1. c.ptr = NULL /\ c.res = NULL /\ c.op = "aligned"
    BY <1>0, <1>b, <1>4 DEF Aligned, Shape
  <2> QED BY <1>0, <1>a, <1>b, <1>4, <2>1, AlignedBlockOrder, FailedOrder DEF Aligned
<1>5. CASE ReallocForward(t)
  <2>0. Running(t, "body") /\ UNCHANGED heap /\ c.op = "realloc"
    BY <1>5 DEF ReallocForward
  <2>1. CASE c.ptr = NULL /\ Set(t, [c EXCEPT !.op = "malloc"]) /\ Goto(t, "enter")
    <3>1. call'[t] = [c EXCEPT !.op = "malloc"] /\ pc'[t] = "enter"
      BY <2>1 DEF Set, Goto, TypeOK
    <3>2. /\ call'[t].ptr = NULL /\ call'[t].res = NULL /\ call'[t].op = "malloc"
          /\ call'[t].len = c.len /\ call'[t].size = c.size
      BY <1>0, <1>b, <2>0, <2>1, <3>1, CallSelect, CallRest
    <3> QED BY <1>b, <2>0, <3>1, <3>2 DEF InOrder, Asked, Answered
  <2>2. CASE Goto(t, "free") /\ UNCHANGED call
    <3>1. pc'[t] = "free" /\ pc[t] = "body"
      BY <2>0, <2>2 DEF Goto, TypeOK, Running
    <3> QED BY <2>0, <2>2, <3>1, QuietOrder DEF Asking, LifecycleSteps
  <2> QED BY <1>5, <2>1, <2>2 DEF ReallocForward
<1>6. CASE ReallocForeign(t)
  BY <1>6, <1>b, LibcReallocOrder DEF ReallocForeign
<1>7. CASE ReallocShrink(t)
  BY <1>7, ReallocShrinkOrder
<1>8. CASE ReallocGrow(t)
  BY <1>8, ReallocGrowOrder
<1>9. CASE ReallocFreed(t) \/ ReallocAllocated(t) \/ Free(t) \/ FreeInitializing(t)
           \/ FreeHeader(t)
  <2>1. /\ UNCHANGED <<heap, call>>
        /\ pc[t] \in {"realloc_freed", "realloc_allocated", "free", "free_initializing",
                      "free_header"}
        /\ pc'[t] \in {"realloc_allocated", "free_block", "return", "free_initializing",
                       "free_raw", "free_header"}
    BY <1>9 DEF ReallocFreed, ReallocAllocated, Free, FreeInitializing, FreeHeader, Running,
                Goto, TypeOK
  <2> QED BY <2>1, QuietOrder DEF Asking, LifecycleSteps
<1>f. ASSUME NEW o, p # NULL, LibcFree(p.blk, o), Set(t, [c EXCEPT !.ptr = NULL]),
             Goto(t, "return"), pc[t] # "malloc_count"
      PROVE  InOrder(t)'
  <2>1. call'[t] = [c EXCEPT !.ptr = NULL] /\ pc'[t] = "return"
    BY <1>f DEF Set, Goto, TypeOK
  <2>2. /\ call'[t].ptr = NULL /\ call'[t].res = c.res /\ call'[t].op = c.op
        /\ call'[t].len = c.len /\ call'[t].had = c.had
    BY <1>0, <2>1, CallSelect, CallRest
  <2>3. c.res # NULL => heap'[c.res.blk] = heap[c.res.blk]
    <3>1. p.blk \in Blocks /\ (c.res # NULL => c.res.blk \in Blocks /\ c.res.blk # p.blk)
      BY <1>f, CallHands DEF Exclusive
    <3> QED BY <1>f, <3>1 DEF LibcFree, TypeOK
  <2>4. c.res # NULL => Sound(c.res)'
    BY <2>3, SameBlock DEF InOrder
  <2>5. Asked(t)'
    BY <2>1, <2>2 DEF InOrder, Asked, Asking, LifecycleSteps
  <2>6. Answered(t)'
    BY <1>f, <2>1, <2>2, <2>3 DEF InOrder, Answered
  <2> QED BY <2>2, <2>4, <2>5, <2>6 DEF InOrder
<1>10. CASE FreeBlockOf(t)
  BY <1>10, <1>0, <1>f DEF FreeBlockOf, Running, Shape
<1>11. CASE FreeRaw(t)
  BY <1>11, <1>0, <1>f DEF FreeRaw, Running, Shape
<1> QED BY <1>1, <1>2, <1>3, <1>4, <1>5, <1>6, <1>7, <1>8, <1>9, <1>10, <1>11 DEF Body

\* Starting and stopping the allocator asks for nothing new.
LEMMA LifecycleOrder ==
  ASSUME TypeOK, NEW t \in Threads, InOrder(t), Start(t) \/ Stop(t)
  PROVE  InOrder(t)'
<1>1. UNCHANGED <<heap, call>> /\ pc[t] \in LifecycleSteps
  BY DEF Start, Stop, flags, totals, Running, LifecycleSteps, InitEntry, InitCheck, InitSet,
         InitClear, InitFlag, InitSubsystems, InitUndo, InitUndoFlag, InitTotals, InitDone,
         ShutdownSet, ShutdownCheck, ShutdownTeardown, ShutdownTotals, ShutdownFlag,
         ShutdownClear, ShutdownDone
<1>2. pc'[t] # "malloc_count"
  BY DEF Start, Stop, InitReturn, Goto, TypeOK, InitEntry, InitCheck, InitSet, InitClear,
         InitFlag, InitSubsystems, InitUndo, InitUndoFlag, InitTotals, InitDone, ShutdownSet,
         ShutdownCheck, ShutdownTeardown, ShutdownTotals, ShutdownFlag, ShutdownClear,
         ShutdownDone
<1> QED BY <1>1, <1>2, QuietOrder DEF Asking, LifecycleSteps

\* Only a client's own steps change what the clients hold.
LEMMA OwnedKept ==
  ASSUME NEW t \in Threads, Guard(t) \/ Body(t) \/ Start(t) \/ Stop(t)
  PROVE  owned' = owned
  BY DEF Guard, Body, Start, Stop, flags, totals, Enter, EnterInitializing,
     SystemMalloc, SystemAligned, SystemRealloc, Malloc, MallocCount, Calloc, Aligned,
     ReallocForward, ReallocForeign, ReallocShrink, ReallocGrow, ReallocFreed,
     ReallocAllocated, Free, FreeInitializing, FreeHeader, FreeBlockOf, FreeRaw,
     InitEntry, InitCheck, InitSet, InitClear, InitFlag, InitSubsystems, InitUndo,
     InitUndoFlag, InitTotals, InitDone, ShutdownSet, ShutdownCheck, ShutdownTeardown,
     ShutdownTotals, ShutdownFlag, ShutdownClear, ShutdownDone

\* While nothing wraps, every step keeps the sizes and the contents.
LEMMA SpaceCorrect ==
  ASSUME NoWrap
  PROVE  Spec => []SpaceInv
<1> DEFINE Known == TypeOK /\ CallShape /\ Exclusive /\ NoLeak
<1>1. Init => SpaceInv
  <2>1. 0 \in Lens
    BY DEF Lens
  <2> QED BY <2>1 DEF Init, SpaceInv, InOrder, Asked, Answered, Asking, LifecycleSteps, NoCall
<1>2. Known /\ SpaceInv /\ [Next]_vars => SpaceInv'
  <2> SUFFICES ASSUME Known, SpaceInv, [Next]_vars PROVE SpaceInv'
    OBVIOUS
  <2>1. CASE UNCHANGED vars
    <3>1. UNCHANGED <<heap, owned, pc, call>>
      BY <2>1 DEF vars
    <3>2. ASSUME NEW p \in owned PROVE Sound(p)' /\ Filled(p)'
      BY <3>1, <3>2 DEF SpaceInv, Sound, Filled, HasHeader, HeaderOf
    <3>3. ASSUME NEW t \in Threads PROVE InOrder(t)'
      BY <3>1, <3>3 DEF SpaceInv, InOrder, Asked, Answered, Asking, Sound, Filled, HasHeader,
                        HeaderOf
    <3> QED BY <3>1, <3>2, <3>3 DEF SpaceInv
  <2>2. ASSUME NEW t \in Threads, Step(t) PROVE SpaceInv'
    <3>1. Only(t) /\ Local(t)
      BY <2>2, OnlyOne, LocalStep
    <3>2. Kind(t) /\ owned' \subseteq owned \cup InCall(t)
      BY <2>2, ClientKind, GuardKind, BodyKind, LifecycleKind, OwnedFrom DEF Step
    <3>3. CASE Client(t)
      BY <3>1, <3>2, <3>3, ClientSpace
    <3>4. CASE Guard(t) \/ Body(t) \/ Start(t) \/ Stop(t)
      <4>1. InOrder(t)
        BY DEF SpaceInv
      <4>2. InOrder(t)'
        BY <3>4, <4>1, GuardOrder, BodyOrder, LifecycleOrder
      <4>3. owned' = owned
        BY <3>4, OwnedKept
      <4>4. InCall(t) \cap owned' = {}
        BY <4>3 DEF Exclusive
      <4> QED BY <3>1, <3>2, <4>2, <4>4, OwnSpace
    <3> QED BY <2>2, <3>3, <3>4 DEF Step
  <2> QED BY <2>1, <2>2 DEF Next, Step
<1> QED BY <1>1, <1>2, TypeCorrect, HandsCorrect, PTL DEF Spec

\* While the sizes do not wrap, whatever the clients' threads do to each other,
\* request, header and padding of every pointer lie inside its block.
THEOREM RequestsFit == NoWrap => (Spec => []InBounds)
<1> SUFFICES ASSUME NoWrap PROVE Spec => []InBounds
  OBVIOUS
<1>1. SpaceInv => InBounds
  BY DEF SpaceInv, InBounds, Sound
<1> QED BY <1>1, SpaceCorrect, PTL

\* And realloc returns the common prefix, calloc cleared memory, on every path.
THEOREM ContentsSurvive == NoWrap => (Spec => []ContentsKept)
<1> SUFFICES ASSUME NoWrap PROVE Spec => []ContentsKept
  OBVIOUS
<1>1. SpaceInv => ContentsKept
  BY DEF SpaceInv, InOrder, Answered, ContentsKept
<1> QED BY <1>1, SpaceCorrect, PTL

-----------------------------------------------------------------------------
(* Any clients: the alignment.                                             *)

\* No multiple of h lies strictly between 0 and h.
LEMMA NoMultipleBetween ==
  ASSUME NEW h \in Nat \ {0}, NEW e \in Int, h * e >= 0, h * e < h
  PROVE  e = 0
<1>1. e >= 1 => h * e >= h
  OBVIOUS
<1>2. e <= -1 => h * e <= -h
  OBVIOUS
<1> QED BY <1>1, <1>2

\* A product is a multiple of each factor.
LEMMA MultipleMod ==
  ASSUME NEW h \in Nat \ {0}, NEW q \in Nat
  PROVE  (h * q) % h = 0 /\ (q * h) % h = 0
<1> DEFINE n == h * q
<1>1. n \in Nat
  OBVIOUS
<1> HIDE DEF n
<1>2. n = h * (n \div h) + (n % h) /\ n % h \in 0..(h - 1) /\ n \div h \in Int
  BY <1>1
<1>3. PICK d \in Int : d = n \div h
  BY <1>2
<1>4. PICK r \in 0..(h - 1) : r = n % h
  BY <1>2
<1>5. h * q = h * d + r
  BY <1>2, <1>3, <1>4 DEF n
<1>6. h * (q - d) = r
  BY <1>5
<1>7. q - d = 0
  <2> DEFINE e == q - d
  <2>1. e \in Int /\ h * e = r
    BY <1>6
  <2> HIDE DEF e
  <2>2. e = 0
    BY <2>1, NoMultipleBetween
  <2> QED BY <2>2 DEF e
<1>8. r = 0
  <2>1. h * 0 = 0
    OBVIOUS
  <2> QED BY <1>6, <1>7, <2>1
<1>9. q * h = h * q
  OBVIOUS
<1> QED BY <1>4, <1>8, <1>9 DEF n

\* What leaves no remainder is a product.
LEMMA MultipleOf ==
  ASSUME NEW h \in Nat \ {0}, NEW n \in Nat, n % h = 0
  PROVE  \E q \in Nat : n = h * q
<1>1. n = h * (n \div h) + (n % h) /\ n \div h \in Nat
  OBVIOUS
<1> QED BY <1>1

\* Multiples add up to a multiple.
LEMMA MultipleSum ==
  ASSUME NEW h \in Nat \ {0}, NEW m \in Nat, NEW n \in Nat, m % h = 0, n % h = 0
  PROVE  (m + n) % h = 0
<1>1. PICK q \in Nat : m = h * q
  BY MultipleOf
<1>2. PICK r \in Nat : n = h * r
  BY MultipleOf
<1>3. m + n = h * (q + r)
  BY <1>1, <1>2
<1> DEFINE s == q + r
<1>4. s \in Nat /\ m + n = h * s
  BY <1>3
<1> HIDE DEF s
<1> QED BY <1>4, MultipleMod

\* A multiple of a multiple.
LEMMA MultipleProduct ==
  ASSUME NEW h \in Nat \ {0}, NEW a \in Nat, NEW q \in Nat, a % h = 0
  PROVE  (q * a) % h = 0
<1>1. PICK k \in Nat : a = h * k
  BY MultipleOf
<1>2. q * a = h * (q * k)
  BY <1>1
<1> DEFINE s == q * k
<1>3. s \in Nat /\ q * a = h * s
  BY <1>2
<1> HIDE DEF s
<1> QED BY <1>3, MultipleMod

\* Blocks, headers and aligned pointers start on multiples of the alignments.
LEMMA GridOffsets ==
  ASSUME Even, NEW b \in Blocks
  PROVE  /\ (Base[b] + 0) % HeaderAlign = 0
         /\ (Base[b] + HeaderSize) % HeaderAlign = 0
         /\ \A a \in Aligns : /\ (Base[b] + AlignedOffset(b, a)) % HeaderAlign = 0
                              /\ (Base[b] + AlignedOffset(b, a)) % a = 0
<1>1. /\ HeaderSize \in Nat /\ HeaderAlign \in Nat \ {0} /\ Base[b] \in Nat
      /\ Word \in Nat \ {0}
  BY ConstantsOK, ConstantTypes
<1>2. Base[b] % HeaderAlign = 0 /\ HeaderSize % HeaderAlign = 0
  BY DEF Even
<1>3. (Base[b] + HeaderSize) % HeaderAlign = 0
  BY <1>1, <1>2, MultipleSum
<1>4. (Base[b] + 0) % HeaderAlign = 0
  <2>1. Base[b] + 0 = Base[b]
    BY <1>1
  <2> QED BY <1>2, <2>1
<1>5. ASSUME NEW a \in Aligns
      PROVE  /\ (Base[b] + AlignedOffset(b, a)) % HeaderAlign = 0
             /\ (Base[b] + AlignedOffset(b, a)) % a = 0
  <2>1. a \in Nat \ {0} /\ a % HeaderAlign = 0
    BY ConstantTypes DEF Even
  <2> DEFINE n == Base[b] + HeaderSize
             q == ((n + a - 1) % Word) \div a
  <2>2. q \in Nat
    <3> DEFINE m == (n + a - 1) % Word
    <3>1. n + a - 1 \in Int
      BY <1>1, <2>1
    <3>2. m \in Nat
      BY <1>1, <3>1, ModRange
    <3> HIDE DEF m
    <3>3. m \div a \in Nat
      BY <2>1, <3>2
    <3> QED BY <3>3 DEF m
  <2>3. AlignUp(n, a) = q * a
    BY <2>1 DEF AlignUp
  <2> HIDE DEF q
  <2>4. q * a \in Nat
    BY <2>1, <2>2
  <2>5. Base[b] + AlignedOffset(b, a) = q * a
    BY <1>1, <2>3, <2>4 DEF AlignedOffset
  <2>6. (q * a) % HeaderAlign = 0
    BY <1>1, <2>1, <2>2, MultipleProduct
  <2>7. (q * a) % a = 0
    BY <2>1, <2>2, MultipleMod
  <2> QED BY <2>5, <2>6, <2>7
<1> QED BY <1>3, <1>4, <1>5

\* From c to d a call keeps its alignment, and gets a block's first byte, the end
\* of a header, or the pointer it was passed.
Placed(c, r) ==
  \/ r \in {c.res, NULL}
  \/ \E b \in Blocks, o \in Nat :
       /\ r = Ptr(b, o, c.len)
       /\ c.op = "aligned" => o = AlignedOffset(b, c.align)
       /\ c.op # "aligned" => o \in {0, HeaderSize}
  \/ c.op # "aligned" /\ c.ptr # NULL /\ r = Ptr(c.ptr.blk, c.ptr.off, c.len)

Places(c, d) ==
  /\ d.align = c.align
  /\ d.op = "aligned" <=> c.op = "aligned"
  /\ d.ptr \in {c.ptr, NULL}
  /\ Placed(c, d.res)

\* The updates of a call that the actions make.
LEMMA SamePlaces ==
  ASSUME NEW c \in Call, NEW d, d = c \/ d = [c EXCEPT !.ptr = NULL]
  PROVE  Places(c, d)
  BY DEF Places, Placed, Call

\* A call that goes on as another operation has its result where it may be.
LEMMA RenamePlaces ==
  ASSUME NEW c \in Call, NEW d, NEW o, o # "aligned", c.op # "aligned",
         d = [c EXCEPT !.op = o]
  PROVE  Places(c, d)
  BY DEF Places, Placed, Call

\* So has a call whose result, pointer or size was set.
LEMMA UpdatePlaces ==
  ASSUME NEW c \in Call, NEW d, NEW r, Placed(c, r),
         \/ d = [c EXCEPT !.res = r]
         \/ d = [[c EXCEPT !.ptr = NULL] EXCEPT !.res = r]
         \/ \E n : d = [c EXCEPT !.size = n, !.res = r] \/ d = [c EXCEPT !.old = n, !.res = r]
  PROVE  Places(c, d)
  BY DEF Places, Call

\* Where the results are.
LEMMA PlacedAt ==
  ASSUME NEW c
  PROVE  /\ Placed(c, NULL)
         /\ \A b \in Blocks : c.op # "aligned" => /\ Placed(c, Ptr(b, 0, c.len))
                                                 /\ Placed(c, Ptr(b, HeaderSize, c.len))
         /\ \A b \in Blocks : c.op = "aligned" /\ c.align \in Aligns \cup {0}
              => Placed(c, Ptr(b, AlignedOffset(b, c.align), c.len))
<1>1. HeaderSize \in Nat /\ 0 \in Nat
  BY ConstantTypes
<1>2. \A b \in Blocks, a \in Aligns \cup {0} : AlignedOffset(b, a) \in Nat
  BY AlignedOffsetType
<1> QED BY <1>1, <1>2 DEF Placed

\* The pointers in hands stay on the grid when a call gets such a result.
LEMMA GridStep ==
  ASSUME Even, TypeOK, GridInv, NEW t \in Threads, Only(t), owned' = owned,
         Places(call[t], call'[t])
  PROVE  GridInv'
<1>c. PICK c, d : c = call[t] /\ d = call'[t]
  OBVIOUS
<1>1. Places(c, d)
  BY <1>c
<1>2. /\ c.op = "aligned" => c.align \in Aligns
      /\ c.ptr # NULL => OnGrid(c.ptr)
      /\ c.res # NULL => OnGrid(c.res)
      /\ c.op = "aligned" /\ c.res # NULL
           => (Base[c.res.blk] + c.res.off) % c.align = 0
  BY <1>c DEF GridInv, InCall, AsAligned
<1>3. d.ptr # NULL => OnGrid(d.ptr)
  BY <1>1, <1>2 DEF Places
<1>4. d.res # NULL => /\ OnGrid(d.res)
                      /\ d.op = "aligned" => (Base[d.res.blk] + d.res.off) % d.align = 0
  <2>1. CASE d.res \in {c.res, NULL}
    BY <1>1, <1>2, <2>1 DEF Places
  <2>2. ASSUME NEW b \in Blocks, NEW o \in Nat, d.res = Ptr(b, o, c.len),
               c.op = "aligned" => o = AlignedOffset(b, c.align),
               c.op # "aligned" => o \in {0, HeaderSize}
        PROVE  /\ OnGrid(d.res)
               /\ d.op = "aligned" => (Base[d.res.blk] + d.res.off) % d.align = 0
    <3>1. d.res.blk = b /\ d.res.off = o /\ d.align = c.align
          /\ (d.op = "aligned" <=> c.op = "aligned")
      BY <1>1, <2>2 DEF Ptr, Places
    <3>2. CASE c.op = "aligned"
      BY <1>2, <2>2, <3>1, <3>2, GridOffsets DEF OnGrid
    <3>3. CASE c.op # "aligned"
      BY <2>2, <3>1, <3>3, GridOffsets DEF OnGrid
    <3> QED BY <3>2, <3>3
  <2>3. CASE c.op # "aligned" /\ c.ptr # NULL /\ d.res = Ptr(c.ptr.blk, c.ptr.off, c.len)
    BY <1>1, <1>2, <2>3 DEF Places, Ptr, OnGrid
  <2> QED BY <1>1, <2>1, <2>2, <2>3 DEF Places, Placed
<1>5. AsAligned(t)'
  <2>1. d.op = "aligned" => d.align \in Aligns
    BY <1>1, <1>2 DEF Places
  <2> QED BY <1>c, <1>4, <2>1 DEF AsAligned
<1>6. \A u \in Threads \ {t} : call'[u] = call[u]
  BY DEF Only
<1>7. \A p \in InCall(t)' : OnGrid(p)'
  BY <1>c, <1>3, <1>4 DEF InCall, OnGrid
<1> QED BY <1>5, <1>6, <1>7 DEF GridInv, InCall, OnGrid, AsAligned

\* What libc's realloc and an aligned allocation return.
LEMMA LibcReallocPlaces ==
  ASSUME TypeOK, NEW t \in Threads, LibcRealloc(t), call[t].op = "realloc",
         call[t].ptr # NULL
  PROVE  Places(call[t], call'[t])
<1>c. PICK c : c = call[t]
  OBVIOUS
<1> USE <1>c
<1>1. c \in Call /\ c.ptr.blk \in Blocks /\ c.op = "realloc"
  BY CallHands DEF TypeOK
<1>2. CASE call' = call
  BY <1>1, <1>2, SamePlaces
<1>3. CASE Result(t, c, NULL) \/ Result(t, [c EXCEPT !.ptr = NULL], NULL)
  <2>1. call'[t] \in {[c EXCEPT !.res = NULL], [[c EXCEPT !.ptr = NULL] EXCEPT !.res = NULL]}
    BY <1>3 DEF Result, Set, TypeOK
  <2> QED BY <1>1, <2>1, PlacedAt, UpdatePlaces
<1>4. ASSUME NEW b \in Available \cup {c.ptr.blk},
             Result(t, [c EXCEPT !.ptr = NULL], Ptr(b, 0, c.len))
      PROVE  Places(c, call'[t])
  <2>1. b \in Blocks /\ call'[t] = [[c EXCEPT !.ptr = NULL] EXCEPT !.res = Ptr(b, 0, c.len)]
    BY <1>1, <1>4 DEF Available, Result, Set, TypeOK
  <2>2. Placed(c, Ptr(b, 0, c.len))
    BY <1>1, <2>1, PlacedAt
  <2> QED BY <1>1, <2>1, <2>2, UpdatePlaces
<1> QED BY <1>2, <1>3, <1>4 DEF LibcRealloc

\* An aligned allocation has its result at the aligned offset.
LEMMA AlignedBlockPlaces ==
  ASSUME TypeOK, NEW t \in Threads, NEW n, AlignedBlock(t, n), call[t].op = "aligned"
  PROVE  Places(call[t], call'[t])
<1>c. PICK c : c = call[t]
  OBVIOUS
<1> USE <1>c
<1>1. c \in Call /\ c.align \in Aligns \cup {0} /\ c.op = "aligned"
  BY CallFields DEF TypeOK
<1>2. CASE Result(t, c, NULL)
  <2>1. call'[t] = [c EXCEPT !.res = NULL]
    BY <1>2 DEF Result, Set, TypeOK
  <2> QED BY <1>1, <2>1, PlacedAt, UpdatePlaces
<1>3. ASSUME NEW b \in Available, Result(t, c, Ptr(b, AlignedOffset(b, c.align), c.len))
      PROVE  Places(c, call'[t])
  <2> DEFINE o == AlignedOffset(b, c.align)
  <2>1. Placed(c, Ptr(b, o, c.len))
    BY <1>1, PlacedAt DEF Available
  <2>2. call'[t] = [c EXCEPT !.res = Ptr(b, o, c.len)]
    BY <1>3 DEF Result, Set, TypeOK
  <2> QED BY <1>1, <2>1, <2>2, UpdatePlaces
<1> QED BY <1>2, <1>3 DEF AlignedBlock

\* The guard and the lifecycle.
LEMMA GuardPlaces ==
  ASSUME TypeOK, NEW t \in Threads, Guard(t) \/ Start(t) \/ Stop(t)
  PROVE  Places(call[t], call'[t])
<1>c. PICK c : c = call[t]
  OBVIOUS
<1> USE <1>c
<1>0. c \in Call
  BY DEF TypeOK
<1>1. CASE Enter(t) \/ EnterInitializing(t) \/ Start(t) \/ Stop(t)
  <2>1. call' = call
    BY <1>1 DEF Enter, EnterInitializing, Start, Stop, InitEntry, InitCheck, InitSet,
       InitClear, InitFlag, InitSubsystems, InitUndo, InitUndoFlag, InitTotals, InitDone,
       ShutdownSet, ShutdownCheck, ShutdownTeardown, ShutdownTotals, ShutdownFlag,
       ShutdownClear, ShutdownDone
  <2> QED BY <1>0, <2>1, SamePlaces
<1>2. CASE SystemMalloc(t)
  <2>0. c.op # "aligned"
    BY <1>2 DEF SystemMalloc
  <2>1. CASE Result(t, c, NULL)
    <3>1. call'[t] = [c EXCEPT !.res = NULL]
      BY <2>1 DEF Result, Set, TypeOK
    <3> QED BY <1>0, <3>1, PlacedAt, UpdatePlaces
  <2>2. ASSUME NEW b \in Available, Result(t, c, Ptr(b, 0, c.len))
        PROVE  Places(c, call'[t])
    <3>1. b \in Blocks /\ call'[t] = [c EXCEPT !.res = Ptr(b, 0, c.len)]
      BY <2>2 DEF Available, Result, Set, TypeOK
    <3>2. Placed(c, Ptr(b, 0, c.len))
      BY <2>0, <3>1, PlacedAt
    <3> QED BY <1>0, <3>1, <3>2, UpdatePlaces
  <2> QED BY <1>2, <2>1, <2>2 DEF SystemMalloc
<1>3. CASE SystemAligned(t)
  BY <1>3, AlignedBlockPlaces DEF SystemAligned
<1>4. CASE SystemRealloc(t)
  BY <1>4, LibcReallocPlaces DEF SystemRealloc
<1> QED BY <1>1, <1>2, <1>3, <1>4 DEF Guard

\* The bodies.
LEMMA BodyPlaces ==
  ASSUME TypeOK, NEW t \in Threads, Body(t)
  PROVE  Places(call[t], call'[t])
<1>c. PICK c : c = call[t]
  OBVIOUS
<1> USE <1>c
<1>0. c \in Call
  BY DEF TypeOK
<1>1. ASSUME Result(t, c, NULL) PROVE Places(c, call'[t])
  <2>1. call'[t] = [c EXCEPT !.res = NULL]
    BY <1>1 DEF Result, Set, TypeOK
  <2> QED BY <1>0, <2>1, PlacedAt, UpdatePlaces
<1>2. ASSUME NEW b \in Blocks, NEW n, c.op # "aligned",
             \/ call'[t] = [c EXCEPT !.size = n, !.res = Ptr(b, HeaderSize, c.len)]
             \/ call'[t] = [c EXCEPT !.old = n, !.res = Ptr(b, HeaderSize, c.len)]
      PROVE  Places(c, call'[t])
  <2>1. Placed(c, Ptr(b, HeaderSize, c.len))
    BY <1>2, PlacedAt
  <2> QED BY <1>0, <1>2, <2>1, UpdatePlaces
<1>3. CASE Malloc(t)
  <2>1. c.op # "aligned"
    BY <1>3 DEF Malloc
  <2>2. CASE HeaderedBlock(t, AtLeastOne(c.size))
    <3> DEFINE n == AtLeastOne(c.size)
    <3>1. PICK b \in Available : Set(t, [c EXCEPT !.size = n, !.res = Ptr(b, HeaderSize, c.len)])
      BY <2>2 DEF HeaderedBlock
    <3>2. b \in Blocks /\ call'[t] = [c EXCEPT !.size = n, !.res = Ptr(b, HeaderSize, c.len)]
      BY <3>1 DEF Available, Set, TypeOK
    <3> QED BY <1>2, <2>1, <3>2
  <2> QED BY <1>1, <1>3, <2>2 DEF Malloc
<1>4. CASE Aligned(t)
  BY <1>1, <1>4, AlignedBlockPlaces DEF Aligned
<1>5. CASE Calloc(t)
  <2> DEFINE n == AtLeastOne(c.size)
  <2>1. c.op = "calloc" /\ call'[t] = [c EXCEPT !.op = "calloc_malloc", !.size = n]
    BY <1>5 DEF Calloc, Set, TypeOK
  <2> HIDE DEF n
  <2> QED BY <1>0, <2>1 DEF Places, Placed, Call
<1>6. CASE ReallocForward(t)
  <2>1. c.op = "realloc" /\ (call'[t] = [c EXCEPT !.op = "malloc"] \/ call' = call)
    BY <1>6 DEF ReallocForward, Set, TypeOK
  <2> QED BY <1>0, <2>1, RenamePlaces, SamePlaces
<1>7. CASE ReallocForeign(t)
  BY <1>7, LibcReallocPlaces DEF ReallocForeign
<1>8. CASE ReallocShrink(t)
  <2> DEFINE r == Ptr(c.ptr.blk, c.ptr.off, c.len)
  <2>1. /\ c.op = "realloc" /\ c.ptr # NULL
        /\ call'[t] = [[c EXCEPT !.ptr = NULL] EXCEPT !.res = r]
    BY <1>8 DEF ReallocShrink, Result, Set, TypeOK
  <2>2. Placed(c, r)
    BY <2>1 DEF Placed
  <2> QED BY <1>0, <2>1, <2>2, UpdatePlaces
<1>9. CASE ReallocGrow(t)
  <2>1. c.op # "aligned"
    BY <1>9 DEF ReallocGrow
  <2>2. ASSUME NEW b \in Available,
               Set(t, [c EXCEPT !.old = HeaderOf(c.ptr).req, !.res = Ptr(b, HeaderSize, c.len)])
        PROVE  Places(c, call'[t])
    <3> DEFINE n == HeaderOf(c.ptr).req
    <3>1. b \in Blocks /\ call'[t] = [c EXCEPT !.old = n, !.res = Ptr(b, HeaderSize, c.len)]
      BY <2>2 DEF Available, Set, TypeOK
    <3> QED BY <1>2, <2>1, <3>1
  <2> QED BY <1>1, <1>9, <2>2 DEF ReallocGrow
<1>10. CASE FreeBlockOf(t) \/ FreeRaw(t)
  <2>1. call'[t] = [c EXCEPT !.ptr = NULL]
    BY <1>10 DEF FreeBlockOf, FreeRaw, Set, TypeOK
  <2> QED BY <1>0, <2>1, SamePlaces
<1>11. CASE \/ MallocCount(t) \/ ReallocFreed(t) \/ ReallocAllocated(t)
            \/ Free(t) \/ FreeInitializing(t) \/ FreeHeader(t)
  <2>1. call' = call
    BY <1>11 DEF MallocCount, ReallocFreed, ReallocAllocated, Free, FreeInitializing, FreeHeader
  <2> QED BY <1>0, <2>1, SamePlaces
<1> QED BY <1>3, <1>4, <1>5, <1>6, <1>7, <1>8, <1>9, <1>10, <1>11 DEF Body

\* A client passes on a pointer it holds, or takes the one a call returns.
LEMMA ClientGrid ==
  ASSUME TypeOK, GridInv, NEW t \in Threads, Client(t), Only(t),
         owned' \subseteq owned \cup InCall(t)
  PROVE  GridInv'
<1>1. \A p \in owned' : OnGrid(p)'
  BY DEF GridInv, OnGrid
<1>2. (\A p \in InCall(t)' : OnGrid(p)') /\ AsAligned(t)'
  <2>1. CASE ~Return(t)
    <3>1. PICK op \in AllOps, l \in Entries, d \in Call :
            l = EntryOf(op) /\ Asks(op, d) /\ Begin(t, op, l, d)
      BY <2>1, ClientCalls DEF CallsEntry
    <3>2. call'[t] = [d EXCEPT !.op = op]
      BY <3>1 DEF Begin, Set, TypeOK
    <3>3. /\ call'[t].ptr = d.ptr /\ call'[t].res = NULL /\ call'[t].op = op
          /\ call'[t].align = d.align
      BY <3>1, <3>2, CallSelect, CallRest DEF Asks
    <3>4. d.ptr # NULL => OnGrid(d.ptr)
      BY <3>1 DEF Asks, GridInv
    <3>5. op = "aligned" => d.align \in Aligns
      BY <3>1 DEF Asks
    <3> QED BY <3>3, <3>4, <3>5 DEF InCall, OnGrid, AsAligned
  <2>2. CASE Return(t)
    <3>1. call'[t] = NoCall
      BY <2>2 DEF Return, Set, TypeOK
    <3> QED BY <3>1 DEF NoCall, InCall, AsAligned
  <2> QED BY <2>1, <2>2
<1>3. \A u \in Threads \ {t} : call'[u] = call[u]
  BY DEF Only
<1> QED BY <1>1, <1>2, <1>3 DEF GridInv, InCall, OnGrid, AsAligned

\* Every step keeps the pointers in hands aligned.
LEMMA GridCorrect ==
  ASSUME Even
  PROVE  Spec => []GridInv
<1>1. Init => GridInv
  BY DEF Init, GridInv, InCall, AsAligned, NoCall
<1>2. TypeOK /\ CallShape /\ GridInv /\ [Next]_vars => GridInv'
  <2> SUFFICES ASSUME TypeOK, CallShape, GridInv, [Next]_vars PROVE GridInv'
    OBVIOUS
  <2>1. CASE UNCHANGED vars
    BY <2>1 DEF vars, GridInv, InCall, OnGrid, AsAligned
  <2>2. ASSUME NEW t \in Threads, Step(t) PROVE GridInv'
    <3>1. Only(t)
      BY <2>2, OnlyOne
    <3>2. CASE Client(t)
      BY <2>2, <3>1, <3>2, ClientKind, OwnedFrom, ClientGrid
    <3>3. CASE Guard(t) \/ Body(t) \/ Start(t) \/ Stop(t)
      <4>1. owned' = owned
        BY <3>3, OwnedKept
      <4> QED BY <3>1, <3>3, <4>1, GuardPlaces, BodyPlaces, GridStep
    <3> QED BY <2>2, <3>2, <3>3 DEF Step
  <2> QED BY <2>1, <2>2 DEF Next, Step
<1> QED BY <1>1, <1>2, TypeCorrect, PTL DEF Spec

\* Whatever the threads do to each other, a call returns a pointer that is a
\* multiple of the alignment it asked for, realloc of an aligned one included.
THEOREM PointersAligned == Even => (Spec => []ReturnsAligned)
<1> SUFFICES ASSUME Even PROVE Spec => []ReturnsAligned
  OBVIOUS
<1>1. GridInv => ReturnsAligned
  BY DEF GridInv, InCall, AsAligned, OnGrid, ReturnsAligned
<1> QED BY <1>1, GridCorrect, PTL

-----------------------------------------------------------------------------

-----------------------------------------------------------------------------
(* Orderly clients: the totals.                                            *)

\* The calls the totals are right for.  An aligned block is counted by no total
\* until it is freed, and a realloc to a smaller size counts nothing.
CountsInFull ==
  \A t \in Threads :
    /\ call[t].op # "aligned"
    /\ pc[t] = "body" /\ call[t].op = "realloc" /\ call[t].ptr # NULL /\ call[t].size > 0
         => call[t].size >= HeaderOf(call[t].ptr).req

\* The blocks of a call that it has still to count, or has counted as freed.
Pending(t) ==
  {p.blk : p \in {q \in InCall(t) :
     \/ q = call[t].res /\ pc[t] \in {"malloc_count", "realloc_freed", "realloc_allocated"}
     \/ q = call[t].ptr /\ pc[t] \in {"realloc_allocated", "free_block"}}}

\* What a call is about to count is what the headers say.
Tallied(t) ==
  /\ pc[t] \in {"malloc_count", "realloc_freed", "realloc_allocated"} =>
       call[t].res # NULL /\ heap[call[t].res.blk].hdr.req = call[t].size
  /\ pc[t] = "realloc_freed" =>
       heap[call[t].ptr.blk].hdr.req = call[t].old

\* The totals differ by what the blocks hold.
Balanced == (total_allocated - total_freed) % CounterWord = AllBytes % CounterWord

\* What a step does to them: nothing, or it adds what one block holds from now on to
\* one total, or what it no longer holds to the other, or the allocator clears both
\* when nothing is held.
OthersSame(x) == \A b \in Blocks \ {x} : Bytes'[b] = Bytes[b]

SameTotals == UNCHANGED totals /\ \A b \in Blocks : Bytes'[b] = Bytes[b]
Raised  == \E x \in Blocks, n \in Nat :
  /\ OthersSame(x) /\ Bytes[x] = 0 /\ Bytes'[x] = n
  /\ total_allocated' = (total_allocated + n) % CounterWord /\ UNCHANGED total_freed
Lowered == \E x \in Blocks, n \in Nat :
  /\ OthersSame(x) /\ Bytes[x] = n /\ Bytes'[x] = 0
  /\ total_freed' = (total_freed + n) % CounterWord /\ UNCHANGED total_allocated
Emptied == /\ pc[Main] \in LifecycleSteps /\ \A b \in Blocks : ~heap'[b].live
           /\ total_allocated' = 0 /\ total_freed' = 0
Tallies == SameTotals \/ Raised \/ Lowered \/ Emptied

TotalsInv == Balanced /\ \A t \in Threads : Tallied(t)

\* What is counted, block by block.
LEMMA CountedIs ==
  ASSUME NEW b \in Blocks
  PROVE  Counted(b) <=> /\ heap[b].live /\ heap[b].hdr # NoHeader
                        /\ \A u \in Threads : b \notin Pending(u)
  BY DEF Counted, Pending

\* The weights are numbers.
LEMMA BytesTypes ==
  ASSUME TypeOK
  PROVE  /\ \A b \in Blocks : Bytes[b] \in Nat
         /\ AllBytes \in Nat
<1>1. PICK w : w = Bytes
  OBVIOUS
<1>2. \A b \in Blocks : w[b] \in Nat
  BY <1>1, BlockTypes DEF Bytes, TypeOK
<1> QED BY <1>1, <1>2, FiniteMemory, SumTyped DEF AllBytes

\* The weights of the next state are a number.
LEMMA BytesTypesNext ==
  ASSUME TypeOK'
  PROVE  AllBytes' \in Nat
<1>1. PICK w : w = Bytes'
  OBVIOUS
<1>2. \A b \in Blocks : w[b] \in Nat
  BY <1>1, BlockTypes DEF Bytes, TypeOK
<1> QED BY <1>1, <1>2, FiniteMemory, SumTyped DEF AllBytes

\* A block that is with a call that has it pending, or that nobody has, adds nothing.
LEMMA NoBytes ==
  ASSUME NEW b \in Blocks
  PROVE  /\ ~heap[b].live \/ (\E u \in Threads : b \in Pending(u)) => Bytes[b] = 0
         /\ ~heap'[b].live \/ (\E u \in Threads : b \in Pending(u)') => Bytes'[b] = 0
<1>1. /\ Bytes[b] = IF Counted(b) THEN heap[b].hdr.req ELSE 0
      /\ Bytes'[b] = IF Counted(b)' THEN heap'[b].hdr.req ELSE 0
  BY DEF Bytes
<1>2. Counted(b)' <=> /\ heap'[b].live /\ heap'[b].hdr # NoHeader
                      /\ \A u \in Threads : b \notin Pending(u)'
  BY DEF Counted, Pending
<1> QED BY <1>1, <1>2, CountedIs

\* A block of a call adds what its header says unless the call has it pending.
LEMMA FullBytes ==
  ASSUME TypeOK, Exclusive, HeadersKept, NEW t \in Threads, NEW p \in InCall(t),
         p.blk \notin Pending(t)
  PROVE  Bytes[p.blk] = heap[p.blk].hdr.req
<1>1. p.blk \in Blocks /\ p.off \in Nat
  BY CallHands, PointerTypes DEF InCall
<1>2. heap[p.blk].live
  BY DEF Exclusive
<1>3. p.off > 0 /\ heap[p.blk].hdr.off = p.off
  BY DEF HeadersKept, Headed, HasHeader
<1>4. heap[p.blk].hdr # NoHeader
  BY <1>3 DEF NoHeader
<1>5. \A u \in Threads : p.blk \notin Pending(u)
  BY DEF Exclusive, Pending
<1> QED BY <1>1, <1>2, <1>4, <1>5, CountedIs DEF Bytes

-----------------------------------------------------------------------------
(* How the totals can move.                                                *)

\* The other threads have the same blocks pending.
LEMMA OthersPending ==
  ASSUME NEW t \in Threads, Only(t)
  PROVE  \A u \in Threads \ {t} : Pending(u)' = Pending(u)
  BY DEF Only, Pending, InCall

\* A block whose header stays and that stays pending, or not.
LEMMA SameBytes ==
  ASSUME NEW t \in Threads, Only(t), NEW b \in Blocks,
         heap'[b].live = heap[b].live, heap'[b].hdr = heap[b].hdr,
         b \in Pending(t)' <=> b \in Pending(t)
  PROVE  Bytes'[b] = Bytes[b]
<1>1. /\ Bytes[b] = IF Counted(b) THEN heap[b].hdr.req ELSE 0
      /\ Bytes'[b] = IF Counted(b)' THEN heap'[b].hdr.req ELSE 0
  BY DEF Bytes
<1>2. Counted(b)' <=> /\ heap'[b].live /\ heap'[b].hdr # NoHeader
                      /\ \A u \in Threads : b \notin Pending(u)'
  BY DEF Counted, Pending
<1>3. (\A u \in Threads : b \notin Pending(u)') <=> (\A u \in Threads : b \notin Pending(u))
  BY OthersPending
<1> QED BY <1>1, <1>2, <1>3, CountedIs

\* Nothing is counted, and nothing that was is lost.
LEMMA BalanceSame ==
  ASSUME Balanced, UNCHANGED totals, \A b \in Blocks : Bytes'[b] = Bytes[b]
  PROVE  Balanced'
<1>1. Bytes' = Bytes
  BY DEF Bytes
<1>2. AllBytes' = AllBytes
  BY <1>1 DEF AllBytes
<1> QED BY <1>2 DEF Balanced, totals

\* One block changes: the sum changes by as much.
LEMMA BytesMove ==
  ASSUME TypeOK, TypeOK', NEW x \in Blocks, \A b \in Blocks \ {x} : Bytes'[b] = Bytes[b]
  PROVE  AllBytes' + Bytes[x] = AllBytes + Bytes'[x]
<1>1. PICK w : w = Bytes
  OBVIOUS
<1>2. PICK v : v = Bytes'
  OBVIOUS
<1>3. \A b \in Blocks : w[b] \in Nat /\ v[b] \in Nat
  BY <1>1, <1>2, BlockTypes DEF Bytes, TypeOK
<1>4. SumFunctionOnSet(v, Blocks) + w[x] = SumFunctionOnSet(w, Blocks) + v[x]
  BY <1>1, <1>2, <1>3, FiniteMemory, SumChanged
<1> QED BY <1>1, <1>2, <1>4 DEF AllBytes

\* A block is counted as allocated.
LEMMA BalanceAllocated ==
  ASSUME TypeOK, TypeOK', Balanced, NEW x \in Blocks, NEW n \in Nat,
         \A b \in Blocks \ {x} : Bytes'[b] = Bytes[b],
         Bytes[x] = 0, Bytes'[x] = n,
         total_allocated' = (total_allocated + n) % CounterWord,
         UNCHANGED total_freed
  PROVE  Balanced'
<1>1. AllBytes' + Bytes[x] = AllBytes + Bytes'[x] /\ AllBytes \in Nat /\ AllBytes' \in Nat
  <2>1. AllBytes' + Bytes[x] = AllBytes + Bytes'[x]
    BY BytesMove
  <2> QED BY <2>1, BytesTypes, BytesTypesNext
<1>2. AllBytes' = AllBytes + n
  <2>1. PICK v, w : v = AllBytes' /\ w = AllBytes
    OBVIOUS
  <2>2. v \in Nat /\ w \in Nat /\ v + 0 = w + n
    BY <1>1, <2>1, Zenon
  <2>3. v = w + n
    BY <2>2
  <2> QED BY <2>1, <2>3
<1>3. PICK a \in Int, f \in Int, w \in Int, W \in Nat \ {0} :
        a = total_allocated /\ f = total_freed /\ w = AllBytes /\ W = CounterWord
  BY <1>1, ConstantTypes DEF TypeOK
<1>4. (a - f) % W = w % W
  BY <1>3, Zenon DEF Balanced
<1>5. n \in Int
  OBVIOUS
<1>6. (((a + n) % W) - f) % W = (w + n) % W
  <2>1. (((a + n) % W) - f) % W = (((a - f) % W) + n) % W
    BY <1>5, UpperMoves, ZenonT(40)
  <2>2. ((w % W) + n) % W = (w + n) % W
    BY <1>5, WrappedSum, Zenon
  <2> QED BY <1>4, <2>1, <2>2, Zenon
<1> QED BY <1>2, <1>3, <1>6, Zenon DEF Balanced

\* A block is counted as freed.
LEMMA BalanceFreed ==
  ASSUME TypeOK, TypeOK', Balanced, NEW x \in Blocks, NEW n \in Nat,
         \A b \in Blocks \ {x} : Bytes'[b] = Bytes[b],
         Bytes[x] = n, Bytes'[x] = 0,
         total_freed' = (total_freed + n) % CounterWord,
         UNCHANGED total_allocated
  PROVE  Balanced'
<1>1. AllBytes' + Bytes[x] = AllBytes + Bytes'[x] /\ AllBytes \in Nat /\ AllBytes' \in Nat
  <2>1. AllBytes' + Bytes[x] = AllBytes + Bytes'[x]
    BY BytesMove
  <2> QED BY <2>1, BytesTypes, BytesTypesNext
<1>2. AllBytes' = AllBytes - n
  <2>1. PICK v, w : v = AllBytes' /\ w = AllBytes
    OBVIOUS
  <2>2. v \in Nat /\ w \in Nat /\ v + n = w + 0
    BY <1>1, <2>1, Zenon
  <2>3. v = w - n
    BY <2>2
  <2> QED BY <2>1, <2>3
<1>3. PICK a \in Int, f \in Int, w \in Int, W \in Nat \ {0} :
        a = total_allocated /\ f = total_freed /\ w = AllBytes /\ W = CounterWord
  BY <1>1, ConstantTypes DEF TypeOK
<1>4. (a - f) % W = w % W
  BY <1>3, Zenon DEF Balanced
<1>5. n \in Int
  OBVIOUS
<1>6. (a - ((f + n) % W)) % W = (w - n) % W
  <2>1. (a - ((f + n) % W)) % W = (((a - f) % W) - n) % W
    BY <1>5, LowerMoves, ZenonT(40)
  <2>2. ((w % W) - n) % W = (w - n) % W
    BY <1>5, WrappedLess, Zenon
  <2> QED BY <1>4, <2>1, <2>2, Zenon
<1> QED BY <1>2, <1>3, <1>6, Zenon DEF Balanced

\* Nothing is left to count.
LEMMA BalanceCleared ==
  ASSUME \A b \in Blocks : ~heap'[b].live, total_allocated' = 0, total_freed' = 0
  PROVE  Balanced'
<1>1. PICK w : w = Bytes'
  OBVIOUS
<1>2. \A b \in Blocks : w[b] = 0
  BY <1>1, NoBytes
<1>3. SumFunctionOnSet(w, Blocks) = 0
  BY <1>2, FiniteMemory, SumZero
<1>4. AllBytes' = 0
  BY <1>1, <1>3 DEF AllBytes
<1>5. (0 - 0) % CounterWord = 0 % CounterWord
  OBVIOUS
<1> QED BY <1>4, <1>5 DEF Balanced

\* One block changes and with it one total.
LEMMA TalliesRaised ==
  ASSUME NEW x \in Blocks, NEW n \in Nat,
         \A b \in Blocks \ {x} : Bytes'[b] = Bytes[b],
         Bytes[x] = 0, Bytes'[x] = n,
         total_allocated' = (total_allocated + n) % CounterWord,
         UNCHANGED total_freed
  PROVE  Tallies
  BY DEF Tallies, Raised, OthersSame

\* Or the other.
LEMMA TalliesLowered ==
  ASSUME NEW x \in Blocks, NEW n \in Nat,
         \A b \in Blocks \ {x} : Bytes'[b] = Bytes[b],
         Bytes[x] = n, Bytes'[x] = 0,
         total_freed' = (total_freed + n) % CounterWord,
         UNCHANGED total_allocated
  PROVE  Tallies
  BY DEF Tallies, Lowered, OthersSame

\* Whatever a step does, the totals differ by what the blocks hold.
LEMMA TalliesBalance ==
  ASSUME TypeOK, TypeOK', Balanced, Tallies
  PROVE  Balanced'
<1>1. CASE SameTotals
  BY <1>1, BalanceSame DEF SameTotals
<1>2. CASE Raised
  <2>1. PICK x \in Blocks, n \in Nat :
          /\ OthersSame(x) /\ Bytes[x] = 0 /\ Bytes'[x] = n
          /\ total_allocated' = (total_allocated + n) % CounterWord /\ UNCHANGED total_freed
    BY <1>2 DEF Raised
  <2>2. \A b \in Blocks \ {x} : Bytes'[b] = Bytes[b]
    BY <2>1 DEF OthersSame
  <2> QED BY <2>1, <2>2, BalanceAllocated
<1>3. CASE Lowered
  <2>1. PICK x \in Blocks, n \in Nat :
          /\ OthersSame(x) /\ Bytes[x] = n /\ Bytes'[x] = 0
          /\ total_freed' = (total_freed + n) % CounterWord /\ UNCHANGED total_allocated
    BY <1>3 DEF Lowered
  <2>2. \A b \in Blocks \ {x} : Bytes'[b] = Bytes[b]
    BY <2>1 DEF OthersSame
  <2> QED BY <2>1, <2>2, BalanceFreed
<1>4. CASE Emptied
  BY <1>4, BalanceCleared DEF Emptied
<1> QED BY <1>1, <1>2, <1>3, <1>4 DEF Tallies

-----------------------------------------------------------------------------
(* The steps.                                                              *)

\* Where a call has a block pending.
Marking == {"malloc_count", "realloc_freed", "realloc_allocated", "free_block"}

\* Between the additions to the totals nothing is pending.
LEMMA NothingPending ==
  ASSUME NEW t \in Threads
  PROVE  /\ pc[t] \notin Marking => Pending(t) = {}
         /\ pc'[t] \notin Marking => Pending(t)' = {}
  BY DEF Marking, Pending

\* A step that writes no header and has nothing pending before or after.
LEMMA QuietTotals ==
  ASSUME NEW t \in Threads, Only(t), UNCHANGED totals,
         pc[t] \notin Marking, pc'[t] \notin Marking,
         \A b \in Blocks : heap'[b].live = heap[b].live /\ heap'[b].hdr = heap[b].hdr
  PROVE  Tallies /\ Tallied(t)'
<1>1. \A b \in Blocks : Bytes'[b] = Bytes[b]
  BY NothingPending, SameBytes
<1>2. Tallies
  BY <1>1 DEF Tallies, SameTotals
<1>3. Tallied(t)'
  BY DEF Tallied, Marking
<1> QED BY <1>2, <1>3

\* A block with a header that the call has still to count.
LEMMA NewTotals ==
  ASSUME TypeOK, NEW t \in Threads, Only(t), UNCHANGED totals,
         pc[t] = "body", pc'[t] \in {"malloc_count", "realloc_freed"},
         NEW b \in Available, NEW k, heap' = [heap EXCEPT ![b] = k],
         NEW o, NEW n, call'[t].res = Ptr(b, o, n), Ptr(b, o, n) # NULL
  PROVE  Tallies
<1>1. b \in Blocks /\ ~heap[b].live
  BY DEF Available
<1>2. Pending(t) = {}
  BY NothingPending DEF Marking
<1>3. Pending(t)' = {b}
  <2>1. Ptr(b, o, n).blk = b
    BY DEF Ptr
  <2> QED BY <2>1 DEF Pending, InCall
<1>4. Bytes[b] = 0 /\ Bytes'[b] = 0
  BY <1>1, <1>3, NoBytes
<1>5. ASSUME NEW x \in Blocks \ {b} PROVE Bytes'[x] = Bytes[x]
  <2>1. heap'[x] = heap[x]
    BY <1>1 DEF TypeOK
  <2> QED BY <1>2, <1>3, <2>1, SameBytes
<1>6. \A x \in Blocks : Bytes'[x] = Bytes[x]
  BY <1>4, <1>5
<1> QED BY <1>6 DEF Tallies, SameTotals

\* Nobody has anything while the totals are cleared.
LEMMA ClearedTotals ==
  ASSUME TypeOK, NoLeak, NoBadFree, LifeInv, NEW t \in Threads,
         pc[t] \in LifecycleSteps \ {"init"}, UNCHANGED heap,
         total_allocated' = 0, total_freed' = 0
  PROVE  Tallies
<1>1. t = Main
  BY DEF LifeInv, OnlyMain
<1>2. Empty
  BY <1>1 DEF LifeInv, NothingHeld
<1>3. \A b \in Blocks : ~heap[b].live
  BY <1>2 DEF Empty, NoLeak, NoBadFree
<1> QED BY <1>1, <1>3 DEF Tallies, Emptied

\* What the other calls have to tally.
LEMMA OthersTallied ==
  ASSUME TypeOK, CallShape, Exclusive, NEW t \in Threads, Only(t), Local(t),
         \A u \in Threads : Tallied(u)
  PROVE  \A u \in Threads \ {t} : Tallied(u)'
<1> SUFFICES ASSUME NEW u \in Threads \ {t} PROVE Tallied(u)'
  OBVIOUS
<1>1. pc'[u] = pc[u] /\ call'[u] = call[u]
  BY DEF Only
<1>2. \A p \in InCall(u) : heap'[p.blk] = heap[p.blk]
  BY OthersKept
<1>3. Tallied(u) /\ Shape(u)
  BY DEF CallShape
<1>4. call[u].res # NULL => heap'[call[u].res.blk] = heap[call[u].res.blk]
  BY <1>2 DEF InCall
<1>5. call[u].ptr # NULL => heap'[call[u].ptr.blk] = heap[call[u].ptr.blk]
  BY <1>2 DEF InCall
<1> QED BY <1>1, <1>3, <1>4, <1>5 DEF Tallied, Shape

\* The calls of the clients and their returns.
LEMMA ClientTotals ==
  ASSUME TypeOK, NEW t \in Threads, Only(t), Client(t)
  PROVE  Tallies /\ Tallied(t)'
<1>1. CASE Return(t)
  <2>1. pc[t] = "return" /\ pc'[t] = "idle" /\ UNCHANGED totals
    BY <1>1 DEF Return, Running, Goto, TypeOK
  <2>2. ASSUME NEW b \in Blocks
        PROVE  heap'[b].live = heap[b].live /\ heap'[b].hdr = heap[b].hdr
    <3>1. \/ heap'[b] = heap[b]
          \/ heap'[b] = [heap[b] EXCEPT !.data = call[t].res.len]
      BY <1>1 DEF Return, TypeOK
    <3> QED BY <3>1 DEF TypeOK, Block
  <2> QED BY <2>1, <2>2, QuietTotals DEF Marking
<1>2. CASE ~Return(t)
  <2>1. PICK op \in AllOps, l \in Entries, d \in Call : Begin(t, op, l, d)
    BY <1>2, ClientCalls DEF CallsEntry
  <2>2. pc[t] = "idle" /\ pc'[t] = l /\ UNCHANGED <<totals, heap>>
    BY <2>1 DEF Begin, Goto, Running, TypeOK
  <2> QED BY <2>2, QuietTotals DEF Marking, Entries
<1> QED BY <1>1, <1>2

\* The first steps of a call.
LEMMA GuardTotals ==
  ASSUME TypeOK, LifeInv, NEW t \in Threads, Only(t), Guard(t)
  PROVE  Tallies /\ Tallied(t)'
<1>1. Enter(t) \/ EnterInitializing(t)
  BY DEF Guard, LifeInv, NoFallback, SystemMalloc, SystemAligned, SystemRealloc, Running
<1>2. pc[t] \in {"enter", "enter_initializing"} /\ UNCHANGED <<totals, heap>>
  BY <1>1 DEF Enter, EnterInitializing, Running
<1>3. pc'[t] \in {"body", "enter_initializing", "system", "init"}
  BY <1>1 DEF Enter, EnterInitializing, Goto, TypeOK
<1> QED BY <1>2, <1>3, QuietTotals DEF Marking

\* Init and shutdown.
LEMMA LifecycleTotals ==
  ASSUME TypeOK, NoLeak, NoBadFree, LifeInv, NEW t \in Threads, Only(t),
         Start(t) \/ Stop(t)
  PROVE  Tallies /\ Tallied(t)'
<1>1. pc[t] \in LifecycleSteps /\ UNCHANGED heap
  BY DEF Start, Stop, LifecycleSteps, flags, totals, Running, InitEntry, InitCheck, InitSet, InitClear,
       InitFlag, InitSubsystems, InitUndo, InitUndoFlag, InitTotals, InitDone, ShutdownSet,
       ShutdownCheck, ShutdownTeardown, ShutdownTotals, ShutdownFlag, ShutdownClear, ShutdownDone
<1>2. pc'[t] \in LifecycleSteps \cup {"return", "body"}
  BY DEF Start, Stop, LifecycleSteps, TypeOK, Goto, InitReturn, InitEntry, InitCheck, InitSet, InitClear,
       InitFlag, InitSubsystems, InitUndo, InitUndoFlag, InitTotals, InitDone, ShutdownSet,
       ShutdownCheck, ShutdownTeardown, ShutdownTotals, ShutdownFlag, ShutdownClear, ShutdownDone
<1>3. CASE InitClear(t) \/ InitTotals(t) \/ ShutdownTotals(t) \/ ShutdownClear(t)
  <2>1. pc[t] \in LifecycleSteps \ {"init"} /\ total_allocated' = 0 /\ total_freed' = 0
    BY <1>3 DEF InitClear, InitTotals, ShutdownTotals, ShutdownClear, Running, LifecycleSteps
  <2>2. Tallies
    BY <1>1, <2>1, ClearedTotals
  <2>3. Tallied(t)'
    BY <1>2 DEF Tallied, LifecycleSteps
  <2> QED BY <2>2, <2>3
<1>4. CASE ~(InitClear(t) \/ InitTotals(t) \/ ShutdownTotals(t) \/ ShutdownClear(t))
  <2>1. UNCHANGED totals
    BY <1>4 DEF Start, Stop, flags, totals, InitEntry, InitCheck, InitSet,
         InitFlag, InitSubsystems, InitUndo, InitUndoFlag, InitDone, ShutdownSet,
         ShutdownCheck, ShutdownTeardown, ShutdownFlag, ShutdownDone
  <2> QED BY <1>1, <1>2, <2>1, QuietTotals DEF Marking, LifecycleSteps
<1> QED BY <1>3, <1>4

\* A block of a call that has it pending no more.
LEMMA BecomesCounted ==
  ASSUME Exclusive, HeadersKept, NEW t \in Threads, Only(t), NEW p \in InCall(t), p.blk \in Blocks,
         heap'[p.blk].live = heap[p.blk].live, heap'[p.blk].hdr = heap[p.blk].hdr,
         p.blk \notin Pending(t)'
  PROVE  Bytes'[p.blk] = heap[p.blk].hdr.req
<1>1. heap[p.blk].live
  BY DEF Exclusive
<1>2. heap[p.blk].hdr # NoHeader
  <2>1. p.off > 0 /\ heap[p.blk].hdr.off = p.off
    BY DEF HeadersKept, Headed, HasHeader
  <2> QED BY <2>1 DEF NoHeader
<1>3. \A u \in Threads \ {t} : p.blk \notin Pending(u)'
  <2>1. \A u \in Threads \ {t} : p.blk \notin Pending(u)
    BY DEF Exclusive, Pending
  <2> QED BY <2>1, OthersPending
<1>4. Counted(p.blk)'
  BY <1>1, <1>2, <1>3 DEF Counted, Pending
<1> QED BY <1>4 DEF Bytes

\* malloc takes a block, and counts it.
LEMMA MallocTotals ==
  ASSUME TypeOK, TypeOK', CallShape, Exclusive, HeadersKept, NEW t \in Threads,
         Tallied(t), Only(t), Malloc(t) \/ MallocCount(t)
  PROVE  Tallies /\ Tallied(t)'
<1>c. PICK c : c = call[t]
  OBVIOUS
<1>0. c \in Call /\ Shape(t) /\ c.size \in Nat
  BY <1>c, CallFields DEF TypeOK, CallShape
<1>1. CASE Malloc(t)
  <2> DEFINE n == AtLeastOne(c.size)
             k == NewBlock(TotalSize(n), NewHeader(HeaderSize, n))
  <2>1. pc[t] = "body" /\ UNCHANGED totals
    BY <1>1 DEF Malloc, Running
  <2>2. CASE HeaderedBlock(t, n)
    <3>1. PICK b \in Available : heap' = [heap EXCEPT ![b] = k]
            /\ Set(t, [c EXCEPT !.size = n, !.res = Ptr(b, HeaderSize, c.len)])
      BY <1>c, <2>2 DEF HeaderedBlock
    <3>2. call'[t] = [c EXCEPT !.size = n, !.res = Ptr(b, HeaderSize, c.len)]
      BY <3>1 DEF Set, TypeOK
    <3>3. call'[t].res = Ptr(b, HeaderSize, c.len) /\ call'[t].size = n
      BY <1>0, <3>2 DEF Call
    <3>4. pc'[t] = "malloc_count"
      <4>1. pc'[t] = "return" => FALSE
        <5>1. CASE Result(t, c, NULL) /\ UNCHANGED heap
          <6>1. heap[b] = k
            BY <3>1, <5>1 DEF TypeOK, Available
          <6> QED BY <6>1 DEF Available, NewBlock
        <5> QED BY <1>1, <1>c, <5>1 DEF Malloc, Goto, TypeOK
      <4> QED BY <1>1, <1>c, <4>1 DEF Malloc, Result, Goto, TypeOK
    <3>5. Ptr(b, HeaderSize, c.len) # NULL /\ Ptr(b, HeaderSize, c.len).blk = b /\ b \in Blocks
      <4>1. c.len \in Nat /\ HeaderSize \in Nat
        BY <1>0, CallFields, ConstantTypes
      <4>2. b \in Blocks
        BY DEF Available
      <4>3. Ptr(b, HeaderSize, c.len) \in Pointer
        BY <4>1, <4>2, PointerTypes
      <4> QED BY <4>2, <4>3, PointerTypes DEF Ptr
    <3>6. heap'[b].hdr.req = n
      <4>1. heap'[b] = k
        BY <3>1, <3>5 DEF TypeOK
      <4> QED BY <4>1 DEF NewBlock, NewHeader
    <3>7. Tallies
      <4> HIDE DEF k
      <4> QED BY <2>1, <3>1, <3>3, <3>4, <3>5, NewTotals
    <3>8. Tallied(t)'
      <4> HIDE DEF n
      <4> QED BY <3>3, <3>4, <3>5, <3>6 DEF Tallied
    <3> QED BY <3>7, <3>8
  <2>3. CASE ~HeaderedBlock(t, n)
    <3>1. pc'[t] = "return" /\ UNCHANGED heap
      BY <1>1, <1>c, <2>3 DEF Malloc, Result, Goto, TypeOK
    <3> QED BY <2>1, <3>1, QuietTotals DEF Marking
  <2> QED BY <2>2, <2>3
<1>2. CASE MallocCount(t)
  <2>1. /\ pc[t] = "malloc_count" /\ pc'[t] = "return" /\ UNCHANGED <<total_freed, call>>
        /\ total_allocated' = (total_allocated + c.size) % CounterWord
    BY <1>2, <1>c DEF MallocCount, Running, Goto, TypeOK
  <2>2. c.res # NULL /\ heap[c.res.blk].hdr.req = c.size
    BY <1>c, <2>1 DEF Tallied
  <2>3. PICK x : x = c.res.blk
    OBVIOUS
  <2>4. x \in Blocks /\ c.res \in InCall(t)
    BY <1>c, <2>2, <2>3, CallHands DEF InCall
  <2>5. Pending(t) = {x}
    BY <1>c, <2>1, <2>2, <2>3 DEF Pending, InCall
  <2>6. Pending(t)' = {}
    BY <2>1, NothingPending DEF Marking
  <2>7. ASSUME NEW b \in Blocks
        PROVE  heap'[b].live = heap[b].live /\ heap'[b].hdr = heap[b].hdr
    <3>1. heap'[b] = heap[b] \/ heap'[b] = [heap[b] EXCEPT !.data = Cleared(c, c.size)]
      BY <1>2, <1>c DEF MallocCount, TypeOK
    <3> QED BY <3>1 DEF TypeOK, Block
  <2>8. \A b \in Blocks \ {x} : Bytes'[b] = Bytes[b]
    BY <2>5, <2>6, <2>7, SameBytes
  <2>9. Bytes[x] = 0
    BY <2>4, <2>5, NoBytes
  <2>10. Bytes'[x] = c.size
    <3>1. Bytes'[c.res.blk] = heap[c.res.blk].hdr.req
      BY <2>3, <2>4, <2>6, <2>7, BecomesCounted
    <3> QED BY <2>2, <2>3, <3>1
  <2>11. Tallies
    BY <1>0, <2>1, <2>4, <2>8, <2>9, <2>10, TalliesRaised
  <2>12. Tallied(t)'
    BY <2>1 DEF Tallied
  <2> QED BY <2>11, <2>12
<1> QED BY <1>1, <1>2

\* realloc to a smaller size is excluded, and one to the same size writes the same
\* header.
LEMMA ShrinkTotals ==
  ASSUME TypeOK, CallShape, CountsInFull, NEW t \in Threads, Only(t), ReallocShrink(t)
  PROVE  Tallies /\ Tallied(t)'
<1>c. PICK c : c = call[t]
  OBVIOUS
<1>p. PICK p : p = c.ptr
  OBVIOUS
<1>0. c \in Call /\ c.size \in Nat
  BY <1>c, CallFields DEF TypeOK
<1>1. /\ pc[t] = "body" /\ pc'[t] = "return" /\ UNCHANGED totals
      /\ c.op = "realloc" /\ p # NULL /\ c.size > 0 /\ c.size <= HeaderOf(p).req
      /\ heap' = [heap EXCEPT ![p.blk].hdr.req = c.size]
  BY <1>c, <1>p DEF ReallocShrink, Running, Result, Goto, TypeOK
<1>2. p.blk \in Blocks /\ heap[p.blk] \in Block /\ heap[p.blk].hdr.req \in Nat
  BY <1>0, <1>p, <1>1, CallFields, PointerTypes, BlockTypes DEF TypeOK
<1>3. c.size = heap[p.blk].hdr.req
  BY <1>0, <1>1, <1>2, <1>c, <1>p DEF CountsInFull, HeaderOf
<1>4. ASSUME NEW b \in Blocks
      PROVE  heap'[b].live = heap[b].live /\ heap'[b].hdr = heap[b].hdr
  <2>1. CASE b # p.blk
    BY <1>1, <2>1 DEF TypeOK
  <2>2. CASE b = p.blk
    <3>1. heap'[b] = [heap[b] EXCEPT !.hdr.req = heap[b].hdr.req]
      BY <1>1, <1>2, <1>3, <2>2 DEF TypeOK
    <3> QED BY <1>2, <2>2, <3>1 DEF Block, Header
  <2> QED BY <2>1, <2>2
<1> QED BY <1>1, <1>4, QuietTotals DEF Marking

\* A realloc that moves: the new block, ...
LEMMA GrowTotals ==
  ASSUME TypeOK, CallShape, Exclusive, NEW t \in Threads, Only(t), ReallocGrow(t)
  PROVE  Tallies /\ Tallied(t)'
<1>c. PICK c : c = call[t]
  OBVIOUS
<1>p. PICK p : p = c.ptr
  OBVIOUS
<1>0. c \in Call /\ c.size \in Nat /\ c.len \in Nat /\ HeaderSize \in Nat
  BY <1>c, CallFields, ConstantTypes DEF TypeOK
<1>1. pc[t] = "body" /\ UNCHANGED totals /\ p # NULL
  BY <1>c, <1>p DEF ReallocGrow, Running
<1>2. p \in InCall(t) /\ p.blk \in Blocks /\ heap[p.blk].live
  BY <1>c, <1>p, <1>1, CallHands DEF InCall, Exclusive
<1>3. CASE Result(t, c, NULL) /\ UNCHANGED heap
  <2>1. pc'[t] = "return"
    BY <1>3 DEF Result, Goto, TypeOK
  <2> QED BY <1>1, <1>3, <2>1, QuietTotals DEF Marking
<1>4. CASE ~(Result(t, c, NULL) /\ UNCHANGED heap)
  <2> DEFINE k == [NewBlock(TotalSize(c.size), NewHeader(HeaderSize, c.size)) EXCEPT
                     !.data = Copied(p)]
  <2>1. PICK b \in Available :
          /\ heap' = [heap EXCEPT ![b] = k]
          /\ Set(t, [c EXCEPT !.old = HeaderOf(p).req, !.res = Ptr(b, HeaderSize, c.len)])
          /\ Goto(t, "realloc_freed")
    BY <1>c, <1>p, <1>4 DEF ReallocGrow
  <2>2. call'[t] = [c EXCEPT !.old = HeaderOf(p).req, !.res = Ptr(b, HeaderSize, c.len)]
    BY <2>1 DEF Set, TypeOK
  <2>3. /\ call'[t].res = Ptr(b, HeaderSize, c.len) /\ call'[t].size = c.size
        /\ call'[t].old = heap[p.blk].hdr.req /\ call'[t].ptr = p
    BY <1>0, <1>p, <2>2 DEF Call, HeaderOf
  <2>4. pc'[t] = "realloc_freed"
    BY <2>1 DEF Goto, TypeOK
  <2>5. b \in Blocks /\ ~heap[b].live /\ b # p.blk
    BY <1>2 DEF Available
  <2>6. Ptr(b, HeaderSize, c.len) # NULL /\ Ptr(b, HeaderSize, c.len).blk = b
    BY <1>0, <2>5, PointerTypes DEF Ptr
  <2>7. k.hdr.req = c.size
    BY DEF NewBlock, NewHeader
  <2> HIDE DEF k
  <2>8. heap'[b] = k /\ heap'[p.blk] = heap[p.blk]
    BY <1>2, <2>1, <2>5 DEF TypeOK
  <2>9. Tallies
    BY <1>1, <2>1, <2>3, <2>4, <2>6, NewTotals
  <2>10. Tallied(t)'
    BY <2>3, <2>4, <2>6, <2>7, <2>8 DEF Tallied
  <2> QED BY <2>9, <2>10
<1> QED BY <1>3, <1>4

\* ... the old size counted as freed, ...
LEMMA FreedTotals ==
  ASSUME TypeOK, TypeOK', CallShape, Exclusive, HeadersKept, NEW t \in Threads,
         Tallied(t), Only(t), ReallocFreed(t)
  PROVE  Tallies /\ Tallied(t)'
<1>c. PICK c : c = call[t]
  OBVIOUS
<1>0. c \in Call /\ Shape(t) /\ c.old \in Nat
  BY <1>c, CallFields DEF TypeOK, CallShape
<1>1. /\ pc[t] = "realloc_freed" /\ pc'[t] = "realloc_allocated"
      /\ UNCHANGED <<heap, total_allocated, call>>
      /\ total_freed' = (total_freed + c.old) % CounterWord
  BY <1>c DEF ReallocFreed, Running, Goto, TypeOK
<1>2. /\ c.ptr # NULL /\ heap[c.ptr.blk].hdr.req = c.old
      /\ c.res # NULL /\ heap[c.res.blk].hdr.req = c.size
  BY <1>0, <1>1, <1>c DEF Tallied, Shape
<1>3. PICK x : x = c.ptr.blk
  OBVIOUS
<1>4. x \in Blocks /\ c.ptr \in InCall(t) /\ x # c.res.blk /\ c.ptr # c.res
  BY <1>c, <1>2, <1>3, CallHands DEF InCall, Exclusive
<1>5. Pending(t) = {c.res.blk} /\ Pending(t)' = {c.res.blk, x}
  BY <1>c, <1>1, <1>2, <1>3, <1>4 DEF Pending, InCall
<1>6. \A b \in Blocks \ {x} : Bytes'[b] = Bytes[b]
  BY <1>1, <1>5, SameBytes
<1>7. Bytes[x] = c.old
  BY <1>2, <1>3, <1>4, <1>5, FullBytes
<1>8. Bytes'[x] = 0
  BY <1>4, <1>5, NoBytes
<1>9. Tallies
  BY <1>0, <1>1, <1>4, <1>6, <1>7, <1>8, TalliesLowered
<1>10. Tallied(t)'
  BY <1>1, <1>2, <1>c DEF Tallied
<1> QED BY <1>9, <1>10

\* ... and the new one as allocated.
LEMMA AllocatedTotals ==
  ASSUME TypeOK, TypeOK', CallShape, Exclusive, HeadersKept, NEW t \in Threads,
         Tallied(t), Only(t), ReallocAllocated(t)
  PROVE  Tallies /\ Tallied(t)'
<1>c. PICK c : c = call[t]
  OBVIOUS
<1>0. c \in Call /\ Shape(t) /\ c.size \in Nat
  BY <1>c, CallFields DEF TypeOK, CallShape
<1>1. /\ pc[t] = "realloc_allocated" /\ pc'[t] = "free_block"
      /\ UNCHANGED <<heap, total_freed, call>>
      /\ total_allocated' = (total_allocated + c.size) % CounterWord
  BY <1>c DEF ReallocAllocated, Running, Goto, TypeOK
<1>2. /\ c.ptr # NULL /\ c.res # NULL /\ heap[c.res.blk].hdr.req = c.size
  BY <1>0, <1>1, <1>c DEF Tallied, Shape
<1>3. PICK x : x = c.res.blk
  OBVIOUS
<1>4. x \in Blocks /\ c.res \in InCall(t) /\ x # c.ptr.blk /\ c.ptr # c.res
  BY <1>c, <1>2, <1>3, CallHands DEF InCall, Exclusive
<1>5. Pending(t) = {x, c.ptr.blk} /\ Pending(t)' = {c.ptr.blk}
  BY <1>c, <1>1, <1>2, <1>3, <1>4 DEF Pending, InCall
<1>6. \A b \in Blocks \ {x} : Bytes'[b] = Bytes[b]
  BY <1>1, <1>5, SameBytes
<1>7. Bytes[x] = 0
  BY <1>4, <1>5, NoBytes
<1>8. Bytes'[x] = c.size
  <2>1. Bytes'[c.res.blk] = heap[c.res.blk].hdr.req
    BY <1>1, <1>3, <1>4, <1>5, BecomesCounted
  <2> QED BY <1>2, <1>3, <2>1
<1>9. Tallies
  BY <1>0, <1>1, <1>4, <1>6, <1>7, <1>8, TalliesRaised
<1>10. Tallied(t)'
  BY <1>1 DEF Tallied
<1> QED BY <1>9, <1>10

\* free counts what the header says, then gives the block back.
LEMMA FreeTotals ==
  ASSUME TypeOK, TypeOK', CallShape, Exclusive, HeadersKept, LifeInv, NoBadFree, NoBadFree',
         NEW t \in Threads, Only(t),
         Free(t) \/ FreeInitializing(t) \/ FreeHeader(t) \/ FreeBlockOf(t) \/ FreeRaw(t)
  PROVE  Tallies /\ Tallied(t)'
<1>c. PICK c : c = call[t]
  OBVIOUS
<1>0. c \in Call /\ Shape(t)
  BY <1>c DEF TypeOK, CallShape
<1>h. ASSUME c.ptr # NULL
      PROVE  /\ c.ptr \in InCall(t) /\ c.ptr.blk \in Blocks /\ Headed(c.ptr)
             /\ heap[c.ptr.blk].hdr.req \in Nat
  BY <1>c, <1>h, CallHands, BlockTypes DEF InCall, HeadersKept, TypeOK
<1>1. CASE Free(t) \/ FreeInitializing(t)
  <2>1. pc[t] \in {"free", "free_initializing"} /\ UNCHANGED <<totals, heap>>
    BY <1>1 DEF Free, FreeInitializing, Running
  <2>2. pc'[t] \in {"return", "free_initializing", "free_raw", "free_header"}
    BY <1>1 DEF Free, FreeInitializing, Goto, TypeOK
  <2> QED BY <2>1, <2>2, QuietTotals DEF Marking
<1>2. CASE FreeHeader(t)
  <2>1. pc[t] = "free_header" /\ c.ptr # NULL /\ UNCHANGED <<heap, total_allocated, call>>
    BY <1>0, <1>2, <1>c DEF FreeHeader, Running, Shape
  <2>2. PICK x, n : x = c.ptr.blk /\ n = heap[c.ptr.blk].hdr.req
    OBVIOUS
  <2>3. /\ c.ptr \in InCall(t) /\ x \in Blocks /\ HasHeader(c.ptr) /\ n \in Nat
    BY <1>h, <2>1, <2>2 DEF Headed
  <2>4. pc'[t] = "free_block" /\ total_freed' = (total_freed + n) % CounterWord
    BY <1>2, <1>c, <2>2, <2>3 DEF FreeHeader, HeaderOf, Goto, TypeOK
  <2>5. Pending(t) = {} /\ Pending(t)' = {x}
    <3>1. Pending(t) = {}
      BY <2>1, NothingPending DEF Marking
    <3>2. Pending(t)' = {x}
      BY <1>c, <2>1, <2>2, <2>4 DEF Pending, InCall
    <3> QED BY <3>1, <3>2
  <2>6. \A b \in Blocks \ {x} : Bytes'[b] = Bytes[b]
    BY <2>1, <2>5, SameBytes
  <2>7. Bytes[x] = n
    BY <2>2, <2>3, <2>5, FullBytes
  <2>8. Bytes'[x] = 0
    BY <2>3, <2>5, NoBytes
  <2>9. Tallies
    BY <2>1, <2>3, <2>4, <2>6, <2>7, <2>8, TalliesLowered
  <2>10. Tallied(t)'
    BY <2>4 DEF Tallied
  <2> QED BY <2>9, <2>10
<1>3. CASE FreeBlockOf(t)
  <2>1. pc[t] = "free_block" /\ pc'[t] = "return" /\ c.ptr # NULL /\ UNCHANGED totals
    BY <1>0, <1>3, <1>c DEF FreeBlockOf, Running, Goto, TypeOK, Shape
  <2>2. PICK x : x = c.ptr.blk
    OBVIOUS
  <2>3. x \in Blocks /\ c.ptr \in InCall(t)
    BY <1>h, <2>1, <2>2
  <2>4. heap' = [heap EXCEPT ![x] = FreeBlock]
    BY <1>3, <1>c, <2>2 DEF FreeBlockOf, LibcFree, NoBadFree
  <2>5. ~heap'[x].live
    BY <2>3, <2>4 DEF TypeOK, FreeBlock
  <2>6. Pending(t) = {x} /\ Pending(t)' = {}
    <3>1. Pending(t) = {x}
      BY <1>c, <2>1, <2>2 DEF Pending, InCall
    <3>2. Pending(t)' = {}
      BY <2>1, NothingPending DEF Marking
    <3> QED BY <3>1, <3>2
  <2>7. Bytes[x] = 0 /\ Bytes'[x] = 0
    BY <2>3, <2>5, <2>6, NoBytes
  <2>8. ASSUME NEW b \in Blocks \ {x} PROVE Bytes'[b] = Bytes[b]
    <3>1. heap'[b] = heap[b]
      BY <2>4 DEF TypeOK
    <3> QED BY <2>6, <3>1, SameBytes
  <2>9. \A b \in Blocks : Bytes'[b] = Bytes[b]
    BY <2>7, <2>8
  <2>10. Tallies
    BY <2>1, <2>9 DEF Tallies, SameTotals
  <2>11. Tallied(t)'
    BY <2>1 DEF Tallied
  <2> QED BY <2>10, <2>11
<1>4. CASE FreeRaw(t)
  BY <1>4 DEF FreeRaw, Running, LifeInv, NoFallback
<1> QED BY <1>1, <1>2, <1>3, <1>4

\* Every step of orderly clients that counts in full.
LEMMA TotalsStep ==
  ASSUME TypeOK, TypeOK', CallShape, Exclusive, NoLeak, OrderlyInv, NoBadFree', CountsInFull, TotalsInv,
         NEW t \in Threads, Step(t), Only(t), Local(t)
  PROVE  Tallies /\ \A u \in Threads : Tallied(u)'
<1>0. (\A u \in Threads : Tallied(u)) /\ Tallied(t) /\ LifeInv /\ HeadersKept /\ NoBadFree
  BY DEF TotalsInv, OrderlyInv
<1>1. \A u \in Threads \ {t} : Tallied(u)'
  BY <1>0, OthersTallied
<1>2. CASE Client(t)
  BY <1>0, <1>1, <1>2, ClientTotals
<1>3. CASE Guard(t)
  BY <1>0, <1>1, <1>3, GuardTotals
<1>4. CASE Start(t) \/ Stop(t)
  BY <1>0, <1>1, <1>4, LifecycleTotals
<1>5. CASE Body(t)
  <2>1. CASE Calloc(t) \/ ReallocForward(t)
    <3>1. pc[t] = "body" /\ pc'[t] \in {"enter", "free"} /\ UNCHANGED <<totals, heap>>
      BY <2>1 DEF Calloc, ReallocForward, Running, Goto, TypeOK
    <3>2. Tallies /\ Tallied(t)'
      BY <1>0, <3>1, QuietTotals DEF Marking
    <3> QED BY <1>1, <3>2
  <2>2. CASE Malloc(t) \/ MallocCount(t)
    BY <1>0, <1>1, <2>2, MallocTotals
  <2>3. CASE Aligned(t)
    BY <2>3 DEF Aligned, CountsInFull
  <2>4. CASE ReallocForeign(t)
    <3>1. call[t].ptr # NULL => Headed(call[t].ptr)
      BY <1>0 DEF HeadersKept, InCall
    <3> QED BY <2>4, <3>1 DEF ReallocForeign, Headed
  <2>5. CASE ReallocShrink(t)
    BY <1>0, <1>1, <2>5, ShrinkTotals
  <2>6. CASE ReallocGrow(t)
    BY <1>0, <1>1, <2>6, GrowTotals
  <2>7. CASE ReallocFreed(t)
    BY <1>0, <1>1, <2>7, FreedTotals
  <2>8. CASE ReallocAllocated(t)
    BY <1>0, <1>1, <2>8, AllocatedTotals
  <2>9. CASE Free(t) \/ FreeInitializing(t) \/ FreeHeader(t) \/ FreeBlockOf(t) \/ FreeRaw(t)
    BY <1>0, <1>1, <2>9, FreeTotals
  <2> QED BY <1>5, <2>1, <2>2, <2>3, <2>4, <2>5, <2>6, <2>7, <2>8, <2>9 DEF Body
<1> QED BY <1>2, <1>3, <1>4, <1>5 DEF Step

Known == TypeOK /\ CallShape /\ Exclusive /\ NoLeak /\ OrderlyInv

\* It holds at the start, ...
LEMMA TotalsInit == Init => TotalsInv
<1> SUFFICES ASSUME Init PROVE TotalsInv
  OBVIOUS
<1>1. \A t \in Threads : Tallied(t)
  BY DEF Init, Tallied
<1>2. PICK w : w = Bytes
  OBVIOUS
<1>3. \A b \in Blocks : w[b] = 0
  BY <1>2, NoBytes DEF Init, FreeBlock
<1>4. AllBytes = 0
  BY <1>2, <1>3, FiniteMemory, SumZero DEF AllBytes
<1>5. (0 - 0) % CounterWord = 0 % CounterWord
  OBVIOUS
<1> QED BY <1>1, <1>4, <1>5 DEF TotalsInv, Balanced, Init

\* ... and in every step, which adds to one total what one block gains or loses.
LEMMA TotalsNext ==
  ASSUME Known, Known', CountsInFull, TotalsInv, [Next]_vars
  PROVE  Tallies /\ TotalsInv'
<1>1. CASE UNCHANGED vars
  <2>1. UNCHANGED <<heap, pc, call, total_allocated, total_freed>>
    BY <1>1 DEF vars, totals
  <2>2. Bytes' = Bytes
    BY <2>1 DEF Bytes, Counted, InCall
  <2>3. Tallies
    BY <2>1, <2>2 DEF Tallies, SameTotals, totals
  <2>4. \A t \in Threads : Tallied(t)'
    BY <2>1 DEF TotalsInv, Tallied
  <2>5. Balanced'
    BY <2>3, TalliesBalance DEF Known, TotalsInv
  <2> QED BY <2>3, <2>4, <2>5 DEF TotalsInv
<1>2. ASSUME NEW t \in Threads, Step(t) PROVE Tallies /\ TotalsInv'
  <2>1. Only(t) /\ Local(t)
    BY <1>2, OnlyOne, LocalStep DEF Known
  <2>2. NoBadFree'
    BY DEF Known, OrderlyInv
  <2>3. Tallies /\ \A u \in Threads : Tallied(u)'
    BY <1>2, <2>1, <2>2, TotalsStep DEF Known
  <2>4. Balanced'
    BY <2>3, TalliesBalance DEF Known, TotalsInv
  <2> QED BY <2>3, <2>4 DEF TotalsInv
<1> QED BY <1>1, <1>2 DEF Next, Step

-----------------------------------------------------------------------------
(* The reader.                                                             *)

\* Between its loads, what it has and the other total give what is due.
ReaderInv ==
  /\ reader \in [at : {"none", "allocated", "freed", "read"}, value : Int, due : Int]
  /\ Between => pc[Main] \notin LifecycleSteps
  /\ reader.at = "allocated" => reader.due = (reader.value - total_freed) % CounterWord
  /\ reader.at = "freed" => reader.due = (total_allocated - reader.value) % CounterWord
  /\ ReportedIsHeld

\* A sum with one term that is not 0.
LEMMA OneTerm ==
  ASSUME NEW f, NEW x \in Blocks, f[x] \in Nat, \A b \in Blocks \ {x} : f[b] = 0
  PROVE  SumFunctionOnSet(f, Blocks) = f[x]
<1>1. \A b \in Blocks : f[b] \in Nat
  OBVIOUS
<1>2. SumFunctionOnSet(f, Blocks) = f[x] + SumFunctionOnSet(f, Blocks \ {x})
  BY <1>1, FiniteMemory, SumTyped
<1>3. IsFiniteSet(Blocks \ {x})
  BY FiniteMemory, FS_Subset
<1>4. SumFunctionOnSet(f, Blocks \ {x}) = 0
  BY <1>3, SumZero
<1> QED BY <1>2, <1>4

\* What the blocks lose and gain is what the totals do.
LEMMA TalliesMove ==
  ASSUME TypeOK, TypeOK', Tallies, ~Emptied
  PROVE  /\ \/ GivenUp = 0 /\ total_freed' = total_freed
            \/ GivenUp \in Nat /\ total_freed' = (total_freed + GivenUp) % CounterWord
         /\ \/ Added = 0 /\ total_allocated' = total_allocated
            \/ Added \in Nat /\ total_allocated' = (total_allocated + Added) % CounterWord
<1>1. PICK l : l = [b \in Blocks |-> Above(Bytes[b], Bytes'[b])]
  OBVIOUS
<1>2. PICK g : g = [b \in Blocks |-> Above(Bytes'[b], Bytes[b])]
  OBVIOUS
<1>3. GivenUp = SumFunctionOnSet(l, Blocks) /\ Added = SumFunctionOnSet(g, Blocks)
  BY <1>1, <1>2 DEF GivenUp, Added
<1>4. \A b \in Blocks : Bytes[b] \in Nat
  BY BytesTypes
<1>5. \A b \in Blocks : /\ l[b] = Above(Bytes[b], Bytes'[b])
                        /\ g[b] = Above(Bytes'[b], Bytes[b])
  BY <1>1, <1>2
<1>6. \A b \in Blocks : Bytes'[b] = Bytes[b] => l[b] = 0 /\ g[b] = 0
  BY <1>4, <1>5 DEF Above
<1>7. CASE SameTotals
  <2>1. \A b \in Blocks : l[b] = 0 /\ g[b] = 0
    BY <1>6, <1>7 DEF SameTotals
  <2>2. GivenUp = 0 /\ Added = 0
    BY <1>3, <2>1, FiniteMemory, SumZero
  <2> QED BY <1>7, <2>2 DEF SameTotals, totals
<1>8. CASE Raised
  <2>1. PICK x \in Blocks, n \in Nat :
          /\ OthersSame(x) /\ Bytes[x] = 0 /\ Bytes'[x] = n
          /\ total_allocated' = (total_allocated + n) % CounterWord /\ UNCHANGED total_freed
    BY <1>8 DEF Raised
  <2>2. l[x] = 0 /\ g[x] = n
    BY <1>5, <2>1 DEF Above
  <2>3. \A b \in Blocks \ {x} : l[b] = 0 /\ g[b] = 0
    BY <1>6, <2>1 DEF OthersSame
  <2>4. Added = n
    BY <1>3, <2>2, <2>3, OneTerm
  <2>5. \A b \in Blocks : l[b] = 0
    BY <2>2, <2>3
  <2>6. GivenUp = 0
    BY <1>3, <2>5, FiniteMemory, SumZero
  <2> QED BY <2>1, <2>4, <2>6
<1>9. CASE Lowered
  <2>1. PICK x \in Blocks, n \in Nat :
          /\ OthersSame(x) /\ Bytes[x] = n /\ Bytes'[x] = 0
          /\ total_freed' = (total_freed + n) % CounterWord /\ UNCHANGED total_allocated
    BY <1>9 DEF Lowered
  <2>2. g[x] = 0 /\ l[x] = n
    BY <1>5, <2>1 DEF Above
  <2>3. \A b \in Blocks \ {x} : l[b] = 0 /\ g[b] = 0
    BY <1>6, <2>1 DEF OthersSame
  <2>4. GivenUp = n
    BY <1>3, <2>2, <2>3, OneTerm
  <2>5. \A b \in Blocks : g[b] = 0
    BY <2>2, <2>3
  <2>6. Added = 0
    BY <1>3, <2>5, FiniteMemory, SumZero
  <2> QED BY <2>1, <2>4, <2>6
<1> QED BY <1>7, <1>8, <1>9 DEF Tallies

\* A step of the others: what is due moves as the other total does.
LEMMA OthersRead ==
  ASSUME Known, Known', CountsInFull, TotalsInv, ReaderInv, Others
  PROVE  ReaderInv'
<1>0. TypeOK /\ TypeOK' /\ Tallies
  BY TotalsNext DEF Known, Others
<1>1. PICK a \in Int, f \in Int, W \in Nat \ {0} :
        a = total_allocated /\ f = total_freed /\ W = CounterWord
  BY <1>0, ConstantTypes DEF TypeOK
<1>2. reader.value \in Int /\ reader.due \in Int
  BY DEF ReaderInv
<1>3. PICK v \in Int, d \in Int : v = reader.value /\ d = reader.due
  BY <1>2
<1>4. reader.at \in {"none", "allocated", "freed", "read"}
  BY DEF ReaderInv
<1>5. CASE ~Between
  <2>1. reader' = reader
    BY <1>4, <1>5 DEF Others, Between
  <2> QED BY <1>4, <1>5, <2>1 DEF ReaderInv, ReportedIsHeld, Between
<1>6. ASSUME Between
      PROVE  /\ pc'[Main] \notin LifecycleSteps
             /\ \/ GivenUp = 0 /\ total_freed' = total_freed
                \/ GivenUp \in Nat /\ total_freed' = (total_freed + GivenUp) % CounterWord
             /\ \/ Added = 0 /\ total_allocated' = total_allocated
                \/ Added \in Nat /\ total_allocated' = (total_allocated + Added) % CounterWord
  <2>1. pc'[Main] \notin LifecycleSteps
    BY <1>6 DEF Others
  <2>2. ~Emptied
    BY <1>6 DEF ReaderInv, Emptied
  <2> QED BY <1>0, <2>1, <2>2, TalliesMove
<1>7. CASE reader.at = "allocated"
  <2>1. reader' = [reader EXCEPT !.due = (d - GivenUp) % W]
    BY <1>1, <1>3, <1>7 DEF Others
  <2>2. Between
    BY <1>7 DEF Between
  <2>3. d = (v - f) % W
    BY <1>1, <1>3, <1>7 DEF ReaderInv
  <2>4. PICK n \in Nat : n = GivenUp /\ ((total_freed' = f /\ n = 0) \/ total_freed' = (f + n) % W)
    BY <1>1, <1>6, <2>2
  <2>5. (v - total_freed') % W = (d - n) % W
    <3>1. CASE total_freed' = f /\ n = 0
      <4>1. (d - 0) % W = d
        BY <2>3
      <4> QED BY <2>3, <3>1, <4>1
    <3>2. CASE total_freed' = (f + n) % W
      <4>1. n \in Int
        OBVIOUS
      <4>2. (v - ((f + n) % W)) % W = (((v - f) % W) - n) % W
        BY <4>1, LowerMoves, ZenonT(40)
      <4> QED BY <2>3, <3>2, <4>2, Zenon
    <3> QED BY <2>4, <3>1, <3>2
  <2>6. /\ reader'.at = "allocated" /\ reader'.value = v /\ reader'.due = (d - n) % W
        /\ reader' \in [at : {"none", "allocated", "freed", "read"}, value : Int, due : Int]
    <3>1. (d - n) % W \in Int
      OBVIOUS
    <3>2. reader' = [reader EXCEPT !.due = (d - n) % W]
      BY <2>1, <2>4
    <3> QED BY <1>3, <1>7, <3>1, <3>2 DEF ReaderInv
  <2> QED BY <1>1, <1>6, <2>2, <2>5, <2>6 DEF ReaderInv, ReportedIsHeld, Between
<1>8. CASE reader.at = "freed"
  <2>1. reader' = [reader EXCEPT !.due = (d + Added) % W]
    BY <1>1, <1>3, <1>8 DEF Others
  <2>2. Between
    BY <1>8 DEF Between
  <2>3. d = (a - v) % W
    BY <1>1, <1>3, <1>8 DEF ReaderInv
  <2>4. PICK n \in Nat : n = Added /\ ((total_allocated' = a /\ n = 0) \/ total_allocated' = (a + n) % W)
    BY <1>1, <1>6, <2>2
  <2>5. (total_allocated' - v) % W = (d + n) % W
    <3>1. CASE total_allocated' = a /\ n = 0
      <4>1. (d + 0) % W = d
        BY <2>3
      <4> QED BY <2>3, <3>1, <4>1
    <3>2. CASE total_allocated' = (a + n) % W
      <4>1. n \in Int
        OBVIOUS
      <4>2. (((a + n) % W) - v) % W = (((a - v) % W) + n) % W
        BY <4>1, UpperMoves, ZenonT(40)
      <4> QED BY <2>3, <3>2, <4>2, Zenon
    <3> QED BY <2>4, <3>1, <3>2
  <2>6. /\ reader'.at = "freed" /\ reader'.value = v /\ reader'.due = (d + n) % W
        /\ reader' \in [at : {"none", "allocated", "freed", "read"}, value : Int, due : Int]
    <3>1. (d + n) % W \in Int
      OBVIOUS
    <3>2. reader' = [reader EXCEPT !.due = (d + n) % W]
      BY <2>1, <2>4
    <3> QED BY <1>3, <1>8, <3>1, <3>2 DEF ReaderInv
  <2> QED BY <1>1, <1>6, <2>2, <2>5, <2>6 DEF ReaderInv, ReportedIsHeld, Between
<1> QED BY <1>5, <1>7, <1>8 DEF Between

\* The reader's own steps.
LEMMA ReaderReads ==
  ASSUME TypeOK, TotalsInv, ReaderInv, LoadFirst \/ LoadSecond \/ HandBack
  PROVE  ReaderInv'
<1>0. UNCHANGED <<total_allocated, total_freed, pc>>
  BY DEF LoadFirst, LoadSecond, HandBack, vars, totals
<1>1. /\ total_allocated \in Int /\ total_freed \in Int /\ CounterWord \in Nat \ {0}
      /\ AllBytes \in Int
  BY ConstantTypes, BytesTypes DEF TypeOK
<1>2. CASE LoadFirst
  <2>1. PICK first \in {"allocated", "freed"} :
          reader' = [at    |-> first,
                     value |-> IF first = "allocated" THEN total_allocated ELSE total_freed,
                     due   |-> AllBytes % CounterWord]
    BY <1>2 DEF LoadFirst
  <2>2. AllBytes % CounterWord \in Int
    BY <1>1
  <2>3. AllBytes % CounterWord = (total_allocated - total_freed) % CounterWord
    BY DEF TotalsInv, Balanced
  <2>4. pc[Main] \notin LifecycleSteps
    BY <1>2 DEF LoadFirst
  <2>5. reader' \in [at : {"none", "allocated", "freed", "read"}, value : Int, due : Int]
    BY <1>1, <2>1, <2>2
  <2> QED BY <1>0, <2>1, <2>3, <2>4, <2>5 DEF ReaderInv, ReportedIsHeld
<1>3. CASE LoadSecond
  <2>1. reader' = [reader EXCEPT !.at = "read", !.value = Difference % CounterWord]
    BY <1>3 DEF LoadSecond
  <2>2. Difference \in Int /\ Difference % CounterWord \in Int
    BY <1>1 DEF Difference, ReaderInv
  <2>3. reader.due = Difference % CounterWord
    BY <1>3 DEF LoadSecond, Between, Difference, ReaderInv
  <2>4. /\ reader'.at = "read" /\ reader'.value = Difference % CounterWord
        /\ reader'.due = reader.due
        /\ reader' \in [at : {"none", "allocated", "freed", "read"}, value : Int, due : Int]
    BY <2>1, <2>2 DEF ReaderInv
  <2> QED BY <2>3, <2>4 DEF ReaderInv, ReportedIsHeld, Between
<1>4. CASE HandBack
  BY <1>4 DEF HandBack, NoReader, ReaderInv, ReportedIsHeld, Between
<1> QED BY <1>2, <1>3, <1>4

\* With orderly clients that allocate nothing aligned and shrink nothing, for any
\* number of threads and blocks and any sizes: what a client is told is what the
\* blocks held at its first load, but for what other threads gave up (or added)
\* before its second.  Each thread's additions, made apart from each other and from
\* libc's calls, match its blocks, and init and shutdown clear the totals only when
\* nobody has one.
THEOREM ActiveReported == Orderly => (ReaderSpec /\ []CountsInFull => []ReportedIsHeld)
<1> SUFFICES ASSUME Orderly PROVE ReaderSpec /\ []CountsInFull => []ReportedIsHeld
  OBVIOUS
<1>1. Init => TotalsInv
  BY TotalsInit
<1>2. ReaderInit => Init /\ ReaderInv
  BY DEF ReaderInit, ReaderInv, NoReader, Between, ReportedIsHeld
<1>3. [ReaderNext]_<<vars, reader>> => [Next]_vars
  BY DEF ReaderNext, LoadFirst, LoadSecond, HandBack, Others
<1>4. Known /\ Known' /\ CountsInFull /\ TotalsInv /\ [Next]_vars => TotalsInv'
  BY TotalsNext
<1>5. Known /\ Known' /\ CountsInFull /\ TotalsInv /\ ReaderInv /\ [ReaderNext]_<<vars, reader>>
        => ReaderInv'
  <2> SUFFICES ASSUME Known, Known', CountsInFull, TotalsInv, ReaderInv,
                      ReaderNext \/ UNCHANGED <<vars, reader>>
               PROVE  ReaderInv'
    OBVIOUS
  <2>1. CASE UNCHANGED <<vars, reader>>
    BY <2>1 DEF vars, totals, ReaderInv, ReportedIsHeld, Between
  <2>2. CASE Others
    BY <2>2, OthersRead
  <2>3. CASE LoadFirst \/ LoadSecond \/ HandBack
    BY <2>3, ReaderReads DEF Known
  <2> QED BY <2>1, <2>2, <2>3 DEF ReaderNext
<1>6. ReaderInv => ReportedIsHeld
  BY DEF ReaderInv
<1>7. Spec => []Known
  BY TypeCorrect, HandsCorrect, OrderlyCorrect, PTL DEF Known
<1> QED BY <1>1, <1>2, <1>3, <1>4, <1>5, <1>6, <1>7, PTL DEF Spec, ReaderSpec

=============================================================================
