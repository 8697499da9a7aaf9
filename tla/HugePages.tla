----------------------------- MODULE HugePages ------------------------------
(***************************************************************************)
(* os/hugepages.c and the aligned mappings of utils/memory.h: memory taken *)
(* from the kernel in pages of 2 MB and 1 GB, or, when there are none, in  *)
(* ordinary pages at an aligned address; and the count of the pages that   *)
(* are reserved for it.                                                    *)
(*                                                                         *)
(* Addresses and lengths are in bytes, of which there may be few to a      *)
(* page.  mmap and munmap are the kernel's; between them a call changes    *)
(* nothing another call could see, so an allocation and a free are one     *)
(* step each.  The calls that change the manager are taken apart.          *)
(***************************************************************************)

EXTENDS Integers, FiniteSets

CONSTANTS
  Page,          \* get_page_size, the size of an ordinary page
  TwoMB, OneGB,  \* HUGEPAGE_2MB_SIZE and HUGEPAGE_1GB_SIZE
  Space,         \* the size of the address space: a bound of the model
  Sizes,         \* the sizes clients ask for
  MaxHeld,       \* a bound of the model: how many blocks clients hold
  Callers,       \* the threads that change the manager
  NoCaller,
  MaxReserved    \* a bound of the model: what reserved_pages does not pass

\* What the constants must satisfy.
ConstantsOK ==
  /\ Page \in Nat \ {0}
  /\ TwoMB \in Nat /\ TwoMB > Page /\ TwoMB % Page = 0
  /\ OneGB \in Nat /\ OneGB > TwoMB /\ OneGB % TwoMB = 0
  /\ Space \in Nat /\ Space % Page = 0 /\ Sizes \subseteq Nat \ {0}
  /\ MaxHeld \in Nat /\ MaxReserved \in Nat /\ NoCaller \notin Callers

VARIABLES
  manager,    \* struct hugepage_manager
  mapped,     \* for each address, the size of the kernel's page it is in, 0
              \* when nothing is mapped there
  held,       \* the blocks clients hold
  leaked,     \* what an allocation has left mapped behind its block: history
  lost,       \* a free has unmapped other pages than those of its block
  pc,         \* where a caller is that changes the manager
  num_pages,  \* its argument
  raced       \* a release has begun, or an init has run, within a release

vars == <<manager, mapped, held, leaked, lost, pc, num_pages, raced>>

Reservation == <<pc, num_pages, raced>>
Mapping == <<mapped, held, leaked, lost>>

Addresses == 0 .. Space - 1
Block(a, n) == a .. a + n - 1

hugepage_round_up(size, page) == ((size + page - 1) \div page) * page
hugepage_num_pages_needed(size, page) == hugepage_round_up(size, page) \div page

hugepage_align_size(size) ==
  IF size >= OneGB THEN hugepage_round_up(size, OneGB)
  ELSE IF size >= TwoMB THEN hugepage_round_up(size, TwoMB)
  ELSE size

----------------------------------------------------------------------------
(***************************************************************************)
(* The kernel.  It gives any range of pages that is free; pages of a size  *)
(* start at its multiples.  munmap takes a length for that of whole pages, *)
(* but an address that is not that of a page is an error, and so is a      *)
(* range that would cut a large page in two: nothing is unmapped then.  To *)
(* unmap what is not mapped is no error.                                   *)
(***************************************************************************)
Unmapped(a, n) == Block(a, n) \subseteq {p \in Addresses : mapped[p] = 0}

Mapped(map, range, page) == [p \in Addresses |-> IF p \in range THEN page ELSE map[p]]

Splits(map, p) == p \in Addresses /\ map[p] > 0 /\ p % map[p] # 0

align_up(a, alignment) == hugepage_round_up(a, alignment)
InPages(n) == align_up(n, Page)

munmap(map, a, n) ==
  IF n = 0 \/ a % Page # 0 \/ Splits(map, a) \/ Splits(map, a + InPages(n))
  THEN map
  ELSE Mapped(map, Block(a, InPages(n)), 0)

\* A mistake: the tail begins at the size from the raw address.
TailFromRaw(raw, size, alignment) ==
  LET aligned == align_up(raw, alignment)
      aligned_size == InPages(size + alignment)
      got == Mapped(mapped, Block(raw, aligned_size), Page)
  IN  munmap(munmap(got, raw, aligned - raw), raw + size, aligned_size - size)

\* What is mapped when the head and the tail of the range were given back, or
\* could not be: the length is rounded to pages, where the tail begins is not.
memory_alloc_aligned(raw, size, alignment) ==
  LET offset == align_up(raw, alignment) - raw
      aligned_size == InPages(size + alignment)
      got == Mapped(mapped, Block(raw, aligned_size), Page)
  IN  munmap(munmap(got, raw, offset), raw + offset + size, aligned_size - offset - size)

\* The address is that of a page; the length is rounded up.
memory_free_aligned(a, size) == munmap(mapped, a, InPages(size))

----------------------------------------------------------------------------
Config == [fallback : BOOLEAN, transparent : BOOLEAN]

\* hugepage_init: the configuration, and the statistics at 0.
Fresh == [initialized |-> TRUE, fallback |-> TRUE, transparent |-> TRUE,
          reserved |-> 0, lock |-> NoCaller]

Init ==
  /\ manager = [initialized |-> FALSE, fallback |-> FALSE, transparent |-> FALSE,
                reserved |-> 0, lock |-> NoCaller]
  /\ mapped = [p \in Addresses |-> 0] /\ held = {} /\ leaked = {} /\ lost = FALSE
  /\ pc = [c \in Callers |-> "idle"] /\ num_pages = [c \in Callers |-> 0]
  /\ raced = FALSE

Releasing == \E c \in Callers : pc[c] = "release_sub"

Goto(c, l) == pc' = [pc EXCEPT ![c] = l]

\* hugepage_init, up to the memset: nothing keeps two callers from both going on.
hugepage_init(c) ==
  /\ pc[c] = "idle" /\ ~manager.initialized
  /\ Goto(c, "init")
  /\ UNCHANGED <<manager, Mapping, num_pages, raced>>

\* The memset resets the counter under a release.
InitFresh(c) ==
  /\ pc[c] = "init"
  /\ manager' = Fresh
  /\ raced' = (raced \/ Releasing)
  /\ Goto(c, "idle")
  /\ UNCHANGED <<Mapping, num_pages>>

\* hugepage_shutdown; nothing ever puts a page in the pools it empties.
hugepage_shutdown ==
  /\ manager.initialized /\ manager.lock = NoCaller
  /\ manager' = [manager EXCEPT !.initialized = FALSE]
  /\ UNCHANGED <<Mapping, Reservation>>

hugepage_enable_transparent ==
  /\ manager.initialized /\ manager' = [manager EXCEPT !.transparent = TRUE]
  /\ UNCHANGED <<Mapping, Reservation>>

hugepage_disable_transparent ==
  /\ manager.initialized /\ manager' = [manager EXCEPT !.transparent = FALSE]
  /\ UNCHANGED <<Mapping, Reservation>>

----------------------------------------------------------------------------
(***************************************************************************)
(* Blocks.  A client knows the size it has asked for and the family of     *)
(* functions the block is from, transparent or "ordinary" when transparent *)
(* pages were off; the block is the pages its bytes are in.                *)
(***************************************************************************)
Hold(a, n, size, from) ==
  /\ Cardinality(held) < MaxHeld
  /\ held' = held \union {[ptr |-> a, size |-> size, pages |-> Block(a, InPages(n)), from |-> from]}
  /\ UNCHANGED <<manager, lost, Reservation>>

\* memory_alloc_aligned, called for a block.  Behind one that does not end with
\* a page, a page stays.
HoldAligned(n, alignment, size, from) == \E raw \in Addresses :
  LET a == align_up(raw, alignment)
  IN  /\ raw % Page = 0 /\ Unmapped(raw, InPages(n + alignment))
      /\ mapped' = memory_alloc_aligned(raw, n, alignment)
      /\ leaked' = leaked \union IF n % Page = 0 THEN {} ELSE Block(a + InPages(n), Page)
      /\ Hold(a, n, size, from)

\* hugepage_alloc_2mb and hugepage_alloc_1gb: large pages, or the fallback.
hugepage_alloc_pages(n, page, size, from) ==
  /\ manager.initialized /\ n > 0
  /\ \/ \E a \in Addresses :
          /\ a % page = 0 /\ Unmapped(a, n * page)
          /\ mapped' = Mapped(mapped, Block(a, n * page), page)
          /\ Hold(a, n * page, size, from) /\ UNCHANGED leaked
     \/ manager.fallback /\ HoldAligned(n * page, page, size, from)

hugepage_alloc_2mb(n) == hugepage_alloc_pages(n, TwoMB, n * TwoMB, "pages")
hugepage_alloc_1gb(n) == hugepage_alloc_pages(n, OneGB, n * OneGB, "pages")

\* A mistake: the number of pages is rounded down.
AllocFloor(size) == hugepage_alloc_pages(size \div TwoMB, TwoMB, size, "alloc")

hugepage_alloc(size) ==
  LET page == IF hugepage_align_size(size) >= OneGB THEN OneGB ELSE TwoMB
  IN  hugepage_alloc_pages(hugepage_num_pages_needed(size, page), page, size, "alloc")

hugepage_alloc_transparent(size) ==
  IF manager.initialized /\ manager.transparent
  THEN HoldAligned(hugepage_round_up(size, TwoMB), TwoMB, size, "transparent")
  ELSE HoldAligned(size, Page, size, "ordinary")

\* A free that leaves the address space as it is given here.
Release(b, after) ==
  /\ mapped' = after
  /\ held' = held \ {b}
  /\ lost' = (lost \/ after # Mapped(mapped, b.pages, 0))
  /\ UNCHANGED <<manager, leaked, Reservation>>

hugepage_free(b) ==
  /\ b.from \in {"alloc", "pages"}
  /\ Release(b, munmap(mapped, b.ptr, hugepage_align_size(b.size)))

hugepage_free_transparent(b) ==
  /\ b.from \in {"transparent", "ordinary"}
  /\ Release(b, memory_free_aligned(b.ptr, hugepage_align_size(b.size)))

----------------------------------------------------------------------------
(***************************************************************************)
(* The reservation.  reserved_pages is an atomic counter; it is an integer *)
(* here, and below 0 where the code's has wrapped.                         *)
(***************************************************************************)
hugepage_get_reserved_pages == manager.reserved

Reserve(c, n) == manager.reserved + n <= MaxReserved /\ num_pages' = [num_pages EXCEPT ![c] = n]

\* hugepage_reserve, before the file is written.
hugepage_reserve(c, n) ==
  /\ pc[c] = "idle" /\ manager.initialized
  /\ Reserve(c, n) /\ Goto(c, "reserve_add")
  /\ UNCHANGED <<manager, Mapping, raced>>

\* hugepage_configure, with the same call under the lock: a step without it, and
\* otherwise until the pages are counted.
hugepage_configure(c, config, n) ==
  LET reserves == n > 0 /\ manager.initialized
  IN  /\ pc[c] = "idle" /\ manager.lock = NoCaller
      /\ manager' = [manager EXCEPT !.fallback = config.fallback,
                                    !.transparent = config.transparent,
                                    !.lock = IF reserves THEN c ELSE NoCaller]
      /\ IF reserves THEN Reserve(c, n) /\ Goto(c, "configure_add")
                     ELSE UNCHANGED <<pc, num_pages>>
      /\ UNCHANGED <<Mapping, raced>>

\* The file is written, and the pages are counted; or it does not open.
ReserveAdd(c) ==
  /\ pc[c] \in {"reserve_add", "configure_add"}
  /\ \E counted \in {0, num_pages[c]} :
       manager' = [manager EXCEPT !.reserved = @ + counted,
                     !.lock = IF pc[c] = "configure_add" THEN NoCaller ELSE @]
  /\ Goto(c, "idle") /\ num_pages' = [num_pages EXCEPT ![c] = 0]
  /\ UNCHANGED <<Mapping, raced>>

\* A mistake: what is released is not held against what is reserved.
ReleaseUnclamped(c, n) ==
  /\ pc[c] = "idle" /\ manager.initialized
  /\ num_pages' = [num_pages EXCEPT ![c] = n]
  /\ raced' = (raced \/ Releasing) /\ Goto(c, "release_sub")
  /\ UNCHANGED <<manager, Mapping>>

\* hugepage_release_reserved, up to where the file is opened.
hugepage_release_reserved(c, n) ==
  /\ pc[c] = "idle" /\ manager.initialized
  /\ num_pages' = [num_pages EXCEPT ![c] =
       IF n > hugepage_get_reserved_pages THEN hugepage_get_reserved_pages ELSE n]
  /\ raced' = (raced \/ Releasing) /\ Goto(c, "release_sub")
  /\ UNCHANGED <<manager, Mapping>>

ReleaseSub(c) ==
  /\ pc[c] = "release_sub"
  /\ \E counted \in {0, num_pages[c]} :
       manager' = [manager EXCEPT !.reserved = @ - counted]
  /\ Goto(c, "idle") /\ num_pages' = [num_pages EXCEPT ![c] = 0]
  /\ UNCHANGED <<Mapping, raced>>

----------------------------------------------------------------------------
Next ==
  \/ \E c \in Callers : hugepage_init(c) \/ InitFresh(c)
  \/ hugepage_shutdown
  \/ hugepage_enable_transparent
  \/ hugepage_disable_transparent
  \/ \E n \in 1 .. Space : hugepage_alloc_2mb(n)
  \/ \E n \in 1 .. Space : hugepage_alloc_1gb(n)
  \/ \E size \in Sizes : hugepage_alloc(size)
  \/ \E size \in Sizes : hugepage_alloc_transparent(size)
  \/ \E b \in held : hugepage_free(b) \/ hugepage_free_transparent(b)
  \/ \E c \in Callers : ReserveAdd(c) \/ ReleaseSub(c)
  \/ \E c \in Callers, n \in 1 .. MaxReserved : hugepage_reserve(c, n)
  \/ \E c \in Callers, n \in 0 .. MaxReserved, config \in Config :
       hugepage_configure(c, config, n)
  \/ \E c \in Callers, n \in 1 .. MaxReserved : hugepage_release_reserved(c, n)

Spec == Init /\ [][Next]_vars

----------------------------------------------------------------------------
BlockRecord == [ptr : Addresses, size : Nat, pages : SUBSET Addresses,
                from : {"alloc", "pages", "transparent", "ordinary"}]

(***************************************************************************)
(* The type invariant of struct hugepage_manager, the address space and    *)
(* the calls.                                                              *)
(***************************************************************************)
TypeOK ==
  /\ manager \in [initialized : BOOLEAN, fallback : BOOLEAN, transparent : BOOLEAN,
                  reserved : Int, lock : Callers \union {NoCaller}]
  /\ mapped \in [Addresses -> {0, Page, TwoMB, OneGB}]
  /\ held \subseteq BlockRecord /\ leaked \subseteq Addresses
  /\ lost \in BOOLEAN /\ raced \in BOOLEAN
  /\ num_pages \in [Callers -> Int]
  /\ pc \in [Callers -> {"idle", "init", "reserve_add", "configure_add", "release_sub"}]

(***************************************************************************)
(* As long as every free has unmapped the pages of its block, each block a *)
(* client holds is there from end to end, apart from the others, and only  *)
(* one page more is mapped for each block that was asked for with          *)
(* transparent pages off and did not end with a page: its tail was not     *)
(* given back.  Of every other block the head and the tail are.            *)
(***************************************************************************)
MappedIsHeld ==
  ~lost =>
    /\ \A p \in Addresses : mapped[p] # 0 <=> p \in leaked \/ \E b \in held : p \in b.pages
    /\ \A b \in held : b.pages \cap leaked = {}
    /\ \A b, d \in held : b # d => b.pages \cap d.pages = {}

(***************************************************************************)
(* hugepage_alloc and hugepage_free each round the size on their own, and  *)
(* agree: a block of 2 MB or more of hugepage_alloc, large pages or the    *)
(* fallback, is unmapped whole and alone when it is freed with the size it *)
(* was asked with.  hugepage_free_transparent does as much for a block of  *)
(* 2 MB or more that was made with transparent pages on, below 1 GB, and   *)
(* hugepage_alloc_2mb needs fewer than 1 GB as well.                       *)
(***************************************************************************)
FreeUndoesAlloc ==
  \A b \in held : LET n == hugepage_align_size(b.size) IN
    ~lost /\ b.size >= TwoMB =>
      /\ b.from = "alloc" => munmap(mapped, b.ptr, n) = Mapped(mapped, b.pages, 0)
      /\ b.from = "transparent" /\ b.size < OneGB =>
           memory_free_aligned(b.ptr, n) = Mapped(mapped, b.pages, 0)

(***************************************************************************)
(* hugepage_release_reserved subtracts what it has held against the count  *)
(* it read before it opened the file.  Pages reserved meanwhile do no      *)
(* harm: the count goes below 0, and wraps, only when two releases         *)
(* overlap, or a shutdown and an init come between.                        *)
(***************************************************************************)
ReservedCovered == manager.reserved < 0 => raced
=============================================================================
