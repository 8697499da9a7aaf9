----------------------------- MODULE SizeClass -----------------------------
(***************************************************************************)
(* core/size_class.h: which class serves a request, and how large its      *)
(* blocks are.                                                             *)
(***************************************************************************)

EXTENDS Integers, FiniteSetsExt

CONSTANTS
  PageSizes,   \* of the systems the library runs on
  LargeSizes,  \* some sizes above 1 MB
  SmallSizes   \* some more below

ASSUME SizeClassAssumption ==
  /\ PageSizes \subseteq Nat \ {0}
  /\ \A s \in LargeSizes : s \in Nat /\ s > 1048576
  /\ SmallSizes \subseteq Nat \ {0}

VARIABLE page_size  \* what get_page_size returns, one value for the whole run

NumSmall == 30
NumMedium == 17
NumClasses == NumSmall + NumMedium

Small == <<8, 16, 32, 48, 64, 80, 96, 112, 128,
           160, 192, 224, 256, 320, 384, 448, 512,
           640, 768, 896, 1024, 1280, 1536, 1792, 2048,
           2560, 3072, 3584, 4096>>

Medium == <<8192, 12288, 16384, 20480, 24576, 28672, 32768,
            49152, 65536, 98304, 131072, 196608, 262144,
            393216, 524288, 786432, 1048576>>

\* The elements of an array that the initializer does not name are 0.
small_size_classes == [i \in 0 .. NumSmall - 1 |-> IF i + 1 \in DOMAIN Small THEN Small[i + 1] ELSE 0]
medium_size_classes == [i \in 0 .. NumMedium - 1 |-> Medium[i + 1]]

SmallMax == 4096
MediumMax == 1048576

\* The first entry of a table that size does not exceed, or the last one.
\* A mistake: a size that fills its class goes to the next.
FirstFitStrict(table, size) == Min({i \in DOMAIN table : size < table[i]} \union {Max(DOMAIN table)})
FirstFit(table, size) == Min({i \in DOMAIN table : size <= table[i]} \union {Max(DOMAIN table)})

size_to_class_small(size) ==
  IF size <= 8 THEN 0 ELSE FirstFit(small_size_classes, size)

size_to_class_medium(size) == NumSmall + FirstFit(medium_size_classes, size)

size_to_class(size) ==
  IF size <= SmallMax THEN size_to_class_small(size)
  ELSE IF size <= MediumMax THEN size_to_class_medium(size)
  ELSE NumClasses

class_to_size(c) ==
  IF c < NumSmall THEN small_size_classes[c]
  ELSE IF c < NumClasses THEN medium_size_classes[c - NumSmall]
  ELSE 0

is_large_class_idx(c) == c >= NumClasses

Pages(size) == ((size + page_size - 1) \div page_size) * page_size

size_class_align(size) ==
  IF size <= SmallMax THEN small_size_classes[size_to_class_small(size)]
  ELSE IF size <= MediumMax THEN medium_size_classes[size_to_class_medium(size) - NumSmall]
  ELSE Pages(size)

-----------------------------------------------------------------------------

\* The sizes around the boundary of every class, and some large ones.
Boundaries == {Small[i] : i \in DOMAIN Small} \union {Medium[i] : i \in DOMAIN Medium}
Requests == {b + d : b \in Boundaries, d \in {-1, 0, 1}} \union LargeSizes \union SmallSizes

(* The block a request is served with holds it, and no class with smaller  *)
(* blocks does; a request above 1 MB has no class.  size_class_align, which *)
(* finds the size by itself, agrees; above 1 MB it gives whole pages.      *)
(* One example of the comment above the table says otherwise: MCSizeClass. *)
TightestFit ==
  \A size \in Requests :
    LET given == class_to_size(size_to_class(size)) IN
    IF size <= MediumMax
    THEN /\ given = Min({b \in Boundaries : b >= size})
         /\ size_class_align(size) = given
    ELSE /\ is_large_class_idx(size_to_class(size)) /\ given = 0
         /\ size_class_align(size) \in size .. size + page_size - 1
         /\ size_class_align(size) % page_size = 0
=============================================================================
