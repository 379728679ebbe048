-------------------------------- MODULE Heap --------------------------------
(***************************************************************************)
(* The heap of cpu/mem.c.  boot_alloc_init gives it the addresses from     *)
(* HeapStart to HeapEnd (inclusive); malloc hands regions out upwards and  *)
(* nothing is ever given back.                                             *)
(***************************************************************************)
EXTENDS Integers

CONSTANTS HeapStart, HeapEnd, \* heap.start, heap.end
          WordAlign,          \* what the offset is rounded up to (8)
          Modulus,            \* a u32 is a number below it
          MaxRequest          \* the most malloc is asked for

\* init_bootmem picks a start that is aligned.  MaxRequest: no request is so
\* large that the address behind it wraps.
ASSUME HeapAssumption ==
    /\ {HeapStart, HeapEnd, WordAlign, Modulus, MaxRequest} \subseteq Nat
    /\ WordAlign > 0 /\ HeapStart % WordAlign = 0
    /\ 0 < HeapStart /\ HeapStart <= HeapEnd
    /\ HeapEnd + MaxRequest + WordAlign < Modulus

VARIABLES offset,  \* heap.offset
          regions  \* history: what malloc has returned

heap == <<offset, regions>>

U32(x) == x % Modulus
\* ALIGN, for the sizes it is used with.
Align(x, a) == ((x + a - 1) \div a) * a

InitHeap == offset = 0 /\ regions = {}

Ptr == U32(HeapStart + offset)
NewPtr(bytes) == U32(Ptr + bytes)

Fits(bytes) == NewPtr(bytes) <= HeapEnd

\* Mutant: the heap does not advance.
Offset_Kept(bytes) == offset

\* Where the next region begins.
Offset(bytes) == U32(Align(NewPtr(bytes) - HeapStart, WordAlign))

\* malloc returns Ptr.
Malloc(bytes) ==
    /\ Fits(bytes)
    /\ offset' = Offset(bytes)
    /\ regions' = regions \cup {[ptr |-> Ptr, bytes |-> bytes]}

\* malloc returns NULL.
MallocFails(bytes) == ~Fits(bytes) /\ UNCHANGED heap

Request == 0 .. MaxRequest

HeapNext == \E bytes \in Request : Malloc(bytes) \/ MallocFails(bytes)

HeapSpec == InitHeap /\ [][HeapNext]_heap

-----------------------------------------------------------------------------
(* Properties. *)

HeapTypeOK ==
    /\ offset \in 0 .. HeapEnd - HeapStart + WordAlign
    /\ regions \subseteq [ptr : Nat, bytes : Request]

Area(r) == r.ptr .. r.ptr + r.bytes - 1

\* Regions lie in the heap, begin at a word and share no byte: the display
\* goes on reading its descriptors from the first one while the image is
\* loaded to the second (mem.c:21-31).
RegionsDisjoint ==
    /\ \A r \in regions : /\ Area(r) \subseteq HeapStart .. HeapEnd
                          /\ r.ptr % WordAlign = 0
    /\ \A r, s \in regions : r # s => Area(r) \cap Area(s) = {}
=============================================================================
