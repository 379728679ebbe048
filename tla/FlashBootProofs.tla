--------------------------- MODULE FlashBootProofs ---------------------------
(***************************************************************************)
(* The loader, the writer of its images, and both together: first what     *)
(* loading does to memory, then where the kernel's parts are when it is    *)
(* entered, then what the written file holds.                              *)
(***************************************************************************)
EXTENDS FlashBoot, Numbers, SequenceTheorems, TLAPS

-----------------------------------------------------------------------------
(***************************************************************************)
(* Regions of the heap are disjoint, and loading an image leaves alone     *)
(* what is in use, for every memory map and set of images the assumptions  *)
(* admit: malloc keeps the image above the descriptors and below the       *)
(* loader, and an image that malloc accepted has parts small enough to end *)
(* below the frame buffer.                                                 *)
(***************************************************************************)

(* Regions of the heap are disjoint, for every heap and every sequence of   *)
(* requests below MaxRequest: each region ends below the offset.            *)

\* The offset is a word's; what has been handed out lies below it.
Below ==
    /\ offset % WordAlign = 0
    /\ \A r \in regions : r.ptr + r.bytes <= HeapStart + offset

IInv == HeapTypeOK /\ Below /\ RegionsDisjoint

\* ALIGN rounds up to a multiple, by less than the alignment.
LEMMA AlignBounds ==
    ASSUME NEW x \in Nat, NEW a \in Nat \ {0}
    PROVE  /\ Align(x, a) \in Nat
           /\ x <= Align(x, a) /\ Align(x, a) < x + a
           /\ Align(x, a) % a = 0
<1> DEFINE q == (x + a - 1) \div a
<1>1. q \in Nat
  OBVIOUS
<1>2. /\ x + a - 1 = a * q + ((x + a - 1) % a)
      /\ (x + a - 1) % a \in 0 .. a - 1
  OBVIOUS
<1>3. (q * a) % a = 0
  BY <1>1
<1> QED
  BY <1>1, <1>2, <1>3 DEF Align

\* A u32 that does not overflow.
LEMMA NoWrap == ASSUME NEW x \in Nat, x < Modulus PROVE U32(x) = x
<1>1. Modulus \in Nat \ {0}
  BY HeapAssumption
<1> DEFINE q == x \div Modulus
<1>2. /\ q \in Nat /\ x = Modulus * q + (x % Modulus)
      /\ x % Modulus \in 0 .. Modulus - 1
  BY <1>1
<1>3. q = 0
  <2>1. ASSUME q > 0 PROVE Modulus * q >= Modulus
    BY <1>1, <1>2, <2>1
  <2> QED
    BY <1>1, <1>2, <2>1
<1> QED
  BY <1>1, <1>2, <1>3 DEF U32

LEMMA SumAligned ==
    ASSUME NEW a \in Nat \ {0}, NEW x \in Nat, NEW y \in Nat,
           x % a = 0, y % a = 0
    PROVE  (x + y) % a = 0
<1> DEFINE p == x \div a
           q == y \div a
<1>1. p \in Nat /\ q \in Nat /\ x = a * p /\ y = a * q
  OBVIOUS
<1>2. x + y = (p + q) * a
  BY <1>1
<1>3. ((p + q) * a) % a = 0
  BY <1>1
<1> QED
  BY <1>2, <1>3

LEMMA InitIInv == InitHeap => IInv
  BY HeapAssumption DEF InitHeap, IInv, HeapTypeOK, Below, RegionsDisjoint

\* Where a region lies and how far the heap advances.
LEMMA MallocExtent ==
    ASSUME IInv, NEW bytes \in Request, Malloc(bytes)
    PROVE  /\ offset \in Nat /\ Ptr = HeapStart + offset
           /\ Ptr + bytes <= HeapEnd
           /\ offset' \in Nat /\ offset' % WordAlign = 0
           /\ offset + bytes <= offset'
           /\ offset' < offset + bytes + WordAlign
<1> USE HeapAssumption
<1> DEFINE end == HeapStart + offset + bytes
<1>1. offset \in Nat /\ Ptr = HeapStart + offset /\ NewPtr(bytes) = end
  BY NoWrap DEF IInv, HeapTypeOK, Request, Ptr, NewPtr
<1>2. WordAlign \in Nat \ {0} /\ offset + bytes \in Nat
  BY <1>1 DEF Request
<1>3. end <= HeapEnd
  BY <1>1 DEF Malloc, Fits
<1>4. /\ offset' \in Nat /\ offset' % WordAlign = 0
      /\ offset + bytes <= offset' /\ offset' < offset + bytes + WordAlign
  <2>1. NewPtr(bytes) - HeapStart = offset + bytes
    BY <1>1 DEF Request
  <2> DEFINE up == Align(offset + bytes, WordAlign)
  <2>2. /\ up \in Nat /\ offset + bytes <= up
        /\ up < offset + bytes + WordAlign /\ up % WordAlign = 0
    BY <1>2, AlignBounds
  <2>3. U32(up) = up
    BY <1>1, <1>3, <2>2, NoWrap DEF Request
  <2> QED
    BY <2>1, <2>2, <2>3 DEF Malloc, Offset
<1> QED
  BY <1>1, <1>3, <1>4

\* malloc keeps the invariant; the image loader calls it too.
LEMMA MallocIInv ==
    ASSUME IInv, NEW bytes \in Request, Malloc(bytes)
    PROVE  IInv'
<1> USE HeapAssumption
<1> DEFINE end == HeapStart + offset + bytes
           new == [ptr |-> Ptr, bytes |-> bytes]
<1>1. offset \in Nat /\ Ptr = HeapStart + offset /\ end <= HeapEnd
  BY MallocExtent
<1>2. /\ offset' \in Nat /\ offset' % WordAlign = 0
      /\ offset + bytes <= offset' /\ offset' < offset + bytes + WordAlign
  BY MallocExtent
<1>3. regions' = regions \cup {new} /\ new.ptr = HeapStart + offset
      /\ new.bytes = bytes
  BY <1>1 DEF Malloc
<1>4. HeapTypeOK'
  BY <1>1, <1>2, <1>3 DEF IInv, HeapTypeOK, Request
<1>5. Below'
  BY <1>1, <1>2, <1>3 DEF IInv, Below, HeapTypeOK, Request
<1>6. RegionsDisjoint'
  <2>1. Area(new) = HeapStart + offset .. end - 1
    <3>1. new.ptr + new.bytes - 1 = end - 1
      BY <1>1 DEF Request
    <3>2. Area(new) = new.ptr .. new.ptr + new.bytes - 1
      BY DEF Area
    <3> QED
      BY <1>1, <3>1, <3>2
  <2>2. Area(new) \subseteq HeapStart .. HeapEnd /\ new.ptr % WordAlign = 0
    <3>1. Area(new) \subseteq HeapStart .. HeapEnd
      BY <1>1, <2>1 DEF Request
    <3>2. (HeapStart + offset) % WordAlign = 0
      BY <1>1, SumAligned DEF IInv, Below
    <3> QED
      BY <1>3, <3>1, <3>2
  <2>3. \A r \in regions : Area(r) \cap Area(new) = {}
    <3>1. \A r \in regions : /\ r.ptr \in Nat /\ r.bytes \in Nat
                             /\ r.ptr + r.bytes <= HeapStart + offset
      BY DEF IInv, Below, HeapTypeOK, Request
    <3>2. \A r \in regions : \A a \in Area(r) : a < HeapStart + offset
      BY <1>1, <3>1 DEF Area
    <3>3. \A a \in Area(new) : a >= HeapStart + offset
      BY <1>1, <2>1 DEF Request
    <3>4. \A r \in regions : Area(r) \subseteq Int
      BY <3>1 DEF Area
    <3> QED
      BY <1>1, <3>2, <3>3, <3>4
  <2> QED
    BY <1>3, <2>2, <2>3 DEF IInv, RegionsDisjoint
<1> QED
  BY <1>4, <1>5, <1>6 DEF IInv

\* The inductive invariant: regions end below the offset from which the next
\* one is taken (mem.c:16-32).
THEOREM Invariance == HeapSpec => []IInv
<1>1. IInv /\ [HeapNext]_heap => IInv'
  <2>1. ASSUME IInv, UNCHANGED heap PROVE IInv'
    BY <2>1 DEF IInv, HeapTypeOK, Below, RegionsDisjoint, heap
  <2> QED
    BY <2>1, MallocIInv DEF HeapNext, MallocFails
<1> QED
  BY InitIInv, <1>1, PTL DEF HeapSpec

\* Regions lie in the heap, are aligned and share no byte (mem.c:16-32).
THEOREM Disjoint == HeapSpec => []RegionsDisjoint
<1>1. IInv => RegionsDisjoint
  BY DEF IInv
<1> QED
  BY Invariance, <1>1, PTL

-----------------------------------------------------------------------------
(* Loading. *)

V2Pcs == {"v2_kernel", "v2_ramdisk", "v2_dtb", "v2_fdt"}
JzPcs == {"jz_kernel", "jz_ramdisk", "jz_param"}

\* Without a fault the header is the image's.
HeaderRead ==
    ~fault /\ pc \in {"header", "image"} \cup V2Pcs \cup JzPcs => hdr = img

\* The first region is the descriptors'; the image goes behind it.
Descriptors ==
    /\ pc = "early" => offset = 0
    /\ pc # "early" => DescSize <= offset /\ HeapStart + DescSize <= HeapEnd
    /\ pc = "image" => /\ HeapStart + DescSize <= bootimg
                       /\ bootimg + ImageBytes(hdr) <= HeapEnd

\* boot_v2_bootimg runs for images that fitted the heap.
Fitted == pc \in V2Pcs /\ ~fault => ImageBytes(img) <= HeapEnd - HeapStart

\* Before the display is set up memory is as the stage before left it.
Early ==
    pc = "early" => \A a \in Addr : mem[a] = IF a >= Downstream
                                          THEN Byte(img, a - Downstream)
                                          ELSE <<"old", a>>

LoadInv == /\ TypeOK /\ IInv /\ HeaderRead /\ Descriptors /\ Fitted /\ Early
           /\ InUseUntouched

-----------------------------------------------------------------------------
\* An image is read in whole sectors that cover its parts.
LEMMA PartsInImage ==
    ASSUME NEW h \in Images
    PROVE  /\ ImageBytes(h) \in Request
           /\ h.kernel + h.ramdisk + h.dtb <= ImageBytes(h)
           /\ HeaderSize <= ImageBytes(h)
           /\ HeaderSize <= SecondOffs(h) /\ SecondOffs(h) <= ImageBytes(h)
           /\ h.version = 2 => DtbOffs(h) + h.dtb <= ImageBytes(h)
<1> USE ImageAssumption
<1> DEFINE total == IF h.version = 2 THEN DtbOffs(h) + Align(h.dtb, h.page)
                                     ELSE SecondOffs(h)
<1>1. /\ h.page \in Nat \ {0} /\ h.kernel \in Nat /\ h.ramdisk \in Nat
      /\ h.second \in Nat /\ h.dtbo \in Nat /\ h.dtb \in Nat
      /\ h.version # 2 => h.dtb = 0
      /\ HeaderSize <= h.page /\ HeaderSize \in Nat
  BY LoadAssumption
<1>2. \A n \in Nat : Align(n, h.page) \in Nat /\ n <= Align(n, h.page)
  BY <1>1, AlignBounds
<1>3. total \in Nat /\ h.kernel + h.ramdisk + h.dtb <= total
      /\ HeaderSize <= total
  <2>1. /\ SecondOffs(h) \in Nat
        /\ h.kernel + h.ramdisk <= SecondOffs(h)
        /\ HeaderSize <= SecondOffs(h)
    BY <1>1, <1>2 DEF SecondOffs, RamdiskOffs
  <2>2. /\ DtbOffs(h) \in Nat /\ SecondOffs(h) <= DtbOffs(h)
        /\ Align(h.dtb, h.page) \in Nat /\ h.dtb <= Align(h.dtb, h.page)
    BY <1>1, <1>2, <2>1 DEF DtbOffs
  <2> QED
    BY <1>1, <2>1, <2>2
<1>4. Sector \in Nat \ {0}
  BY LoadAssumption
<1>5. ImageBytes(h) = Align(total, Sector)
  <2> DEFINE q == (total + Sector - 1) \div Sector
  <2>1. q \in Nat
    <3>1. total + Sector - 1 \in Nat
      BY <1>3, <1>4
    <3> HIDE DEF total
    <3> QED
      BY <1>4, <3>1
  <2>2. (q * Sector) \div Sector = q
    BY <1>4, <2>1
  <2>3. ImageBytes(h) = ((q * Sector) \div Sector) * Sector
    BY DEF ImageBytes, Sectors, Align
  <2> QED
    BY <2>2, <2>3 DEF Align
<1>6. Align(total, Sector) \in Nat /\ total <= Align(total, Sector)
  BY <1>3, <1>4, AlignBounds
<1>7. ImageBytes(h) <= MaxRequest /\ MaxRequest \in Nat
  BY HeapAssumption
<1>8. /\ SecondOffs(h) \in Nat /\ HeaderSize <= SecondOffs(h)
      /\ DtbOffs(h) \in Nat
      /\ Align(h.dtb, h.page) \in Nat /\ h.dtb <= Align(h.dtb, h.page)
  BY <1>1, <1>2 DEF SecondOffs, RamdiskOffs, DtbOffs
<1>9. /\ SecondOffs(h) <= total
      /\ h.version = 2 => DtbOffs(h) + h.dtb <= total
  <2>1. h.version # 2 => total = SecondOffs(h)
    OBVIOUS
  <2>2. h.version = 2 => /\ total = DtbOffs(h) + Align(h.dtb, h.page)
                         /\ SecondOffs(h) <= DtbOffs(h)
    BY <1>1, <1>2, <1>8 DEF DtbOffs
  <2> HIDE DEF total
  <2> QED
    BY <1>1, <1>8, <2>1, <2>2
<1> HIDE DEF total
<1> QED
  BY <1>1, <1>3, <1>5, <1>6, <1>7, <1>8, <1>9 DEF Request

\* What malloc is asked for by a header with the magic.
LEMMA Requested ==
    ASSUME NEW h, Magic(h)
    PROVE  ImageBytes(h) \in Request
<1>1. CASE h \in Images
  BY <1>1, PartsInImage
<1>2. CASE h \in Marked
  <2>1. h \in Headers /\ Sector \in Nat \ {0}
    BY <1>2, LoadAssumption
  <2>2. /\ h.page \in Nat \ {0} /\ h.kernel \in Nat /\ h.ramdisk \in Nat
        /\ h.second \in Nat /\ h.dtbo \in Nat /\ h.dtb \in Nat
    BY <2>1 DEF Headers
  <2>3. \A n \in Nat, a \in Nat \ {0} : Align(n, a) \in Nat
    BY AlignBounds
  <2>4. /\ SecondOffs(h) \in Nat /\ DtbOffs(h) \in Nat
        /\ Align(h.dtb, h.page) \in Nat
    BY <2>2, <2>3 DEF SecondOffs, RamdiskOffs, DtbOffs
  <2> DEFINE total == IF h.version = 2 THEN DtbOffs(h) + Align(h.dtb, h.page)
                                       ELSE SecondOffs(h)
  <2>5. total \in Nat
    BY <2>4
  <2>6. Sectors(h) = Align(total, Sector) \div Sector
    BY DEF Sectors
  <2> HIDE DEF total
  <2>7. Sectors(h) \in Nat
    <3>1. \A n \in Nat : n \div Sector \in Nat
      BY <2>1
    <3>2. Align(total, Sector) \in Nat
      BY <2>1, <2>3, <2>5
    <3> QED
      BY <2>6, <3>1, <3>2
  <2>8. ImageBytes(h) \in Nat
    BY <2>1, <2>7 DEF ImageBytes
  <2>9. ImageBytes(h) <= MaxRequest
    BY <1>2, ImageAssumption
  <2> QED
    BY <2>8, <2>9, HeapAssumption DEF Request
<1> QED
  BY <1>1, <1>2 DEF Magic

\* What fits the heap fits below the frame buffer.
LEMMA V2Below ==
    ASSUME NEW h \in Images, ImageBytes(h) <= HeapEnd - HeapStart
    PROVE  /\ KernelAddr + h.kernel <= FbStart
           /\ V2Ramdisk(h) + h.ramdisk <= FbStart
           /\ V2Dtb(h) + h.dtb + FdtSlack <= FbStart
           /\ V2Ramdisk(h) \in Nat /\ V2Dtb(h) \in Nat
<1>1. /\ h.kernel \in Nat /\ h.ramdisk \in Nat /\ h.dtb \in Nat
  BY ImageAssumption
<1>2. h.kernel + h.ramdisk + h.dtb <= HeapEnd - HeapStart
  BY <1>1, PartsInImage, HeapAssumption DEF Request
<1>3. /\ RamdiskAlign \in Nat \ {0} /\ WordAlign \in Nat \ {0}
      /\ KernelAddr \in Nat /\ FdtSlack \in Nat /\ FbStart \in Nat
      /\ HeapStart \in Nat /\ HeapEnd \in Nat
  BY LoadAssumption, HeapAssumption
<1>4. /\ Align(h.kernel, RamdiskAlign) \in Nat
      /\ h.kernel <= Align(h.kernel, RamdiskAlign)
      /\ Align(h.kernel, RamdiskAlign) < h.kernel + RamdiskAlign
  BY <1>1, <1>3, AlignBounds
<1>5. /\ Align(h.ramdisk, WordAlign) \in Nat
      /\ h.ramdisk <= Align(h.ramdisk, WordAlign)
      /\ Align(h.ramdisk, WordAlign) < h.ramdisk + WordAlign
  BY <1>1, <1>3, AlignBounds
<1> QED
  BY <1>1, <1>2, <1>3, <1>4, <1>5, PlaceAssumption DEF V2Ramdisk, V2Dtb

\* An address in use.
InUse(a) == \/ a \in FbStart .. FbEnd
            \/ a \in HeapStart .. HeapStart + DescSize - 1
            \/ a \in Downstream .. LoaderEnd

\* Addresses are bounded: the map of the assumptions.
LEMMA Map ==
    /\ {HeapStart, HeapEnd, WordAlign, FbStart, FbEnd, Downstream, LoaderEnd,
        KernelAddr, JZ_KERNEL_ADDR, DescSize, ParamSize, FdtSlack,
        RamdiskAlign} \subseteq Nat
    /\ KernelAddr <= JZ_KERNEL_ADDR /\ JZ_KERNEL_ADDR < FbStart
    /\ FbStart <= FbEnd /\ FbEnd < HeapStart /\ HeapStart <= HeapEnd
    /\ HeapEnd < Downstream /\ Downstream <= LoaderEnd
    /\ WordAlign > 0 /\ RamdiskAlign > 0
    /\ DescSize \in Request
  BY LoadAssumption, HeapAssumption, PlaceAssumption DEF Request

\* A step keeps what is in use if it changes none of it.
LEMMA Kept ==
    ASSUME LoadInv, pc # "early", ~fault, img' = img,
           \A a \in Addr : InUse(a) => mem'[a] = mem[a]
    PROVE  InUseUntouched'
<1>1. \A a : InUse(a) => a \in Addr
  BY Map DEF InUse, Addr, LoadInv, Descriptors
<1>2. \A a \in FbStart .. FbEnd : mem'[a] = <<"old", a>>
  BY <1>1 DEF LoadInv, InUseUntouched, InUse
<1>3. Holds(HeapStart, DescSize, "desc")'
  <2>1. \A k \in 0 .. DescSize - 1 : InUse(HeapStart + k)
    BY Map DEF InUse
  <2> QED
    BY <1>1, <2>1 DEF LoadInv, InUseUntouched, Holds
<1>4. \A a \in Downstream .. LoaderEnd : mem'[a] = Byte(img', a - Downstream)
  BY <1>1 DEF LoadInv, InUseUntouched, InUse
<1> QED
  BY <1>2, <1>3, <1>4 DEF InUseUntouched

\* Writing below the frame buffer, or where the image goes.
LEMMA CopyKept ==
    ASSUME LoadInv, pc # "early", ~fault, img' = img,
           NEW dst \in Nat, NEW src, NEW n \in Nat, dst + n <= FbStart,
           mem' = Copied(dst, src, n) \/ mem' = Filled(dst, n, src)
    PROVE  InUseUntouched'
<1>1. \A a \in Addr : InUse(a) => a >= FbStart
  BY Map DEF InUse, Addr
<1>2. \A a \in Addr : InUse(a) => a \notin dst .. dst + n - 1
  BY <1>1, Map DEF Addr
<1>3. \A a \in Addr : InUse(a) => mem'[a] = mem[a]
  BY <1>2 DEF Copied, Filled
<1> QED
  BY <1>3, Kept

LEMMA InitLoad == Init => LoadInv
<1> SUFFICES ASSUME Init PROVE LoadInv
  OBVIOUS
<1>1. IInv
  BY InitIInv DEF Init
<1>2. TypeOK
  BY <1>1 DEF Init, TypeOK, IInv
<1> QED
  BY <1>1, <1>2
     DEF LoadInv, Init, InitHeap, HeaderRead, Descriptors, Fitted, Early,
         InUseUntouched, V2Pcs, JzPcs

LEMMA NextHeap == LoadInv /\ [Next]_vars => IInv'
<1> SUFFICES ASSUME LoadInv, [Next]_vars PROVE IInv'
  OBVIOUS
<1>1. ASSUME UNCHANGED heap PROVE IInv'
  BY <1>1 DEF LoadInv, IInv, HeapTypeOK, Below, RegionsDisjoint, heap
<1>2. ASSUME EarlyLcdc PROVE IInv'
  BY <1>2, MallocIInv, Map DEF EarlyLcdc, LoadInv
<1>3. ASSUME AllocImage PROVE IInv'
  <2>1. ImageBytes(hdr) \in Request
    BY <1>3, Requested DEF AllocImage
  <2> QED
    BY <1>3, <2>1, MallocIInv DEF AllocImage, LoadInv
<1> QED
  BY <1>1, <1>2, <1>3
     DEF Next, vars, EmbedBoot, ReadHeader, BadMagic, AllocFails, MallocFails,
         ReadImage, JzCopyKernel, JzCopyRamdisk, JzParam, V2CopyKernel,
         V2CopyRamdisk, V2CopyDtb, V2Fdt

LEMMA NextType == LoadInv /\ [Next]_vars => TypeOK'
<1> SUFFICES ASSUME LoadInv, [Next]_vars PROVE TypeOK'
  OBVIOUS
<1>1. HeapTypeOK'
  BY NextHeap DEF IInv
<1>2. bootimg' \in Nat
  <2>1. CASE EmbedBoot
    BY <2>1, Map DEF EmbedBoot
  <2>2. CASE AllocImage
    <3>1. ImageBytes(hdr) \in Request
      BY <2>2, Requested DEF AllocImage
    <3> QED
      BY <2>2, <3>1, MallocExtent, Map DEF AllocImage, LoadInv
  <2>3. CASE UNCHANGED bootimg
    BY <2>3 DEF LoadInv, TypeOK
  <2> QED
    BY <2>1, <2>2, <2>3
       DEF Next, vars, loader, EarlyLcdc, ReadHeader, BadMagic, AllocFails,
           ReadImage, JzCopyKernel, JzCopyRamdisk, JzParam, V2CopyKernel,
           V2CopyRamdisk, V2CopyDtb, V2Fdt
<1>3. fault' \in BOOLEAN
  BY DEF LoadInv, TypeOK, Next, vars, loader, EarlyLcdc, EmbedBoot,
         ReadHeader, BadMagic, AllocImage, AllocFails, ReadImage,
         JzCopyKernel, JzCopyRamdisk, JzParam, V2CopyKernel, V2CopyRamdisk,
         V2CopyDtb, V2Fdt
<1>4. img' = img /\ img \in Images
  BY DEF LoadInv, TypeOK, Next, vars, loader, EarlyLcdc, EmbedBoot,
         ReadHeader, BadMagic, AllocImage, AllocFails, ReadImage,
         JzCopyKernel, JzCopyRamdisk, JzParam, V2CopyKernel, V2CopyRamdisk,
         V2CopyDtb, V2Fdt
<1>5. /\ pc' \in {"early", "menu", "header", "image", "jz_kernel",
                  "jz_ramdisk", "jz_param", "v2_kernel", "v2_ramdisk",
                  "v2_dtb", "v2_fdt", "kernel", "crash"}
      /\ command' \in Commands
      /\ hdr' \in Images \cup Stale \cup {NoHeader}
      /\ pc' = "image" => /\ hdr' = hdr
                          /\ pc = "image" \/ Magic(hdr)
  BY <1>4
     DEF LoadInv, TypeOK, Next, vars, loader, EarlyLcdc, EmbedBoot,
         ReadHeader, BadMagic, AllocImage, AllocFails, ReadImage, FirstCopy,
         JzCopyKernel, JzCopyRamdisk, JzParam, V2CopyKernel, V2CopyRamdisk,
         V2CopyDtb, V2Fdt
<1>6. pc' = "image" => Magic(hdr')
  BY <1>5 DEF LoadInv, TypeOK
<1> QED
  BY <1>1, <1>2, <1>3, <1>4, <1>5, <1>6 DEF TypeOK

LEMMA NextHeader == LoadInv /\ [Next]_vars => HeaderRead'
<1> SUFFICES ASSUME LoadInv, [Next]_vars PROVE HeaderRead'
  OBVIOUS
<1>1. CASE EmbedBoot \/ ReadHeader
  BY <1>1 DEF EmbedBoot, ReadHeader, HeaderRead
<1>2. CASE AllocImage
  BY <1>2 DEF AllocImage, LoadInv, HeaderRead
<1>3. ASSUME NEW n \in 0 .. ImageBytes(hdr), ReadImage(n)
      PROVE  HeaderRead'
  <2>1. SUFFICES ASSUME ~fault' PROVE hdr' = img'
    BY DEF HeaderRead
  <2>2. pc = "image" /\ hdr = img /\ hdr \in Images /\ ~(n < ImageBytes(hdr))
    <3>1. pc = "image" /\ ~fault /\ ~(n < ImageBytes(hdr))
      BY <1>3, <2>1 DEF ReadImage
    <3> QED
      BY <3>1 DEF LoadInv, TypeOK, HeaderRead
  <2>3. n >= HeaderSize
    BY <2>2, PartsInImage, LoadAssumption DEF Request
  <2> QED
    BY <1>3, <2>3 DEF ReadImage
<1>4. CASE JzCopyKernel \/ JzCopyRamdisk \/ JzParam
  BY <1>4
     DEF LoadInv, HeaderRead, JzPcs, JzCopyKernel, JzCopyRamdisk, JzParam
<1>5. CASE V2CopyKernel \/ V2CopyRamdisk \/ V2CopyDtb \/ V2Fdt
  BY <1>5
     DEF LoadInv, HeaderRead, V2Pcs, V2CopyKernel, V2CopyRamdisk, V2CopyDtb, V2Fdt
<1>6. CASE EarlyLcdc \/ BadMagic \/ AllocFails
  BY <1>6 DEF EarlyLcdc, BadMagic, AllocFails, HeaderRead, V2Pcs, JzPcs
<1>7. CASE UNCHANGED vars
  BY <1>7 DEF vars, loader, LoadInv, HeaderRead
<1> QED
  BY <1>1, <1>2, <1>3, <1>4, <1>5, <1>6, <1>7 DEF Next


LEMMA NextDescriptors == LoadInv /\ [Next]_vars => Descriptors'
<1> SUFFICES ASSUME LoadInv, [Next]_vars PROVE Descriptors'
  OBVIOUS
<1> USE DEF LoadInv
<1>1. CASE EarlyLcdc
  BY <1>1, MallocExtent, Map DEF EarlyLcdc, Descriptors
<1>2. CASE AllocImage
  <2>2. ImageBytes(hdr) \in Request
    BY <1>2, Requested DEF AllocImage
  <2>3. /\ offset \in Nat /\ Ptr = HeapStart + offset
        /\ Ptr + ImageBytes(hdr) <= HeapEnd /\ offset' \in Nat
        /\ offset + ImageBytes(hdr) <= offset'
    BY <1>2, <2>2, MallocExtent DEF AllocImage
  <2> QED
    BY <1>2, <2>2, <2>3, Map DEF AllocImage, Descriptors, Request
<1>3. CASE UNCHANGED heap /\ pc' # "image" /\ pc # "early" /\ pc' # "early"
  BY <1>3 DEF Descriptors, heap
<1>4. CASE UNCHANGED vars
  BY <1>4 DEF vars, loader, heap, Descriptors, ImageBytes, Sectors, DtbOffs,
              SecondOffs, RamdiskOffs, Align
<1> QED
  BY <1>1, <1>2, <1>3, <1>4
     DEF Next, EmbedBoot, ReadHeader, BadMagic, AllocFails, MallocFails,
         ReadImage, FirstCopy, JzCopyKernel, JzCopyRamdisk, JzParam,
         V2CopyKernel, V2CopyRamdisk, V2CopyDtb, V2Fdt

LEMMA NextFitted == LoadInv /\ [Next]_vars => Fitted'
<1> SUFFICES ASSUME LoadInv, [Next]_vars PROVE Fitted'
  OBVIOUS
<1>1. img' = img
  BY DEF Next, vars, loader, EarlyLcdc, EmbedBoot, ReadHeader, BadMagic,
         AllocImage, AllocFails, ReadImage, JzCopyKernel, JzCopyRamdisk,
         JzParam, V2CopyKernel, V2CopyRamdisk, V2CopyDtb, V2Fdt
<1>2. ASSUME NEW n \in 0 .. ImageBytes(hdr), ReadImage(n), ~fault'
      PROVE  ImageBytes(img) <= HeapEnd - HeapStart
  <2>1. hdr = img /\ img \in Images
    BY <1>2 DEF ReadImage, LoadInv, HeaderRead, TypeOK
  <2>2. /\ HeapStart + DescSize <= bootimg /\ bootimg \in Nat
        /\ bootimg + ImageBytes(hdr) <= HeapEnd
    BY <1>2 DEF ReadImage, LoadInv, Descriptors, TypeOK
  <2> QED
    BY <2>1, <2>2, PartsInImage, Map DEF Request
<1>3. ASSUME ~ \E n \in 0 .. ImageBytes(hdr) : ReadImage(n)
      PROVE  pc' \in V2Pcs /\ ~fault' => pc \in V2Pcs /\ ~fault
  BY <1>3
     DEF LoadInv, V2Pcs, Next, vars, loader, EarlyLcdc, EmbedBoot,
         ReadHeader, BadMagic, AllocImage, AllocFails, JzCopyKernel,
         JzCopyRamdisk, JzParam, V2CopyKernel, V2CopyRamdisk, V2CopyDtb, V2Fdt
<1>4. ImageBytes(img') = ImageBytes(img)
  BY <1>1
<1> QED
  BY <1>2, <1>3, <1>4 DEF LoadInv, Fitted

LEMMA NextEarly == LoadInv /\ [Next]_vars => Early'
<1> SUFFICES ASSUME LoadInv, [Next]_vars, pc' = "early" PROVE Early'
  BY DEF Early
<1>1. UNCHANGED <<pc, img, mem>>
  BY DEF LoadInv, TypeOK, Next, vars, loader, EarlyLcdc, EmbedBoot,
         ReadHeader, BadMagic, AllocImage, AllocFails, ReadImage, FirstCopy,
         JzCopyKernel, JzCopyRamdisk, JzParam, V2CopyKernel, V2CopyRamdisk,
         V2CopyDtb, V2Fdt
<1> QED
  BY <1>1 DEF LoadInv, Early

LEMMA NextInUse == LoadInv /\ [Next]_vars => InUseUntouched'
<1> SUFFICES ASSUME LoadInv, [Next]_vars, ~fault', pc' # "early"
             PROVE  InUseUntouched'
  BY DEF InUseUntouched
<1>1. img' = img /\ ~fault
  BY DEF Next, vars, loader, EarlyLcdc, EmbedBoot, ReadHeader, BadMagic,
         AllocImage, AllocFails, ReadImage, JzCopyKernel, JzCopyRamdisk,
         JzParam, V2CopyKernel, V2CopyRamdisk, V2CopyDtb, V2Fdt, LoadInv,
         TypeOK
<1>2. img \in Images /\ (pc \in V2Pcs \cup JzPcs => hdr = img)
  BY <1>1 DEF LoadInv, TypeOK, HeaderRead
<1>3. CASE UNCHANGED mem /\ pc # "early"
  BY <1>1, <1>3, Kept
<1>4. CASE JzCopyKernel \/ JzCopyRamdisk \/ JzParam
  <2>1. /\ JZ_KERNEL_ADDR + img.kernel <= FbStart
        /\ JzRamdisk(img) + img.ramdisk <= FbStart /\ JzRamdisk(img) \in Nat
        /\ ParamBase(img) + ParamSize <= FbStart /\ ParamBase(img) \in Nat
        /\ img.kernel \in Nat /\ img.ramdisk \in Nat
    <3>1. /\ img.kernel \in Nat /\ img.ramdisk \in Nat
          /\ JzRamdisk(img) + img.ramdisk <= FbStart
          /\ ParamBase(img) + ParamSize <= FbStart
      BY <1>2, ImageAssumption
    <3>2. \A a \in Nat \ {0} : Align(img.kernel, a) \in Nat
                               /\ img.kernel <= Align(img.kernel, a)
      BY <3>1, AlignBounds
    <3>3. RamdiskAlign \in Nat \ {0} /\ WordAlign \in Nat \ {0}
      BY Map
    <3> QED
      BY <3>1, <3>2, <3>3, Map DEF JzRamdisk, ParamBase
  <2>2. CASE JzCopyKernel
    BY <1>1, <1>2, <2>1, <2>2, CopyKept, Map DEF JzCopyKernel, JzPcs
  <2>3. CASE JzCopyRamdisk
    BY <1>1, <1>2, <2>1, <2>3, CopyKept, Map DEF JzCopyRamdisk, JzPcs
  <2>4. CASE JzParam
    BY <1>1, <1>2, <2>1, <2>4, CopyKept, Map DEF JzParam, JzPcs
  <2> QED
    BY <1>4, <2>2, <2>3, <2>4
<1>5. CASE V2CopyKernel \/ V2CopyRamdisk \/ V2CopyDtb \/ V2Fdt
  <2>1. /\ KernelAddr + img.kernel <= FbStart
        /\ V2Ramdisk(img) + img.ramdisk <= FbStart /\ V2Ramdisk(img) \in Nat
        /\ V2Dtb(img) + img.dtb + FdtSlack <= FbStart /\ V2Dtb(img) \in Nat
        /\ img.kernel \in Nat /\ img.ramdisk \in Nat /\ img.dtb \in Nat
    <3>1. pc \in V2Pcs
      BY <1>5 DEF V2CopyKernel, V2CopyRamdisk, V2CopyDtb, V2Fdt, V2Pcs
    <3>2. ImageBytes(img) <= HeapEnd - HeapStart
      BY <1>1, <3>1 DEF LoadInv, Fitted
    <3>3. img.kernel \in Nat /\ img.ramdisk \in Nat /\ img.dtb \in Nat
      BY <1>2, ImageAssumption
    <3> QED
      BY <1>2, <3>2, <3>3, V2Below
  <2>2. CASE V2CopyKernel
    BY <1>1, <1>2, <2>1, <2>2, CopyKept, Map DEF V2CopyKernel, V2Pcs
  <2>3. CASE V2CopyRamdisk
    BY <1>1, <1>2, <2>1, <2>3, CopyKept, Map DEF V2CopyRamdisk, V2Pcs
  <2>4. CASE V2CopyDtb
    <3>1. hdr = img /\ V2Dtb(img) + img.dtb <= FbStart
      BY <1>2, <2>1, <2>4, Map DEF V2CopyDtb, V2Pcs
    <3> QED
      BY <1>1, <2>1, <2>4, <3>1, CopyKept, Map DEF V2CopyDtb
  <2>5. CASE V2Fdt
    <3>1. hdr = img /\ pc # "early" /\ img.dtb + FdtSlack \in Nat
          /\ V2Dtb(img) + (img.dtb + FdtSlack) <= FbStart
      BY <1>2, <2>1, <2>5, Map DEF V2Fdt, V2Pcs
    <3>2. CASE mem' = Filled(V2Dtb(hdr), hdr.dtb + FdtSlack, "fdt")
      BY <1>1, <2>1, <3>1, <3>2, CopyKept
    <3>3. CASE UNCHANGED mem
      BY <1>3, <3>1, <3>3
    <3> QED
      BY <2>5, <3>2, <3>3 DEF V2Fdt
  <2> QED
    BY <1>5, <2>2, <2>3, <2>4, <2>5
<1>6. ASSUME NEW n \in 0 .. ImageBytes(hdr), ReadImage(n)
      PROVE  InUseUntouched'
  <2>1. /\ pc = "image" /\ bootimg \in Nat /\ ImageBytes(img) \in Nat
        /\ hdr = img /\ HeapStart + DescSize <= bootimg
        /\ bootimg + ImageBytes(img) <= HeapEnd
    BY <1>1, <1>2, <1>6, PartsInImage
       DEF ReadImage, LoadInv, HeaderRead, Descriptors, TypeOK, Request
  <2>2. bootimg + n - 1 <= HeapEnd /\ n \in Nat
    BY <1>6, <2>1, Map
  <2>3. \A a \in Addr : InUse(a) => a \notin bootimg .. bootimg + n - 1
    BY <2>1, <2>2, Map DEF InUse, Addr
  <2>4. \A a \in Addr : InUse(a) => mem'[a] = mem[a]
    BY <1>6, <2>3 DEF ReadImage
  <2> QED
    BY <1>1, <2>1, <2>4, Kept
<1>7. CASE EarlyLcdc
  <2>1. /\ pc = "early" /\ offset = 0 /\ Ptr = HeapStart
        /\ HeapStart + DescSize <= HeapEnd
        /\ mem' = Filled(HeapStart, DescSize, "desc")
    BY <1>7, MallocExtent, Map DEF EarlyLcdc, LoadInv, Descriptors
  <2>2. \A a \in Addr : mem[a] = IF a >= Downstream
                                 THEN Byte(img, a - Downstream)
                                 ELSE <<"old", a>>
    BY <2>1 DEF LoadInv, Early
  <2>a. \A a \in Addr : mem'[a] = IF a \in HeapStart .. HeapStart + DescSize - 1
                                 THEN <<"desc", a - HeapStart>> ELSE mem[a]
    BY <2>1 DEF Filled
  <2>b. /\ FbStart .. FbEnd \subseteq Addr
        /\ Downstream .. LoaderEnd \subseteq Addr
        /\ \A k \in 0 .. DescSize - 1 :
              /\ HeapStart + k \in Addr
              /\ HeapStart + k \in HeapStart .. HeapStart + DescSize - 1
              /\ (HeapStart + k) - HeapStart = k
    BY <2>1, Map DEF Addr
  <2>c. \A a \in FbStart .. FbEnd :
          a \notin HeapStart .. HeapStart + DescSize - 1 /\ ~(a >= Downstream)
    BY <2>1, Map
  <2>d. \A a \in Downstream .. LoaderEnd :
          a \notin HeapStart .. HeapStart + DescSize - 1 /\ a >= Downstream
    BY <2>1, Map
  <2>3. \A a \in FbStart .. FbEnd : mem'[a] = <<"old", a>>
    BY <2>a, <2>b, <2>c, <2>2, Zenon
  <2>4. Holds(HeapStart, DescSize, "desc")'
    <3>1. \A k \in 0 .. DescSize - 1 : mem'[HeapStart + k] = <<"desc", k>>
      BY <2>a, <2>b
    <3> QED
      BY <3>1 DEF Holds
  <2>5. \A a \in Downstream .. LoaderEnd : mem'[a] = Byte(img, a - Downstream)
    BY <1>1, <2>a, <2>b, <2>d, <2>2, Zenon
  <2> QED
    BY <1>1, <2>3, <2>4, <2>5 DEF InUseUntouched
<1> QED
  BY <1>3, <1>4, <1>5, <1>6, <1>7
     DEF Next, vars, loader, EmbedBoot, ReadHeader, BadMagic, AllocImage,
         AllocFails

\* The inductive invariant holds (boot.c:19-182, mem.c:16-32).
THEOREM LoadInvariance == Spec => []LoadInv
<1>1. LoadInv /\ [Next]_vars => LoadInv'
  BY NextType, NextHeap, NextHeader, NextDescriptors, NextFitted, NextInUse,
     NextEarly
     DEF LoadInv
<1> QED
  BY InitLoad, <1>1, PTL DEF Spec

\* No kernel, ramdisk, parameter block, device tree or image is written over
\* the frame buffer, the display's descriptors or the loader, whatever the
\* sizes in an image the heap holds (boot.c:103-148).
THEOREM Untouched == Spec => []InUseUntouched
<1>1. LoadInv => InUseUntouched
  BY DEF LoadInv
<1> QED
  BY LoadInvariance, <1>1, PTL

\* Type correctness of the loader, and what the header is good for: memory for
\* an image is taken only by one with the magic, behind the descriptors and
\* within the heap, and until a read fails the boot commands go by the image's
\* own.  Of the header after a failed read nothing more is known than that
\* memory held it (boot.c:66-182).
THEOREM TypeCorrect == Spec => [](TypeOK /\ HeaderRead /\ Descriptors)
<1>1. LoadInv => TypeOK /\ HeaderRead /\ Descriptors
  BY DEF LoadInv
<1> QED
  BY LoadInvariance, <1>1, PTL

-----------------------------------------------------------------------------
(***************************************************************************)
(* The kernel is entered with its parts in place, for every image and      *)
(* memory map the assumptions admit.  Writer and reader compute the same   *)
(* offsets, so what the loader copies is the part it means; and the copies *)
(* go below the image, one behind the other.                               *)
(***************************************************************************)

(* Multiples of the page size. *)

\* Two multiples of p less than p apart are the same.
LEMMA SameMultiple ==
    ASSUME NEW p \in Nat \ {0}, NEW i \in Nat, NEW j \in Nat,
           p * i < p * j + p, p * j < p * i + p
    PROVE  i = j
<1>1. CASE i < j
  <2>1. p * (j - i) >= p
    BY <1>1
  <2>2. p * (j - i) = p * j - p * i
    OBVIOUS
  <2> QED
    BY <2>1, <2>2
<1>2. CASE j < i
  <2>1. p * (i - j) >= p
    BY <1>2
  <2>2. p * (i - j) = p * i - p * j
    OBVIOUS
  <2> QED
    BY <2>1, <2>2
<1> QED
  BY <1>1, <1>2

\* ALIGN gives the multiple that is less than a page above.
LEMMA AlignMultiple ==
    ASSUME NEW p \in Nat \ {0}, NEW x \in Nat
    PROVE  \E i \in Nat : /\ Align(x, p) = p * i
                          /\ x <= p * i /\ p * i < x + p
<1> DEFINE i == (x + p - 1) \div p
<1>1. i \in Nat
  OBVIOUS
<1>2. Align(x, p) = i * p
  BY DEF Align
<1>3. x <= Align(x, p) /\ Align(x, p) < x + p
  BY AlignBounds
<1> HIDE DEF i
<1>4. i * p = p * i
  BY <1>1
<1> QED
  BY <1>1, <1>2, <1>3, <1>4

\* So does padding.
LEMMA PaddedMultiple ==
    ASSUME NEW p \in Nat \ {0}, NEW x \in Nat
    PROVE  \E i \in Nat : /\ Padded(x, p) = p * i
                          /\ x <= p * i /\ p * i < x + p
<1> DEFINE q == x \div p
           r == x % p
<1>1. q \in Nat /\ r \in 0 .. p - 1 /\ x = p * q + r
  OBVIOUS
<1>2. CASE r = 0
  <2>1. (p - r) % p = 0
    BY <1>2
  <2>2. Padded(x, p) = p * q
    BY <1>1, <1>2, <2>1 DEF Padded
  <2> HIDE DEF q, r
  <2>3. x <= p * q /\ p * q < x + p
    BY <1>1, <1>2
  <2> QED
    BY <1>1, <2>2, <2>3
<1>3. CASE r # 0
  <2>1. p - r \in 0 .. p - 1
    BY <1>1, <1>3
  <2>2. (p - r) % p = p - r
    BY <2>1
  <2>3. Padded(x, p) = x + (p - r)
    BY <2>2 DEF Padded
  <2>4. q + 1 \in Nat /\ p * (q + 1) = p * q + p
    BY <1>1
  <2>5. Padded(x, p) = p * (q + 1)
    <3> HIDE DEF q, r
    <3> QED
      BY <1>1, <2>3, <2>4
  <2> HIDE DEF q, r
  <2>6. x <= p * (q + 1) /\ p * (q + 1) < x + p
    BY <1>1, <1>3, <2>4
  <2> QED
    BY <2>4, <2>5, <2>6
<1> QED
  BY <1>2, <1>3

\* Padding behind whole pages is ALIGN of the size.
LEMMA PaddedBehind ==
    ASSUME NEW p \in Nat \ {0}, NEW n \in Nat, NEW x \in Nat
    PROVE  Padded(p * n + x, p) = p * n + Align(x, p)
<1>1. p * n + x \in Nat
  OBVIOUS
<1>2. PICK i \in Nat : /\ Padded(p * n + x, p) = p * i
                       /\ p * n + x <= p * i /\ p * i < p * n + x + p
  BY <1>1, PaddedMultiple
<1>3. PICK j \in Nat : /\ Align(x, p) = p * j
                       /\ x <= p * j /\ p * j < x + p
  BY AlignMultiple
<1>4. n + j \in Nat /\ p * (n + j) = p * n + p * j
  OBVIOUS
<1>5. p * i < p * (n + j) + p /\ p * (n + j) < p * i + p
  BY <1>2, <1>3, <1>4
<1>6. i = n + j
  BY <1>4, <1>5, SameMultiple
<1> QED
  BY <1>2, <1>3, <1>4, <1>6

-----------------------------------------------------------------------------
(* Where the parts are. *)

\* The sizes in a header.
LEMMA Sizes ==
    ASSUME NEW h \in Images
    PROVE  /\ h.page \in Nat \ {0} /\ h.kernel \in Nat /\ h.ramdisk \in Nat
           /\ h.second \in Nat /\ h.dtbo \in Nat /\ h.dtb \in Nat
           /\ HeaderSize \in Nat /\ 0 < HeaderSize /\ HeaderSize <= h.page
  BY ImageAssumption, LoadAssumption

\* The writer begins every part where the reader looks for it.
LEMMA StartsAgree ==
    ASSUME NEW h \in Images
    PROVE  /\ Starts(h)[1] = h.page
           /\ Starts(h)[2] = RamdiskOffs(h)
           /\ Starts(h)[3] = SecondOffs(h)
           /\ Starts(h)[4] = SecondOffs(h) + Align(h.second, h.page)
           /\ Starts(h)[5] = DtbOffs(h)
<1> DEFINE p == h.page
           next(at, size) == Padded(at + size, p)
           kernel  == Padded(HeaderSize, p)
           ramdisk == next(kernel, h.kernel)
           second  == next(ramdisk, h.ramdisk)
           dtbo    == next(second, h.second)
           dtb     == next(dtbo, h.dtbo)
<1>0. /\ p \in Nat \ {0} /\ h.kernel \in Nat /\ h.ramdisk \in Nat
      /\ h.second \in Nat /\ h.dtbo \in Nat
      /\ HeaderSize \in Nat /\ 0 < HeaderSize /\ HeaderSize <= p
  BY Sizes
<1>1. ASSUME NEW x \in Nat
      PROVE  \E i \in Nat : Align(x, p) = p * i
  BY <1>0, <1>1, AlignMultiple
<1>2. ASSUME NEW at \in Nat, NEW x \in Nat, \E n \in Nat : at = p * n
      PROVE  /\ next(at, x) = at + Align(x, p)
             /\ next(at, x) \in Nat
             /\ \E n \in Nat : next(at, x) = p * n
  <2>1. PICK n \in Nat : at = p * n
    BY <1>2
  <2>2. Padded(p * n + x, p) = p * n + Align(x, p)
    BY <1>0, <1>2, <2>1, PaddedBehind
  <2>3. PICK i \in Nat : Align(x, p) = p * i
    BY <1>1, <1>2
  <2>4. /\ p * n + p * i = p * (n + i) /\ n + i \in Nat
        /\ p * (n + i) \in Nat
    BY <1>0, <2>1, <2>3
  <2> QED
    BY <2>1, <2>2, <2>3, <2>4
<1>3. kernel = p
  <2>1. PICK i \in Nat : /\ Padded(HeaderSize, p) = p * i
                         /\ HeaderSize <= p * i /\ p * i < HeaderSize + p
    BY <1>0, PaddedMultiple
  <2>2. p * 1 = p
    BY <1>0
  <2>3. i = 1
    <3>1. i > 0
      BY <1>0, <2>1
    <3>2. p * i < p * 1 + p
      BY <1>0, <2>1, <2>2
    <3>3. p * 1 < p * i + p
      BY <1>0, <2>1, <2>2
    <3> QED
      BY <1>0, <3>2, <3>3, SameMultiple
  <2> QED
    BY <2>1, <2>2, <2>3
<1>4. kernel \in Nat /\ \E n \in Nat : kernel = p * n
  <2>1. p = p * 1
    BY <1>0
  <2> QED
    BY <1>0, <1>3, <2>1
<1> HIDE DEF kernel, next, p
<1>5. /\ ramdisk = kernel + Align(h.kernel, p) /\ ramdisk \in Nat
      /\ \E n \in Nat : ramdisk = p * n
  BY <1>0, <1>2, <1>4
<1> HIDE DEF ramdisk
<1>6. /\ second = ramdisk + Align(h.ramdisk, p) /\ second \in Nat
      /\ \E n \in Nat : second = p * n
  BY <1>0, <1>2, <1>5
<1> HIDE DEF second
<1>7. /\ dtbo = second + Align(h.second, p) /\ dtbo \in Nat
      /\ \E n \in Nat : dtbo = p * n
  BY <1>0, <1>2, <1>6
<1> HIDE DEF dtbo
<1>8. dtb = dtbo + Align(h.dtbo, p)
  BY <1>0, <1>2, <1>7
<1>9. /\ Starts(h)[1] = kernel /\ Starts(h)[2] = ramdisk
      /\ Starts(h)[3] = second /\ Starts(h)[4] = dtbo /\ Starts(h)[5] = dtb
  BY DEF Starts, kernel, ramdisk, second, dtbo, dtb, next, p
<1>10. /\ RamdiskOffs(h) = p + Align(h.kernel, p)
       /\ SecondOffs(h) = RamdiskOffs(h) + Align(h.ramdisk, p)
       /\ DtbOffs(h) = SecondOffs(h) + Align(h.second, p) + Align(h.dtbo, p)
  BY DEF RamdiskOffs, SecondOffs, DtbOffs, p
<1>11. kernel = h.page /\ p = h.page
  BY <1>3 DEF p
<1> QED
  BY <1>3, <1>5, <1>6, <1>7, <1>8, <1>9, <1>10, <1>11

\* Reader and writer agree on every offset, also on the one the header names
\* (boot.c:84-88, 132-136, mkbootimg.py:96-105).
THEOREM OffsetsAlwaysAgree == Spec => []OffsetsAgree
<1>1. TypeOK => OffsetsAgree
  <2> SUFFICES ASSUME img \in Images PROVE OffsetsAgree
    BY DEF TypeOK
  <2>1. /\ Starts(img)[1] = img.page
        /\ Starts(img)[2] = RamdiskOffs(img)
        /\ Starts(img)[3] = SecondOffs(img)
        /\ Starts(img)[4] = SecondOffs(img) + Align(img.second, img.page)
        /\ Starts(img)[5] = DtbOffs(img)
    BY StartsAgree
  <2>2. DtboOffsetField(img) \in {0, Starts(img)[4]}
    <3> DEFINE p == img.page
               k == Pages(img.kernel, p)
               r == Pages(img.ramdisk, p)
               s == Pages(img.second, p)
    <3>1. p \in Nat \ {0} /\ k \in Nat /\ r \in Nat /\ s \in Nat
      <4>1. ASSUME NEW x \in Nat PROVE Pages(x, p) \in Nat
        <5>1. x + p - 1 \in Nat /\ p \in Nat \ {0}
          BY <4>1, Sizes
        <5> HIDE DEF p
        <5> QED
          BY <5>1 DEF Pages
      <4> HIDE DEF p
      <4> QED
        BY <4>1, Sizes DEF p
    <3>2. Starts(img)[4] = p + k * p + r * p + s * p
      BY <2>1 DEF SecondOffs, RamdiskOffs, Align, Pages
    <3>3. img.dtbo # 0 => DtboOffsetField(img) = p * (1 + k + r + s)
      BY DEF DtboOffsetField
    <3> HIDE DEF p, k, r, s
    <3>4. p * (1 + k + r + s) = p + k * p + r * p + s * p
      BY <3>1
    <3>5. img.dtbo = 0 => DtboOffsetField(img) = 0
      BY DEF DtboOffsetField
    <3> QED
      BY <3>2, <3>3, <3>4, <3>5
  <2> QED
    BY <2>1, <2>2 DEF OffsetsAgree
<1> QED
  BY TypeCorrect, <1>1, PTL

\* A byte of the image before the parts.
LEMMA HeaderByte ==
    ASSUME NEW h \in Images, NEW k \in 0 .. HeaderSize - 1
    PROVE  Byte(h, k) = <<"header", k>>
  BY Sizes DEF Byte

\* A byte of the image in a part.
LEMMA PartByte ==
    ASSUME NEW h \in Images, NEW n \in DOMAIN Parts(h),
           NEW k \in 0 .. h[Parts(h)[n]] - 1
    PROVE  Byte(h, Starts(h)[n] + k) = <<Parts(h)[n], k>>
<1> DEFINE at == Starts(h)
           off == at[n] + k
           In(m) == at[m] <= off /\ off < at[m] + h[Parts(h)[m]]
<1>1. /\ DOMAIN Parts(h) \subseteq 1 .. 5
      /\ \A m \in DOMAIN Parts(h) :
            Parts(h)[m] = <<"kernel", "ramdisk", "second", "dtbo", "dtb">>[m]
  BY DEF Parts
<1>2. /\ at[1] \in Nat /\ HeaderSize <= at[1]
      /\ at[1] + h.kernel <= at[2] /\ at[2] \in Nat
      /\ at[2] + h.ramdisk <= at[3] /\ at[3] \in Nat
      /\ at[3] + h.second <= at[4] /\ at[4] \in Nat
      /\ at[4] + h.dtbo <= at[5] /\ at[5] \in Nat
  <2>1. \A x \in Nat : Align(x, h.page) \in Nat /\ x <= Align(x, h.page)
    BY Sizes, AlignBounds
  <2> QED
    BY <2>1, Sizes, StartsAgree DEF RamdiskOffs, SecondOffs, DtbOffs
<1>3. /\ h.kernel \in Nat /\ h.ramdisk \in Nat /\ h.second \in Nat
      /\ h.dtbo \in Nat /\ h.dtb \in Nat
  BY Sizes
<1> HIDE DEF at
<1>4. In(n)
  BY <1>1, <1>2, <1>3
<1>5. ASSUME NEW m \in DOMAIN Parts(h), In(m) PROVE m = n
  BY <1>1, <1>2, <1>3, <1>5
<1>6. ~(off < HeaderSize)
  BY <1>1, <1>2, <1>3, Sizes
<1>7. off - at[n] = k
  BY <1>1, <1>2
<1>8. Byte(h, off) = LET m == CHOOSE m \in DOMAIN Parts(h) : In(m)
                     IN  <<Parts(h)[m], off - at[m]>>
  BY <1>4, <1>6 DEF Byte, at
<1>9. (CHOOSE m \in DOMAIN Parts(h) : In(m)) = n
  BY <1>4, <1>5
<1> QED
  BY <1>7, <1>8, <1>9 DEF at

-----------------------------------------------------------------------------
(* What is copied. *)

CopyPcs == JzPcs \cup V2Pcs

\* How far the image is read while its parts are copied.
Extent == IF pc \in V2Pcs THEN ImageBytes(img) ELSE SecondOffs(img)

\* The menu entry decides which of the two loaders runs.
Path == /\ pc \in V2Pcs => command = "boot_recovery"
        /\ pc \in JzPcs => command # "boot_recovery"

\* While parts are copied the image is in memory, above their places.
ImageThere ==
    pc \in CopyPcs /\ ~fault =>
        /\ FbStart <= bootimg /\ bootimg + Extent <= LoaderEnd + 1
        /\ \A k \in 0 .. Extent - 1 : mem[bootimg + k] = Byte(img, k)

\* The parts that have been copied.
Placed ==
    ~fault =>
      /\ pc \in {"jz_ramdisk", "jz_param"} =>
            Holds(JZ_KERNEL_ADDR, img.kernel, "kernel")
      /\ pc = "jz_param" => Holds(JzRamdisk(img), img.ramdisk, "ramdisk")
      /\ pc \in {"v2_ramdisk", "v2_dtb", "v2_fdt"} =>
            Holds(KernelAddr, img.kernel, "kernel")
      /\ pc \in {"v2_dtb", "v2_fdt"} =>
            Holds(V2Ramdisk(img), img.ramdisk, "ramdisk")
      /\ pc = "v2_fdt" /\ img.version = 2 => Holds(V2Dtb(img), img.dtb, "dtb")

PlaceInv == Path /\ ImageThere /\ Placed /\ PartsInPlace

\* Where the copies go: below the frame buffer, one behind the other.
LEMMA Places ==
    ASSUME LoadInv, ~fault, pc \in CopyPcs
    PROVE  /\ hdr = img /\ img \in Images
           /\ pc \in JzPcs =>
                /\ JZ_KERNEL_ADDR + img.kernel <= JzRamdisk(img)
                /\ JzRamdisk(img) + img.ramdisk <= FbStart
                /\ JzRamdisk(img) + img.kernel <= ParamBase(img)
                /\ ParamBase(img) + ParamSize <= FbStart
                /\ JzRamdisk(img) \in Nat /\ ParamBase(img) \in Nat
           /\ pc \in V2Pcs =>
                /\ KernelAddr + img.kernel <= V2Ramdisk(img)
                /\ V2Ramdisk(img) + img.ramdisk <= V2Dtb(img)
                /\ V2Dtb(img) + img.dtb + FdtSlack <= FbStart
                /\ V2Ramdisk(img) \in Nat /\ V2Dtb(img) \in Nat
<1>1. hdr = img /\ img \in Images
  BY DEF LoadInv, TypeOK, HeaderRead, CopyPcs
<1>2. /\ img.kernel \in Nat /\ img.ramdisk \in Nat /\ img.dtb \in Nat
  BY <1>1, Sizes
<1>3. \A x \in Nat, a \in Nat \ {0} : Align(x, a) \in Nat /\ x <= Align(x, a)
  BY AlignBounds
<1>4. /\ RamdiskAlign \in Nat \ {0} /\ WordAlign \in Nat \ {0}
      /\ KernelAddr \in Nat /\ JZ_KERNEL_ADDR \in Nat
  BY Map
<1>5. /\ JZ_KERNEL_ADDR + img.kernel <= JzRamdisk(img)
      /\ JzRamdisk(img) \in Nat /\ ParamBase(img) \in Nat
      /\ JzRamdisk(img) + img.kernel <= ParamBase(img)
  BY <1>2, <1>3, <1>4 DEF JzRamdisk, ParamBase
<1>6. /\ KernelAddr + img.kernel <= V2Ramdisk(img)
      /\ V2Ramdisk(img) \in Nat /\ V2Dtb(img) \in Nat
      /\ V2Ramdisk(img) + img.ramdisk <= V2Dtb(img)
  BY <1>2, <1>3, <1>4 DEF V2Ramdisk, V2Dtb
<1>7. /\ JzRamdisk(img) + img.ramdisk <= FbStart
      /\ ParamBase(img) + ParamSize <= FbStart
  BY <1>1, ImageAssumption
<1>8. pc \in V2Pcs => V2Dtb(img) + img.dtb + FdtSlack <= FbStart
  BY <1>1, V2Below DEF LoadInv, Fitted
<1> QED
  BY <1>1, <1>5, <1>6, <1>7, <1>8

\* What a copy promises: the bytes of a part come, and the rest stays.
Gives(offs, n, part) == \A k \in 0 .. n - 1 : Byte(img, offs + k) = <<part, k>>
Arrives(lo, n, part) == \A k \in 0 .. n - 1 : mem'[lo + k] = <<part, k>>
RestStays(lo, n) ==
    \A a \in Addr : a < lo \/ a >= lo + n => mem'[a] = mem[a]
AboveStays == \A a \in Addr : a >= FbStart => mem'[a] = mem[a]

\* A copy leaves the rest.
LEMMA CopyKeeps ==
    ASSUME NEW dst \in Nat, NEW src \in Nat, NEW n \in Nat,
           mem' = Copied(dst, src, n)
    PROVE  RestStays(dst, n)
<1>1. \A a \in Addr : a < dst \/ a >= dst + n => a \notin dst .. dst + n - 1
  BY Map DEF Addr
<1> QED
  BY <1>1 DEF Copied, RestStays

\* One from above, of memory that is followed, gives the bytes of the source.
LEMMA CopyGives ==
    ASSUME NEW dst \in Nat, NEW src \in Nat, NEW n \in Nat,
           KernelAddr <= dst, dst + n <= src, dst + n <= FbStart,
           src + n <= LoaderEnd + 1, mem' = Copied(dst, src, n)
    PROVE  /\ \A k \in 0 .. n - 1 : mem'[dst + k] = mem[src + k]
           /\ RestStays(dst, n)
<1>1. \A k \in 0 .. n - 1 : /\ dst + k \in Addr /\ dst + k \in dst .. dst + n - 1
                            /\ (dst + k) - dst = k
  BY Map DEF Addr
<1>2. ~(dst > src) \/ n = 0
  OBVIOUS
<1>3. \A k \in 0 .. n - 1 : Seen(src + k) = mem[src + k]
  BY Map DEF Seen, Addr
<1>4. \A k \in 0 .. n - 1 : mem'[dst + k] = Seen(src + k)
  BY <1>1, <1>2 DEF Copied
<1> QED
  BY <1>3, <1>4, CopyKeeps

\* So does a filling.
LEMMA FillGives ==
    ASSUME NEW lo \in Nat, NEW n \in Nat, NEW tag,
           KernelAddr <= lo, lo + n <= FbStart, mem' = Filled(lo, n, tag)
    PROVE  Arrives(lo, n, tag) /\ RestStays(lo, n)
<1>1. \A k \in 0 .. n - 1 : /\ lo + k \in Addr /\ lo + k \in lo .. lo + n - 1
                            /\ (lo + k) - lo = k
  BY Map DEF Addr
<1>2. \A a \in Addr : a < lo \/ a >= lo + n => a \notin lo .. lo + n - 1
  BY Map DEF Addr
<1> QED
  BY <1>1, <1>2 DEF Filled, Arrives, RestStays

-----------------------------------------------------------------------------
(* Steps. *)

LEMMA NextPath == LoadInv /\ Path /\ [Next]_vars => Path'
<1> SUFFICES ASSUME LoadInv, Path, [Next]_vars PROVE Path'
  OBVIOUS
<1>1. CASE \E n \in 0 .. ImageBytes(hdr) : ReadImage(n)
  BY <1>1 DEF Path, ReadImage, FirstCopy, V2Pcs, JzPcs
<1>2. CASE UNCHANGED vars
  BY <1>2 DEF Path, vars, loader
<1>3. CASE EmbedBoot
  BY <1>3 DEF Path, EmbedBoot, V2Pcs, JzPcs
<1>4. CASE EarlyLcdc \/ ReadHeader \/ BadMagic \/ AllocImage \/ AllocFails
  BY <1>4 DEF Path, EarlyLcdc, ReadHeader, BadMagic, AllocImage, AllocFails,
              V2Pcs, JzPcs
<1>5. CASE \/ JzCopyKernel \/ JzCopyRamdisk \/ JzParam
           \/ V2CopyKernel \/ V2CopyRamdisk \/ V2CopyDtb \/ V2Fdt
  BY <1>5 DEF Path, JzCopyKernel, JzCopyRamdisk, JzParam, V2CopyKernel,
              V2CopyRamdisk, V2CopyDtb, V2Fdt, V2Pcs, JzPcs
<1> QED
  BY <1>1, <1>2, <1>3, <1>4, <1>5 DEF Next

\* The image a copy takes its part from.
LEMMA ExtentCovers ==
    ASSUME NEW h \in Images
    PROVE  /\ SecondOffs(h) \in Nat /\ ImageBytes(h) \in Nat
           /\ SecondOffs(h) <= ImageBytes(h)
           /\ h.page \in Nat /\ RamdiskOffs(h) \in Nat /\ DtbOffs(h) \in Nat
           /\ h.page + h.kernel <= RamdiskOffs(h)
           /\ RamdiskOffs(h) + h.ramdisk <= SecondOffs(h)
           /\ h.version = 2 => DtbOffs(h) + h.dtb <= ImageBytes(h)
           /\ HeaderSize <= SecondOffs(h)
<1>1. \A x \in Nat : Align(x, h.page) \in Nat /\ x <= Align(x, h.page)
  BY Sizes, AlignBounds
<1>2. /\ h.page \in Nat /\ RamdiskOffs(h) \in Nat /\ SecondOffs(h) \in Nat
      /\ DtbOffs(h) \in Nat /\ h.page + h.kernel <= RamdiskOffs(h)
      /\ RamdiskOffs(h) + h.ramdisk <= SecondOffs(h)
  BY <1>1, Sizes DEF RamdiskOffs, SecondOffs, DtbOffs
<1> QED
  BY <1>2, PartsInImage DEF Request

\* A step that writes only below the frame buffer keeps the image.
LEMMA ImageStays ==
    ASSUME LoadInv, ImageThere, ~fault, pc \in CopyPcs, ~fault',
           img' = img, bootimg' = bootimg,
           pc \in V2Pcs <=> pc' \in V2Pcs,
           AboveStays
    PROVE  ImageThere'
<1>1. /\ FbStart <= bootimg /\ bootimg + Extent <= LoaderEnd + 1
      /\ \A k \in 0 .. Extent - 1 : mem[bootimg + k] = Byte(img, k)
  BY DEF ImageThere
<1>2. Extent' = Extent
  BY DEF Extent, ImageBytes, Sectors, SecondOffs, DtbOffs, RamdiskOffs, Align
<1>3. Extent \in Nat /\ bootimg \in Nat
  BY ExtentCovers DEF Extent, LoadInv, TypeOK
<1>4. \A k \in 0 .. Extent - 1 : bootimg + k \in Addr /\ bootimg + k >= FbStart
  BY <1>1, <1>3, Map DEF Addr
<1>5. \A k \in 0 .. Extent - 1 : mem'[bootimg + k] = Byte(img, k)
  BY <1>1, <1>4 DEF AboveStays
<1> QED
  BY <1>1, <1>2, <1>5 DEF ImageThere

\* The image is there when the first part is copied.
LEMMA ImageComes ==
    ASSUME LoadInv, ~fault', pc' \in CopyPcs,
           EmbedBoot \/ \E n \in 0 .. ImageBytes(hdr) : ReadImage(n)
    PROVE  ImageThere'
<1>1. img \in Images /\ img' = img /\ ~fault
  BY DEF LoadInv, TypeOK, EmbedBoot, ReadImage
<1>2. /\ Extent' = ImageBytes(img) \/ Extent' = SecondOffs(img)
      /\ pc' = "jz_kernel" => Extent' = SecondOffs(img)
  BY <1>1 DEF Extent, V2Pcs, ImageBytes, Sectors, SecondOffs, DtbOffs,
              RamdiskOffs, Align
<1>3. CASE EmbedBoot
  <2>1. bootimg' = Downstream /\ mem' = mem /\ pc = "menu"
        /\ Extent' = SecondOffs(img)
    BY <1>2, <1>3 DEF EmbedBoot
  <2>2. \A a \in Downstream .. LoaderEnd : mem[a] = Byte(img, a - Downstream)
    BY <1>1, <2>1 DEF LoadInv, InUseUntouched
  <2>3. Downstream + SecondOffs(img) <= LoaderEnd + 1 /\ SecondOffs(img) \in Nat
    BY <1>1, PlaceAssumption, ExtentCovers
  <2>4. \A k \in 0 .. SecondOffs(img) - 1 :
           /\ Downstream + k \in Downstream .. LoaderEnd
           /\ (Downstream + k) - Downstream = k
    BY <2>3, Map
  <2>5. \A k \in 0 .. SecondOffs(img) - 1 : mem[Downstream + k] = Byte(img, k)
    BY <2>2, <2>4
  <2> QED
    BY <1>1, <2>1, <2>3, <2>5, Map DEF ImageThere
<1>4. ASSUME NEW n \in 0 .. ImageBytes(hdr), ReadImage(n)
      PROVE  ImageThere'
  <2>1. /\ pc = "image" /\ hdr = img /\ bootimg' = bootimg /\ bootimg \in Nat
        /\ HeapStart + DescSize <= bootimg
        /\ bootimg + ImageBytes(img) <= HeapEnd
    BY <1>1, <1>4 DEF ReadImage, LoadInv, HeaderRead, Descriptors, TypeOK
  <2>2. /\ ImageBytes(img) \in Nat /\ SecondOffs(img) \in Nat
        /\ SecondOffs(img) <= ImageBytes(img)
    BY <1>1, ExtentCovers
  <2>3. n = ImageBytes(img)
    <3>1. fault' = (fault \/ n < ImageBytes(hdr))
      BY <1>4 DEF ReadImage
    <3>2. ~(n < ImageBytes(hdr))
      BY <3>1, Zenon
    <3>3. n \in 0 .. ImageBytes(img)
      BY <1>4, <2>1
    <3>4. ~(n < ImageBytes(img))
      BY <2>1, <3>2
    <3> QED
      BY <2>2, <3>3, <3>4
  <2>4. \A a \in Addr : a \in bootimg .. bootimg + n - 1
                           => mem'[a] = Byte(img, a - bootimg)
    BY <1>4 DEF ReadImage
  <2>5. \A k \in 0 .. n - 1 : /\ bootimg + k \in bootimg .. bootimg + n - 1
                              /\ bootimg + k \in Addr
                              /\ (bootimg + k) - bootimg = k
    BY <2>1, <2>2, <2>3, Map DEF Addr
  <2>6. \A k \in 0 .. n - 1 : mem'[bootimg + k] = Byte(img, k)
    BY <2>4, <2>5
  <2>7. Extent' \in 0 .. n
    <3>1. Extent' = ImageBytes(img) \/ Extent' = SecondOffs(img)
      BY <1>2
    <3>2. ImageBytes(img) \in 0 .. n /\ SecondOffs(img) \in 0 .. n
      BY <2>2, <2>3
    <3> QED
      BY <3>1, <3>2
  <2>8. \A k \in 0 .. Extent' - 1 : k \in 0 .. n - 1
    <3>1. n \in Nat
      BY <2>2, <2>3
    <3>2. \A e \in 0 .. n : \A k \in 0 .. e - 1 : k \in 0 .. n - 1
      BY <3>1
    <3> QED
      BY <2>7, <3>2
  <2>9. FbStart <= bootimg /\ bootimg + Extent' <= LoaderEnd + 1
    BY <2>1, <2>2, <2>3, <2>7, Map
  <2> QED
    BY <1>1, <2>1, <2>6, <2>8, <2>9 DEF ImageThere
<1> QED
  BY <1>3, <1>4

\* A copy of a part puts the part there and leaves the rest.
LEMMA PartCopied ==
    ASSUME LoadInv, ImageThere, ~fault, pc \in CopyPcs,
           NEW dst \in Nat, NEW offs \in Nat, NEW n \in Nat, NEW part,
           offs + n <= Extent,
           Gives(offs, n, part),
           KernelAddr <= dst, dst + n <= FbStart,
           mem' = Copied(dst, bootimg + offs, n)
    PROVE  Arrives(dst, n, part) /\ RestStays(dst, n) /\ AboveStays
<1>1. /\ FbStart <= bootimg /\ bootimg \in Nat
      /\ \A k \in 0 .. Extent - 1 : mem[bootimg + k] = Byte(img, k)
  BY DEF ImageThere, LoadInv, TypeOK
<1>2. Extent \in Nat
  BY ExtentCovers DEF Extent, LoadInv, TypeOK
<1>3. bootimg + offs \in Nat /\ dst + n <= bootimg + offs
  BY <1>1, Map
<1>4. /\ \A k \in 0 .. n - 1 : mem'[dst + k] = mem[(bootimg + offs) + k]
      /\ RestStays(dst, n)
  <2> HIDE DEF Extent
  <2>1. bootimg + offs \in Nat
    BY <1>3
  <2>2. dst + n <= bootimg + offs
    BY <1>3
  <2>3. (bootimg + offs) + n <= LoaderEnd + 1
    BY <1>1, <1>2, Map DEF ImageThere
  <2> QED
    BY <2>1, <2>2, <2>3, CopyGives
<1>5. \A k \in 0 .. n - 1 : /\ (bootimg + offs) + k = bootimg + (offs + k)
                            /\ offs + k \in 0 .. Extent - 1
  BY <1>1, <1>2
<1>6. Arrives(dst, n, part)
  BY <1>1, <1>4, <1>5 DEF Arrives, Gives
<1>7. \A a \in Addr : a >= FbStart => a >= dst + n
  BY Map DEF Addr
<1>8. AboveStays
  BY <1>4, <1>7 DEF AboveStays, RestStays
<1> QED
  BY <1>4, <1>6, <1>8

\* The parts at the offsets the loader takes them from.
LEMMA PartBytes ==
    ASSUME NEW h \in Images
    PROVE  /\ \A k \in 0 .. h.kernel - 1 : Byte(h, h.page + k) = <<"kernel", k>>
           /\ \A k \in 0 .. h.ramdisk - 1 :
                 Byte(h, RamdiskOffs(h) + k) = <<"ramdisk", k>>
           /\ h.version = 2 =>
                \A k \in 0 .. h.dtb - 1 : Byte(h, DtbOffs(h) + k) = <<"dtb", k>>
<1>1. /\ 1 \in DOMAIN Parts(h) /\ Parts(h)[1] = "kernel"
      /\ 2 \in DOMAIN Parts(h) /\ Parts(h)[2] = "ramdisk"
      /\ h.version = 2 => 5 \in DOMAIN Parts(h) /\ Parts(h)[5] = "dtb"
  BY DEF Parts
<1>2. \A n \in DOMAIN Parts(h) : \A k \in 0 .. h[Parts(h)[n]] - 1 :
         Byte(h, Starts(h)[n] + k) = <<Parts(h)[n], k>>
  BY PartByte
<1> QED
  BY <1>1, <1>2, StartsAgree

\* What lies outside the region written stays.
LEMMA HoldsStays ==
    ASSUME NEW dst \in Nat, NEW n \in Nat, NEW lo \in Nat, NEW m \in Nat,
           NEW part, Holds(lo, m, part),
           RestStays(dst, n),
           KernelAddr <= lo, lo + m <= FbStart,
           lo + m <= dst \/ dst + n <= lo
    PROVE  Arrives(lo, m, part)
<1>1. \A k \in 0 .. m - 1 : /\ lo + k \in Addr
                            /\ lo + k < dst \/ lo + k >= dst + n
  BY Map DEF Addr
<1> QED
  BY <1>1 DEF Holds, Arrives, RestStays

\* The places do not move.
LEMMA SamePlaces ==
    ASSUME img' = img
    PROVE  /\ JzRamdisk(img)' = JzRamdisk(img)
           /\ ParamBase(img)' = ParamBase(img)
           /\ V2Ramdisk(img)' = V2Ramdisk(img) /\ V2Dtb(img)' = V2Dtb(img)
  BY DEF JzRamdisk, ParamBase, V2Ramdisk, V2Dtb, Align

LEMMA NextJz ==
    ASSUME LoadInv, PlaceInv, ~fault, JzCopyKernel \/ JzCopyRamdisk \/ JzParam
    PROVE  Placed' /\ PartsInPlace' /\ ImageThere'
<1>1. /\ img' = img /\ bootimg' = bootimg /\ command' = command
      /\ fault' = fault /\ pc \in JzPcs /\ pc \in CopyPcs
      /\ command # "boot_recovery"
  BY DEF PlaceInv, Path, JzCopyKernel, JzCopyRamdisk, JzParam, JzPcs, CopyPcs
<1>2. /\ JzRamdisk(img)' = JzRamdisk(img) /\ ParamBase(img)' = ParamBase(img)
  BY <1>1, SamePlaces
<1>3. /\ hdr = img /\ img \in Images
      /\ JZ_KERNEL_ADDR + img.kernel <= JzRamdisk(img)
      /\ JzRamdisk(img) + img.ramdisk <= FbStart
      /\ JzRamdisk(img) + img.kernel <= ParamBase(img)
      /\ ParamBase(img) + ParamSize <= FbStart
      /\ JzRamdisk(img) \in Nat /\ ParamBase(img) \in Nat
  BY <1>1, Places
<1>4. img.kernel \in Nat /\ img.ramdisk \in Nat
  BY <1>3, Sizes
<1>5. /\ Extent = SecondOffs(img)
      /\ img.page + img.kernel <= Extent /\ img.page \in Nat
      /\ RamdiskOffs(img) + img.ramdisk <= Extent /\ RamdiskOffs(img) \in Nat
  <2>1. Extent = SecondOffs(img)
    BY <1>1 DEF Extent, JzPcs, V2Pcs
  <2> QED
    BY <1>3, <1>4, <2>1, ExtentCovers
<1>6. ImageThere
  BY DEF PlaceInv
<1>7. ASSUME AboveStays,
             pc' \notin V2Pcs
      PROVE  ImageThere'
  BY <1>1, <1>6, <1>7, ImageStays DEF JzPcs, V2Pcs
<1>8. CASE JzCopyKernel
  <2>1. /\ mem' = Copied(JZ_KERNEL_ADDR, bootimg + img.page, img.kernel)
        /\ pc' = "jz_ramdisk"
    BY <1>3, <1>8 DEF JzCopyKernel
  <2>2. /\ JZ_KERNEL_ADDR \in Nat /\ KernelAddr <= JZ_KERNEL_ADDR
        /\ JZ_KERNEL_ADDR + img.kernel <= FbStart
    BY <1>3, <1>4, Map
  <2>3. Gives(img.page, img.kernel, "kernel")
    BY <1>3, PartBytes DEF Gives
  <2>4. /\ Arrives(JZ_KERNEL_ADDR, img.kernel, "kernel")
        /\ AboveStays
    BY <1>1, <1>4, <1>5, <1>6, <2>1, <2>2, <2>3, PartCopied
  <2>5. Placed'
    BY <1>1, <2>1, <2>4 DEF Placed, Holds, Arrives
  <2> QED
    BY <1>7, <2>1, <2>4, <2>5 DEF PartsInPlace, V2Pcs
<1>9. CASE JzCopyRamdisk
  <2>1. /\ mem' = Copied(JzRamdisk(img), bootimg + RamdiskOffs(img),
                         img.ramdisk)
        /\ pc = "jz_ramdisk" /\ pc' = "jz_param"
    BY <1>3, <1>9 DEF JzCopyRamdisk
  <2>2. KernelAddr <= JZ_KERNEL_ADDR /\ KernelAddr <= JzRamdisk(img)
    BY <1>3, <1>4, Map
  <2>3. Gives(RamdiskOffs(img), img.ramdisk, "ramdisk")
    BY <1>3, PartBytes DEF Gives
  <2>4. /\ Arrives(JzRamdisk(img), img.ramdisk, "ramdisk")
        /\ RestStays(JzRamdisk(img), img.ramdisk)
        /\ AboveStays
    BY <1>1, <1>3, <1>4, <1>5, <1>6, <2>1, <2>2, <2>3, PartCopied
  <2>5. Holds(JZ_KERNEL_ADDR, img.kernel, "kernel")
    BY <1>1, <2>1 DEF PlaceInv, Placed
  <2>6. Arrives(JZ_KERNEL_ADDR, img.kernel, "kernel")
    <3>1. JZ_KERNEL_ADDR \in Nat /\ JZ_KERNEL_ADDR + img.kernel <= FbStart
      BY <1>3, <1>4, Map
    <3> QED
      BY <1>3, <1>4, <2>2, <2>4, <2>5, <3>1, HoldsStays
  <2>7. Placed'
    BY <1>1, <1>2, <2>1, <2>4, <2>6 DEF Placed, Holds, Arrives
  <2> QED
    BY <1>7, <2>1, <2>4, <2>7 DEF PartsInPlace, V2Pcs
<1>10. CASE JzParam
  <2>1. /\ mem' = Filled(ParamBase(img), ParamSize, "param")
        /\ pc = "jz_param" /\ pc' = "kernel"
    BY <1>3, <1>10 DEF JzParam
  <2>2. /\ KernelAddr <= JZ_KERNEL_ADDR /\ KernelAddr <= JzRamdisk(img)
        /\ KernelAddr <= ParamBase(img) /\ ParamSize \in Nat
        /\ JZ_KERNEL_ADDR \in Nat /\ JZ_KERNEL_ADDR + img.kernel <= FbStart
        /\ JZ_KERNEL_ADDR + img.kernel <= ParamBase(img)
    BY <1>3, <1>4, Map
  <2>3. /\ Arrives(ParamBase(img), ParamSize, "param")
        /\ RestStays(ParamBase(img), ParamSize)
    BY <1>3, <2>1, <2>2, FillGives
  <2>4. /\ Holds(JZ_KERNEL_ADDR, img.kernel, "kernel")
        /\ Holds(JzRamdisk(img), img.ramdisk, "ramdisk")
    BY <1>1, <2>1 DEF PlaceInv, Placed
  <2>5. Arrives(JZ_KERNEL_ADDR, img.kernel, "kernel")
    BY <1>3, <1>4, <2>2, <2>3, <2>4, HoldsStays
  <2>6. ASSUME img.ramdisk <= img.kernel
        PROVE  Arrives(JzRamdisk(img), img.ramdisk, "ramdisk")
    <3>1. JzRamdisk(img) + img.ramdisk <= ParamBase(img)
      BY <1>3, <1>4, <2>6
    <3> QED
      BY <1>3, <1>4, <2>2, <2>3, <2>4, <3>1, HoldsStays
  <2>7. PartsInPlace'
    BY <1>1, <1>2, <2>1, <2>3, <2>5, <2>6 DEF PartsInPlace, Holds, Arrives
  <2> QED
    BY <2>1, <2>7 DEF Placed, ImageThere, CopyPcs, JzPcs, V2Pcs
<1> QED
  BY <1>8, <1>9, <1>10

LEMMA NextV2Copy ==
    ASSUME LoadInv, PlaceInv, ~fault,
           V2CopyKernel \/ V2CopyRamdisk \/ V2CopyDtb
    PROVE  Placed' /\ PartsInPlace' /\ ImageThere'
<1>1. /\ img' = img /\ bootimg' = bootimg /\ command' = command
      /\ fault' = fault /\ pc \in V2Pcs /\ pc \in CopyPcs /\ pc' \in V2Pcs
  BY DEF V2CopyKernel, V2CopyRamdisk, V2CopyDtb, V2Pcs, CopyPcs
<1>2. V2Ramdisk(img)' = V2Ramdisk(img) /\ V2Dtb(img)' = V2Dtb(img)
  BY <1>1, SamePlaces
<1>3. /\ hdr = img /\ img \in Images
      /\ KernelAddr + img.kernel <= V2Ramdisk(img)
      /\ V2Ramdisk(img) + img.ramdisk <= V2Dtb(img)
      /\ V2Dtb(img) + img.dtb + FdtSlack <= FbStart
      /\ V2Ramdisk(img) \in Nat /\ V2Dtb(img) \in Nat
  BY <1>1, Places
<1>4. /\ img.kernel \in Nat /\ img.ramdisk \in Nat /\ img.dtb \in Nat
      /\ KernelAddr \in Nat /\ FbStart \in Nat /\ FdtSlack \in Nat
  BY <1>3, Sizes, Map
<1>5. /\ Extent = ImageBytes(img)
      /\ img.page + img.kernel <= Extent /\ img.page \in Nat
      /\ RamdiskOffs(img) + img.ramdisk <= Extent /\ RamdiskOffs(img) \in Nat
      /\ DtbOffs(img) \in Nat
      /\ img.version = 2 => DtbOffs(img) + img.dtb <= Extent
  <2>1. Extent = ImageBytes(img)
    BY <1>1 DEF Extent
  <2> QED
    BY <1>3, <1>4, <2>1, ExtentCovers
<1>6. ImageThere
  BY DEF PlaceInv
<1>7. ASSUME AboveStays
      PROVE  ImageThere' /\ PartsInPlace'
  <2>1. ImageThere'
    BY <1>1, <1>6, <1>7, ImageStays
  <2> QED
    BY <1>1, <2>1 DEF PartsInPlace, V2Pcs
<1>8. CASE V2CopyKernel
  <2>1. /\ mem' = Copied(KernelAddr, bootimg + img.page, img.kernel)
        /\ pc' = "v2_ramdisk"
    BY <1>3, <1>8 DEF V2CopyKernel
  <2>2. KernelAddr <= KernelAddr /\ KernelAddr + img.kernel <= FbStart
    BY <1>3, <1>4
  <2>3. Gives(img.page, img.kernel, "kernel")
    BY <1>3, PartBytes DEF Gives
  <2>4. /\ Arrives(KernelAddr, img.kernel, "kernel")
        /\ AboveStays
    BY <1>1, <1>4, <1>5, <1>6, <2>1, <2>2, <2>3, PartCopied
  <2>5. Placed'
    BY <1>1, <2>1, <2>4 DEF Placed, Holds, Arrives
  <2> QED
    BY <1>7, <2>4, <2>5
<1>9. CASE V2CopyRamdisk
  <2>1. /\ mem' = Copied(V2Ramdisk(img), bootimg + RamdiskOffs(img),
                         img.ramdisk)
        /\ pc = "v2_ramdisk" /\ pc' = "v2_dtb"
    BY <1>3, <1>9 DEF V2CopyRamdisk
  <2>2. /\ KernelAddr <= V2Ramdisk(img)
        /\ V2Ramdisk(img) + img.ramdisk <= FbStart
        /\ KernelAddr + img.kernel <= FbStart
    BY <1>3, <1>4
  <2>3. Gives(RamdiskOffs(img), img.ramdisk, "ramdisk")
    BY <1>3, PartBytes DEF Gives
  <2>4. /\ Arrives(V2Ramdisk(img), img.ramdisk, "ramdisk")
        /\ RestStays(V2Ramdisk(img), img.ramdisk)
        /\ AboveStays
    BY <1>1, <1>3, <1>4, <1>5, <1>6, <2>1, <2>2, <2>3, PartCopied
  <2>5. Holds(KernelAddr, img.kernel, "kernel")
    BY <1>1, <2>1 DEF PlaceInv, Placed
  <2>6. Arrives(KernelAddr, img.kernel, "kernel")
    BY <1>3, <1>4, <2>2, <2>4, <2>5, HoldsStays
  <2>7. Placed'
    BY <1>1, <1>2, <2>1, <2>4, <2>6 DEF Placed, Holds, Arrives
  <2> QED
    BY <1>7, <2>4, <2>7
<1>10. CASE V2CopyDtb
  <2>1. /\ mem' = Copied(V2Dtb(img), bootimg + DtbOffs(img), img.dtb)
        /\ pc = "v2_dtb" /\ pc' = "v2_fdt"
    BY <1>3, <1>10 DEF V2CopyDtb
  <2>2. /\ KernelAddr <= V2Ramdisk(img) /\ KernelAddr <= V2Dtb(img)
        /\ V2Dtb(img) + img.dtb <= FbStart
        /\ V2Ramdisk(img) + img.ramdisk <= FbStart
        /\ KernelAddr + img.kernel <= FbStart
        /\ KernelAddr + img.kernel <= V2Dtb(img)
    BY <1>3, <1>4
  <2>3. /\ RestStays(V2Dtb(img), img.dtb)
        /\ AboveStays
    <3>1. bootimg + DtbOffs(img) \in Nat
          /\ V2Dtb(img) + img.dtb <= bootimg + DtbOffs(img)
      <4>1. FbStart <= bootimg /\ bootimg \in Nat
        BY <1>1, <1>6 DEF ImageThere, LoadInv, TypeOK
      <4> QED
        BY <1>3, <1>4, <1>5, <2>2, <4>1
    <3>2. RestStays(V2Dtb(img), img.dtb)
      BY <1>3, <1>4, <2>1, <3>1, CopyKeeps
    <3>3. \A a \in Addr : a >= FbStart => a >= V2Dtb(img) + img.dtb
      BY <1>3, <1>4, <2>2, Map DEF Addr
    <3> QED
      BY <3>2, <3>3 DEF RestStays, AboveStays
  <2>4. ASSUME img.version = 2
        PROVE  Arrives(V2Dtb(img), img.dtb, "dtb")
    <3>1. Gives(DtbOffs(img), img.dtb, "dtb")
      BY <1>3, <2>4, PartBytes DEF Gives
    <3>2. DtbOffs(img) + img.dtb <= Extent
      BY <1>5, <2>4
    <3> QED
      BY <1>1, <1>3, <1>4, <1>5, <1>6, <2>1, <2>2, <3>1, <3>2, PartCopied
  <2>5. /\ Holds(KernelAddr, img.kernel, "kernel")
        /\ Holds(V2Ramdisk(img), img.ramdisk, "ramdisk")
    BY <1>1, <2>1 DEF PlaceInv, Placed
  <2>6. Arrives(KernelAddr, img.kernel, "kernel")
    BY <1>3, <1>4, <2>2, <2>3, <2>5, HoldsStays
  <2>7. Arrives(V2Ramdisk(img), img.ramdisk, "ramdisk")
    BY <1>3, <1>4, <2>2, <2>3, <2>5, HoldsStays
  <2>8. Placed'
    BY <1>1, <1>2, <2>1, <2>4, <2>6, <2>7 DEF Placed, Holds, Arrives
  <2> QED
    BY <1>7, <2>3, <2>8
<1> QED
  BY <1>8, <1>9, <1>10

LEMMA NextV2Fdt ==
    ASSUME LoadInv, PlaceInv, ~fault, V2Fdt
    PROVE  PartsInPlace'
<1>1. /\ img' = img /\ command' = command /\ pc' = "kernel" /\ pc = "v2_fdt"
      /\ pc \in CopyPcs /\ pc \in V2Pcs /\ command = "boot_recovery"
  BY DEF PlaceInv, Path, V2Fdt, V2Pcs, CopyPcs
<1> SUFFICES ASSUME img.version = 2 PROVE PartsInPlace'
  BY <1>1 DEF PartsInPlace
<1>2. V2Ramdisk(img)' = V2Ramdisk(img) /\ V2Dtb(img)' = V2Dtb(img)
  BY <1>1, SamePlaces
<1>3. /\ hdr = img /\ img \in Images
      /\ KernelAddr + img.kernel <= V2Ramdisk(img)
      /\ V2Ramdisk(img) + img.ramdisk <= V2Dtb(img)
      /\ V2Dtb(img) + img.dtb + FdtSlack <= FbStart
      /\ V2Ramdisk(img) \in Nat /\ V2Dtb(img) \in Nat
  BY <1>1, Places
<1>4. /\ img.kernel \in Nat /\ img.ramdisk \in Nat /\ img.dtb \in Nat
      /\ KernelAddr \in Nat /\ FbStart \in Nat /\ FdtSlack \in Nat
      /\ img.dtb + FdtSlack \in Nat
  BY <1>3, Sizes, Map
<1>5. /\ Holds(KernelAddr, img.kernel, "kernel")
      /\ Holds(V2Ramdisk(img), img.ramdisk, "ramdisk")
      /\ Holds(V2Dtb(img), img.dtb, "dtb")
  BY <1>1 DEF PlaceInv, Placed
<1>6. DtbCopied
  <2>1. img.dtb > 0
    BY <1>3, ImageAssumption
  <2>2. \A k \in 0 .. img.dtb - 1 : Seen(V2Dtb(img) + k) = mem[V2Dtb(img) + k]
    BY <1>3, <1>4, Map DEF Seen, Addr
  <2> QED
    BY <1>3, <1>5, <2>1, <2>2 DEF DtbCopied, Holds
<1>7. /\ mem' = Filled(V2Dtb(img), img.dtb + FdtSlack, "fdt")
      /\ fdt'.ok /\ fdt'.start = V2Ramdisk(img)
      /\ fdt'.end = V2Ramdisk(img) + img.ramdisk
  BY <1>3, <1>6 DEF V2Fdt
<1>8. /\ KernelAddr <= V2Ramdisk(img) /\ KernelAddr <= V2Dtb(img)
      /\ V2Dtb(img) + (img.dtb + FdtSlack) <= FbStart
      /\ V2Ramdisk(img) + img.ramdisk <= FbStart
      /\ KernelAddr + img.kernel <= FbStart
      /\ KernelAddr + img.kernel <= V2Dtb(img)
  BY <1>3, <1>4
<1>9. /\ Arrives(V2Dtb(img), img.dtb + FdtSlack, "fdt")
      /\ RestStays(V2Dtb(img), img.dtb + FdtSlack)
  BY <1>3, <1>4, <1>7, <1>8, FillGives
<1>10. Arrives(KernelAddr, img.kernel, "kernel")
  BY SMTT(60), <1>3, <1>4, <1>5, <1>8, <1>9, HoldsStays
<1>11. Arrives(V2Ramdisk(img), img.ramdisk, "ramdisk")
  BY <1>3, <1>4, <1>5, <1>8, <1>9, HoldsStays
<1>12. fdt'.end - fdt'.start = img.ramdisk
  BY <1>3, <1>4, <1>7
<1> QED
  BY <1>1, <1>2, <1>7, <1>9, <1>10, <1>11, <1>12 DEF PartsInPlace, Holds, Arrives

LEMMA InitPlace == Init => PlaceInv
  BY DEF Init, PlaceInv, Path, ImageThere, Placed, PartsInPlace, CopyPcs, JzPcs,
         V2Pcs

\* Steps before the first copy, and none.
LEMMA NextBefore ==
    ASSUME LoadInv, PlaceInv,
           \/ EarlyLcdc \/ EmbedBoot \/ ReadHeader \/ BadMagic \/ AllocImage
           \/ AllocFails \/ \E n \in 0 .. ImageBytes(hdr) : ReadImage(n)
    PROVE  Placed' /\ PartsInPlace' /\ ImageThere'
<1>1. CASE EarlyLcdc \/ ReadHeader \/ BadMagic \/ AllocImage \/ AllocFails
  <2>1. pc' \in {"menu", "header", "image", "crash"}
    BY <1>1 DEF EarlyLcdc, ReadHeader, BadMagic, AllocImage, AllocFails
  <2> QED
    BY <2>1 DEF Placed, PartsInPlace, ImageThere, CopyPcs, JzPcs, V2Pcs
<1>2. CASE EmbedBoot \/ \E n \in 0 .. ImageBytes(hdr) : ReadImage(n)
  <2>1. pc' \in {"jz_kernel", "v2_kernel"}
    BY <1>2 DEF EmbedBoot, ReadImage, FirstCopy
  <2>2. Placed' /\ PartsInPlace'
    BY <2>1 DEF Placed, PartsInPlace
  <2>3. pc' \in CopyPcs
    BY <2>1 DEF CopyPcs, JzPcs, V2Pcs
  <2>4. fault' => ImageThere'
    BY DEF ImageThere
  <2> QED
    BY <1>2, <2>2, <2>3, <2>4, ImageComes
<1> QED
  BY <1>1, <1>2

LEMMA NextStutter ==
    ASSUME LoadInv, PlaceInv, UNCHANGED vars
    PROVE  Placed' /\ PartsInPlace' /\ ImageThere'
<1>1. /\ pc' = pc /\ command' = command /\ img' = img /\ bootimg' = bootimg
      /\ mem' = mem /\ fdt' = fdt /\ fault' = fault
  BY DEF vars, loader
<1>2. /\ JzRamdisk(img)' = JzRamdisk(img) /\ ParamBase(img)' = ParamBase(img)
      /\ V2Ramdisk(img)' = V2Ramdisk(img) /\ V2Dtb(img)' = V2Dtb(img)
  BY <1>1, SamePlaces
<1>3. Placed'
  BY <1>1, <1>2 DEF PlaceInv, Placed, Holds
<1>4. PartsInPlace'
  BY <1>1, <1>2 DEF PlaceInv, PartsInPlace, Holds
<1>5. ImageThere'
  <2>1. CASE pc \in CopyPcs /\ ~fault
    BY <1>1, <2>1, ImageStays DEF PlaceInv, AboveStays
  <2>2. CASE ~(pc \in CopyPcs /\ ~fault)
    BY <1>1, <2>2 DEF ImageThere
  <2> QED
    BY <2>1, <2>2
<1> QED
  BY <1>3, <1>4, <1>5

LEMMA NextPlace == LoadInv /\ PlaceInv /\ [Next]_vars => PlaceInv'
<1> SUFFICES ASSUME LoadInv, PlaceInv, [Next]_vars PROVE PlaceInv'
  OBVIOUS
<1>1. Path'
  BY NextPath DEF PlaceInv
<1>2. CASE UNCHANGED vars
  BY <1>1, <1>2, NextStutter DEF PlaceInv
<1>3. CASE \/ EarlyLcdc \/ EmbedBoot \/ ReadHeader \/ BadMagic \/ AllocImage
           \/ AllocFails \/ \E n \in 0 .. ImageBytes(hdr) : ReadImage(n)
  BY <1>1, <1>3, NextBefore DEF PlaceInv
<1>4. CASE \/ JzCopyKernel \/ JzCopyRamdisk \/ JzParam
           \/ V2CopyKernel \/ V2CopyRamdisk \/ V2CopyDtb \/ V2Fdt
  <2>1. fault' = fault
    BY <1>4 DEF JzCopyKernel, JzCopyRamdisk, JzParam, V2CopyKernel,
                V2CopyRamdisk, V2CopyDtb, V2Fdt
  <2>2. CASE fault
    BY <1>1, <2>1, <2>2 DEF PlaceInv, Placed, PartsInPlace, ImageThere
  <2>3. CASE ~fault /\ V2Fdt
    <3>1. pc' = "kernel"
      BY <2>3 DEF V2Fdt
    <3>2. Placed' /\ ImageThere'
      BY <3>1 DEF Placed, ImageThere, CopyPcs, JzPcs, V2Pcs
    <3> QED
      BY <1>1, <2>3, <3>2, NextV2Fdt DEF PlaceInv
  <2> QED
    BY <1>1, <1>4, <2>2, <2>3, NextJz, NextV2Copy DEF PlaceInv
<1> QED
  BY <1>2, <1>3, <1>4 DEF Next

\* The inductive invariant of the copies: the image stays whole above the
\* places, and what has been copied stays where it was put
\* (boot.c:19-62, 110-182).
THEOREM PlaceInvariance == Spec => []PlaceInv
<1>1. (LoadInv /\ LoadInv') /\ PlaceInv /\ [Next]_vars => PlaceInv'
  BY NextPlace
<1> QED
  BY InitPlace, LoadInvariance, <1>1, PTL DEF Spec

\* The kernel finds kernel, ramdisk and the block that names them in their
\* places, for every image and memory map (boot.c:32-61, 139-181).
THEOREM PartsArrive == Spec => []PartsInPlace
<1>1. PlaceInv => PartsInPlace
  BY DEF PlaceInv
<1> QED
  BY PlaceInvariance, <1>1, PTL

\* No copy reaches the header that later sizes are taken from
\* (boot.c:26-44, 132-176).
THEOREM HeaderStays == Spec => []HeaderKept
<1>1. LoadInv /\ PlaceInv => HeaderKept
  <2> SUFFICES ASSUME LoadInv, PlaceInv, pc \in CopyPcs, ~fault
               PROVE  Holds(bootimg, HeaderSize, "header")
    BY DEF HeaderKept, CopyPcs, JzPcs, V2Pcs
  <2>1. img \in Images /\ \A k \in 0 .. Extent - 1 : mem[bootimg + k] = Byte(img, k)
    BY DEF PlaceInv, ImageThere, LoadInv, TypeOK
  <2>2. HeaderSize <= Extent /\ Extent \in Nat /\ HeaderSize \in Nat
    BY <2>1, ExtentCovers, Sizes DEF Extent
  <2>3. \A k \in 0 .. HeaderSize - 1 : k \in 0 .. Extent - 1
    BY <2>2
  <2>4. \A k \in 0 .. HeaderSize - 1 : Byte(img, k) = <<"header", k>>
    BY <2>1, HeaderByte
  <2> QED
    BY <2>1, <2>3, <2>4 DEF Holds
<1> QED
  BY LoadInvariance, PlaceInvariance, <1>1, PTL

-----------------------------------------------------------------------------
(***************************************************************************)
(* The file that mkbootimg writes is the image that the loader reads, for  *)
(* every command line the scripts take, every image and every unit: its    *)
(* header's fields are where the loader looks for them and tell what       *)
(* follows, and no text in it is cut off; the vendor image's table names   *)
(* its ramdisks; and however often the file is certified, alone or in an   *)
(* archive, it is that file with one set of certificates.  The invariants  *)
(* are what the file, and each image of the archive, holds after each      *)
(* step, a function of the command line; the rest says where in that file  *)
(* the pieces of each name are.                                            *)
(***************************************************************************)

(* The loader in the composition. *)

\* Writer and loader together do to the loader's state what the loader does
\* alone: all that is proved of the loader is true of it after any writing
\* (boot.c:113-307).
THEOREM LoaderUnchanged == FlashSpec => Spec
<1>1. FlashInit => Init
  BY DEF FlashInit
<1>2. [FlashNext]_<<vars, wvars>> => [Next]_vars
  <2>1. ASSUME FlashNext PROVE [Next]_vars
    BY <2>1 DEF FlashNext
  <2>2. ASSUME UNCHANGED <<vars, wvars>> PROVE [Next]_vars
    BY <2>2
  <2> QED
    BY <2>1, <2>2
<1> QED
  BY <1>1, <1>2, PTL DEF FlashSpec, Spec

-----------------------------------------------------------------------------
(* Command lines. *)

\* What a command line is made of.
LEMMA ArgTypes ==
    ASSUME NEW a \in CommandLines
    PROVE  /\ a.version \in Nat /\ a.page \in PageSizes
           /\ a.kernel \in FileArgs /\ a.ramdisk \in FileArgs
           /\ a.second \in FileArgs /\ a.recovery_dtbo \in FileArgs
           /\ a.dtb \in FileArgs /\ a.cmdline \in Nat
           /\ a.vendor_cmdline \in Nat /\ a.board \in Nat
           /\ a.os_version \in OsVersions /\ a.os_patch_level \in PatchLevels
           /\ a.vendor_ramdisk \in FileArgs /\ a.fragments \in Fragments
           /\ a.vendor_bootconfig \in FileArgs /\ a.partition \in Nat
           /\ a.info \in InfoFiles /\ a.extra_args \in Nat
BY DEF CommandLines

\* Every page is one.
LEMMA PageArg ==
    ASSUME NEW a \in CommandLines
    PROVE  a.page \in Nat \ {0} /\ a.page >= 2048
BY ArgTypes DEF PageSizes

-----------------------------------------------------------------------------
(* Files: pieces one behind the other. *)

IsSeq(s) == \E T : s \in Seq(T)

\* A sequence has a length.
LEMMA SeqParts ==
    ASSUME NEW s, IsSeq(s)
    PROVE  Len(s) \in Nat /\ DOMAIN s = 1 .. Len(s)
  BY LenProperties DEF IsSeq

\* A sequence behind another.
LEMMA SeqJoin ==
    ASSUME NEW s, NEW t, IsSeq(s), IsSeq(t)
    PROVE  /\ IsSeq(s \o t) /\ Len(s \o t) = Len(s) + Len(t)
           /\ \A n \in 1 .. Len(s) : (s \o t)[n] = s[n]
           /\ \A n \in 1 .. Len(t) : (s \o t)[Len(s) + n] = t[n]
<1>1. PICK A, B : s \in Seq(A) /\ t \in Seq(B)
  BY DEF IsSeq
<1>2. s \in Seq(A \cup B) /\ t \in Seq(A \cup B)
  BY <1>1, SeqMonotonic
<1>3. /\ s \o t \in Seq(A \cup B) /\ Len(s \o t) = Len(s) + Len(t)
      /\ \A i \in 1 .. Len(s) + Len(t) :
            (s \o t)[i] = IF i <= Len(s) THEN s[i] ELSE t[i - Len(s)]
  BY <1>2, ConcatProperties
<1>4. Len(s) \in Nat /\ Len(t) \in Nat
  BY SeqParts
<1>5. \A n \in 1 .. Len(s) : (s \o t)[n] = s[n]
  BY <1>3, <1>4
<1>6. ASSUME NEW n \in 1 .. Len(t) PROVE (s \o t)[Len(s) + n] = t[n]
  <2>1. Len(s) + n \in 1 .. Len(s) + Len(t) /\ ~(Len(s) + n <= Len(s)) /\ Len(s) + n - Len(s) = n
    BY <1>4
  <2> QED
    BY <1>3, <2>1
<1>7. IsSeq(s \o t)
  BY <1>3 DEF IsSeq
<1> QED
  BY <1>3, <1>5, <1>6, <1>7

\* Where fields are that are written from t on, and the pieces they make.
FieldsAt(at, t, s) ==
    at = [n \in 1 .. Len(s) + 1 |-> IF n = 1 THEN t
                                     ELSE at[n - 1] + s[n - 1].size]
PiecesAt(s, at) ==
    [n \in 1 .. Len(s) |-> [name |-> s[n].name, at |-> at[n],
                             size |-> s[n].size, val |-> s[n].val]]

\* Put appends pieces, each where the last one ends.
LEMMA PutPlaces ==
    ASSUME NEW f, NEW fields, Len(fields) \in Nat
    PROVE  \E at : /\ FieldsAt(at, Tell(f), fields)
                   /\ Put(f, fields) = f \o PiecesAt(fields, at)
<1> DEFINE Upto_(h, k) ==
             h = [n \in 1 .. k + 1 |-> IF n = 1 THEN Tell(f)
                                       ELSE h[n - 1] + fields[n - 1].size]
           P == {k \in Nat : \E h : Upto_(h, k)}
<1>1. 0 \in P
  <2>1. Upto_([n \in 1 .. 1 |-> Tell(f)], 0)
    OBVIOUS
  <2> QED
    BY <2>1
<1>2. ASSUME NEW k \in Nat, k \in P PROVE k + 1 \in P
  <2>1. PICK h : Upto_(h, k)
    BY <1>2
  <2> DEFINE g == [n \in 1 .. k + 2 |-> IF n = 1 THEN Tell(f)
                                        ELSE h[n - 1] + fields[n - 1].size]
  <2>2. ASSUME NEW n \in 1 .. k + 1 PROVE g[n] = h[n]
    BY <2>1
  <2>3. ASSUME NEW n \in 1 .. k + 2
        PROVE  g[n] = IF n = 1 THEN Tell(f) ELSE g[n - 1] + fields[n - 1].size
    <3>1. CASE n = 1
      BY <3>1
    <3>2. CASE n # 1
      <4>1. n - 1 \in 1 .. k + 1
        BY <3>2
      <4> QED
        BY <2>2, <3>2, <4>1
    <3> QED
      BY <3>1, <3>2
  <2>4. g = [n \in 1 .. (k + 1) + 1 |-> IF n = 1 THEN Tell(f)
                                ELSE g[n - 1] + fields[n - 1].size]
    <3>1. (k + 1) + 1 = k + 2
      OBVIOUS
    <3>2. DOMAIN g = 1 .. k + 2 /\ g = [n \in 1 .. k + 2 |-> g[n]]
      OBVIOUS
    <3> HIDE DEF g
    <3> QED
      BY <2>3, <3>1, <3>2
  <2> HIDE DEF g
  <2>5. Upto_(g, k + 1)
    BY <2>4
  <2> QED
    BY <2>5
<1>3. Nat \subseteq P
  <2> HIDE DEF P
  <2> QED
    BY <1>1, <1>2, SetInduction
<1>4. \E at : Upto_(at, Len(fields))
  BY <1>3
<1> QED
  BY <1>4 DEF Put, FieldsAt, PiecesAt

IsFile(f) ==
    /\ IsSeq(f)
    /\ \A n \in 1 .. Len(f) :
          /\ f[n].at \in Nat /\ f[n].size \in Nat
          /\ f[n].at = IF n = 1 THEN 0 ELSE f[n - 1].at + f[n - 1].size

IsFields(s) == IsSeq(s) /\ \A n \in 1 .. Len(s) : s[n].size \in Nat

\* A file begins empty.
LEMMA EmptyFile == IsFile(<<>>) /\ Tell(<<>>) = 0 /\ Len(<<>>) = 0
<1>1. <<>> \in Seq({})
  OBVIOUS
<1> QED
  BY <1>1 DEF IsFile, IsSeq, Tell

\* A file ends where its last piece does.
LEMMA FileEnd ==
    ASSUME NEW f, IsFile(f)
    PROVE  /\ Len(f) \in Nat /\ Tell(f) \in Nat
           /\ Tell(f) = IF Len(f) = 0 THEN 0 ELSE f[Len(f)].at + f[Len(f)].size
<1>1. Len(f) \in Nat /\ (Len(f) = 0 <=> f = <<>>)
  BY SeqParts, EmptySeq DEF IsFile, IsSeq
<1>2. CASE Len(f) = 0
  BY <1>1, <1>2 DEF Tell
<1>3. CASE Len(f) # 0
  <2>1. Len(f) \in 1 .. Len(f)
    BY <1>1, <1>3
  <2>2. f[Len(f)].at \in Nat /\ f[Len(f)].size \in Nat
    BY <2>1 DEF IsFile
  <2>3. Tell(f) = f[Len(f)].at + f[Len(f)].size
    BY <1>1, <1>3 DEF Tell
  <2> QED
    BY <1>1, <1>3, <2>2, <2>3
<1> QED
  BY <1>2, <1>3

\* Places are places.
LEMMA PlacesNat ==
    ASSUME NEW s, IsFields(s), NEW t \in Nat, NEW at, FieldsAt(at, t, s)
    PROVE  \A n \in 1 .. Len(s) + 1 : at[n] \in Nat
<1> DEFINE P == {k \in Nat : k <= Len(s) => at[k + 1] \in Nat}
<1>0. Len(s) \in Nat
  BY SeqParts DEF IsFields
<1>n. \A n \in 1 .. Len(s) + 1 : at[n] = IF n = 1 THEN t
                                         ELSE at[n - 1] + s[n - 1].size
  BY DEF FieldsAt
<1>1. 0 \in P
  <2>1. 1 \in 1 .. Len(s) + 1
    BY <1>0
  <2> QED
    BY <1>n, <2>1
<1>2. ASSUME NEW k \in Nat, k \in P PROVE k + 1 \in P
  <2> SUFFICES ASSUME k + 1 <= Len(s) PROVE at[k + 2] \in Nat
    OBVIOUS
  <2>1. at[k + 1] \in Nat
    BY <1>0, <1>2
  <2>2. s[k + 1].size \in Nat
    BY <1>0 DEF IsFields
  <2>3. k + 2 \in 1 .. Len(s) + 1 /\ k + 2 # 1 /\ (k + 2) - 1 = k + 1
    BY <1>0
  <2>4. at[k + 2] = at[k + 1] + s[k + 1].size
    BY <1>n, <2>3
  <2> QED
    BY <2>1, <2>2, <2>4
<1>3. Nat \subseteq P
  <2> HIDE DEF P
  <2> QED
    BY <1>1, <1>2, SetInduction
<1>4. ASSUME NEW n \in 1 .. Len(s) + 1 PROVE at[n] \in Nat
  <2>1. n - 1 \in Nat /\ n - 1 <= Len(s) /\ (n - 1) + 1 = n
    BY <1>0
  <2>2. n - 1 \in P
    BY <1>3, <2>1
  <2> QED
    BY <2>1, <2>2
<1> QED
  BY <1>4

\* What Put makes of a file.
LEMMA PutFile ==
    ASSUME NEW f, IsFile(f), NEW s, IsFields(s), NEW g, g = Put(f, s)
    PROVE  /\ IsFile(g) /\ Len(g) = Len(f) + Len(s)
           /\ \A n \in 1 .. Len(f) : g[n] = f[n]
           /\ \A n \in 1 .. Len(s) :
                 /\ g[Len(f) + n].name = s[n].name
                 /\ g[Len(f) + n].size = s[n].size
                 /\ g[Len(f) + n].val = s[n].val
                 /\ g[Len(f) + n] =
                      [name |-> s[n].name, at |-> g[Len(f) + n].at,
                       size |-> s[n].size, val |-> s[n].val]
           /\ Len(s) > 0 => g[Len(f) + 1].at = Tell(f)
           /\ Len(s) = 0 => g = f
<1>0. /\ Len(f) \in Nat /\ Len(s) \in Nat /\ Tell(f) \in Nat
      /\ IsSeq(f) /\ IsSeq(s)
  BY SeqParts, FileEnd DEF IsFields, IsFile
<1>1. PICK at : FieldsAt(at, Tell(f), s) /\ Put(f, s) = f \o PiecesAt(s, at)
  BY <1>0, PutPlaces
<1>2. \A n \in 1 .. Len(s) + 1 : at[n] \in Nat
  BY <1>0, <1>1, PlacesNat
<1>n. \A n \in 1 .. Len(s) + 1 : at[n] = IF n = 1 THEN Tell(f)
                                         ELSE at[n - 1] + s[n - 1].size
  BY <1>1 DEF FieldsAt
<1> DEFINE E(n) == [name |-> s[n].name, at |-> at[n],
                    size |-> s[n].size, val |-> s[n].val]
           t == [n \in 1 .. Len(s) |-> E(n)]
<1>3. t \in Seq({E(n) : n \in 1 .. Len(s)}) /\ Len(t) = Len(s)
  BY <1>0
<1>4. \A n \in 1 .. Len(s) : t[n] = E(n)
  OBVIOUS
<1>5. IsSeq(t)
  <2> HIDE DEF t, E
  <2> QED
    BY <1>3 DEF IsSeq
<1>6. Put(f, s) = f \o t
  BY <1>1 DEF PiecesAt
<1>7. \A n \in 1 .. Len(s) : /\ t[n].name = s[n].name /\ t[n].size = s[n].size
                             /\ t[n].val = s[n].val /\ t[n].at = at[n]
                             /\ t[n] = [name |-> s[n].name, at |-> t[n].at,
                                        size |-> s[n].size, val |-> s[n].val]
  BY <1>4
<1> HIDE DEF t, E
<1>8. /\ IsSeq(g) /\ Len(g) = Len(f) + Len(s)
      /\ \A n \in 1 .. Len(f) : g[n] = f[n]
      /\ \A n \in 1 .. Len(s) : g[Len(f) + n] = t[n]
  <2>0. IsSeq(f) /\ IsSeq(t)
    BY <1>0, <1>5
  <2>1. /\ IsSeq(f \o t) /\ Len(f \o t) = Len(f) + Len(t)
        /\ \A n \in 1 .. Len(f) : (f \o t)[n] = f[n]
        /\ \A n \in 1 .. Len(t) : (f \o t)[Len(f) + n] = t[n]
    BY <2>0, SeqJoin
  <2>2. Len(t) = Len(s) /\ g = f \o t
    BY <1>3, <1>6
  <2> QED
    BY <2>1, <2>2
<1>9. Len(s) > 0 => g[Len(f) + 1].at = Tell(f)
  <2> SUFFICES ASSUME Len(s) > 0 PROVE g[Len(f) + 1].at = Tell(f)
    OBVIOUS
  <2>1. 1 \in 1 .. Len(s) /\ 1 \in 1 .. Len(s) + 1
    BY <1>0
  <2> QED
    BY ZenonT(60), <1>7, <1>8, <1>n, <2>1
<1>10. ASSUME NEW n \in 1 .. Len(g)
       PROVE  /\ g[n].at \in Nat /\ g[n].size \in Nat
              /\ g[n].at = IF n = 1 THEN 0 ELSE g[n - 1].at + g[n - 1].size
  <2>1. CASE n <= Len(f)
    <3>1. n \in 1 .. Len(f) /\ (n = 1 \/ n - 1 \in 1 .. Len(f))
      BY <1>0, <1>8, <2>1
    <3>2. g[n] = f[n] /\ (n = 1 \/ g[n - 1] = f[n - 1])
      BY <1>8, <3>1
    <3> QED
      BY <3>1, <3>2 DEF IsFile
  <2>2. CASE n > Len(f)
    <3>1. PICK m \in Nat : m = n - Len(f)
      BY <1>0, <2>2
    <3>2. m \in 1 .. Len(s) /\ n = Len(f) + m /\ m \in 1 .. Len(s) + 1
      BY <1>0, <1>8, <2>2, <3>1
    <3>3. g[n].at = at[m] /\ g[n].size = s[m].size
      BY <1>7, <1>8, <3>2
    <3>4. g[n].at \in Nat /\ g[n].size \in Nat
      BY <1>2, <3>2, <3>3 DEF IsFields
    <3>5. CASE m = 1
      <4>1. g[n].at = Tell(f)
        BY <1>n, <3>2, <3>3, <3>5
      <4>2. CASE Len(f) = 0
        BY <3>2, <3>4, <3>5, <4>1, <4>2, FileEnd
      <4>3. CASE Len(f) # 0
        <5>1. Tell(f) = f[Len(f)].at + f[Len(f)].size
          BY <4>3, FileEnd
        <5>2. Len(f) \in 1 .. Len(f) /\ n - 1 = Len(f) /\ n # 1
          BY <1>0, <3>2, <3>5, <4>3
        <5>3. g[n - 1] = f[Len(f)]
          BY <1>8, <5>2
        <5> QED
          BY <3>4, <4>1, <5>1, <5>2, <5>3
      <4> QED
        BY <4>2, <4>3
    <3>6. CASE m # 1
      <4>1. m - 1 \in 1 .. Len(s) /\ n - 1 = Len(f) + (m - 1) /\ n # 1
        BY <1>0, <3>2, <3>6
      <4>2. g[n - 1].at = at[m - 1] /\ g[n - 1].size = s[m - 1].size
        <5>1. g[Len(f) + (m - 1)] = t[m - 1]
          BY <1>8, <4>1
        <5>2. t[m - 1].at = at[m - 1] /\ t[m - 1].size = s[m - 1].size
          BY <1>7, <4>1
        <5> QED
          BY <4>1, <5>1, <5>2
      <4>3. at[m] = at[m - 1] + s[m - 1].size
        BY <1>n, <3>2, <3>6
      <4> QED
        BY <3>3, <3>4, <4>1, <4>2, <4>3
    <3> QED
      BY <3>5, <3>6
  <2> QED
    BY <1>0, <1>8, <2>1, <2>2
<1>11. IsFile(g)
  BY <1>8, <1>10 DEF IsFile
<1>12. Len(s) = 0 => g = f
  <2> SUFFICES ASSUME Len(s) = 0 PROVE g = f
    OBVIOUS
  <2>1. t = <<>>
    BY <1>3
  <2>2. PICK T : f \in Seq(T)
    BY <1>0 DEF IsSeq
  <2> QED
    BY <1>6, <2>1, <2>2, ConcatEmptySeq
<1>13. \A n \in 1 .. Len(s) : /\ g[Len(f) + n].name = s[n].name
                              /\ g[Len(f) + n].size = s[n].size
                              /\ g[Len(f) + n].val = s[n].val
                              /\ g[Len(f) + n] =
                                   [name |-> s[n].name, at |-> g[Len(f) + n].at,
                                    size |-> s[n].size, val |-> s[n].val]
  BY <1>7, <1>8
<1> QED
  BY <1>8, <1>9, <1>11, <1>12, <1>13

-----------------------------------------------------------------------------
(* Pieces by their names. *)

\* f goes on as g.
Prefix(f, g) == Len(f) <= Len(g) /\ \A n \in 1 .. Len(f) : g[n] = f[n]

\* What goes on after f has one of these names.
NewNames(f, g, set) == \A n \in Len(f) + 1 .. Len(g) : g[n].name \in set

\* The first piece of its name is found by the name.
LEMMA PieceIs ==
    ASSUME NEW f, IsFile(f), NEW n \in 1 .. Len(f),
           \A m \in 1 .. n - 1 : f[m].name # f[n].name
    PROVE  /\ Has(f, f[n].name) /\ Piece(f, f[n].name) = f[n]
           /\ SizeOf(f, f[n].name) = f[n].size
<1> DEFINE name == f[n].name
           First_(k) == f[k].name = name /\ \A m \in 1 .. k - 1 : f[m].name # name
<1>1. Len(f) \in Nat /\ DOMAIN f = 1 .. Len(f)
  BY SeqParts DEF IsFile
<1>2. \A k \in DOMAIN f : First_(k) <=> k = n
  <2>1. ASSUME NEW k \in 1 .. Len(f), First_(k), k # n PROVE FALSE
    <3>1. CASE k < n
      <4>1. k \in 1 .. n - 1
        BY <1>1, <3>1
      <4> QED
        BY <2>1, <4>1
    <3>2. CASE n < k
      <4>1. n \in 1 .. k - 1
        BY <1>1, <3>2
      <4> QED
        BY <2>1, <4>1
    <3> QED
      BY <1>1, <2>1, <3>1, <3>2
  <2> QED
    BY <1>1, <2>1
<1>3. n = CHOOSE k \in DOMAIN f : First_(k)
  <2> HIDE DEF First_
  <2> QED
    BY <1>1, <1>2
<1>4. Piece(f, name) = f[n]
  BY <1>3 DEF Piece
<1>5. Has(f, name)
  BY <1>1 DEF Has
<1> QED
  BY <1>4, <1>5 DEF SizeOf

\* There is a first one.
LEMMA PieceOf ==
    ASSUME NEW f, IsFile(f), NEW name, Has(f, name)
    PROVE  \E n \in 1 .. Len(f) : /\ f[n].name = name /\ Piece(f, name) = f[n]
                                  /\ \A m \in 1 .. n - 1 : f[m].name # name
<1> DEFINE Named == {n \in 1 .. Len(f) : f[n].name = name}
<1>1. Len(f) \in Nat /\ DOMAIN f = 1 .. Len(f)
  BY SeqParts DEF IsFile
<1>2. Named \subseteq Nat /\ Named # {}
  BY <1>1 DEF Has
<1>3. PICK n \in Named : \A k \in Named : n <= k
  <2> HIDE DEF Named
  <2> QED
    BY <1>2, LeastNat
<1>4. ASSUME NEW m \in 1 .. n - 1 PROVE f[m].name # name
  <2>1. m \in 1 .. Len(f) /\ ~(n <= m)
    BY <1>1, <1>3
  <2> QED
    BY <1>3, <2>1
<1>5. n \in 1 .. Len(f) /\ f[n].name = name
  BY <1>3
<1>6. Piece(f, name) = f[n]
  <2>1. \A m \in 1 .. n - 1 : f[m].name # f[n].name
    BY <1>4, <1>5
  <2> QED
    BY <1>5, <2>1, PieceIs
<1> QED
  BY <1>4, <1>5, <1>6

\* What was found in a file is found in what it goes on to be.
LEMMA PieceKept ==
    ASSUME NEW f, NEW g, IsFile(f), IsFile(g), Prefix(f, g), NEW name
    PROVE  /\ Has(f, name) => /\ Has(g, name) /\ Piece(g, name) = Piece(f, name)
                              /\ SizeOf(g, name) = SizeOf(f, name)
           /\ ~Has(f, name) /\ (\A n \in Len(f) + 1 .. Len(g) : g[n].name # name)
                => ~Has(g, name) /\ SizeOf(g, name) = SizeOf(f, name)
<1>1. /\ Len(f) \in Nat /\ DOMAIN f = 1 .. Len(f)
      /\ Len(g) \in Nat /\ DOMAIN g = 1 .. Len(g)
  BY SeqParts DEF IsFile
<1>2. ASSUME Has(f, name)
      PROVE  /\ Has(g, name) /\ Piece(g, name) = Piece(f, name)
             /\ SizeOf(g, name) = SizeOf(f, name)
  <2>1. PICK n \in 1 .. Len(f) : /\ f[n].name = name /\ Piece(f, name) = f[n]
                                 /\ \A m \in 1 .. n - 1 : f[m].name # name
    BY <1>2, PieceOf
  <2>2. n \in 1 .. Len(g) /\ g[n] = f[n]
    BY <1>1 DEF Prefix
  <2>3. \A m \in 1 .. n - 1 : g[m].name # g[n].name
    <3>1. \A m \in 1 .. n - 1 : m \in 1 .. Len(f)
      BY <1>1
    <3>2. \A m \in 1 .. n - 1 : g[m] = f[m]
      BY <3>1 DEF Prefix
    <3> QED
      BY <2>1, <2>2, <3>2
  <2>4. Has(g, name) /\ Piece(g, name) = g[n]
    BY <2>1, <2>2, <2>3, PieceIs
  <2> QED
    BY <1>2, <2>1, <2>2, <2>4 DEF SizeOf
<1>3. ASSUME ~Has(f, name), \A n \in Len(f) + 1 .. Len(g) : g[n].name # name
      PROVE  ~Has(g, name)
  <2>1. ASSUME NEW n \in 1 .. Len(g) PROVE g[n].name # name
    <3>1. CASE n \in 1 .. Len(f)
      BY <1>1, <1>3, <3>1 DEF Has, Prefix
    <3>2. CASE n \in Len(f) + 1 .. Len(g)
      BY <1>3, <3>2
    <3> QED
      BY <1>1, <3>1, <3>2
  <2> QED
    BY <1>1, <2>1 DEF Has
<1> QED
  BY <1>2, <1>3 DEF SizeOf

-----------------------------------------------------------------------------
(* Padding and parts. *)

\* One piece is put behind the others.
LEMMA PutOne ==
    ASSUME NEW f, IsFile(f), NEW e, e.size \in Nat, NEW g, g = Put(f, <<e>>)
    PROVE  /\ IsFile(g) /\ Len(g) = Len(f) + 1 /\ Prefix(f, g)
           /\ g[Len(f) + 1] = [name |-> e.name, at |-> Tell(f),
                               size |-> e.size, val |-> e.val]
           /\ Tell(g) = Tell(f) + e.size
<1> DEFINE s == <<e>>
<1>1. Tell(f) \in Nat /\ Len(f) \in Nat
  BY FileEnd
<1>2. s \in Seq({e}) /\ Len(s) = 1 /\ s[1] = e
  OBVIOUS
<1>3. g = Put(f, s)
  OBVIOUS
<1> HIDE DEF s
<1>4. IsFields(s)
  <2>1. IsSeq(s)
    BY <1>2 DEF IsSeq
  <2>2. \A n \in 1 .. Len(s) : s[n] = e
    BY <1>2
  <2> QED
    BY <2>1, <2>2 DEF IsFields
<1>5. /\ IsFile(g) /\ Len(g) = Len(f) + 1
      /\ \A n \in 1 .. Len(f) : g[n] = f[n]
      /\ g[Len(f) + 1] = [name |-> e.name, at |-> g[Len(f) + 1].at,
                          size |-> e.size, val |-> e.val]
      /\ g[Len(f) + 1].at = Tell(f) /\ g[Len(f) + 1].size = e.size
  <2>1. 1 \in 1 .. Len(s) /\ Len(s) > 0
    BY <1>2
  <2>0. IsFile(f)
    OBVIOUS
  <2>2. /\ IsFile(g) /\ Len(g) = Len(f) + Len(s)
        /\ \A n \in 1 .. Len(f) : g[n] = f[n]
        /\ \A n \in 1 .. Len(s) :
              /\ g[Len(f) + n].name = s[n].name
              /\ g[Len(f) + n].size = s[n].size
              /\ g[Len(f) + n].val = s[n].val
              /\ g[Len(f) + n] =
                   [name |-> s[n].name, at |-> g[Len(f) + n].at,
                    size |-> s[n].size, val |-> s[n].val]
        /\ Len(s) > 0 => g[Len(f) + 1].at = Tell(f)
        /\ Len(s) = 0 => g = f
    BY <1>3, <1>4, <2>0, PutFile, Zenon
  <2> QED
    BY <1>2, <2>1, <2>2
<1>6. Tell(g) = Tell(f) + e.size
  BY <1>1, <1>5, FileEnd
<1> QED
  BY <1>1, <1>5, <1>6 DEF Prefix

\* Padding fills the page.
LEMMA PadFile ==
    ASSUME NEW f, IsFile(f), NEW page \in Nat \ {0}, NEW g, g = pad_file(f, page)
    PROVE  /\ IsFile(g) /\ Len(g) = Len(f) + 1 /\ Prefix(f, g)
           /\ g[Len(f) + 1].name = "pad" /\ g[Len(f) + 1].at = Tell(f)
           /\ Tell(g) = Padded(Tell(f), page)
<1> DEFINE size == Padded(Tell(f), page) - Tell(f)
           e == Free("pad", size)
<1>1. Tell(f) \in Nat
  BY FileEnd
<1>2. size \in Nat /\ Padded(Tell(f), page) \in Nat
  <2>1. PICK i \in Nat : /\ Padded(Tell(f), page) = page * i
                         /\ Tell(f) <= page * i
    BY <1>1, PaddedMultiple
  <2> QED
    BY <1>1, <2>1
<1>3. g = Put(f, <<e>>)
  BY DEF pad_file
<1> HIDE DEF size
<1>4. e.name = "pad" /\ e.size = size
  BY DEF Free, Field
<1> HIDE DEF e
<1>5. /\ IsFile(g) /\ Len(g) = Len(f) + 1 /\ Prefix(f, g)
      /\ g[Len(f) + 1] = [name |-> e.name, at |-> Tell(f),
                          size |-> e.size, val |-> e.val]
      /\ Tell(g) = Tell(f) + size
  BY <1>2, <1>3, <1>4, PutOne
<1>6. Tell(g) = Padded(Tell(f), page)
  BY <1>1, <1>2, <1>5 DEF size
<1> QED
  BY <1>4, <1>5, <1>6

\* Where the next part begins.
NextAt(t, size, page) == IF size = Absent THEN t ELSE Padded(t + size, page)

\* What there is of a part, where it was due.
PartAt(f, name, size, t) ==
    /\ Has(f, name) <=> size # Absent
    /\ SizeOf(f, name) = filesize(size)
    /\ size # Absent => Piece(f, name).at = t /\ Piece(f, name).size = size

\* A part that is written begins where the file ended.
LEMMA AddPart ==
    ASSUME NEW f, IsFile(f), NEW page \in Nat \ {0}, NEW name, name # "pad",
           NEW size, size = Absent \/ size \in Nat,
           NEW g, g = write_padded_file(f, name, size, page)
    PROVE      /\ IsFile(g) /\ Prefix(f, g) /\ NewNames(f, g, {name, "pad"})
               /\ Tell(g) = NextAt(Tell(f), size, page)
               /\ ~Has(f, name) => PartAt(g, name, size, Tell(f))
<1>1. Len(f) \in Nat /\ Tell(f) \in Nat
  BY FileEnd
<1>2. CASE size = Absent
  <2>1. g = f
    BY <1>2 DEF write_padded_file
  <2>2. ~Has(f, name) => SizeOf(f, name) = 0
    BY DEF SizeOf
  <2>3. Prefix(f, g) /\ NewNames(f, g, {name, "pad"})
    BY <1>1, <2>1 DEF Prefix, NewNames
  <2>4. Tell(g) = NextAt(Tell(f), size, page)
    BY <1>2, <2>1 DEF NextAt
  <2>5. ~Has(f, name) => PartAt(g, name, size, Tell(f))
    BY <1>2, <2>1, <2>2 DEF PartAt, filesize
  <2> QED
    BY <2>1, <2>3, <2>4, <2>5
<1>3. CASE size # Absent
  <2>0. size \in Nat
    BY <1>3
  <2> DEFINE e == Free(name, size)
             h == Put(f, <<e>>)
  <2>1. e.name = name /\ e.size = size
    BY DEF Free, Field
  <2>2. g = pad_file(h, page)
    BY <1>3 DEF write_padded_file
  <2> HIDE DEF e
  <2>3. /\ IsFile(h) /\ Len(h) = Len(f) + 1 /\ Prefix(f, h)
        /\ h[Len(f) + 1] = [name |-> e.name, at |-> Tell(f),
                            size |-> e.size, val |-> e.val]
        /\ Tell(h) = Tell(f) + size
    BY <2>0, <2>1, PutOne
  <2> HIDE DEF h
  <2>4. /\ IsFile(g) /\ Len(g) = Len(h) + 1 /\ Prefix(h, g)
        /\ g[Len(h) + 1].name = "pad" /\ Tell(g) = Padded(Tell(h), page)
    BY ZenonT(60), <2>2, <2>3, PadFile
  <2>5. Len(f) + 1 \in 1 .. Len(h) /\ \A n \in 1 .. Len(f) : n \in 1 .. Len(h)
    BY <1>1, <2>3
  <2>6. /\ g[Len(f) + 1] = h[Len(f) + 1] /\ g[Len(f) + 2].name = "pad"
        /\ \A n \in 1 .. Len(f) : g[n] = f[n]
    <3>1. Len(h) + 1 = Len(f) + 2
      BY <1>1, <2>3
    <3> QED
      BY <2>3, <2>4, <2>5, <3>1 DEF Prefix
  <2>7. /\ g[Len(f) + 1].name = name /\ g[Len(f) + 1].at = Tell(f)
        /\ g[Len(f) + 1].size = size
    BY <2>1, <2>3, <2>6
  <2>8. Prefix(f, g) /\ NewNames(f, g, {name, "pad"})
    <3>1. Len(g) = Len(f) + 2
      BY <1>1, <2>3, <2>4
    <3>2. \A n \in Len(f) + 1 .. Len(f) + 2 : n = Len(f) + 1 \/ n = Len(f) + 2
      BY <1>1
    <3> QED
      BY <1>1, <2>6, <2>7, <3>1, <3>2 DEF Prefix, NewNames
  <2>9. ASSUME ~Has(f, name)
        PROVE  /\ SizeOf(g, name) = size /\ Has(g, name)
               /\ Piece(g, name) = g[Len(f) + 1]
    <3>1. \A m \in 1 .. Len(f) : f[m].name # name
      BY <2>9, SeqParts DEF Has, IsFile
    <3>2. (Len(f) + 1) - 1 = Len(f) /\ Len(f) + 1 \in 1 .. Len(g)
      BY <1>1, <2>3, <2>4
    <3>3. \A m \in 1 .. (Len(f) + 1) - 1 : g[m].name # g[Len(f) + 1].name
      BY <2>6, <2>7, <3>1, <3>2
    <3>4. /\ Has(g, g[Len(f) + 1].name)
          /\ Piece(g, g[Len(f) + 1].name) = g[Len(f) + 1]
          /\ SizeOf(g, g[Len(f) + 1].name) = g[Len(f) + 1].size
      BY <2>4, <3>2, <3>3, PieceIs
    <3> QED
      BY <2>7, <3>4
  <2>10. Tell(g) = NextAt(Tell(f), size, page)
    BY <1>3, <2>3, <2>4 DEF NextAt
  <2>11. ~Has(f, name) => PartAt(g, name, size, Tell(f))
    BY <1>3, <2>7, <2>9 DEF PartAt, filesize
  <2> QED
    BY <2>4, <2>8, <2>10, <2>11
<1> QED
  BY <1>2, <1>3

-----------------------------------------------------------------------------
(* The parts of an image. *)

\* The parts' names.
PartNames == {"kernel", "ramdisk", "second", "dtbo", "dtb"}

\* A part does not end before it begins.
LEMMA NextAtNat ==
    ASSUME NEW t \in Nat, NEW size, size = Absent \/ size \in Nat,
           NEW page \in Nat \ {0}
    PROVE  NextAt(t, size, page) \in Nat /\ t <= NextAt(t, size, page)
<1>1. CASE size = Absent
  BY <1>1 DEF NextAt
<1>2. CASE size \in Nat /\ size # Absent
  <2>1. t + size \in Nat
    BY <1>2
  <2>2. PICK i \in Nat : /\ Padded(t + size, page) = page * i
                         /\ t + size <= page * i
    BY <2>1, PaddedMultiple
  <2>3. page * i \in Nat
    OBVIOUS
  <2> QED
    BY <1>2, <2>2, <2>3 DEF NextAt
<1> QED
  BY <1>1, <1>2

\* What goes on goes on again.
LEMMA PrefixOn ==
    ASSUME NEW f, NEW g, NEW h, IsFile(f), IsFile(g), IsFile(h),
           Prefix(f, g), Prefix(g, h), NEW A, NEW B,
           NewNames(f, g, A), NewNames(g, h, B)
    PROVE  Prefix(f, h) /\ NewNames(f, h, A \cup B)
<1>1. Len(f) \in Nat /\ Len(g) \in Nat /\ Len(h) \in Nat
  BY FileEnd
<1>2. Len(f) <= Len(g) /\ Len(g) <= Len(h)
  BY DEF Prefix
<1>3. \A n \in 1 .. Len(f) : h[n] = f[n]
  <2>1. \A n \in 1 .. Len(f) : n \in 1 .. Len(g)
    BY <1>1, <1>2
  <2> QED
    BY <2>1 DEF Prefix
<1>4. ASSUME NEW n \in Len(f) + 1 .. Len(h) PROVE h[n].name \in A \cup B
  <2>1. CASE n <= Len(g)
    <3>1. n \in Len(f) + 1 .. Len(g) /\ n \in 1 .. Len(g)
      BY <1>1, <1>2, <2>1
    <3> QED
      BY <3>1 DEF NewNames, Prefix
  <2>2. CASE n > Len(g)
    <3>1. n \in Len(g) + 1 .. Len(h)
      BY <1>1, <1>2, <2>2
    <3> QED
      BY <3>1 DEF NewNames
  <2> QED
    BY <1>1, <2>1, <2>2
<1> QED
  BY <1>1, <1>2, <1>3, <1>4 DEF Prefix, NewNames

\* Pieces of other names do not disturb a name.
LEMMA NameKept ==
    ASSUME NEW f, NEW g, IsFile(f), IsFile(g), Prefix(f, g), NEW set,
           NewNames(f, g, set), NEW name, name \notin set
    PROVE  /\ Has(g, name) <=> Has(f, name)
           /\ SizeOf(g, name) = SizeOf(f, name)
           /\ Has(f, name) => Piece(g, name) = Piece(f, name)
<1>1. \A n \in Len(f) + 1 .. Len(g) : g[n].name # name
  BY DEF NewNames
<1> QED
  BY <1>1, PieceKept

\* Nor a part.
LEMMA PartKept ==
    ASSUME NEW f, NEW g, IsFile(f), IsFile(g), Prefix(f, g), NEW set,
           NewNames(f, g, set), NEW name, name \notin set, NEW size, NEW t,
           PartAt(f, name, size, t)
    PROVE  PartAt(g, name, size, t)
BY NameKept DEF PartAt

\* A part is put where the file ended.
LEMMA PartAdded ==
    ASSUME NEW f, IsFile(f), NEW page \in Nat \ {0}, NEW name, name # "pad",
           NEW size, size = Absent \/ size \in Nat, ~Has(f, name), NEW g,
           g = write_padded_file(f, name, size, page)
    PROVE  /\ IsFile(g) /\ Prefix(f, g) /\ NewNames(f, g, {name, "pad"})
           /\ Tell(g) = NextAt(Tell(f), size, page)
           /\ PartAt(g, name, size, Tell(f))
BY AddPart

\* The trees that an image of this version has.
DtboOf(a) == IF a.version \in {1, 2} THEN a.recovery_dtbo ELSE Absent
DtbOf(a) == IF a.version = 2 THEN a.dtb ELSE Absent

\* Where write_data puts the parts.
DataAt(t, a, page) ==
    LET ramdisk == NextAt(t, a.kernel, page)
        second == NextAt(ramdisk, a.ramdisk, page)
        dtbo == NextAt(second, a.second, page)
        dtb == IF a.version \in {1, 2} THEN NextAt(dtbo, a.recovery_dtbo, page)
                                       ELSE dtbo
    IN  <<t, ramdisk, second, dtbo, dtb,
          IF a.version = 2 THEN NextAt(dtb, a.dtb, page) ELSE dtb>>

\* Nothing of what write_data writes.
NoPart(f) == \A name \in PartNames : ~Has(f, name)
DataNames == PartNames \cup {"pad"}

\* All parts of an image, one behind the other.
LEMMA DataParts ==
    ASSUME NEW f, IsFile(f), NEW page \in Nat \ {0}, NEW a \in CommandLines,
           NoPart(f), NEW g, g = Data(f, a, page),
           NEW at, at = DataAt(Tell(f), a, page)
    PROVE      /\ IsFile(g) /\ Prefix(f, g)
               /\ NewNames(f, g, DataNames)
               /\ PartAt(g, "kernel", a.kernel, at[1])
               /\ PartAt(g, "ramdisk", a.ramdisk, at[2])
               /\ PartAt(g, "second", a.second, at[3])
               /\ PartAt(g, "dtbo", DtboOf(a), at[4])
               /\ PartAt(g, "dtb", DtbOf(a), at[5])
               /\ Tell(g) = at[6]
<1> DEFINE F(size) == size = Absent \/ size \in Nat
           odtbo == DtboOf(a)
           odtb == DtbOf(a)
           f1 == write_padded_file(f, "kernel", a.kernel, page)
           f2 == write_padded_file(f1, "ramdisk", a.ramdisk, page)
           f3 == write_padded_file(f2, "second", a.second, page)
           f4 == write_padded_file(f3, "dtbo", odtbo, page)
           f5 == write_padded_file(f4, "dtb", odtb, page)
<1>1. /\ F(a.kernel) /\ F(a.ramdisk) /\ F(a.second) /\ F(a.recovery_dtbo)
      /\ F(a.dtb) /\ F(odtbo) /\ F(odtb)
  BY ArgTypes, PageArg DEF FileArgs, DtboOf, DtbOf
<1>2. g = f5
  BY DEF Data, write_padded_file, DtboOf, DtbOf
<1>3. /\ at[1] = Tell(f) /\ at[2] = NextAt(at[1], a.kernel, page)
      /\ at[3] = NextAt(at[2], a.ramdisk, page)
      /\ at[4] = NextAt(at[3], a.second, page)
      /\ at[5] = NextAt(at[4], odtbo, page)
      /\ at[6] = NextAt(at[5], odtb, page)
  BY DEF DataAt, NextAt, DtboOf, DtbOf
<1> HIDE DEF f1, f2, f3, f4, f5, odtbo, odtb, F
<1>4. /\ IsFile(f1) /\ Prefix(f, f1) /\ NewNames(f, f1, {"kernel", "pad"})
      /\ Tell(f1) = at[2] /\ PartAt(f1, "kernel", a.kernel, at[1])
  <2>1. ~Has(f, "kernel")
    BY DEF PartNames, NoPart
  <2>8. "kernel" # "pad" /\ (a.kernel = Absent \/ a.kernel \in Nat) /\ IsFile(f)
    BY <1>1, <1>3 DEF F
  <2>9. /\ IsFile(f1) /\ Prefix(f, f1) /\ NewNames(f, f1, {"kernel", "pad"})
        /\ Tell(f1) = NextAt(Tell(f), a.kernel, page)
        /\ PartAt(f1, "kernel", a.kernel, Tell(f))
    BY <2>1, <2>8, PartAdded DEF f1
  <2> QED
    BY <1>1, <1>3, <2>9
<1>5. /\ IsFile(f2) /\ Prefix(f1, f2) /\ NewNames(f1, f2, {"ramdisk", "pad"})
      /\ Tell(f2) = at[3] /\ PartAt(f2, "ramdisk", a.ramdisk, at[2])
  <2>1. ~Has(f, "ramdisk") /\ "ramdisk" \notin {"kernel", "pad"}
    BY DEF PartNames, NoPart
  <2>2. ~Has(f1, "ramdisk")
    BY <1>4, <2>1, NameKept
  <2>8. "ramdisk" # "pad" /\ (a.ramdisk = Absent \/ a.ramdisk \in Nat) /\ IsFile(f1)
    BY <1>1, <1>3, <1>4 DEF F
  <2>9. /\ IsFile(f2) /\ Prefix(f1, f2) /\ NewNames(f1, f2, {"ramdisk", "pad"})
        /\ Tell(f2) = NextAt(Tell(f1), a.ramdisk, page)
        /\ PartAt(f2, "ramdisk", a.ramdisk, Tell(f1))
    BY <2>2, <2>8, PartAdded DEF f2
  <2> QED
    BY <1>1, <1>3, <1>4, <2>9
<1>6. /\ Prefix(f, f2) /\ NewNames(f, f2, {"kernel", "pad", "ramdisk"})
  <2>1. Prefix(f, f2) /\ NewNames(f, f2, {"kernel", "pad"} \cup {"ramdisk", "pad"})
    BY <1>4, <1>5, PrefixOn
  <2> QED
    BY <2>1 DEF NewNames
<1>7. /\ IsFile(f3) /\ Prefix(f2, f3) /\ NewNames(f2, f3, {"second", "pad"})
      /\ Tell(f3) = at[4] /\ PartAt(f3, "second", a.second, at[3])
  <2>1. ~Has(f, "second") /\ "second" \notin {"kernel", "pad", "ramdisk"}
    BY DEF PartNames, NoPart
  <2>2. ~Has(f2, "second")
    BY <1>5, <1>6, <2>1, NameKept
  <2>8. "second" # "pad" /\ (a.second = Absent \/ a.second \in Nat) /\ IsFile(f2)
    BY <1>1, <1>3, <1>5 DEF F
  <2>9. /\ IsFile(f3) /\ Prefix(f2, f3) /\ NewNames(f2, f3, {"second", "pad"})
        /\ Tell(f3) = NextAt(Tell(f2), a.second, page)
        /\ PartAt(f3, "second", a.second, Tell(f2))
    BY <2>2, <2>8, PartAdded DEF f3
  <2> QED
    BY <1>1, <1>3, <1>5, <2>9
<1>8. /\ Prefix(f, f3) /\ NewNames(f, f3, {"kernel", "pad", "ramdisk", "second"})
  <2>1. Prefix(f, f3) /\ NewNames(f, f3, {"kernel", "pad", "ramdisk"} \cup {"second", "pad"})
    BY <1>5, <1>6, <1>7, PrefixOn
  <2> QED
    BY <2>1 DEF NewNames
<1>9. /\ IsFile(f4) /\ Prefix(f3, f4) /\ NewNames(f3, f4, {"dtbo", "pad"})
      /\ Tell(f4) = at[5] /\ PartAt(f4, "dtbo", odtbo, at[4])
  <2>1. ~Has(f, "dtbo") /\ "dtbo" \notin {"kernel", "pad", "ramdisk", "second"}
    BY DEF PartNames, NoPart
  <2>2. ~Has(f3, "dtbo")
    BY <1>7, <1>8, <2>1, NameKept
  <2>8. "dtbo" # "pad" /\ (odtbo = Absent \/ odtbo \in Nat) /\ IsFile(f3)
    BY <1>1, <1>3, <1>7 DEF F
  <2>9. /\ IsFile(f4) /\ Prefix(f3, f4) /\ NewNames(f3, f4, {"dtbo", "pad"})
        /\ Tell(f4) = NextAt(Tell(f3), odtbo, page)
        /\ PartAt(f4, "dtbo", odtbo, Tell(f3))
    BY <2>2, <2>8, PartAdded DEF f4
  <2> QED
    BY <1>1, <1>3, <1>7, <2>9
<1>10. /\ Prefix(f, f4)
       /\ NewNames(f, f4, {"kernel", "pad", "ramdisk", "second", "dtbo"})
  <2>1. /\ Prefix(f, f4)
        /\ NewNames(f, f4, {"kernel", "pad", "ramdisk", "second"} \cup {"dtbo", "pad"})
    BY <1>7, <1>8, <1>9, PrefixOn
  <2> QED
    BY <2>1 DEF NewNames
<1>11. /\ IsFile(f5) /\ Prefix(f4, f5) /\ NewNames(f4, f5, {"dtb", "pad"})
       /\ Tell(f5) = at[6] /\ PartAt(f5, "dtb", odtb, at[5])
  <2>1. ~Has(f, "dtb") /\ "dtb" \notin {"kernel", "pad", "ramdisk", "second", "dtbo"}
    BY DEF PartNames, NoPart
  <2>2. ~Has(f4, "dtb")
    BY <1>9, <1>10, <2>1, NameKept
  <2>8. "dtb" # "pad" /\ (odtb = Absent \/ odtb \in Nat) /\ IsFile(f4)
    BY <1>1, <1>3, <1>9 DEF F
  <2>9. /\ IsFile(f5) /\ Prefix(f4, f5) /\ NewNames(f4, f5, {"dtb", "pad"})
        /\ Tell(f5) = NextAt(Tell(f4), odtb, page)
        /\ PartAt(f5, "dtb", odtb, Tell(f4))
    BY <2>2, <2>8, PartAdded DEF f5
  <2> QED
    BY <1>1, <1>3, <1>9, <2>9
<1>12. /\ Prefix(f, f5) /\ NewNames(f, f5, DataNames)
  <2>1. /\ Prefix(f, f5)
        /\ NewNames(f, f5, {"kernel", "pad", "ramdisk", "second", "dtbo"} \cup {"dtb", "pad"})
    BY <1>9, <1>10, <1>11, PrefixOn
  <2> QED
    BY <2>1 DEF NewNames, PartNames, DataNames
<1>13. PartAt(f5, "dtbo", odtbo, at[4])
  <2>1. "dtbo" \notin {"dtb", "pad"}
    OBVIOUS
  <2> QED
    BY <1>9, <1>11, <2>1, PartKept
<1>14. PartAt(f5, "second", a.second, at[3])
  <2>1. "second" \notin {"dtbo", "pad"} /\ "second" \notin {"dtb", "pad"}
    OBVIOUS
  <2>2. PartAt(f4, "second", a.second, at[3])
    BY <1>7, <1>9, <2>1, PartKept
  <2> QED
    BY <1>9, <1>11, <2>1, <2>2, PartKept
<1>15. PartAt(f5, "ramdisk", a.ramdisk, at[2])
  <2>1. /\ "ramdisk" \notin {"second", "pad"} /\ "ramdisk" \notin {"dtbo", "pad"}
        /\ "ramdisk" \notin {"dtb", "pad"}
    OBVIOUS
  <2>2. PartAt(f3, "ramdisk", a.ramdisk, at[2])
    BY <1>5, <1>7, <2>1, PartKept
  <2>3. PartAt(f4, "ramdisk", a.ramdisk, at[2])
    BY <1>7, <1>9, <2>1, <2>2, PartKept
  <2> QED
    BY <1>9, <1>11, <2>1, <2>3, PartKept
<1>16. PartAt(f5, "kernel", a.kernel, at[1])
  <2>1. /\ "kernel" \notin {"ramdisk", "pad"} /\ "kernel" \notin {"second", "pad"}
        /\ "kernel" \notin {"dtbo", "pad"} /\ "kernel" \notin {"dtb", "pad"}
    OBVIOUS
  <2>2. PartAt(f2, "kernel", a.kernel, at[1])
    BY <1>4, <1>5, <2>1, PartKept
  <2>3. PartAt(f3, "kernel", a.kernel, at[1])
    BY <1>5, <1>7, <2>1, <2>2, PartKept
  <2>4. PartAt(f4, "kernel", a.kernel, at[1])
    BY <1>7, <1>9, <2>1, <2>3, PartKept
  <2> QED
    BY <1>9, <1>11, <2>1, <2>4, PartKept
<1> QED
  BY <1>2, <1>11, <1>12, <1>13, <1>14, <1>15, <1>16 DEF odtbo, odtb

-----------------------------------------------------------------------------
(* The header's fields, by version. *)

HeaderNames == {"magic", "kernel_size", "kernel_addr", "ramdisk_size",
    "ramdisk_addr", "second_size", "second_addr", "tags_addr", "page_size",
    "header_version", "os_version", "name", "cmdline", "id", "extra_cmdline",
    "recovery_dtbo_size", "recovery_dtbo_offset", "header_size", "dtb_size",
    "dtb_addr", "reserved", "signature_size"}

\* Fields behind fields.
LEMMA JoinFields ==
    ASSUME NEW s, NEW t, IsFields(s), IsFields(t)
    PROVE  IsFields(s \o t)
<1>1. /\ IsSeq(s) /\ IsSeq(t) /\ Len(s) \in Nat /\ Len(t) \in Nat
  BY SeqParts DEF IsFields
<1>2. /\ IsSeq(s \o t) /\ Len(s \o t) = Len(s) + Len(t)
      /\ \A n \in 1 .. Len(s) : (s \o t)[n] = s[n]
      /\ \A n \in 1 .. Len(t) : (s \o t)[Len(s) + n] = t[n]
  BY <1>1, SeqJoin
<1>3. ASSUME NEW n \in 1 .. Len(s) + Len(t) PROVE (s \o t)[n].size \in Nat
  <2>1. CASE n <= Len(s)
    <3>1. n \in 1 .. Len(s)
      BY <1>1, <2>1
    <3> QED
      BY <1>2, <3>1 DEF IsFields
  <2>2. CASE n > Len(s)
    <3>1. PICK m \in 1 .. Len(t) : n = Len(s) + m
      <4>1. n - Len(s) \in 1 .. Len(t) /\ n = Len(s) + (n - Len(s))
        BY <1>1, <2>2
      <4> QED
        BY <4>1
    <3> QED
      BY <1>2, <3>1 DEF IsFields
  <2> QED
    BY <1>1, <2>1, <2>2
<1> QED
  BY <1>2, <1>3 DEF IsFields

\* Version 0.
LEMMA FieldsV0 ==
    ASSUME NEW a
    PROVE  /\ IsFields(HeaderV0(a)) /\ Len(HeaderV0(a)) = 15
           /\ \A n \in 1 .. 15 : HeaderV0(a)[n].name \in HeaderNames
<1>1. /\ HeaderV0(a) \in Seq({HeaderV0(a)[n] : n \in 1 .. 15})
      /\ Len(HeaderV0(a)) = 15
  BY DEF HeaderV0
<1>2. IsSeq(HeaderV0(a))
  BY <1>1 DEF IsSeq
<1>3. \A n \in 1 .. 15 : HeaderV0(a)[n].name \in HeaderNames
  BY DEF HeaderV0, Free, I, S, Field, HeaderNames, OsWord
<1>4. \A n \in 1 .. 15 : HeaderV0(a)[n].size \in Nat
  BY DEF HeaderV0, Free, I, S, Field, OsWord, BOOT_NAME_SIZE,
         BOOT_EXTRA_ARGS_SIZE, BOOT_ARGS_SIZE
<1> QED
  BY <1>1, <1>2, <1>3, <1>4 DEF IsFields

\* Version 1 goes on after version 0.
LEMMA FieldsV1 ==
    ASSUME NEW a
    PROVE  /\ IsFields(HeaderV1(a)) /\ Len(HeaderV1(a)) = 18
           /\ \A n \in 1 .. 18 : HeaderV1(a)[n].name \in HeaderNames
           /\ \A n \in 1 .. 15 : HeaderV1(a)[n] = HeaderV0(a)[n]
           /\ HeaderV1(a)[16] = I("recovery_dtbo_size", filesize(a.recovery_dtbo))
           /\ HeaderV1(a)[17] = Field("recovery_dtbo_offset", 8,
                  IF a.recovery_dtbo = Absent THEN 0
                  ELSE recovery_dtbo_offset(a))
           /\ HeaderV1(a)[18] = I("header_size",
                             IF a.version = 1 THEN BOOT_IMAGE_HEADER_V1_SIZE
                             ELSE BOOT_IMAGE_HEADER_V2_SIZE)
<1> DEFINE x == I("recovery_dtbo_size", filesize(a.recovery_dtbo))
           y == Field("recovery_dtbo_offset", 8,
                IF a.recovery_dtbo = Absent THEN 0
                ELSE recovery_dtbo_offset(a))
           z == I("header_size",
                           IF a.version = 1 THEN BOOT_IMAGE_HEADER_V1_SIZE
                           ELSE BOOT_IMAGE_HEADER_V2_SIZE)
           t == <<x, y, z>>
<1>1. /\ x.size = 4 /\ y.size = 8 /\ z.size = 4 /\ x.name = "recovery_dtbo_size"
      /\ y.name = "recovery_dtbo_offset" /\ z.name = "header_size"
  BY DEF I, Field
<1>2. HeaderV1(a) = HeaderV0(a) \o t
  BY DEF HeaderV1
<1> HIDE DEF x, y, z
<1>3. /\ t \in Seq({x, y, z}) /\ Len(t) = 3 /\ t[1] = x /\ t[2] = y /\ t[3] = z
  OBVIOUS
<1> HIDE DEF t
<1>4. IsSeq(t) /\ \A n \in 1 .. 3 : n = 1 \/ n = 2 \/ n = 3
  BY <1>3 DEF IsSeq
<1>5. IsFields(t)
  BY <1>1, <1>3, <1>4 DEF IsFields
<1> DEFINE s == HeaderV0(a)
<1>6. IsFields(s) /\ Len(s) = 15 /\ \A n \in 1 .. 15 : s[n].name \in HeaderNames
  BY FieldsV0
<1> HIDE DEF s
<1>7. IsSeq(s) /\ IsSeq(t)
  BY <1>4, <1>6 DEF IsFields
<1>9. /\ Len(s \o t) = 18 /\ \A n \in 1 .. 15 : (s \o t)[n] = s[n]
      /\ (s \o t)[16] = x /\ (s \o t)[17] = y /\ (s \o t)[18] = z
  <2>1. 15 + 1 = 16 /\ 15 + 2 = 17 /\ 15 + 3 = 18
    OBVIOUS
  <2>2. 1 \in 1 .. 3 /\ 2 \in 1 .. 3 /\ 3 \in 1 .. 3
    OBVIOUS
  <2>3. /\ \A n \in 1 .. 15 : (s \o t)[n] = s[n]
        /\ \A n \in 1 .. 3 : (s \o t)[15 + n] = t[n]
        /\ Len(s \o t) = 15 + 3
    <3>1. Len(s) = 15 /\ Len(t) = 3
      BY <1>3, <1>6, <1>7
    <3>2. /\ Len(s \o t) = Len(s) + Len(t)
          /\ \A n \in 1 .. Len(s) : (s \o t)[n] = s[n]
          /\ \A n \in 1 .. Len(t) : (s \o t)[Len(s) + n] = t[n]
      BY <1>7, SeqJoin
    <3> DEFINE u == s \o t
    <3>3. /\ Len(u) = Len(s) + Len(t)
          /\ \A n \in 1 .. Len(s) : u[n] = s[n]
          /\ \A n \in 1 .. Len(t) : u[Len(s) + n] = t[n]
      BY <3>2
    <3> HIDE DEF u
    <3>4. /\ Len(u) = 15 + 3
          /\ \A n \in 1 .. 15 : u[n] = s[n]
          /\ \A n \in 1 .. 3 : u[15 + n] = t[n]
      BY <3>1, <3>3
    <3> QED
      BY <3>4, Zenon DEF u
  <2>4. /\ (s \o t)[15 + 1] = x /\ (s \o t)[15 + 2] = y
        /\ (s \o t)[15 + 3] = z
    BY <1>3, <2>2, <2>3
  <2> QED
    BY <2>1, <2>3, <2>4
<1>10. \A n \in 1 .. 18 : (s \o t)[n].name \in HeaderNames
  <2>1. \A n \in 1 .. 18 : n \in 1 .. 15 \/ n = 16 \/ n = 17 \/ n = 18
    OBVIOUS
  <2>2. x.name \in HeaderNames /\ y.name \in HeaderNames /\ z.name \in HeaderNames
    BY <1>1 DEF HeaderNames
  <2> QED
    BY <1>6, <1>9, <2>1, <2>2
<1>11. IsFields(s \o t)
  BY <1>5, <1>6, JoinFields
<1> QED
  BY <1>2, <1>9, <1>10, <1>11 DEF s, x, y, z

\* Version 2 goes on after version 1.
LEMMA FieldsV2 ==
    ASSUME NEW a
    PROVE  /\ IsFields(HeaderV2(a)) /\ Len(HeaderV2(a)) = 20
           /\ \A n \in 1 .. 20 : HeaderV2(a)[n].name \in HeaderNames
           /\ \A n \in 1 .. 18 : HeaderV2(a)[n] = HeaderV1(a)[n]
           /\ HeaderV2(a)[19] = I("dtb_size", filesize(a.dtb))
           /\ HeaderV2(a)[20] = Free("dtb_addr", 8)
<1> DEFINE x == I("dtb_size", filesize(a.dtb))
           y == Free("dtb_addr", 8)
           t == <<x, y>>
<1>1. x.size = 4 /\ y.size = 8 /\ x.name = "dtb_size" /\ y.name = "dtb_addr"
  BY DEF I, Free, Field
<1>2. HeaderV2(a) = HeaderV1(a) \o t
  BY DEF HeaderV2
<1> HIDE DEF x, y
<1>3. t \in Seq({x, y}) /\ Len(t) = 2 /\ t[1] = x /\ t[2] = y
  OBVIOUS
<1> HIDE DEF t
<1>4. IsSeq(t) /\ \A n \in 1 .. 2 : n = 1 \/ n = 2
  BY <1>3 DEF IsSeq
<1>5. IsFields(t)
  BY <1>1, <1>3, <1>4 DEF IsFields
<1> DEFINE s == HeaderV1(a)
<1>6. IsFields(s) /\ Len(s) = 18 /\ \A n \in 1 .. 18 : s[n].name \in HeaderNames
  BY FieldsV1
<1> HIDE DEF s
<1>7. IsSeq(s) /\ IsSeq(t)
  BY <1>4, <1>6 DEF IsFields
<1>9. /\ Len(s \o t) = 20 /\ \A n \in 1 .. 18 : (s \o t)[n] = s[n]
      /\ (s \o t)[19] = x /\ (s \o t)[20] = y
  <2>1. 18 + 1 = 19 /\ 18 + 2 = 20 /\ 1 \in 1 .. 2 /\ 2 \in 1 .. 2
    OBVIOUS
  <2>3. /\ \A n \in 1 .. 18 : (s \o t)[n] = s[n]
        /\ \A n \in 1 .. 2 : (s \o t)[18 + n] = t[n]
        /\ Len(s \o t) = 18 + 2
    <3>1. Len(s) = 18 /\ Len(t) = 2
      BY <1>3, <1>6, <1>7
    <3>2. /\ Len(s \o t) = Len(s) + Len(t)
          /\ \A n \in 1 .. Len(s) : (s \o t)[n] = s[n]
          /\ \A n \in 1 .. Len(t) : (s \o t)[Len(s) + n] = t[n]
      BY <1>7, SeqJoin
    <3> DEFINE u == s \o t
    <3>3. /\ Len(u) = Len(s) + Len(t)
          /\ \A n \in 1 .. Len(s) : u[n] = s[n]
          /\ \A n \in 1 .. Len(t) : u[Len(s) + n] = t[n]
      BY <3>2
    <3> HIDE DEF u
    <3>4. /\ Len(u) = 18 + 2
          /\ \A n \in 1 .. 18 : u[n] = s[n]
          /\ \A n \in 1 .. 2 : u[18 + n] = t[n]
      BY <3>1, <3>3
    <3> QED
      BY <3>4, Zenon DEF u
  <2>4. (s \o t)[18 + 1] = x /\ (s \o t)[18 + 2] = y
    BY <1>3, <2>1, <2>3
  <2> QED
    BY <2>1, <2>3, <2>4
<1>10. \A n \in 1 .. 20 : (s \o t)[n].name \in HeaderNames
  <2>1. \A n \in 1 .. 20 : n \in 1 .. 18 \/ n = 19 \/ n = 20
    OBVIOUS
  <2>2. x.name \in HeaderNames /\ y.name \in HeaderNames
    BY <1>1 DEF HeaderNames
  <2> QED
    BY <1>6, <1>9, <2>1, <2>2
<1>11. IsFields(s \o t)
  BY <1>5, <1>6, JoinFields
<1> QED
  BY <1>2, <1>9, <1>10, <1>11 DEF s, x, y

\* Versions 3 and 4.
LEMMA FieldsV3 ==
    ASSUME NEW a, a.version \in {3, 4}
    PROVE  /\ IsFields(HeaderV3(a)) /\ Len(HeaderV3(a)) = IF a.version = 3 THEN 8 ELSE 9
           /\ \A n \in 1 .. Len(HeaderV3(a)) : HeaderV3(a)[n].name \in HeaderNames
<1>1. CASE a.version = 3
  <2> DEFINE s == HeaderV3(a)
             t == << Free("magic", 8), I("kernel_size", filesize(a.kernel)),
                  I("ramdisk_size", filesize(a.ramdisk)), OsWord(a),
                  I("header_size", IF a.version > 3 THEN BOOT_IMAGE_HEADER_V4_SIZE
                                   ELSE BOOT_IMAGE_HEADER_V3_SIZE),
                  Free("reserved", 16), I("header_version", a.version),
                  S("cmdline", BOOT_ARGS_SIZE + BOOT_EXTRA_ARGS_SIZE, a.cmdline) >>
  <2>1. s = t
    BY <1>1 DEF HeaderV3
  <2>2. t \in Seq({t[n] : n \in 1 .. 8}) /\ Len(t) = 8
    OBVIOUS
  <2>3. \A n \in 1 .. 8 : t[n].name \in HeaderNames /\ t[n].size \in Nat
    BY DEF Free, I, S, Field, OsWord, HeaderNames, BOOT_ARGS_SIZE, BOOT_EXTRA_ARGS_SIZE
  <2> HIDE DEF t, s
  <2> QED
    BY <1>1, <2>1, <2>2, <2>3 DEF IsFields, IsSeq, s
<1>2. CASE a.version = 4
  <2> DEFINE s == << Free("magic", 8), I("kernel_size", filesize(a.kernel)),
                  I("ramdisk_size", filesize(a.ramdisk)), OsWord(a),
                  I("header_size", IF a.version > 3 THEN BOOT_IMAGE_HEADER_V4_SIZE
                                   ELSE BOOT_IMAGE_HEADER_V3_SIZE),
                  Free("reserved", 16), I("header_version", a.version),
                  S("cmdline", BOOT_ARGS_SIZE + BOOT_EXTRA_ARGS_SIZE, a.cmdline) >>
             x == I("signature_size", IF a.signature = Absent THEN 0
                                    ELSE V4_SIGNATURE_SIZE)
             t == <<x>>
  <2>1. HeaderV3(a) = s \o t
    BY <1>2 DEF HeaderV3
  <2>2. s \in Seq({s[n] : n \in 1 .. 8}) /\ Len(s) = 8
    OBVIOUS
  <2>3. \A n \in 1 .. 8 : s[n].name \in HeaderNames /\ s[n].size \in Nat
    BY DEF Free, I, S, Field, OsWord, HeaderNames, BOOT_ARGS_SIZE, BOOT_EXTRA_ARGS_SIZE
  <2> HIDE DEF s
  <2>4. IsSeq(s) /\ IsFields(s)
    BY <2>2, <2>3 DEF IsFields, IsSeq
  <2>5. x.name = "signature_size" /\ x.size = 4
    BY DEF I, Field
  <2> HIDE DEF x
  <2>6. t \in Seq({x}) /\ Len(t) = 1 /\ t[1] = x
    OBVIOUS
  <2>7. IsSeq(t) /\ \A n \in 1 .. 1 : n = 1
    <3>1. IsSeq(t)
      BY <2>6 DEF IsSeq
    <3> QED
      BY <3>1
  <2> HIDE DEF t
  <2>8. IsFields(t)
    BY <2>5, <2>6, <2>7 DEF IsFields
  <2>9. IsFields(s \o t)
    BY <2>4, <2>8, JoinFields
  <2>11. /\ Len(s \o t) = 9 /\ \A n \in 1 .. 8 : (s \o t)[n] = s[n]
         /\ (s \o t)[9] = x
    <3>0. 1 \in 1 .. 1 /\ 8 + 1 = 9
      OBVIOUS
    <3>1. /\ \A n \in 1 .. 8 : (s \o t)[n] = s[n]
          /\ \A n \in 1 .. 1 : (s \o t)[8 + n] = t[n]
          /\ Len(s \o t) = 8 + 1
      <4>1. Len(s) = 8 /\ Len(t) = 1
        BY <2>2, <2>4, <2>6, <2>7
      <4>2. /\ Len(s \o t) = Len(s) + Len(t)
            /\ \A n \in 1 .. Len(s) : (s \o t)[n] = s[n]
            /\ \A n \in 1 .. Len(t) : (s \o t)[Len(s) + n] = t[n]
        BY <2>4, <2>7, SeqJoin
      <4> DEFINE u == s \o t
      <4>3. /\ Len(u) = Len(s) + Len(t)
            /\ \A n \in 1 .. Len(s) : u[n] = s[n]
            /\ \A n \in 1 .. Len(t) : u[Len(s) + n] = t[n]
        BY <4>2
      <4> HIDE DEF u
      <4>4. /\ Len(u) = 8 + 1
            /\ \A n \in 1 .. 8 : u[n] = s[n]
            /\ \A n \in 1 .. 1 : u[8 + n] = t[n]
        BY <4>1, <4>3
      <4> QED
        BY <4>4 DEF u
    <3>2. (s \o t)[8 + 1] = x
      BY <2>6, <3>0, <3>1
    <3> QED
      BY <3>0, <3>1, <3>2
  <2>12. \A n \in 1 .. 9 : (s \o t)[n].name \in HeaderNames
    <3>1. \A n \in 1 .. 9 : n \in 1 .. 8 \/ n = 9
      OBVIOUS
    <3>2. x.name \in HeaderNames
      BY <2>5 DEF HeaderNames
    <3> QED
      BY <2>3, <2>11, <3>1, <3>2
  <2> QED
    BY <1>2, <2>1, <2>9, <2>11, <2>12
<1> QED
  BY <1>1, <1>2

-----------------------------------------------------------------------------
(* A whole image. *)

\* Every header has fields, of these names.
LEMMA HeaderFields ==
    ASSUME NEW a, a.version \in 0 .. 4
    PROVE  /\ IsFields(Header(a)) /\ Len(Header(a)) > 0
           /\ \A n \in 1 .. Len(Header(a)) : Header(a)[n].name \in HeaderNames
<1>1. CASE a.version = 0
  <2>1. Header(a) = HeaderV0(a)
    BY <1>1 DEF Header
  <2> QED
    <3>1. /\ IsFields(HeaderV0(a)) /\ Len(HeaderV0(a)) = 15
          /\ \A n \in 1 .. 15 : HeaderV0(a)[n].name \in HeaderNames
      BY FieldsV0
    <3> QED
      BY <2>1, <3>1
<1>2. CASE a.version = 1
  <2>1. Header(a) = HeaderV1(a)
    BY <1>2 DEF Header
  <2> QED
    <3>1. /\ IsFields(HeaderV1(a)) /\ Len(HeaderV1(a)) = 18
          /\ \A n \in 1 .. 18 : HeaderV1(a)[n].name \in HeaderNames
      BY FieldsV1
    <3> QED
      BY <2>1, <3>1
<1>3. CASE a.version = 2
  <2>1. Header(a) = HeaderV2(a)
    BY <1>3 DEF Header
  <2> QED
    <3>1. /\ IsFields(HeaderV2(a)) /\ Len(HeaderV2(a)) = 20
          /\ \A n \in 1 .. 20 : HeaderV2(a)[n].name \in HeaderNames
      BY FieldsV2
    <3> QED
      BY <2>1, <3>1
<1>4. CASE a.version \in {3, 4}
  <2>1. Header(a) = HeaderV3(a)
    BY <1>4 DEF Header
  <2> QED
    BY <1>4, <2>1, FieldsV3
<1> QED
  BY <1>1, <1>2, <1>3, <1>4

\* The header in its page, and the image whole.
HeadOf(a) == pad_file(Put(<<>>, Header(a)), HeaderPage(a))
DataOf(a) == Data(HeadOf(a), a, HeaderPage(a))
SignatureOf(a) == Field("signature", V4_SIGNATURE_SIZE, Tell(DataOf(a)))
ImageOf(a) == IF Signs(a)
              THEN pad_file(Put(DataOf(a), <<SignatureOf(a)>>), HeaderPage(a))
              ELSE DataOf(a)

\* The header's page is one.
LEMMA HeaderPageNat ==
    ASSUME NEW a \in CommandLines
    PROVE  HeaderPage(a) \in Nat \ {0} /\ HeaderPage(a) >= 2048
<1>1. a.page \in {2048, 4096, 8192, 16384}
  BY ArgTypes DEF PageSizes
<1> QED
  BY <1>1 DEF HeaderPage, V3_PAGESIZE

\* The header and its padding.
LEMMA HeadParts ==
    ASSUME NEW a \in CommandLines, a.version \in 0 .. 4,
           NEW h, h = Put(<<>>, Header(a)), NEW g, g = HeadOf(a)
    PROVE  /\ IsFile(h) /\ IsFile(g) /\ Prefix(h, g) /\ NewNames(h, g, {"pad"})
           /\ Len(h) = Len(Header(a)) /\ Len(h) \in Nat \ {0}
           /\ Len(g) = Len(h) + 1
           /\ \A n \in 1 .. Len(h) : /\ h[n].name \in HeaderNames
                                     /\ h[n].name = Header(a)[n].name
                                     /\ h[n].size = Header(a)[n].size
                                     /\ h[n].val = Header(a)[n].val
           /\ Tell(g) = Padded(Tell(h), HeaderPage(a))
           /\ Has(g, "pad") /\ Piece(g, "pad").at = Tell(h)
<1> DEFINE s == Header(a)
<1>1. /\ IsFields(s) /\ Len(s) > 0
      /\ \A n \in 1 .. Len(s) : s[n].name \in HeaderNames
  BY HeaderFields
<1>2. h = Put(<<>>, s) /\ g = pad_file(h, HeaderPage(a))
  BY DEF HeadOf
<1> HIDE DEF s
<1>3. Len(s) \in Nat
  BY <1>1, SeqParts DEF IsFields
<1>4. /\ IsFile(h) /\ Len(h) = Len(<<>>) + Len(s)
      /\ \A n \in 1 .. Len(s) : /\ h[Len(<<>>) + n].name = s[n].name
                                /\ h[Len(<<>>) + n].size = s[n].size
                                /\ h[Len(<<>>) + n].val = s[n].val
  <2> DEFINE e == <<>>
  <2>1. h = Put(e, s)
    BY <1>2
  <2>2. IsFile(e)
    BY EmptyFile
  <2> HIDE DEF e
  <2>3. /\ IsFile(h) /\ Len(h) = Len(e) + Len(s)
        /\ \A n \in 1 .. Len(e) : h[n] = e[n]
        /\ \A n \in 1 .. Len(s) :
              /\ h[Len(e) + n].name = s[n].name
              /\ h[Len(e) + n].size = s[n].size
              /\ h[Len(e) + n].val = s[n].val
              /\ h[Len(e) + n] =
                   [name |-> s[n].name, at |-> h[Len(e) + n].at,
                    size |-> s[n].size, val |-> s[n].val]
        /\ Len(s) > 0 => h[Len(e) + 1].at = Tell(e)
        /\ Len(s) = 0 => h = e
    BY <1>1, <2>1, <2>2, PutFile, Zenon
  <2> QED
    BY <2>3, Zenon DEF e
<1>5. /\ Len(h) = Len(s)
      /\ \A n \in 1 .. Len(h) : /\ h[n].name = s[n].name
                                /\ h[n].size = s[n].size
                                /\ h[n].val = s[n].val
  <2>1. \A n \in 1 .. Len(s) : Len(<<>>) + n = n
    BY <1>3, EmptyFile
  <2>2. Len(h) = Len(s)
    BY <1>3, <1>4, EmptyFile
  <2> QED
    BY <1>4, <2>1, <2>2
<1>6. \A n \in 1 .. Len(h) : h[n].name \in HeaderNames
  BY <1>1, <1>5
<1>7. /\ IsFile(g) /\ Len(g) = Len(h) + 1 /\ Prefix(h, g)
      /\ g[Len(h) + 1].name = "pad" /\ g[Len(h) + 1].at = Tell(h)
      /\ Tell(g) = Padded(Tell(h), HeaderPage(a))
  <2> DEFINE page == HeaderPage(a)
  <2>1. page \in Nat \ {0}
    BY HeaderPageNat
  <2>2. g = pad_file(h, page) /\ IsFile(h)
    BY <1>2, <1>4
  <2> HIDE DEF page
  <2>3. /\ IsFile(g) /\ Len(g) = Len(h) + 1 /\ Prefix(h, g)
        /\ g[Len(h) + 1].name = "pad" /\ g[Len(h) + 1].at = Tell(h)
        /\ Tell(g) = Padded(Tell(h), page)
    BY <2>1, <2>2, PadFile
  <2> QED
    BY <2>3 DEF page
<1>8. Len(h) \in Nat \ {0}
  BY <1>1, <1>3, <1>5
<1>9. NewNames(h, g, {"pad"})
  <2>1. \A n \in Len(h) + 1 .. Len(g) : n = Len(h) + 1
    BY <1>7, <1>8
  <2> QED
    BY <1>7, <2>1 DEF NewNames
<1>10. Has(g, "pad") /\ Piece(g, "pad").at = Tell(h)
  <2>1. Len(h) + 1 \in 1 .. Len(g) /\ (Len(h) + 1) - 1 = Len(h)
    BY <1>7, <1>8
  <2>2. \A m \in 1 .. Len(h) : g[m].name # "pad"
    <3>1. "pad" \notin HeaderNames
      BY DEF HeaderNames
    <3> QED
      BY <1>6, <1>7, <3>1 DEF Prefix
  <2>3. \A m \in 1 .. (Len(h) + 1) - 1 : g[m].name # g[Len(h) + 1].name
    BY <1>7, <2>1, <2>2
  <2>4. /\ Has(g, g[Len(h) + 1].name)
        /\ Piece(g, g[Len(h) + 1].name) = g[Len(h) + 1]
    BY <1>7, <2>1, <2>3, PieceIs
  <2> QED
    BY <1>7, <2>4
<1> QED
  BY <1>4, <1>5, <1>6, <1>7, <1>8, <1>9, <1>10 DEF s

OtherNames == PartNames \cup {"pad", "signature"}

\* No two groups of names share one.
LEMMA NamesApart ==
    /\ HeaderNames \cap OtherNames = {}
    /\ HeaderNames \cap {"boot", "generic_kernel", "zeros", "footer"} = {}
    /\ OtherNames \cap {"boot", "generic_kernel", "zeros", "footer"} = {}
    /\ "signature" \notin DataNames /\ "pad" \notin PartNames
    /\ PartNames \subseteq OtherNames
BY DEF HeaderNames, OtherNames, PartNames, DataNames

AllParts(f, a, at) ==
    /\ PartAt(f, "kernel", a.kernel, at[1])
    /\ PartAt(f, "ramdisk", a.ramdisk, at[2])
    /\ PartAt(f, "second", a.second, at[3])
    /\ PartAt(f, "dtbo", DtboOf(a), at[4])
    /\ PartAt(f, "dtb", DtbOf(a), at[5])

\* The parts behind a head.
LEMMA DataOnHead ==
    ASSUME NEW a \in CommandLines, NEW g, IsFile(g), NEW page \in Nat \ {0},
           NoPart(g), NEW d, d = Data(g, a, page)
    PROVE  /\ IsFile(d) /\ Prefix(g, d) /\ NewNames(g, d, DataNames)
           /\ AllParts(d, a, DataAt(Tell(g), a, page))
           /\ Tell(d) = DataAt(Tell(g), a, page)[6]
<1> DEFINE at == DataAt(Tell(g), a, page)
<1> HIDE DEF at
<1>1. /\ IsFile(d) /\ Prefix(g, d) /\ NewNames(g, d, DataNames)
      /\ PartAt(d, "kernel", a.kernel, at[1])
      /\ PartAt(d, "ramdisk", a.ramdisk, at[2])
      /\ PartAt(d, "second", a.second, at[3])
      /\ PartAt(d, "dtbo", DtboOf(a), at[4])
      /\ PartAt(d, "dtb", DtbOf(a), at[5])
      /\ Tell(d) = at[6]
  <2>1. at = DataAt(Tell(g), a, page)
    BY DEF at
  <2> QED
    BY <2>1, DataParts
<1>2. AllParts(d, a, at)
  BY <1>1 DEF AllParts
<1> QED
  BY <1>1, <1>2 DEF at

\* Head and parts.
LEMMA DataOfParts ==
    ASSUME NEW a \in CommandLines, a.version \in 0 .. 4,
           NEW h, h = Put(<<>>, Header(a)), NEW d, d = DataOf(a),
           NEW at, at = DataAt(Padded(Tell(h), HeaderPage(a)), a, HeaderPage(a))
    PROVE  /\ IsFile(h) /\ IsFile(d) /\ Prefix(h, d) /\ NewNames(h, d, DataNames)
           /\ Len(h) \in Nat \ {0} /\ Len(d) \in Nat \ {0} /\ Tell(d) \in Nat
           /\ Has(d, "pad") /\ Piece(d, "pad").at = Tell(h)
           /\ AllParts(d, a, at) /\ Tell(d) = at[6] /\ ~Has(d, "signature")
<1> DEFINE page == HeaderPage(a)
           g == HeadOf(a)
<1>1. page \in Nat \ {0}
  BY HeaderPageNat
<1>d. d = Data(g, a, page)
  BY DEF DataOf
<1>2. /\ IsFile(h) /\ IsFile(g) /\ Prefix(h, g) /\ NewNames(h, g, {"pad"})
      /\ Len(h) \in Nat \ {0} /\ Len(g) = Len(h) + 1
      /\ \A n \in 1 .. Len(h) : h[n].name \in HeaderNames
      /\ Tell(g) = Padded(Tell(h), page)
      /\ Has(g, "pad") /\ Piece(g, "pad").at = Tell(h)
  BY HeadParts
<1> HIDE DEF page, g
<1>3. ASSUME NEW name \in OtherNames, name # "pad" PROVE ~Has(g, name)
  <2>1. \A n \in 1 .. Len(h) : h[n].name # name
    BY <1>2, NamesApart
  <2>2. ~Has(h, name)
    BY <1>2, <2>1, SeqParts DEF Has, IsFile
  <2>3. name \notin {"pad"}
    BY <1>3
  <2> QED
    BY <1>2, <2>2, <2>3, NameKept
<1>4. at = DataAt(Tell(g), a, page)
  BY <1>2 DEF page
<1>5. /\ IsFile(d) /\ Prefix(g, d) /\ NewNames(g, d, DataNames)
      /\ AllParts(d, a, at) /\ Tell(d) = at[6]
  <2>1. NoPart(g)
    BY <1>3, NamesApart DEF NoPart
  <2>2. IsFile(g) /\ d = Data(g, a, page)
    BY <1>2, <1>d
  <2>3. /\ IsFile(d) /\ Prefix(g, d) /\ NewNames(g, d, DataNames)
        /\ AllParts(d, a, DataAt(Tell(g), a, page))
        /\ Tell(d) = DataAt(Tell(g), a, page)[6]
    BY <1>1, <2>1, <2>2, DataOnHead
  <2> QED
    BY <1>4, <2>3
<1>6. /\ Prefix(h, d) /\ NewNames(h, d, DataNames)
  <2>1. Prefix(h, d) /\ NewNames(h, d, {"pad"} \cup DataNames)
    BY <1>2, <1>5, PrefixOn
  <2> QED
    BY <2>1 DEF NewNames, DataNames
<1>7. Len(d) \in Nat /\ Len(g) <= Len(d) /\ Tell(d) \in Nat
  BY <1>5, FileEnd DEF Prefix
<1>8. Has(d, "pad") /\ Piece(d, "pad").at = Tell(h)
  BY <1>2, <1>5, PieceKept
<1>9. ~Has(d, "signature")
  <2>1. ~Has(g, "signature")
    BY <1>3 DEF OtherNames
  <2> QED
    BY <1>2, <1>5, <2>1, NameKept, NamesApart
<1> QED
  <2>1. Len(d) \in Nat \ {0}
    BY <1>2, <1>7
  <2> QED
    BY <1>2, <1>5, <1>6, <1>7, <1>8, <1>9, <2>1

\* Head, parts and signature.
LEMMA ImageParts ==
    ASSUME NEW a \in CommandLines, a.version \in 0 .. 4,
           NEW h, h = Put(<<>>, Header(a)), NEW f, f = ImageOf(a),
           NEW at, at = DataAt(Padded(Tell(h), HeaderPage(a)), a, HeaderPage(a))
    PROVE  /\ IsFile(h) /\ IsFile(f) /\ Prefix(h, f) /\ NewNames(h, f, OtherNames)
           /\ Len(f) \in Nat \ {0}
           /\ Has(f, "pad") /\ Piece(f, "pad").at = Tell(h)
           /\ AllParts(f, a, at)
           /\ IF Signs(a)
              THEN /\ Has(f, "signature") /\ Piece(f, "signature").name = "signature"
                   /\ SizeOf(f, "signature") = V4_SIGNATURE_SIZE
              ELSE SizeOf(f, "signature") = 0 /\ Tell(f) = at[6]
<1> DEFINE page == HeaderPage(a)
           d == DataOf(a)
<1>1. page \in Nat \ {0}
  BY HeaderPageNat
<1>d. f = IF Signs(a) THEN pad_file(Put(d, <<SignatureOf(a)>>), page) ELSE d
  BY DEF ImageOf
<1>2. d = DataOf(a)
  OBVIOUS
<1> HIDE DEF page, d
<1>5. /\ IsFile(h) /\ IsFile(d) /\ Prefix(h, d) /\ NewNames(h, d, DataNames)
      /\ Len(h) \in Nat \ {0} /\ Len(d) \in Nat \ {0} /\ Tell(d) \in Nat
      /\ Has(d, "pad") /\ Piece(d, "pad").at = Tell(h)
      /\ AllParts(d, a, at) /\ Tell(d) = at[6] /\ ~Has(d, "signature")
  BY <1>2, DataOfParts
<1>6. CASE ~Signs(a)
  <2>1. f = d
    BY <1>6, <1>d
  <2>2. NewNames(h, d, OtherNames)
    BY <1>5 DEF NewNames, OtherNames, DataNames
  <2>3. SizeOf(f, "signature") = 0
    BY <1>5, <2>1 DEF SizeOf
  <2> QED
    BY <1>5, <1>6, <2>1, <2>2, <2>3
<1>7. CASE Signs(a)
  <2> DEFINE e == SignatureOf(a)
             k == Put(d, <<e>>)
  <2>1. e.name = "signature" /\ e.size = V4_SIGNATURE_SIZE /\ e.size \in Nat
    BY DEF SignatureOf, Field, V4_SIGNATURE_SIZE
  <2>2. f = pad_file(k, page)
    BY <1>7, <1>d
  <2> HIDE DEF e
  <2>3. /\ IsFile(k) /\ Len(k) = Len(d) + 1 /\ Prefix(d, k)
        /\ k[Len(d) + 1] = [name |-> e.name, at |-> Tell(d),
                            size |-> e.size, val |-> e.val]
    BY <1>5, <2>1, PutOne
  <2> HIDE DEF k
  <2>4. /\ IsFile(f) /\ Len(f) = Len(k) + 1 /\ Prefix(k, f)
        /\ f[Len(k) + 1].name = "pad"
    BY <1>1, <2>2, <2>3, PadFile
  <2>5. k[Len(d) + 1].name = "signature" /\ k[Len(d) + 1].size = V4_SIGNATURE_SIZE
    BY <2>1, <2>3
  <2>6. NewNames(d, k, {"signature"}) /\ NewNames(k, f, {"pad"})
    <3>1. \A n \in Len(d) + 1 .. Len(k) : n = Len(d) + 1
      BY <1>5, <2>3
    <3>2. \A n \in Len(k) + 1 .. Len(f) : n = Len(k) + 1
      BY <1>5, <2>3, <2>4
    <3> QED
      BY <2>4, <2>5, <3>1, <3>2 DEF NewNames
  <2>7. Prefix(d, f) /\ NewNames(d, f, {"signature"} \cup {"pad"})
    BY <1>5, <2>3, <2>4, <2>6, PrefixOn
  <2>8. Prefix(h, f) /\ NewNames(h, f, OtherNames)
    <3>1. Prefix(h, f) /\ NewNames(h, f, DataNames \cup ({"signature"} \cup {"pad"}))
      BY <1>5, <2>4, <2>7, PrefixOn
    <3> QED
      BY <3>1 DEF NewNames, OtherNames, DataNames
  <2>9. AllParts(f, a, at)
    <3>1. /\ "kernel" \notin {"signature"} \cup {"pad"}
          /\ "ramdisk" \notin {"signature"} \cup {"pad"}
          /\ "second" \notin {"signature"} \cup {"pad"}
          /\ "dtbo" \notin {"signature"} \cup {"pad"}
          /\ "dtb" \notin {"signature"} \cup {"pad"}
      OBVIOUS
    <3>2. PartAt(f, "kernel", a.kernel, at[1])
      BY ZenonT(60), <1>5, <2>4, <2>7, <3>1, PartKept DEF AllParts
    <3>3. PartAt(f, "ramdisk", a.ramdisk, at[2])
      BY <1>5, <2>4, <2>7, <3>1, PartKept DEF AllParts
    <3>4. PartAt(f, "second", a.second, at[3])
      BY <1>5, <2>4, <2>7, <3>1, PartKept DEF AllParts
    <3>5. PartAt(f, "dtbo", DtboOf(a), at[4])
      BY <1>5, <2>4, <2>7, <3>1, PartKept DEF AllParts
    <3>6. PartAt(f, "dtb", DtbOf(a), at[5])
      BY <1>5, <2>4, <2>7, <3>1, PartKept DEF AllParts
    <3> QED
      BY <3>2, <3>3, <3>4, <3>5, <3>6 DEF AllParts
  <2>10. Has(f, "pad") /\ Piece(f, "pad").at = Tell(h)
    BY <1>5, <2>4, <2>7, PieceKept
  <2>11. /\ Has(f, "signature") /\ Piece(f, "signature").name = "signature"
         /\ SizeOf(f, "signature") = V4_SIGNATURE_SIZE
    <3>1. Len(d) + 1 \in 1 .. Len(k) /\ Len(d) + 1 \in 1 .. Len(f)
          /\ (Len(d) + 1) - 1 = Len(d)
      BY <1>5, <2>3, <2>4
    <3>2. f[Len(d) + 1] = k[Len(d) + 1]
      BY <2>4, <3>1 DEF Prefix
    <3>3. \A m \in 1 .. Len(d) : f[m].name # "signature"
      BY <1>5, <2>7, SeqParts DEF Has, IsFile, Prefix
    <3>4. \A m \in 1 .. (Len(d) + 1) - 1 : f[m].name # f[Len(d) + 1].name
      BY <2>5, <3>1, <3>2, <3>3
    <3>5. /\ Has(f, f[Len(d) + 1].name)
          /\ Piece(f, f[Len(d) + 1].name) = f[Len(d) + 1]
          /\ SizeOf(f, f[Len(d) + 1].name) = f[Len(d) + 1].size
      BY <2>4, <3>1, <3>4, PieceIs
    <3> QED
      BY <2>5, <3>2, <3>5
  <2>12. Len(f) \in Nat \ {0}
    BY <1>5, <2>3, <2>4
  <2> QED
    BY <1>5, <1>7, <2>4, <2>8, <2>9, <2>10, <2>11, <2>12
<1> QED
  BY <1>6, <1>7

-----------------------------------------------------------------------------
(* Places of the header's fields. *)

\* The fields of the headers of versions 0 to 2 and of 3 and 4: how many there
\* are, and the name, the size and the place of each.
FieldCount(version) ==
    CASE version = 0 -> 15 [] version = 1 -> 18 [] version = 2 -> 20
      [] version = 3 -> 8 [] OTHER -> 9
OldNames == <<"magic", "kernel_size", "kernel_addr", "ramdisk_size",
    "ramdisk_addr", "second_size", "second_addr", "tags_addr", "page_size",
    "header_version", "os_version", "name", "cmdline", "id", "extra_cmdline",
    "recovery_dtbo_size", "recovery_dtbo_offset", "header_size", "dtb_size",
    "dtb_addr">>
OldSizes == <<8, 4, 4, 4, 4, 4, 4, 4, 4, 4, 4, 16, 512, 32, 1024,
              4, 8, 4, 4, 8>>
OldPlaces == <<0, 8, 12, 16, 20, 24, 28, 32, 36, 40, 44, 48, 64, 576, 608,
               1632, 1636, 1644, 1648, 1652>>
NewerNames == <<"magic", "kernel_size", "ramdisk_size", "os_version",
    "header_size", "reserved", "header_version", "cmdline", "signature_size">>
NewerSizes == <<8, 4, 4, 4, 4, 16, 4, 1536, 4>>
NewerPlaces == <<0, 8, 12, 16, 20, 24, 40, 44, 1580>>

\* The fields up to version 2.
LEMMA OldFields ==
    ASSUME NEW a, a.version \in 0 .. 2
    PROVE  /\ Len(Header(a)) = FieldCount(a.version)
           /\ \A n \in 1 .. FieldCount(a.version) :
                 Header(a)[n].name = OldNames[n] /\ Header(a)[n].size = OldSizes[n]
           /\ \A n \in 1 .. 15 : Header(a)[n] = HeaderV0(a)[n]
           /\ a.version > 0 => \A n \in 1 .. 18 : Header(a)[n] = HeaderV1(a)[n]
           /\ a.version > 1 => \A n \in 1 .. 20 : Header(a)[n] = HeaderV2(a)[n]
<1>1. \A n \in 1 .. 15 : /\ HeaderV0(a)[n].name = OldNames[n]
                         /\ HeaderV0(a)[n].size = OldSizes[n]
  BY DEF HeaderV0, OldNames, OldSizes, Free, I, S, Field, OsWord,
         BOOT_NAME_SIZE, BOOT_EXTRA_ARGS_SIZE, BOOT_ARGS_SIZE
<1>2. /\ HeaderV1(a)[16].name = "recovery_dtbo_size" /\ HeaderV1(a)[16].size = 4
      /\ HeaderV1(a)[17].name = "recovery_dtbo_offset" /\ HeaderV1(a)[17].size = 8
      /\ HeaderV1(a)[18].name = "header_size" /\ HeaderV1(a)[18].size = 4
  <2>1. \A v : /\ I("recovery_dtbo_size", v).name = "recovery_dtbo_size"
               /\ I("recovery_dtbo_size", v).size = 4
               /\ Field("recovery_dtbo_offset", 8, v).name = "recovery_dtbo_offset"
               /\ Field("recovery_dtbo_offset", 8, v).size = 8
               /\ I("header_size", v).name = "header_size"
               /\ I("header_size", v).size = 4
    BY DEF I, Field
  <2>2. HeaderV1(a)[16] = I("recovery_dtbo_size", filesize(a.recovery_dtbo))
    BY FieldsV1
  <2>3. \E v : HeaderV1(a)[17] = Field("recovery_dtbo_offset", 8, v)
    BY FieldsV1, Zenon
  <2>4. \E v : HeaderV1(a)[18] = I("header_size", v)
    BY FieldsV1, ZenonT(60)
  <2> QED
    BY <2>1, <2>2, <2>3, <2>4
<1>3. /\ HeaderV2(a)[19].name = "dtb_size" /\ HeaderV2(a)[19].size = 4
      /\ HeaderV2(a)[20].name = "dtb_addr" /\ HeaderV2(a)[20].size = 8
  <2>1. \A v : /\ I("dtb_size", v).name = "dtb_size"
               /\ I("dtb_size", v).size = 4
    BY DEF I, Field
  <2>2. Free("dtb_addr", 8).name = "dtb_addr" /\ Free("dtb_addr", 8).size = 8
    BY DEF Free, Field
  <2>3. HeaderV2(a)[19] = I("dtb_size", filesize(a.dtb))
    BY FieldsV2
  <2>4. HeaderV2(a)[20] = Free("dtb_addr", 8)
    BY FieldsV2
  <2> QED
    BY <2>1, <2>2, <2>3, <2>4
<1>4. /\ \A n \in 1 .. 15 : HeaderV1(a)[n] = HeaderV0(a)[n]
      /\ \A n \in 1 .. 18 : HeaderV2(a)[n] = HeaderV1(a)[n]
      /\ Len(HeaderV0(a)) = 15 /\ Len(HeaderV1(a)) = 18 /\ Len(HeaderV2(a)) = 20
  BY FieldsV0, FieldsV1, FieldsV2
<1>5. /\ OldNames[16] = "recovery_dtbo_size" /\ OldSizes[16] = 4
      /\ OldNames[17] = "recovery_dtbo_offset" /\ OldSizes[17] = 8
      /\ OldNames[18] = "header_size" /\ OldSizes[18] = 4
      /\ OldNames[19] = "dtb_size" /\ OldSizes[19] = 4
      /\ OldNames[20] = "dtb_addr" /\ OldSizes[20] = 8
  BY DEF OldNames, OldSizes
<1>6. /\ \A n \in 1 .. 18 : n \in 1 .. 15 \/ n = 16 \/ n = 17 \/ n = 18
      /\ \A n \in 1 .. 20 : n \in 1 .. 18 \/ n = 19 \/ n = 20
      /\ \A n \in 1 .. 15 : n \in 1 .. 18
  OBVIOUS
<1>7. \A n \in 1 .. 18 : /\ HeaderV1(a)[n].name = OldNames[n]
                         /\ HeaderV1(a)[n].size = OldSizes[n]
  BY <1>1, <1>2, <1>4, <1>5, <1>6
<1>8. \A n \in 1 .. 20 : /\ HeaderV2(a)[n].name = OldNames[n]
                         /\ HeaderV2(a)[n].size = OldSizes[n]
  BY <1>3, <1>4, <1>5, <1>6, <1>7
<1>9. CASE a.version = 0
  <2>1. Header(a) = HeaderV0(a) /\ FieldCount(a.version) = 15
    BY <1>9 DEF Header, FieldCount
  <2> QED
    BY <1>1, <1>4, <1>9, <2>1
<1>10. CASE a.version = 1
  <2>1. Header(a) = HeaderV1(a) /\ FieldCount(a.version) = 18
    BY <1>10 DEF Header, FieldCount
  <2> QED
    BY <1>4, <1>7, <1>10, <2>1
<1>11. CASE a.version = 2
  <2>1. Header(a) = HeaderV2(a) /\ FieldCount(a.version) = 20
    BY <1>11 DEF Header, FieldCount
  <2> QED
    BY <1>4, <1>6, <1>8, <1>11, <2>1
<1>12. a.version = 0 \/ a.version = 1 \/ a.version = 2
  OBVIOUS
<1> QED
  BY <1>9, <1>10, <1>11, <1>12, Zenon

\* The fields from version 3 on.
LEMMA NewerFields ==
    ASSUME NEW a, a.version \in {3, 4}
    PROVE  /\ Len(Header(a)) = FieldCount(a.version)
           /\ \A n \in 1 .. FieldCount(a.version) :
                 /\ Header(a)[n].name = NewerNames[n]
                 /\ Header(a)[n].size = NewerSizes[n]
           /\ Header(a)[2].val = filesize(a.kernel)
           /\ Header(a)[3].val = filesize(a.ramdisk)
           /\ Header(a)[4].val = OsWord(a).val
           /\ Header(a)[5].val = IF a.version > 3 THEN 1584 ELSE 1580
           /\ Header(a)[8].val = a.cmdline
           /\ a.version = 4 => Header(a)[9].val = IF a.signature = Absent THEN 0
                                                  ELSE V4_SIGNATURE_SIZE
<1> DEFINE s == << Free("magic", 8), I("kernel_size", filesize(a.kernel)),
                I("ramdisk_size", filesize(a.ramdisk)), OsWord(a),
                I("header_size", IF a.version > 3 THEN BOOT_IMAGE_HEADER_V4_SIZE
                                 ELSE BOOT_IMAGE_HEADER_V3_SIZE),
                Free("reserved", 16), I("header_version", a.version),
                S("cmdline", BOOT_ARGS_SIZE + BOOT_EXTRA_ARGS_SIZE, a.cmdline) >>
           x == I("signature_size", IF a.signature = Absent THEN 0
                                  ELSE V4_SIGNATURE_SIZE)
           t == <<x>>
<1>1. /\ \A n \in 1 .. 8 : s[n].name = NewerNames[n] /\ s[n].size = NewerSizes[n]
      /\ s[2].val = filesize(a.kernel) /\ s[3].val = filesize(a.ramdisk)
      /\ s[4].val = OsWord(a).val /\ s[8].val = a.cmdline
      /\ s[5].val = IF a.version > 3 THEN 1584 ELSE 1580
  BY DEF NewerNames, NewerSizes, Free, I, S, Field, OsWord, BOOT_ARGS_SIZE,
         BOOT_EXTRA_ARGS_SIZE, BOOT_IMAGE_HEADER_V4_SIZE, BOOT_IMAGE_HEADER_V3_SIZE
<1>2. s \in Seq({s[n] : n \in 1 .. 8}) /\ Len(s) = 8
  OBVIOUS
<1>3. /\ x.name = NewerNames[9] /\ x.size = NewerSizes[9]
      /\ x.val = IF a.signature = Absent THEN 0 ELSE V4_SIGNATURE_SIZE
  BY DEF I, Field, NewerNames, NewerSizes
<1>4. Header(a) = HeaderV3(a)
  BY DEF Header
<1>5. CASE a.version = 3
  <2>1. HeaderV3(a) = s
    BY <1>5 DEF HeaderV3
  <2>2. FieldCount(a.version) = 8
    BY <1>5 DEF FieldCount
  <2> HIDE DEF s
  <2> QED
    BY <1>1, <1>2, <1>4, <1>5, <2>1, <2>2
<1>6. CASE a.version = 4
  <2>1. HeaderV3(a) = s \o t
    BY <1>6 DEF HeaderV3
  <2>2. FieldCount(a.version) = 9
    BY <1>6 DEF FieldCount
  <2> HIDE DEF s, x
  <2>3. t \in Seq({x}) /\ Len(t) = 1 /\ t[1] = x
    OBVIOUS
  <2> HIDE DEF t
  <2>4. IsSeq(s) /\ IsSeq(t)
    BY <1>2, <2>3 DEF IsSeq
  <2> DEFINE u == s \o t
  <2>5. /\ Len(u) = Len(s) + Len(t)
        /\ \A n \in 1 .. Len(s) : u[n] = s[n]
        /\ \A n \in 1 .. Len(t) : u[Len(s) + n] = t[n]
    BY <2>4, SeqJoin
  <2> HIDE DEF u
  <2>6. Len(u) = 9 /\ (\A n \in 1 .. 8 : u[n] = s[n]) /\ u[9] = x
    BY <1>2, <2>3, <2>5
  <2>7. \A n \in 1 .. 9 : n \in 1 .. 8 \/ n = 9
    OBVIOUS
  <2>8. \A n \in 1 .. 9 : u[n].name = NewerNames[n] /\ u[n].size = NewerSizes[n]
    BY <1>1, <1>3, <2>6, <2>7
  <2>9. /\ u[2] = s[2] /\ u[3] = s[3] /\ u[4] = s[4] /\ u[5] = s[5] /\ u[8] = s[8]
    BY <2>6
  <2>10. Header(a) = u
    BY <1>4, <2>1 DEF u
  <2> QED
    BY <1>1, <1>3, <1>6, <2>2, <2>6, <2>8, <2>9, <2>10
<1> QED
  BY <1>5, <1>6

\* Places follow from sizes.
LEMMA OldPlace ==
    ASSUME NEW f, IsFile(f), NEW k \in 1 .. 20, k <= Len(f),
           \A n \in 1 .. k : f[n].size = OldSizes[n]
    PROVE  /\ \A n \in 1 .. k : f[n].at = OldPlaces[n]
<1>1. Len(f) \in Nat
  BY FileEnd
<1>2. \A n \in 1 .. k : f[n].at = IF n = 1 THEN 0 ELSE f[n - 1].at + f[n - 1].size
  BY <1>1 DEF IsFile
<1>3. OldPlaces[1] = 0 /\ \A n \in 2 .. 20 : OldPlaces[n] = OldPlaces[n - 1] + OldSizes[n - 1]
  BY DEF OldPlaces, OldSizes
<1> DEFINE P == {n \in Nat : n + 1 <= k => f[n + 1].at = OldPlaces[n + 1]}
<1>4. 0 \in P
  BY SMTT(60), <1>2, <1>3
<1>5. ASSUME NEW n \in Nat, n \in P PROVE n + 1 \in P
  <2> SUFFICES ASSUME n + 2 <= k PROVE f[n + 2].at = OldPlaces[n + 2]
    OBVIOUS
  <2>1. /\ n + 2 \in 1 .. k /\ n + 1 \in 1 .. k /\ n + 2 \in 2 .. 20
        /\ n + 2 # 1 /\ (n + 2) - 1 = n + 1
    OBVIOUS
  <2>2. f[n + 1].at = OldPlaces[n + 1] /\ f[n + 1].size = OldSizes[n + 1]
    BY <1>5, <2>1
  <2>3. f[n + 2].at = f[n + 1].at + f[n + 1].size
    BY <1>2, <2>1
  <2>4. OldPlaces[n + 2] = OldPlaces[n + 1] + OldSizes[n + 1]
    BY <1>3, <2>1
  <2> QED
    BY <2>2, <2>3, <2>4
<1>6. Nat \subseteq P
  <2> HIDE DEF P
  <2> QED
    BY <1>4, <1>5, SetInduction
<1>7. ASSUME NEW n \in 1 .. k PROVE f[n].at = OldPlaces[n]
  <2>1. n - 1 \in Nat /\ (n - 1) + 1 = n
    OBVIOUS
  <2>2. n - 1 \in P
    BY <1>6, <2>1
  <2> QED
    BY <2>1, <2>2
<1> QED
  BY <1>7

\* Where those of version 3 and 4 are.
LEMMA NewerPlace ==
    ASSUME NEW f, IsFile(f), NEW k \in 8 .. 9, k <= Len(f),
           \A n \in 1 .. k : f[n].size = NewerSizes[n]
    PROVE  /\ \A n \in 1 .. k : f[n].at = NewerPlaces[n]
<1>1. Len(f) \in Nat
  BY FileEnd
<1>2. \A n \in 1 .. k : f[n].at = IF n = 1 THEN 0 ELSE f[n - 1].at + f[n - 1].size
  BY <1>1 DEF IsFile
<1>3. /\ NewerPlaces[1] = 0
      /\ \A n \in 2 .. 9 :
            NewerPlaces[n] = NewerPlaces[n - 1] + NewerSizes[n - 1]
  BY DEF NewerPlaces, NewerSizes
<1> DEFINE P == {n \in Nat : n + 1 <= k => f[n + 1].at = NewerPlaces[n + 1]}
<1>4. 0 \in P
  BY <1>2, <1>3
<1>5. ASSUME NEW n \in Nat, n \in P PROVE n + 1 \in P
  <2> SUFFICES ASSUME n + 2 <= k PROVE f[n + 2].at = NewerPlaces[n + 2]
    OBVIOUS
  <2>1. /\ n + 2 \in 1 .. k /\ n + 1 \in 1 .. k /\ n + 2 \in 2 .. 9
        /\ n + 2 # 1 /\ (n + 2) - 1 = n + 1
    OBVIOUS
  <2>2. f[n + 1].at = NewerPlaces[n + 1] /\ f[n + 1].size = NewerSizes[n + 1]
    BY <1>5, <2>1
  <2>3. f[n + 2].at = f[n + 1].at + f[n + 1].size
    BY <1>2, <2>1
  <2>4. NewerPlaces[n + 2] = NewerPlaces[n + 1] + NewerSizes[n + 1]
    BY <1>3, <2>1
  <2> QED
    BY <2>2, <2>3, <2>4
<1>6. Nat \subseteq P
  <2> HIDE DEF P
  <2> QED
    BY <1>4, <1>5, SetInduction
<1>7. ASSUME NEW n \in 1 .. k PROVE f[n].at = NewerPlaces[n]
  <2>1. n - 1 \in Nat /\ (n - 1) + 1 = n
    OBVIOUS
  <2>2. n - 1 \in P
    BY <1>6, <2>1
  <2> QED
    BY <2>1, <2>2
<1> QED
  BY <1>7

FieldNames(version) == IF version <= 2 THEN OldNames ELSE NewerNames
FieldSizes(version) == IF version <= 2 THEN OldSizes ELSE NewerSizes
FieldPlaces(version) == IF version <= 2 THEN OldPlaces ELSE NewerPlaces
HeaderBytes(version) ==
    CASE version = 0 -> 1632 [] version = 1 -> 1648 [] version = 2 -> 1660
      [] version = 3 -> 1580 [] OTHER -> 1584

\* No header has a field twice.
LEMMA OtherFieldNames ==
    /\ \A n \in 1 .. 20 : \A m \in 1 .. n - 1 : OldNames[m] # OldNames[n]
    /\ \A n \in 1 .. 9 : \A m \in 1 .. n - 1 : NewerNames[m] # NewerNames[n]
<1> DEFINE Old(name) == CHOOSE n \in 1 .. 20 : OldNames[n] = name
<1>1. \A n \in 1 .. 20 : \A m \in 1 .. 20 : m < n => OldNames[m] # OldNames[n]
  BY DEF OldNames
<1>2. \A n \in 1 .. 9 : \A m \in 1 .. 9 : m < n => NewerNames[m] # NewerNames[n]
  BY DEF NewerNames
<1>3. /\ \A n \in 1 .. 20 : \A m \in 1 .. n - 1 : m \in 1 .. 20 /\ m < n
      /\ \A n \in 1 .. 9 : \A m \in 1 .. n - 1 : m \in 1 .. 9 /\ m < n
  OBVIOUS
<1> QED
  BY <1>1, <1>2, <1>3

\* Header(a) as fields of these names and sizes.
LEMMA FieldsOf ==
    ASSUME NEW a, a.version \in 0 .. 4
    PROVE  /\ Len(Header(a)) = FieldCount(a.version)
           /\ FieldCount(a.version) \in 8 .. 20
           /\ \A n \in 1 .. FieldCount(a.version) :
                 /\ Header(a)[n].name = FieldNames(a.version)[n]
                 /\ Header(a)[n].size = FieldSizes(a.version)[n]
                 /\ \A m \in 1 .. n - 1 :
                       FieldNames(a.version)[m] # FieldNames(a.version)[n]
<1>0. /\ FieldCount(a.version) \in 8 .. 20
      /\ (a.version \in {3, 4} => FieldCount(a.version) \in 8 .. 9)
  BY DEF FieldCount
<1>1. CASE a.version \in 0 .. 2
  <2>1. FieldNames(a.version) = OldNames /\ FieldSizes(a.version) = OldSizes
    BY <1>1 DEF FieldNames, FieldSizes
  <2>2. \A n \in 1 .. FieldCount(a.version) : n \in 1 .. 20
    BY <1>0
  <2>3. /\ Len(Header(a)) = FieldCount(a.version)
        /\ \A n \in 1 .. FieldCount(a.version) :
              /\ Header(a)[n].name = OldNames[n]
              /\ Header(a)[n].size = OldSizes[n]
    BY <1>1, OldFields
  <2>4. \A n \in 1 .. FieldCount(a.version) :
          \A m \in 1 .. n - 1 : OldNames[m] # OldNames[n]
    BY <2>2, OtherFieldNames
  <2> QED
    BY <1>0, <2>1, <2>3, <2>4
<1>2. CASE a.version \in {3, 4}
  <2>1. FieldNames(a.version) = NewerNames /\ FieldSizes(a.version) = NewerSizes
    BY <1>2 DEF FieldNames, FieldSizes
  <2>2. \A n \in 1 .. FieldCount(a.version) : n \in 1 .. 9
    BY <1>0, <1>2
  <2>3. /\ Len(Header(a)) = FieldCount(a.version)
        /\ \A n \in 1 .. FieldCount(a.version) :
              /\ Header(a)[n].name = NewerNames[n]
              /\ Header(a)[n].size = NewerSizes[n]
    BY <1>2, NewerFields
  <2>4. \A n \in 1 .. FieldCount(a.version) :
          \A m \in 1 .. n - 1 : NewerNames[m] # NewerNames[n]
    BY <2>2, OtherFieldNames
  <2> QED
    BY <1>0, <2>1, <2>3, <2>4
<1> QED
  BY <1>1, <1>2

\* A file that begins with fields of these sizes has them at their places.
LEMMA FieldPlace ==
    ASSUME NEW f, IsFile(f), NEW v \in 0 .. 4, FieldCount(v) <= Len(f),
           \A n \in 1 .. FieldCount(v) : f[n].size = FieldSizes(v)[n]
    PROVE  /\ \A n \in 1 .. FieldCount(v) : f[n].at = FieldPlaces(v)[n]
           /\ Len(f) = FieldCount(v) => Tell(f) = HeaderBytes(v)
<1>1. CASE v \in 0 .. 2
  <2>1. FieldCount(v) \in 1 .. 20 /\ FieldCount(v) # 0
    BY <1>1 DEF FieldCount
  <2>2. FieldSizes(v) = OldSizes /\ FieldPlaces(v) = OldPlaces
    BY <1>1 DEF FieldSizes, FieldPlaces
  <2>3. \A n \in 1 .. FieldCount(v) : f[n].at = OldPlaces[n]
    BY <2>1, <2>2, OldPlace
  <2>4. OldPlaces[FieldCount(v)] + OldSizes[FieldCount(v)] = HeaderBytes(v)
    <3>1. /\ OldPlaces[15] + OldSizes[15] = 1632
          /\ OldPlaces[18] + OldSizes[18] = 1648
          /\ OldPlaces[20] + OldSizes[20] = 1660
      BY DEF OldPlaces, OldSizes
    <3>2. \/ FieldCount(v) = 15 /\ HeaderBytes(v) = 1632
          \/ FieldCount(v) = 18 /\ HeaderBytes(v) = 1648
          \/ FieldCount(v) = 20 /\ HeaderBytes(v) = 1660
      BY <1>1 DEF FieldCount, HeaderBytes
    <3> QED
      BY <3>1, <3>2
  <2>5. Len(f) = FieldCount(v) => Tell(f) = HeaderBytes(v)
    <3> SUFFICES ASSUME Len(f) = FieldCount(v) PROVE Tell(f) = HeaderBytes(v)
      OBVIOUS
    <3>1. Tell(f) = f[FieldCount(v)].at + f[FieldCount(v)].size
      BY <2>1, FileEnd
    <3>2. FieldCount(v) \in 1 .. FieldCount(v)
      BY <2>1
    <3> QED
      BY <2>2, <2>3, <2>4, <3>1, <3>2
  <2> QED
    BY <2>2, <2>3, <2>5
<1>2. CASE v \in {3, 4}
  <2>1. FieldCount(v) \in 8 .. 9 /\ FieldCount(v) # 0
    BY <1>2 DEF FieldCount
  <2>2. FieldSizes(v) = NewerSizes /\ FieldPlaces(v) = NewerPlaces
    BY <1>2 DEF FieldSizes, FieldPlaces
  <2>3. \A n \in 1 .. FieldCount(v) : f[n].at = NewerPlaces[n]
    BY <2>1, <2>2, NewerPlace
  <2>4. NewerPlaces[FieldCount(v)] + NewerSizes[FieldCount(v)] = HeaderBytes(v)
    BY <1>2 DEF NewerPlaces, NewerSizes, FieldCount, HeaderBytes
  <2>5. Len(f) = FieldCount(v) => Tell(f) = HeaderBytes(v)
    <3> SUFFICES ASSUME Len(f) = FieldCount(v) PROVE Tell(f) = HeaderBytes(v)
      OBVIOUS
    <3>1. Tell(f) = f[FieldCount(v)].at + f[FieldCount(v)].size
      BY <2>1, FileEnd
    <3>2. FieldCount(v) \in 1 .. FieldCount(v)
      BY <2>1
    <3> QED
      BY <2>2, <2>3, <2>4, <3>1, <3>2
  <2> QED
    BY <2>2, <2>3, <2>5
<1> QED
  BY <1>1, <1>2

\* The header as read back from a file that begins with it.
HeaderIn(f, a) ==
    \A n \in 1 .. FieldCount(a.version) :
       /\ f[n].name = FieldNames(a.version)[n]
       /\ f[n].size = FieldSizes(a.version)[n]
       /\ f[n].at = FieldPlaces(a.version)[n]
       /\ f[n].val = Header(a)[n].val
       /\ Has(f, FieldNames(a.version)[n])
       /\ Piece(f, FieldNames(a.version)[n]) = f[n]

\* A file that goes on after the header holds it.
LEMMA HeaderHeld ==
    ASSUME NEW a \in CommandLines, a.version \in 0 .. 4,
           NEW h, h = Put(<<>>, Header(a)), NEW f, IsFile(f), Prefix(h, f)
    PROVE  HeaderIn(f, a) /\ Tell(h) = HeaderBytes(a.version)
<1> DEFINE count == FieldCount(a.version)
           Sizes_ == FieldSizes(a.version)
           Names_ == FieldNames(a.version)
           Places_ == FieldPlaces(a.version)
<1>1. /\ Len(Header(a)) = count /\ count \in 8 .. 20
      /\ \A n \in 1 .. count : /\ Header(a)[n].name = Names_[n]
                               /\ Header(a)[n].size = Sizes_[n]
                               /\ \A m \in 1 .. n - 1 : Names_[m] # Names_[n]
  BY FieldsOf
<1>2. /\ IsFile(h) /\ Len(h) = Len(Header(a))
      /\ \A n \in 1 .. Len(h) : /\ h[n].name = Header(a)[n].name
                                /\ h[n].size = Header(a)[n].size
                                /\ h[n].val = Header(a)[n].val
  BY HeadParts
<1>3. a.version \in 0 .. 4
  OBVIOUS
<1>4. /\ \A n \in 1 .. count : h[n].at = Places_[n]
      /\ Tell(h) = HeaderBytes(a.version)
  <2>1. /\ count <= Len(h) /\ Len(h) = count
        /\ \A n \in 1 .. count : h[n].size = Sizes_[n]
    BY <1>1, <1>2
  <2> QED
    BY <1>2, <1>3, <2>1, FieldPlace
<1> HIDE DEF count, Sizes_, Names_, Places_
<1>5. ASSUME NEW n \in 1 .. count
      PROVE  /\ f[n].name = Names_[n] /\ f[n].size = Sizes_[n]
             /\ f[n].at = Places_[n] /\ f[n].val = Header(a)[n].val
             /\ Has(f, Names_[n]) /\ Piece(f, Names_[n]) = f[n]
  <2>0. Len(f) \in Nat /\ Len(h) = count /\ count <= Len(f)
    BY <1>1, <1>2, FileEnd DEF Prefix
  <2>1. \A m \in 1 .. count : f[m] = h[m] /\ f[m].name = Names_[m]
    BY <1>1, <1>2, <2>0 DEF Prefix
  <2>2. \A m \in 1 .. n - 1 : m \in 1 .. count
    BY <1>1
  <2>3. \A m \in 1 .. n - 1 : f[m].name # f[n].name
    BY <1>1, <2>1, <2>2
  <2>4. n \in 1 .. Len(f)
    BY <1>1, <2>0
  <2>5. Has(f, f[n].name) /\ Piece(f, f[n].name) = f[n]
    BY <2>3, <2>4, PieceIs
  <2> QED
    BY <1>1, <1>2, <1>4, <2>0, <2>1, <2>5
<1> QED
  BY <1>4, <1>5 DEF HeaderIn, count, Sizes_, Names_, Places_

-----------------------------------------------------------------------------
(* The invariant of the writer: its file is what it has written so far. *)

\* Command lines that parse_cmdline lets through, and those of them that
\* write_header does.
Accepted(a) ==
    /\ a \in CommandLines /\ StringsFit(a) /\ Asserts(a)
    /\ a.version < 3 => extra_cmdline(a) <= BOOT_EXTRA_ARGS_SIZE
Writable(a) ==
    /\ Accepted(a) /\ a.version \in 0 .. 4
    /\ a.version > 2 => a.second = Absent
    /\ a.version = 2 => filesize(a.dtb) > 0

\* A file that is, or begins with, a header of this command line.
Begun(f, a) ==
    \/ a.version = 2 /\ f = Put(<<>>, HeaderV1(a))
    \/ Writable(a) /\ f \in {HeadOf(a), DataOf(a), ImageOf(a)}

CertifySteps == {"certifying", "certify", "footer"}
DoneSteps == CertifySteps \cup {"done"}

\* The scripts write the header and then the data of a command line they have
\* accepted, and certify only what is whole.
WriterInv ==
    /\ args \in CommandLines /\ step # "cut"
    /\ step \in {"vendor", "header"} => Accepted(args)
    /\ step \in {"parse", "vendor", "header"} => output = <<>> /\ images = <<>>
    /\ step = "data" => /\ Writable(args) /\ output = HeadOf(args)
                        /\ images = <<>>
    /\ step \in DoneSteps \/ images # <<>> =>
          Writable(args) /\ output = ImageOf(args)
    /\ output # <<>> =>
          Accepted(args) /\ args.version \in 0 .. 4 /\ Begun(output, args)

\* The writer begins so.
LEMMA WriterInitially == FlashInit => WriterInv
<1> SUFFICES ASSUME FlashInit PROVE WriterInv
  OBVIOUS
<1>1. args \in CommandLines
  <2>1. img \in Images
    BY DEF FlashInit, Init
  <2> QED
    BY <2>1, FlashAssumption DEF FlashInit
<1>2. step = "parse" /\ output = <<>> /\ images = <<>>
  BY DEF FlashInit, WriterInit, MkInit, CertifyInit
<1>3. step # "cut" /\ step \notin {"vendor", "header"} /\ step # "data"
  BY <1>2
<1>4. ~(step \in DoneSteps \/ images # <<>>)
  BY <1>2 DEF DoneSteps, CertifySteps
<1> QED
  BY <1>1, <1>2, <1>3, <1>4 DEF WriterInv

\* No command line that is let through fails the assertion on its halves.
LEMMA NotCut ==
    ASSUME NEW a \in CommandLines, StringsFit(a), a.version < 3
    PROVE  extra_cmdline(a) <= BOOT_EXTRA_ARGS_SIZE
<1>1. a.cmdline \in Nat /\ a.cmdline <= 1535
  BY ArgTypes DEF StringsFit, Asciiz, CmdlineSize, BOOT_ARGS_SIZE,
         BOOT_EXTRA_ARGS_SIZE
<1> QED
  BY <1>1 DEF extra_cmdline, BOOT_ARGS_SIZE, BOOT_EXTRA_ARGS_SIZE

\* Every step keeps it so.
LEMMA WriterNextInv == WriterInv /\ [FlashNext]_<<vars, wvars>> => WriterInv'
<1> SUFFICES ASSUME WriterInv, [FlashNext]_<<vars, wvars>> PROVE WriterInv'
  OBVIOUS
<1> USE DEF WriterInv, DoneSteps, CertifySteps
<1>1. CASE UNCHANGED wvars
  BY <1>1 DEF wvars, mkvars, cvars, files
<1>2. CASE ParseRefuses /\ UNCHANGED cvars
  BY <1>2 DEF ParseRefuses, Stop, files, cvars
<1>3. CASE AssertFails /\ UNCHANGED cvars
  BY <1>3 DEF AssertFails, Stop, files, cvars
<1>4. CASE Parsed /\ UNCHANGED cvars
  <2>1. args' = args /\ output' = output /\ images' = images /\ step = "parse"
        /\ StringsFit(args) /\ Asserts(args)
    BY <1>4 DEF Parsed, cvars
  <2>2. args.version < 3 => extra_cmdline(args) <= BOOT_EXTRA_ARGS_SIZE
    BY <2>1, NotCut
  <2>3. ~(args.version < 3 /\ extra_cmdline(args) > BOOT_EXTRA_ARGS_SIZE)
    <3>1. args.version < 3 => args.cmdline \in Nat /\ extra_cmdline(args) \in Int
      BY ArgTypes DEF extra_cmdline, BOOT_ARGS_SIZE
    <3> QED
      BY <2>2, <3>1 DEF BOOT_EXTRA_ARGS_SIZE
  <2>4. step' \in {"vendor", "header"}
    BY <1>4, <2>3 DEF Parsed
  <2>5. Accepted(args)
    BY <2>1, <2>2 DEF Accepted
  <2> QED
    BY <2>1, <2>4, <2>5
<1>5. CASE VendorRefuses /\ UNCHANGED cvars
  BY <1>5 DEF VendorRefuses, Stop, files, cvars
<1>6. CASE WriteVendorBoot /\ UNCHANGED cvars
  BY <1>6 DEF WriteVendorBoot, cvars
<1>7. CASE NoOutput /\ UNCHANGED cvars
  BY <1>7 DEF NoOutput, Stop, files, cvars
<1>8. CASE HeaderRefuses /\ UNCHANGED cvars
  <2>1. args' = args /\ images' = images /\ step = "header" /\ step' = "error"
    BY <1>8 DEF HeaderRefuses, cvars
  <2>2. \/ output' = output
        \/ args.version = 2 /\ output' = Put(<<>>, HeaderV1(args))
    BY <1>8 DEF HeaderRefuses
  <2>3. CASE output' = output
    BY <2>1, <2>3
  <2>4. CASE args.version = 2 /\ output' = Put(<<>>, HeaderV1(args))
    BY <2>1, <2>4 DEF Begun
  <2> QED
    BY <2>2, <2>3, <2>4
<1>9. CASE WriteHeader /\ UNCHANGED cvars
  <2>1. /\ args' = args /\ images' = images /\ step = "header" /\ step' = "data"
        /\ args.version <= 4 /\ (args.version > 2 => args.second = Absent)
        /\ (args.version = 2 => filesize(args.dtb) > 0)
        /\ output' = HeadOf(args)
    BY <1>9 DEF WriteHeader, cvars, HeadOf
  <2>2. args.version \in 0 .. 4
    <3>1. args.version \in Nat
      BY ArgTypes
    <3> QED
      BY <2>1, <3>1
  <2>3. Writable(args) /\ Accepted(args)
    BY <2>1, <2>2 DEF Writable
  <2>4. Begun(HeadOf(args), args)
    BY <2>3 DEF Begun
  <2> QED
    BY <2>1, <2>2, <2>3, <2>4
<1>10. CASE WriteData /\ UNCHANGED cvars
  <2>1. /\ args' = args /\ images' = images /\ step = "data"
        /\ Writable(args) /\ output = HeadOf(args) /\ images = <<>>
        /\ Accepted(args) /\ args.version \in 0 .. 4
    BY <1>10 DEF WriteData, cvars, Writable
  <2>2. \/ step' = "done" /\ output' = ImageOf(args)
        \/ step' = "error" /\ output' = DataOf(args)
    <3>1. Data(output, args, HeaderPage(args)) = DataOf(args)
      BY <2>1 DEF DataOf
    <3> QED
      BY <1>10, <3>1 DEF WriteData, ImageOf, SignatureOf
  <2>3. Begun(DataOf(args), args) /\ Begun(ImageOf(args), args)
    BY <2>1 DEF Begun
  <2> QED
    BY <2>1, <2>2, <2>3
<1>11. CASE Build
  <2>1. /\ UNCHANGED <<args, step, output>> /\ step = "done"
    BY <1>11 DEF Build, mkvars, files
  <2> QED
    BY <2>1
<1>12. CASE CertifyRefuses
  BY <1>12 DEF CertifyRefuses, Give_up, files, cvars
<1>13. CASE StartCertify
  BY <1>13 DEF StartCertify, files
<1>14. CASE CertifyOne
  BY <1>14 DEF CertifyOne, files
<1>15. CASE CertifyFails
  BY <1>15 DEF CertifyFails, Give_up, files, cvars
<1>16. CASE AddCertificate
  BY <1>16 DEF AddCertificate, files
<1>17. CASE AddFooter
  BY <1>17 DEF AddFooter, files
<1>18. CASE MakeArchive
  BY <1>18 DEF MakeArchive, files
<1> QED
  BY <1>1, <1>2, <1>3, <1>4, <1>5, <1>6, <1>7, <1>8, <1>9, <1>10, <1>11,
     <1>12, <1>13, <1>14, <1>15, <1>16, <1>17, <1>18
     DEF FlashNext, WriterNext, MkNext, CertifyNext

-----------------------------------------------------------------------------
(* The loader's structures. *)

\* A file of these fields alone.
LEMMA PutFirst ==
    ASSUME NEW s, IsFields(s), NEW g, g = Put(<<>>, s)
    PROVE  /\ IsFile(g) /\ Len(g) = Len(s) /\ Len(s) \in Nat
           /\ \A n \in 1 .. Len(s) : /\ g[n].name = s[n].name
                                     /\ g[n].size = s[n].size
                                     /\ g[n].val = s[n].val
<1> DEFINE e == <<>>
<1>1. g = Put(e, s)
  OBVIOUS
<1>2. IsFile(e) /\ Len(e) = 0
  BY EmptyFile
<1> HIDE DEF e
<1>3. /\ IsFile(g) /\ Len(g) = Len(e) + Len(s)
      /\ \A n \in 1 .. Len(e) : g[n] = e[n]
      /\ \A n \in 1 .. Len(s) :
            /\ g[Len(e) + n].name = s[n].name
            /\ g[Len(e) + n].size = s[n].size
            /\ g[Len(e) + n].val = s[n].val
            /\ g[Len(e) + n] =
                 [name |-> s[n].name, at |-> g[Len(e) + n].at,
                  size |-> s[n].size, val |-> s[n].val]
      /\ Len(s) > 0 => g[Len(e) + 1].at = Tell(e)
      /\ Len(s) = 0 => g = e
  BY <1>1, <1>2, PutFile, Zenon
<1>4. Len(s) \in Nat
  BY SeqParts DEF IsFields
<1>5. \A n \in 1 .. Len(s) : Len(e) + n = n
  BY <1>2, <1>4
<1>6. ASSUME NEW n \in 1 .. Len(s)
      PROVE  /\ g[n].name = s[n].name /\ g[n].size = s[n].size
             /\ g[n].val = s[n].val
  <2>1. Len(e) + n = n
    BY <1>5
  <2>2. /\ g[Len(e) + n].name = s[n].name /\ g[Len(e) + n].size = s[n].size
        /\ g[Len(e) + n].val = s[n].val
    BY <1>3
  <2> QED
    BY <2>1, <2>2
<1>7. Len(g) = Len(s)
  BY <1>2, <1>3, <1>4
<1> QED
  BY <1>3, <1>4, <1>6, <1>7

\* A structure whose fields begin like those of the older headers.
OldLike(s, k) ==
    /\ IsFields(s) /\ k \in 1 .. 20 /\ k <= Len(s)
    /\ \A n \in 1 .. k : s[n].name = OldNames[n] /\ s[n].size = OldSizes[n]

\* The fields of a structure are where those of a header are.
LEMMA StructPlace ==
    ASSUME NEW s, NEW k, OldLike(s, k), NEW g, g = Put(<<>>, s)
    PROVE  /\ Len(g) = Len(s) /\ DOMAIN g = 1 .. Len(s)
           /\ \A n \in 1 .. k : /\ g[n].name = OldNames[n]
                                /\ Piece(g, OldNames[n]) = g[n]
                                /\ g[n].at = OldPlaces[n]
                                /\ g[n].size = OldSizes[n]
<1>0. /\ IsFields(s) /\ k \in 1 .. 20 /\ k <= Len(s)
      /\ \A n \in 1 .. k : s[n].name = OldNames[n] /\ s[n].size = OldSizes[n]
  BY DEF OldLike
<1>1. /\ IsFile(g) /\ Len(g) = Len(s) /\ Len(s) \in Nat
      /\ \A n \in 1 .. Len(s) : /\ g[n].name = s[n].name
                                /\ g[n].size = s[n].size
                                /\ g[n].val = s[n].val
  BY <1>0, PutFirst
<1>2. k \in 1 .. 20 /\ \A n \in 1 .. k : n \in 1 .. Len(s)
  BY <1>0, <1>1
<1>3. \A n \in 1 .. k : g[n].name = OldNames[n] /\ g[n].size = OldSizes[n]
  BY <1>0, <1>1, <1>2
<1>4. \A n \in 1 .. k : g[n].at = OldPlaces[n]
  BY <1>0, <1>1, <1>3, OldPlace
<1>5. ASSUME NEW n \in 1 .. k PROVE Piece(g, OldNames[n]) = g[n]
  <2>1. n \in 1 .. Len(g) /\ n \in 1 .. 20
    BY <1>1, <1>2
  <2>2. \A m \in 1 .. n - 1 : m \in 1 .. k
    BY <1>2
  <2>3. \A m \in 1 .. n - 1 : OldNames[m] # OldNames[n]
    BY <2>1, OtherFieldNames
  <2>4. \A m \in 1 .. n - 1 : g[m].name # g[n].name
    BY <1>3, <2>2, <2>3
  <2>5. Piece(g, g[n].name) = g[n]
    BY <1>1, <2>1, <2>4, PieceIs
  <2> QED
    BY <1>3, <2>5
<1>6. DOMAIN g = 1 .. Len(s)
  BY <1>1, SeqParts DEF IsFile
<1> QED
  BY <1>1, <1>3, <1>4, <1>5, <1>6

\* The structure of version 2.
LEMMA StructV2 ==
    /\ DOMAIN boot_img_hdr_v2 = 1 .. 20
    /\ \A n \in 1 .. 20 :
         /\ boot_img_hdr_v2[n].name = OldNames[n]
         /\ Piece(boot_img_hdr_v2, OldNames[n]).at = OldPlaces[n]
         /\ Piece(boot_img_hdr_v2, OldNames[n]).size = OldSizes[n]
<1> DEFINE s == << Free("magic", 8), Free("kernel_size", 4), Free("kernel_addr", 4),
       Free("ramdisk_size", 4), Free("ramdisk_addr", 4), Free("second_size", 4),
       Free("second_addr", 4), Free("tags_addr", 4), Free("page_size", 4),
       Free("header_version", 4), Free("os_version", 4), Free("name", 16),
       Free("cmdline", 512), Free("id", 32), Free("extra_cmdline", 1024),
       Free("recovery_dtbo_size", 4), Free("recovery_dtbo_offset", 8),
       Free("header_size", 4), Free("dtb_size", 4), Free("dtb_addr", 8) >>
<1>1. s \in Seq({s[n] : n \in 1 .. 20}) /\ Len(s) = 20
  OBVIOUS
<1>2. \A n \in 1 .. 20 : /\ s[n].name = OldNames[n] /\ s[n].size = OldSizes[n]
                         /\ s[n].size \in Nat
  BY DEF Free, Field, OldNames, OldSizes
<1>3. boot_img_hdr_v2 = Put(<<>>, s)
  BY DEF boot_img_hdr_v2
<1> HIDE DEF s
<1>4. IsFields(s)
  BY <1>1, <1>2 DEF IsFields, IsSeq
<1> DEFINE g == boot_img_hdr_v2
<1>5. g = Put(<<>>, s)
  BY <1>3
<1> HIDE DEF g
<1>6. /\ Len(g) = Len(s) /\ DOMAIN g = 1 .. Len(s)
      /\ \A n \in 1 .. 20 : /\ g[n].name = OldNames[n]
                            /\ Piece(g, OldNames[n]) = g[n]
                            /\ g[n].at = OldPlaces[n]
                            /\ g[n].size = OldSizes[n]
  <2> DEFINE k == 20
  <2>1. k \in 1 .. 20 /\ k <= Len(s)
    BY <1>1
  <2>2. OldLike(s, k)
    BY <1>2, <1>4, <2>1 DEF OldLike
  <2> HIDE DEF k
  <2>3. /\ Len(g) = Len(s) /\ DOMAIN g = 1 .. Len(s)
        /\ \A n \in 1 .. k : /\ g[n].name = OldNames[n]
                              /\ Piece(g, OldNames[n]) = g[n]
                              /\ g[n].at = OldPlaces[n]
                              /\ g[n].size = OldSizes[n]
    BY <1>5, <2>2, StructPlace
  <2> QED
    BY <2>3 DEF k
<1> QED
  BY <1>1, <1>6 DEF g

\* The structure of the board's loader.
LEMMA StructJz ==
    \A n \in 1 .. 9 :
         /\ jz_boot_img_hdr[n].name = OldNames[n]
         /\ Piece(jz_boot_img_hdr, OldNames[n]).at = OldPlaces[n]
         /\ Piece(jz_boot_img_hdr, OldNames[n]).size = OldSizes[n]
<1> DEFINE s == << Free("magic", 8), Free("kernel_size", 4), Free("kernel_addr", 4),
       Free("ramdisk_size", 4), Free("ramdisk_addr", 4), Free("second_size", 4),
       Free("second_addr", 4), Free("tags_addr", 4), Free("page_size", 4), Free("unused", 8),
       Free("name", 16), Free("cmdline", 512), Free("id", 32),
       Free("kcrc32", 4), Free("rcrc32", 4), Free("digi_sign_len", 4),
       Free("digi_sign", 4) >>
<1>1. s \in Seq({s[n] : n \in 1 .. 17}) /\ Len(s) = 17
  OBVIOUS
<1>2. \A n \in 1 .. 17 : s[n].size \in Nat
  BY DEF Free, Field
<1>3. \A n \in 1 .. 9 : s[n].name = OldNames[n] /\ s[n].size = OldSizes[n]
  BY DEF Free, Field, OldNames, OldSizes
<1>4. jz_boot_img_hdr = Put(<<>>, s)
  BY DEF jz_boot_img_hdr
<1> HIDE DEF s
<1>5. IsFields(s)
  BY <1>1, <1>2 DEF IsFields, IsSeq
<1> DEFINE g == jz_boot_img_hdr
<1>6. g = Put(<<>>, s)
  BY <1>4
<1> HIDE DEF g
<1>7. /\ Len(g) = Len(s) /\ DOMAIN g = 1 .. Len(s)
      /\ \A n \in 1 .. 9 : /\ g[n].name = OldNames[n]
                           /\ Piece(g, OldNames[n]) = g[n]
                           /\ g[n].at = OldPlaces[n]
                           /\ g[n].size = OldSizes[n]
  <2> DEFINE k == 9
  <2>1. k \in 1 .. 20 /\ k <= Len(s)
    BY <1>1
  <2>2. OldLike(s, k)
    BY <1>3, <1>5, <2>1 DEF OldLike
  <2> HIDE DEF k
  <2>3. /\ Len(g) = Len(s) /\ DOMAIN g = 1 .. Len(s)
        /\ \A n \in 1 .. k : /\ g[n].name = OldNames[n]
                              /\ Piece(g, OldNames[n]) = g[n]
                              /\ g[n].at = OldPlaces[n]
                              /\ g[n].size = OldSizes[n]
    BY <1>6, <2>2, StructPlace
  <2> QED
    BY <2>3 DEF k
<1> QED
  BY <1>7 DEF g

\* What the writer leaves of a header it has written whole.
LEMMA Headed ==
    ASSUME NEW a, Writable(a), NEW f, f \in {HeadOf(a), DataOf(a), ImageOf(a)}
    PROVE  /\ IsFile(f) /\ Prefix(Put(<<>>, Header(a)), f) /\ HeaderIn(f, a)
           /\ IsFile(Put(<<>>, Header(a)))
           /\ NewNames(Put(<<>>, Header(a)), f, OtherNames)
           /\ Tell(Put(<<>>, Header(a))) = HeaderBytes(a.version)
           /\ Has(f, "pad") /\ HeaderEnd(f) = HeaderBytes(a.version)
<1> DEFINE h == Put(<<>>, Header(a))
           at == DataAt(Padded(Tell(h), HeaderPage(a)), a, HeaderPage(a))
<1>1. a \in CommandLines /\ a.version \in 0 .. 4
  BY DEF Writable, Accepted
<1>2. h = Put(<<>>, Header(a))
  OBVIOUS
<1>3. at = DataAt(Padded(Tell(h), HeaderPage(a)), a, HeaderPage(a))
  OBVIOUS
<1> HIDE DEF h, at
<1>4. IsFile(h) /\ IsFile(f) /\ Prefix(h, f) /\ NewNames(h, f, OtherNames)
      /\ Has(f, "pad") /\ Piece(f, "pad").at = Tell(h)
  <2>1. CASE f = HeadOf(a)
    <3>1. IsFile(h) /\ IsFile(f) /\ Prefix(h, f) /\ NewNames(h, f, {"pad"})
          /\ Has(f, "pad") /\ Piece(f, "pad").at = Tell(h)
      BY <1>1, <1>2, <2>1, HeadParts
    <3> QED
      BY <3>1 DEF NewNames, OtherNames
  <2>2. CASE f = DataOf(a)
    <3>1. IsFile(h) /\ IsFile(f) /\ Prefix(h, f) /\ NewNames(h, f, DataNames)
          /\ Has(f, "pad") /\ Piece(f, "pad").at = Tell(h)
      BY <1>1, <1>2, <1>3, <2>2, DataOfParts
    <3> QED
      BY <3>1 DEF NewNames, OtherNames, DataNames
  <2>3. CASE f = ImageOf(a)
    BY <1>1, <1>2, <1>3, <2>3, ImageParts
  <2> QED
    BY <2>1, <2>2, <2>3
<1>5. HeaderIn(f, a) /\ Tell(h) = HeaderBytes(a.version)
  BY <1>1, <1>2, <1>4, HeaderHeld
<1> QED
  BY <1>2, <1>4, <1>5 DEF HeaderEnd

\* The loader finds each field where the writer put it.
LEMMA LoaderLooksThere == WriterInv => HeaderWhereLoaderLooks
<1> SUFFICES ASSUME WriterInv, step \in {"data", "done"}
             PROVE  /\ SamePlace(boot_img_hdr_v2, "header_version")
                    /\ SamePlace(boot_img_hdr_v2, "magic")
                    /\ args.version <= 1 => \A n \in 1 .. 9 :
                                SamePlace(jz_boot_img_hdr,
                                          jz_boot_img_hdr[n].name)
                    /\ args.version = 2 => \A n \in DOMAIN boot_img_hdr_v2 :
                                SamePlace(boot_img_hdr_v2,
                                          boot_img_hdr_v2[n].name)
  BY DEF HeaderWhereLoaderLooks
<1>1. Writable(args) /\ output \in {HeadOf(args), DataOf(args), ImageOf(args)}
  BY DEF WriterInv, DoneSteps
<1>2. HeaderIn(output, args) /\ args.version \in 0 .. 4
  BY <1>1, Headed DEF Writable
<1> DEFINE v == args.version
<1>3. \A n \in 1 .. FieldCount(v) :
         /\ Piece(output, FieldNames(v)[n]).at = FieldPlaces(v)[n]
         /\ Piece(output, FieldNames(v)[n]).size = FieldSizes(v)[n]
  BY <1>2 DEF HeaderIn
<1> HIDE DEF v
<1>4. v \in 0 .. 4
  BY <1>2 DEF v
<1>5. CASE v \in 0 .. 2
  <2>1. /\ FieldNames(v) = OldNames /\ FieldSizes(v) = OldSizes
        /\ FieldPlaces(v) = OldPlaces
    BY <1>5 DEF FieldNames, FieldSizes, FieldPlaces
  <2>2. FieldCount(v) \in 15 .. 20 /\ (v = 2 => FieldCount(v) = 20)
    BY <1>5 DEF FieldCount
  <2>3. \A n \in 1 .. FieldCount(v) : SamePlace(boot_img_hdr_v2, OldNames[n])
    <3>1. \A n \in 1 .. FieldCount(v) : n \in 1 .. 20
      BY <2>2
    <3> QED
      BY <1>3, <2>1, <3>1, StructV2 DEF SamePlace
  <2>4. \A n \in 1 .. 9 : SamePlace(jz_boot_img_hdr, OldNames[n])
    <3>1. \A n \in 1 .. 9 : n \in 1 .. FieldCount(v)
      BY <2>2
    <3> QED
      BY <1>3, <2>1, <3>1, StructJz DEF SamePlace
  <2>5. OldNames[1] = "magic" /\ OldNames[10] = "header_version"
    BY DEF OldNames
  <2>6. 1 \in 1 .. FieldCount(v) /\ 10 \in 1 .. FieldCount(v)
    BY <2>2
  <2>7. /\ SamePlace(boot_img_hdr_v2, "magic")
        /\ SamePlace(boot_img_hdr_v2, "header_version")
    BY <2>3, <2>5, <2>6
  <2>8. \A n \in 1 .. 9 : SamePlace(jz_boot_img_hdr, jz_boot_img_hdr[n].name)
    BY <2>4, StructJz
  <2>9. v = 2 => \A n \in DOMAIN boot_img_hdr_v2 :
                    SamePlace(boot_img_hdr_v2, boot_img_hdr_v2[n].name)
    BY <2>2, <2>3, StructV2
  <2> QED
    BY <2>7, <2>8, <2>9 DEF v
<1>6. CASE v \in {3, 4}
  <2>1. /\ FieldNames(v) = NewerNames /\ FieldSizes(v) = NewerSizes
        /\ FieldPlaces(v) = NewerPlaces
    BY <1>6 DEF FieldNames, FieldSizes, FieldPlaces
  <2>2. 1 \in 1 .. FieldCount(v) /\ 7 \in 1 .. FieldCount(v)
    BY <1>6 DEF FieldCount
  <2>3. /\ NewerNames[1] = "magic" /\ NewerPlaces[1] = 0 /\ NewerSizes[1] = 8
        /\ NewerNames[7] = "header_version" /\ NewerPlaces[7] = 40
        /\ NewerSizes[7] = 4
    BY DEF NewerNames, NewerPlaces, NewerSizes
  <2>4. /\ OldNames[1] = "magic" /\ OldPlaces[1] = 0 /\ OldSizes[1] = 8
        /\ OldNames[10] = "header_version" /\ OldPlaces[10] = 40
        /\ OldSizes[10] = 4
    BY DEF OldNames, OldPlaces, OldSizes
  <2>5. /\ Piece(boot_img_hdr_v2, "magic").at = 0
        /\ Piece(boot_img_hdr_v2, "magic").size = 8
        /\ Piece(boot_img_hdr_v2, "header_version").at = 40
        /\ Piece(boot_img_hdr_v2, "header_version").size = 4
    <3>1. 1 \in 1 .. 20 /\ 10 \in 1 .. 20
      OBVIOUS
    <3> QED
      BY <2>4, <3>1, StructV2
  <2>6. /\ Piece(output, "magic").at = 0 /\ Piece(output, "magic").size = 8
        /\ Piece(output, "header_version").at = 40
        /\ Piece(output, "header_version").size = 4
    BY <1>3, <2>1, <2>2, <2>3
  <2>7. ~(v <= 1) /\ v # 2
    BY <1>6
  <2> QED
    BY <2>5, <2>6, <2>7 DEF SamePlace, v
<1> QED
  BY <1>4, <1>5, <1>6

-----------------------------------------------------------------------------
(* Texts in their fields. *)

Texts == {"cmdline", "extra_cmdline", "name"}
TextsIn(f) == \A n \in 1 .. Len(f) : f[n].name \in Texts => f[n].val <= f[n].size

\* Fields that fit stay so.
LEMMA PutFits ==
    ASSUME NEW f, IsFile(f), TextsIn(f), NEW s, IsFields(s), TextsIn(s),
           NEW g, g = Put(f, s)
    PROVE  IsFile(g) /\ TextsIn(g)
<1>1. /\ IsFile(g) /\ Len(g) = Len(f) + Len(s)
      /\ \A n \in 1 .. Len(f) : g[n] = f[n]
      /\ \A n \in 1 .. Len(s) :
            /\ g[Len(f) + n].name = s[n].name
            /\ g[Len(f) + n].size = s[n].size
            /\ g[Len(f) + n].val = s[n].val
            /\ g[Len(f) + n] =
                 [name |-> s[n].name, at |-> g[Len(f) + n].at,
                  size |-> s[n].size, val |-> s[n].val]
      /\ Len(s) > 0 => g[Len(f) + 1].at = Tell(f)
      /\ Len(s) = 0 => g = f
  <2>1. IsFile(f) /\ IsFields(s) /\ g = Put(f, s)
    OBVIOUS
  <2> QED
    BY <2>1, PutFile, Zenon
<1>2. Len(f) \in Nat /\ Len(s) \in Nat
  BY SeqParts DEF IsFields, IsFile
<1>3. ASSUME NEW n \in 1 .. Len(g), g[n].name \in Texts
      PROVE  g[n].val <= g[n].size
  <2>1. CASE n <= Len(f)
    <3>1. n \in 1 .. Len(f)
      BY <1>1, <1>2, <2>1
    <3>2. g[n] = f[n]
      BY <1>1, <3>1
    <3> QED
      BY <1>3, <3>1, <3>2 DEF TextsIn
  <2>2. CASE n > Len(f)
    <3>1. PICK m \in 1 .. Len(s) : n = Len(f) + m
      <4>1. n - Len(f) \in 1 .. Len(s) /\ n = Len(f) + (n - Len(f))
        BY <1>1, <1>2, <2>2
      <4> QED
        BY <4>1
    <3>2. g[n].name = s[m].name /\ g[n].size = s[m].size /\ g[n].val = s[m].val
      BY <1>1, <3>1
    <3> QED
      BY <1>3, <3>1, <3>2 DEF TextsIn
  <2> QED
    BY <1>1, <1>2, <2>1, <2>2
<1> QED
  BY <1>1, <1>3 DEF TextsIn

\* Pieces that are no texts fit.
LEMMA OthersFit ==
    ASSUME NEW f, NEW g, IsFile(f), IsFile(g), Prefix(f, g), TextsIn(f), NEW set,
           NewNames(f, g, set), set \cap Texts = {}
    PROVE  TextsIn(g)
<1>1. Len(f) \in Nat /\ Len(g) \in Nat
  BY FileEnd
<1>2. ASSUME NEW n \in 1 .. Len(g), g[n].name \in Texts
      PROVE  g[n].val <= g[n].size
  <2>1. n <= Len(f)
    <3>1. n \notin Len(f) + 1 .. Len(g)
      BY <1>2 DEF NewNames
    <3> QED
      BY <1>1, <3>1
  <2>2. n \in 1 .. Len(f)
    BY <1>1, <2>1
  <2> QED
    BY <1>2, <2>2 DEF TextsIn, Prefix
<1> QED
  BY <1>2 DEF TextsIn

\* Padding and parts hold no text.
LEMMA PadFits ==
    ASSUME NEW f, IsFile(f), TextsIn(f), NEW page \in Nat \ {0},
           NEW g, g = pad_file(f, page)
    PROVE  IsFile(g) /\ TextsIn(g)
<1>1. /\ IsFile(g) /\ Len(g) = Len(f) + 1 /\ Prefix(f, g)
      /\ g[Len(f) + 1].name = "pad"
  BY PadFile
<1>2. NewNames(f, g, {"pad"})
  <2>1. \A n \in Len(f) + 1 .. Len(g) : n = Len(f) + 1
    BY <1>1, FileEnd
  <2> QED
    BY <1>1, <2>1 DEF NewNames
<1>3. {"pad"} \cap Texts = {}
  BY DEF Texts
<1> QED
  BY <1>1, <1>2, <1>3, OthersFit

\* Parts are no texts.
LEMMA PartFits ==
    ASSUME NEW f, IsFile(f), TextsIn(f), NEW page \in Nat \ {0},
           NEW name \in {"vendor_ramdisk", "dtb", "bootconfig"},
           NEW size, size = Absent \/ size \in Nat,
           NEW g, g = write_padded_file(f, name, size, page)
    PROVE  IsFile(g) /\ TextsIn(g)
<1>0. name # "pad"
  OBVIOUS
<1>1. IsFile(g) /\ Prefix(f, g) /\ NewNames(f, g, {name, "pad"})
  BY <1>0, AddPart
<1>2. {name, "pad"} \cap Texts = {}
  BY DEF Texts
<1> QED
  BY <1>1, <1>2, OthersFit

\* The strings of both headers fit their fields.
LEMMA HeaderFits ==
    ASSUME NEW a, Accepted(a), a.version \in 0 .. 4
    PROVE  TextsIn(Header(a)) /\ (a.version = 2 => TextsIn(HeaderV1(a)))
<1>1. /\ a.cmdline \in Nat /\ a.board \in Nat
      /\ a.cmdline <= CmdlineSize(a.version) /\ a.board <= 16
  BY ArgTypes DEF Accepted, StringsFit, Asciiz, BOOT_NAME_SIZE
<1>2. CASE a.version \in 0 .. 2
  <2>1. a.cmdline <= 1535
    BY <1>1, <1>2 DEF CmdlineSize, BOOT_ARGS_SIZE, BOOT_EXTRA_ARGS_SIZE
  <2>2. cmdline(a) <= 512 /\ extra_cmdline(a) <= 1024
    BY <1>1, <2>1 DEF cmdline, extra_cmdline, BOOT_ARGS_SIZE
  <2>3. /\ HeaderV0(a)[12].val = a.board /\ HeaderV0(a)[13].val = cmdline(a)
        /\ HeaderV0(a)[15].val = extra_cmdline(a)
    BY DEF HeaderV0, S, Field
  <2>4. \A n \in 1 .. 20 : OldNames[n] \in Texts => n \in {12, 13, 15}
    BY DEF OldNames, Texts
  <2>5. OldSizes[12] = 16 /\ OldSizes[13] = 512 /\ OldSizes[15] = 1024
    BY DEF OldSizes
  <2> DEFINE Like(s, k) == /\ k \in 15 .. 20 /\ Len(s) = k
                           /\ \A n \in 1 .. k : /\ s[n].name = OldNames[n]
                                                /\ s[n].size = OldSizes[n]
                           /\ \A n \in 1 .. 15 : s[n] = HeaderV0(a)[n]
  <2>6. ASSUME NEW s, NEW k, Like(s, k) PROVE TextsIn(s)
    <3> SUFFICES ASSUME NEW n \in 1 .. k, s[n].name \in Texts
                 PROVE  s[n].val <= s[n].size
      BY <2>6 DEF TextsIn
    <3>0. n \in 1 .. 20 /\ n \in 1 .. k
      BY <2>6
    <3>1. n \in {12, 13, 15} /\ s[n].size = OldSizes[n]
      <4>1. s[n].name = OldNames[n] /\ s[n].size = OldSizes[n]
        BY <2>6, <3>0
      <4>2. OldNames[n] \in Texts
        BY <4>1
      <4> QED
        BY <2>4, <3>0, <4>1, <4>2
    <3>2. s[n].val = HeaderV0(a)[n].val
      BY <2>6, <3>1
    <3> QED
      BY <1>1, <2>2, <2>3, <2>5, <3>1, <3>2
  <2>7. TextsIn(Header(a))
    <3>1. FieldCount(a.version) \in 15 .. 20
      BY <1>2 DEF FieldCount
    <3>2. /\ Len(Header(a)) = FieldCount(a.version)
          /\ \A n \in 1 .. FieldCount(a.version) :
               Header(a)[n].name = OldNames[n] /\ Header(a)[n].size = OldSizes[n]
          /\ \A n \in 1 .. 15 : Header(a)[n] = HeaderV0(a)[n]
      BY <1>2, OldFields
    <3>3. Like(Header(a), FieldCount(a.version))
      BY <3>1, <3>2
    <3> HIDE DEF Like
    <3> QED
      BY <2>6, <3>3
  <2>8. a.version = 2 => TextsIn(HeaderV1(a))
    <3> SUFFICES ASSUME a.version = 2 PROVE TextsIn(HeaderV1(a))
      OBVIOUS
    <3>0. FieldCount(a.version) = 20 /\ a.version > 0
      BY DEF FieldCount
    <3>1. /\ \A n \in 1 .. FieldCount(a.version) :
               Header(a)[n].name = OldNames[n] /\ Header(a)[n].size = OldSizes[n]
          /\ \A n \in 1 .. 15 : Header(a)[n] = HeaderV0(a)[n]
      BY <1>2, OldFields
    <3>4. \A n \in 1 .. 18 : Header(a)[n] = HeaderV1(a)[n]
      BY <1>2, <3>0, OldFields
    <3>2. Len(HeaderV1(a)) = 18
      BY FieldsV1
    <3>3. /\ \A n \in 1 .. 18 : /\ HeaderV1(a)[n].name = OldNames[n]
                                /\ HeaderV1(a)[n].size = OldSizes[n]
          /\ \A n \in 1 .. 15 : HeaderV1(a)[n] = HeaderV0(a)[n]
      <4>1. \A n \in 1 .. 18 : n \in 1 .. 20
        OBVIOUS
      <4>2. \A n \in 1 .. 15 : n \in 1 .. 18
        OBVIOUS
      <4> QED
        BY <3>0, <3>1, <3>4, <4>1, <4>2
    <3>5. 18 \in 15 .. 20
      OBVIOUS
    <3>6. Like(HeaderV1(a), 18)
      BY <3>2, <3>3, <3>5, Zenon
    <3> HIDE DEF Like
    <3> QED
      BY <2>6, <3>6
  <2> QED
    BY <2>7, <2>8
<1>3. CASE a.version \in {3, 4}
  <2>1. a.cmdline <= 1536
    BY <1>1, <1>3 DEF CmdlineSize, BOOT_ARGS_SIZE, BOOT_EXTRA_ARGS_SIZE
  <2>2. \A n \in 1 .. 9 : NewerNames[n] \in Texts => n = 8
    BY DEF NewerNames, Texts
  <2>3. NewerSizes[8] = 1536
    BY DEF NewerSizes
  <2>4. FieldCount(a.version) \in 8 .. 9
    BY <1>3 DEF FieldCount
  <2>5. /\ Len(Header(a)) = FieldCount(a.version)
        /\ \A n \in 1 .. FieldCount(a.version) :
               /\ Header(a)[n].name = NewerNames[n]
               /\ Header(a)[n].size = NewerSizes[n]
        /\ Header(a)[8].val = a.cmdline
    BY <1>3, NewerFields
  <2>6. ASSUME NEW n \in 1 .. Len(Header(a)), Header(a)[n].name \in Texts
        PROVE  Header(a)[n].val <= Header(a)[n].size
    <3>1. n = 8
      BY <2>2, <2>4, <2>5, <2>6
    <3>2. Header(a)[8].size = NewerSizes[8]
      BY <2>4, <2>5
    <3> QED
      BY <2>1, <2>3, <2>5, <3>1, <3>2
  <2> QED
    BY <1>3, <2>6 DEF TextsIn
<1> QED
  BY <1>2, <1>3

\* All texts of an image fit.
LEMMA OutputFits ==
    ASSUME NEW a, Accepted(a), a.version \in 0 .. 4, NEW f, Begun(f, a)
    PROVE  IsFile(f) /\ TextsIn(f)
<1> DEFINE e == <<>>
<1>1. IsFile(e) /\ TextsIn(e)
  BY EmptyFile DEF TextsIn
<1>2. a \in CommandLines
  BY DEF Accepted
<1> HIDE DEF e
<1>3. CASE a.version = 2 /\ f = Put(<<>>, HeaderV1(a))
  <2>1. IsFields(HeaderV1(a)) /\ TextsIn(HeaderV1(a)) /\ f = Put(e, HeaderV1(a))
    BY <1>3, FieldsV1, HeaderFits DEF e
  <2> QED
    BY <1>1, <2>1, PutFits
<1> DEFINE h == Put(<<>>, Header(a))
           at == DataAt(Padded(Tell(h), HeaderPage(a)), a, HeaderPage(a))
<1>4. IsFile(h) /\ TextsIn(h)
  <2>1. IsFields(Header(a)) /\ TextsIn(Header(a)) /\ h = Put(e, Header(a))
    BY HeaderFields, HeaderFits DEF e
  <2> HIDE DEF h
  <2> QED
    BY <1>1, <2>1, PutFits
<1>5. OtherNames \cap Texts = {}
  BY DEF OtherNames, PartNames, Texts
<1>6. h = Put(<<>>, Header(a)) /\ at = DataAt(Padded(Tell(h), HeaderPage(a)), a, HeaderPage(a))
  OBVIOUS
<1> HIDE DEF h, at
<1>7. CASE f \in {HeadOf(a), DataOf(a), ImageOf(a)}
  <2>1. IsFile(f) /\ Prefix(h, f) /\ NewNames(h, f, OtherNames)
    <3>1. CASE f = HeadOf(a)
      <4>1. IsFile(f) /\ Prefix(h, f) /\ NewNames(h, f, {"pad"})
        BY <1>2, <1>6, <3>1, HeadParts
      <4> QED
        BY <4>1 DEF NewNames, OtherNames
    <3>2. CASE f = DataOf(a)
      <4>1. IsFile(f) /\ Prefix(h, f) /\ NewNames(h, f, DataNames)
        BY <1>2, <1>6, <3>2, DataOfParts
      <4> QED
        BY <4>1 DEF NewNames, OtherNames, DataNames
    <3>3. CASE f = ImageOf(a)
      BY <1>2, <1>6, <3>3, ImageParts
    <3> QED
      BY <1>7, <3>1, <3>2, <3>3
  <2> QED
    BY <1>4, <1>5, <2>1, OthersFit
<1> QED
  BY <1>3, <1>7 DEF Begun

-----------------------------------------------------------------------------
(* The vendor image. *)

TableSizes(list) == IsSeq(list) /\ \A n \in 1 .. Len(list) : list[n].size \in Nat

\* What there is of vendor_boot is a file, with whole strings.
VendorInv == TableSizes(table) /\ IsFile(vendor) /\ TextsIn(vendor)

\* A function on 1 .. k is a sequence.
LEMMA FunIsSeq ==
    ASSUME NEW k \in Nat, NEW s, DOMAIN s = 1 .. k, s = [n \in 1 .. k |-> s[n]]
    PROVE  IsSeq(s) /\ Len(s) = k
<1> DEFINE T == {s[n] : n \in 1 .. k}
<1>1. s \in [1 .. k -> T]
  OBVIOUS
<1>2. s \in Seq(T)
  <2> HIDE DEF T
  <2> QED
    BY <1>1, SeqDef
<1>3. Len(s) \in Nat /\ 1 .. Len(s) = 1 .. k
  BY <1>2, LenProperties
<1>4. Len(s) = k
  <2> DEFINE l == Len(s)
  <2> HIDE DEF l
  <2>1. l \in Nat /\ 1 .. l = 1 .. k
    BY <1>3 DEF l
  <2>2. l = k
    <3>1. l \in 1 .. l <=> l >= 1
      BY <2>1
    <3>2. k \in 1 .. k <=> k >= 1
      OBVIOUS
    <3> QED
      BY <2>1, <3>1, <3>2
  <2> QED
    BY <2>2 DEF l
<1> QED
  BY <1>2, <1>4 DEF IsSeq

\* A command line's ramdisks have sizes.
LEMMA RamdisksFields ==
    ASSUME NEW a \in CommandLines
    PROVE  IsFields(Ramdisks(a))
<1> DEFINE first == IF a.vendor_ramdisk = Absent THEN <<>>
                    ELSE <<[name |-> "", size |-> a.vendor_ramdisk,
                            type |-> VENDOR_RAMDISK_TYPE.platform]>>
           E(n) == [name |-> a.fragments[n].name, size |-> a.fragments[n].size,
                    type |-> parse_vendor_ramdisk_type(a.fragments[n])]
           rest == [n \in DOMAIN a.fragments |-> E(n)]
           list == first \o rest
<1>1. /\ a.vendor_ramdisk = Absent \/ a.vendor_ramdisk \in Nat
      /\ a.fragments \in Seq([name : STRING, size : Nat, len : Nat,
                              type : STRING, number : Nat])
  BY ArgTypes DEF FileArgs, Fragments
<1>2. IsFields(first)
  <2>1. CASE a.vendor_ramdisk = Absent
    <3>1. first = <<>>
      BY <2>1
    <3>2. IsSeq(<<>>) /\ Len(<<>>) = 0
      BY EmptyFile DEF IsFile
    <3> HIDE DEF first
    <3>3. IsSeq(first) /\ Len(first) = 0
      BY <3>1, <3>2
    <3> QED
      BY <3>3 DEF IsFields
  <2>2. CASE a.vendor_ramdisk # Absent
    <3> DEFINE e == [name |-> "", size |-> a.vendor_ramdisk,
                     type |-> VENDOR_RAMDISK_TYPE.platform]
    <3>1. first = <<e>> /\ e.size \in Nat
      BY <1>1, <2>2
    <3> HIDE DEF first, e
    <3>2. first \in Seq({e}) /\ Len(first) = 1 /\ first[1] = e
      BY <3>1
    <3>3. \A n \in 1 .. 1 : n = 1
      OBVIOUS
    <3> QED
      BY <3>1, <3>2, <3>3 DEF IsFields, IsSeq
  <2> QED
    BY <2>1, <2>2
<1>3. /\ Len(a.fragments) \in Nat /\ DOMAIN a.fragments = 1 .. Len(a.fragments)
      /\ \A n \in 1 .. Len(a.fragments) : a.fragments[n].size \in Nat
  <2> DEFINE T == [name : STRING, size : Nat, len : Nat, type : STRING,
                   number : Nat]
             s == a.fragments
  <2>1. s \in Seq(T)
    BY <1>1
  <2>2. \A x \in T : x.size \in Nat
    OBVIOUS
  <2> HIDE DEF T, s
  <2>3. /\ Len(s) \in Nat /\ DOMAIN s = 1 .. Len(s)
        /\ \A n \in 1 .. Len(s) : s[n] \in T
    BY <2>1, LenProperties, ElementOfSeq
  <2> QED
    BY <2>2, <2>3 DEF s
<1>4. IsFields(rest)
  <2>1. DOMAIN rest = 1 .. Len(a.fragments)
    BY <1>3
  <2>2. rest = [n \in 1 .. Len(a.fragments) |-> rest[n]]
    BY <1>3
  <2>3. \A n \in 1 .. Len(a.fragments) : rest[n].size \in Nat
    BY <1>3
  <2> HIDE DEF rest
  <2>4. IsSeq(rest) /\ Len(rest) = Len(a.fragments)
    BY <1>3, <2>1, <2>2, FunIsSeq
  <2> QED
    BY <2>3, <2>4 DEF IsFields
<1>5. Ramdisks(a) = list
  BY DEF Ramdisks
<1> HIDE DEF first, rest
<1>6. IsFields(list)
  BY <1>2, <1>4, JoinFields
<1> QED
  BY <1>5, <1>6

\* Entries of the table have sizes.
LEMMA TableOf ==
    ASSUME NEW a \in CommandLines
    PROVE  TableSizes(Entries(Ramdisks(a)))
<1> DEFINE list == Ramdisks(a)
<1>6. IsFields(list)
  BY RamdisksFields
<1> HIDE DEF list
<1>7. Len(list) \in Nat
  BY <1>6, SeqParts DEF IsFields
<1> DEFINE s == Entries(list)
<1>8. /\ DOMAIN s = 1 .. Len(list) /\ s = [n \in 1 .. Len(list) |-> s[n]]
      /\ \A n \in 1 .. Len(list) : s[n].size = list[n].size
  BY DEF Entries
<1> HIDE DEF s
<1>9. IsSeq(s) /\ Len(s) = Len(list)
  BY <1>7, <1>8, FunIsSeq
<1>10. TableSizes(s)
  BY <1>6, <1>8, <1>9 DEF TableSizes, IsFields
<1> QED
  BY <1>10 DEF s, list

\* Fields whose texts fit.
WholeFields(s) == IsFields(s) /\ TextsIn(s)

\* Fields that fit behind fields that fit.
LEMMA JoinWhole ==
    ASSUME NEW s, NEW t, WholeFields(s), WholeFields(t)
    PROVE  WholeFields(s \o t)
<1>1. IsFields(s) /\ IsFields(t) /\ IsSeq(s) /\ IsSeq(t)
  BY DEF WholeFields, IsFields
<1>2. IsFields(s \o t)
  BY <1>1, JoinFields
<1> DEFINE u == s \o t
<1>3. /\ Len(u) = Len(s) + Len(t)
      /\ \A n \in 1 .. Len(s) : u[n] = s[n]
      /\ \A n \in 1 .. Len(t) : u[Len(s) + n] = t[n]
  BY <1>1, SeqJoin
<1>4. Len(s) \in Nat /\ Len(t) \in Nat
  BY <1>1, SeqParts
<1> HIDE DEF u
<1>5. ASSUME NEW n \in 1 .. Len(u), u[n].name \in Texts
      PROVE  u[n].val <= u[n].size
  <2>1. CASE n <= Len(s)
    <3>1. n \in 1 .. Len(s)
      BY <1>4, <2>1
    <3> QED
      BY <1>3, <1>5, <3>1 DEF WholeFields, TextsIn
  <2>2. CASE n > Len(s)
    <3>1. PICK m \in 1 .. Len(t) : n = Len(s) + m
      <4>1. n - Len(s) \in 1 .. Len(t) /\ n = Len(s) + (n - Len(s))
        BY <1>3, <1>4, <2>2
      <4> QED
        BY <4>1
    <3>2. u[n] = t[m]
      BY <1>3, <3>1
    <3> QED
      BY <1>5, <3>1, <3>2 DEF WholeFields, TextsIn
  <2> QED
    BY <1>4, <2>1, <2>2
<1>6. TextsIn(u)
  BY <1>5 DEF TextsIn
<1> QED
  BY <1>2, <1>6 DEF WholeFields, u

\* No fields fit.
LEMMA NothingWhole == WholeFields(<<>>)
<1> DEFINE e == <<>>
<1>1. IsSeq(e) /\ Len(e) = 0
  BY EmptyFile DEF IsFile
<1> HIDE DEF e
<1>2. WholeFields(e)
  BY <1>1 DEF WholeFields, IsFields, TextsIn
<1> QED
  BY <1>2 DEF e

\* The vendor header fits.
LEMMA VendorHeaderWhole ==
    ASSUME NEW a, Accepted(a)
    PROVE  WholeFields(VendorHeader(a))
<1>1. /\ a.vendor_cmdline <= VENDOR_BOOT_ARGS_SIZE
      /\ a.board <= BOOT_NAME_SIZE
  BY DEF Accepted, StringsFit, Asciiz
<1> DEFINE s ==
    << Free("magic", 8), I("header_version", a.version), I("page_size", a.page),
       Free("kernel_addr", 4), Free("ramdisk_addr", 4),
       I("vendor_ramdisk_size", IF a.version > 3 THEN TotalRamdisk
                                ELSE filesize(a.vendor_ramdisk)),
       S("cmdline", VENDOR_BOOT_ARGS_SIZE, a.vendor_cmdline),
       Free("tags_addr", 4), S("name", BOOT_NAME_SIZE, a.board),
       I("header_size", IF a.version > 3
                        THEN VENDOR_BOOT_IMAGE_HEADER_V4_SIZE
                        ELSE VENDOR_BOOT_IMAGE_HEADER_V3_SIZE),
       I("dtb_size", filesize(a.dtb)), Free("dtb_addr", 8) >>
           t == << I("vendor_ramdisk_table_size", Len(table) * ENTRY_V4_SIZE),
                I("vendor_ramdisk_table_entry_num", Len(table)),
                I("vendor_ramdisk_table_entry_size", ENTRY_V4_SIZE),
                I("bootconfig_size", filesize(a.vendor_bootconfig)) >>
<1>2. VendorHeader(a) = s \o (IF a.version > 3 THEN t ELSE <<>>)
  BY DEF VendorHeader
<1>3. s \in Seq({s[n] : n \in 1 .. 12}) /\ Len(s) = 12
  OBVIOUS
<1>4. t \in Seq({t[n] : n \in 1 .. 4}) /\ Len(t) = 4
  OBVIOUS
<1>5. \A n \in 1 .. 12 : s[n].size \in Nat
  BY DEF Free, I, S, Field, VENDOR_BOOT_ARGS_SIZE, BOOT_NAME_SIZE
<1>6. \A n \in 1 .. 12 : s[n].name \in Texts => n \in {7, 9}
  BY DEF Free, I, S, Field, Texts
<1>7. /\ s[7].val = a.vendor_cmdline /\ s[7].size = VENDOR_BOOT_ARGS_SIZE
      /\ s[9].val = a.board /\ s[9].size = BOOT_NAME_SIZE
  BY DEF S, Field
<1>8. \A n \in 1 .. 4 : t[n].size \in Nat /\ t[n].name \notin Texts
  BY DEF I, Field, Texts
<1> HIDE DEF s, t
<1>9. \A n \in 1 .. 12 : s[n].name \in Texts => s[n].val <= s[n].size
  BY <1>1, <1>6, <1>7
<1>10. WholeFields(s)
  BY <1>3, <1>5, <1>9 DEF WholeFields, IsFields, TextsIn, IsSeq
<1>11. WholeFields(t)
  BY <1>4, <1>8 DEF WholeFields, IsFields, TextsIn, IsSeq
<1>12. WholeFields(s \o t)
  BY <1>10, <1>11, JoinWhole
<1>13. WholeFields(s \o <<>>)
  BY <1>10, NothingWhole, JoinWhole
<1> QED
  BY <1>2, <1>12, <1>13

\* The ramdisk table fits.
LEMMA TableWhole ==
    ASSUME TableSizes(table)
    PROVE  WholeFields(RamdiskPieces) /\ WholeFields(TablePieces)
<1> DEFINE k == Len(table)
<1>1. k \in Nat /\ DOMAIN table = 1 .. k /\ \A n \in 1 .. k : table[n].size \in Nat
  BY SeqParts DEF TableSizes
<1>2. \A size : /\ Free("vendor_ramdisk", size).size = size
                /\ Free("vendor_ramdisk", size).name = "vendor_ramdisk"
  BY DEF Free, Field
<1>3. "vendor_ramdisk" \notin Texts
  BY DEF Texts
<1>4. WholeFields(RamdiskPieces)
  <2> DEFINE s == RamdiskPieces
  <2>1. /\ DOMAIN s = 1 .. k /\ s = [n \in 1 .. k |-> s[n]]
        /\ \A n \in 1 .. k : s[n] = Free("vendor_ramdisk", table[n].size)
    BY <1>1 DEF RamdiskPieces
  <2> HIDE DEF s, k
  <2>2. IsSeq(s) /\ Len(s) = k
    BY <1>1, <2>1, FunIsSeq
  <2>3. \A n \in 1 .. k : s[n].size \in Nat /\ s[n].name \notin Texts
    BY <1>1, <1>2, <1>3, <2>1
  <2>4. WholeFields(s)
    BY <2>2, <2>3 DEF WholeFields, IsFields, TextsIn
  <2> QED
    BY <2>4 DEF s
<1>5. \A e : \A m \in 1 .. 5 : /\ EntryPieces(e)[m].size \in Nat
                               /\ EntryPieces(e)[m].name \notin Texts
  BY DEF EntryPieces, I, Free, Field, VENDOR_RAMDISK_NAME_SIZE, Texts
<1>6. WholeFields(TablePieces)
  <2> DEFINE s == TablePieces
             l == 5 * k
  <2>0. l \in Nat
    BY <1>1
  <2>1. /\ DOMAIN s = 1 .. l /\ s = [n \in 1 .. l |-> s[n]]
        /\ \A n \in 1 .. l :
              s[n] = EntryPieces(table[((n - 1) \div 5) + 1])[((n - 1) % 5) + 1]
    BY DEF TablePieces
  <2> HIDE DEF s, l
  <2>2. IsSeq(s) /\ Len(s) = l
    BY <2>0, <2>1, FunIsSeq
  <2>3. ASSUME NEW n \in 1 .. l PROVE s[n].size \in Nat /\ s[n].name \notin Texts
    <3>1. ((n - 1) % 5) + 1 \in 1 .. 5
      OBVIOUS
    <3> DEFINE m == ((n - 1) % 5) + 1
               e == table[((n - 1) \div 5) + 1]
    <3>2. s[n] = EntryPieces(e)[m] /\ m \in 1 .. 5
      BY <2>1, <3>1
    <3> HIDE DEF m, e
    <3> QED
      BY <1>5, <3>2
  <2>4. WholeFields(s)
    BY <2>2, <2>3 DEF WholeFields, IsFields, TextsIn
  <2> QED
    BY <2>4 DEF s
<1> QED
  BY <1>4, <1>6

\* All texts of a vendor image fit.
LEMMA VendorFits ==
    ASSUME NEW a, Accepted(a), TableSizes(table), NEW f,
           f = VendorData(pad_file(Put(<<>>, VendorHeader(a)), a.page), a)
    PROVE  IsFile(f) /\ TextsIn(f)
<1> DEFINE page == a.page
           F(g) == IsFile(g) /\ TextsIn(g)
           e == <<>>
           h == Put(e, VendorHeader(a))
           p == pad_file(h, page)
<1>1. /\ page \in Nat \ {0} /\ (a.dtb = Absent \/ a.dtb \in Nat)
      /\ (a.vendor_ramdisk = Absent \/ a.vendor_ramdisk \in Nat)
      /\ (a.vendor_bootconfig = Absent \/ a.vendor_bootconfig \in Nat)
  BY ArgTypes, PageArg DEF Accepted, FileArgs
<1>2. f = VendorData(p, a)
  OBVIOUS
<1>3. IsFile(e) /\ TextsIn(e)
  BY EmptyFile DEF TextsIn
<1> HIDE DEF e, page
<1>4. F(h)
  <2>1. IsFields(VendorHeader(a)) /\ TextsIn(VendorHeader(a))
    BY VendorHeaderWhole DEF WholeFields
  <2>2. h = Put(e, VendorHeader(a))
    OBVIOUS
  <2> HIDE DEF h
  <2> QED
    BY <1>3, <2>1, <2>2, PutFits
<1> HIDE DEF h
<1>5. F(p)
  BY <1>1, <1>4, PadFits
<1> HIDE DEF p
<1>6. CASE a.version > 3
  <2> DEFINE q == Put(p, RamdiskPieces)
             ramdisks == pad_file(q, page)
             dtb == write_padded_file(ramdisks, "dtb", a.dtb, page)
             r == Put(dtb, TablePieces)
             entries == pad_file(r, page)
  <2>1. f = write_padded_file(entries, "bootconfig", a.vendor_bootconfig, page)
    BY <1>2, <1>6 DEF VendorData, page
  <2>2. IsFields(RamdiskPieces) /\ TextsIn(RamdiskPieces)
        /\ IsFields(TablePieces) /\ TextsIn(TablePieces)
    BY TableWhole DEF WholeFields
  <2>3. F(q)
    BY <1>5, <2>2, PutFits
  <2> HIDE DEF q
  <2>4. F(ramdisks)
    BY <1>1, <2>3, PadFits
  <2> HIDE DEF ramdisks
  <2>5. F(dtb)
    BY <1>1, <2>4, PartFits
  <2> HIDE DEF dtb
  <2>6. F(r)
    BY <2>2, <2>5, PutFits
  <2> HIDE DEF r
  <2>7. F(entries)
    BY <1>1, <2>6, PadFits
  <2> HIDE DEF entries
  <2> QED
    BY <1>1, <2>1, <2>7, PartFits
<1>7. CASE ~(a.version > 3)
  <2> DEFINE ramdisk == write_padded_file(p, "vendor_ramdisk",
                                          a.vendor_ramdisk, page)
  <2>1. f = write_padded_file(ramdisk, "dtb", a.dtb, page)
    BY <1>2, <1>7 DEF VendorData, page
  <2>2. F(ramdisk)
    BY <1>1, <1>5, PartFits
  <2> HIDE DEF ramdisk
  <2> QED
    BY <1>1, <2>1, <2>2, PartFits
<1> QED
  BY <1>6, <1>7

\* There is no vendor image to begin with.
LEMMA VendorInitially == FlashInit => VendorInv
<1> DEFINE e == <<>>
<1>1. IsFile(e) /\ TextsIn(e) /\ IsSeq(e) /\ Len(e) = 0
  BY EmptyFile DEF IsFile, TextsIn
<1>2. FlashInit => vendor = e /\ table = e
  BY DEF FlashInit, WriterInit, MkInit
<1> HIDE DEF e
<1>3. TableSizes(e)
  BY <1>1 DEF TableSizes
<1> QED
  BY <1>1, <1>2, <1>3 DEF VendorInv

\* Every step keeps what is written of it.
LEMMA VendorNext ==
    WriterInv /\ VendorInv /\ [FlashNext]_<<vars, wvars>> => VendorInv'
<1> SUFFICES ASSUME WriterInv, VendorInv, [FlashNext]_<<vars, wvars>>
             PROVE  VendorInv'
  OBVIOUS
<1>1. CASE UNCHANGED <<vendor, table>>
  BY <1>1 DEF VendorInv, TableSizes, IsFile, TextsIn, IsSeq
<1>2. CASE Parsed
  <2>1. /\ vendor' = vendor
        /\ table' = table \/ table' = Entries(Ramdisks(args))
    BY <1>2 DEF Parsed
  <2>2. TableSizes(table')
    BY <2>1, TableOf DEF WriterInv, VendorInv
  <2> QED
    BY <2>1, <2>2 DEF VendorInv, TableSizes
<1>3. CASE WriteVendorBoot
  <2>1. /\ table' = table /\ Accepted(args)
        /\ vendor' = VendorData(pad_file(Put(<<>>, VendorHeader(args)), args.page), args)
    BY <1>3 DEF WriteVendorBoot, WriterInv
  <2>2. IsFile(vendor') /\ TextsIn(vendor')
    BY <2>1, VendorFits DEF VendorInv
  <2> QED
    BY <2>1, <2>2 DEF VendorInv, TableSizes
<1> QED
  BY <1>1, <1>2, <1>3
     DEF FlashNext, WriterNext, MkNext, CertifyNext, ParseRefuses, AssertFails,
         VendorRefuses, NoOutput, HeaderRefuses, WriteHeader, WriteData, Build,
         CertifyRefuses, StartCertify, CertifyOne, CertifyFails,
         AddCertificate, AddFooter, MakeArchive, Give_up, Stop, files, mkvars,
         wvars

-----------------------------------------------------------------------------
(* The command line in two halves, and versions in a word. *)

\* The values of the older headers.
LEMMA OldValues ==
    ASSUME NEW a
    PROVE  /\ HeaderV0(a)[2].val = filesize(a.kernel)
           /\ HeaderV0(a)[4].val = filesize(a.ramdisk)
           /\ HeaderV0(a)[6].val = filesize(a.second)
           /\ HeaderV0(a)[11].val = OsWord(a).val
           /\ HeaderV0(a)[13].val = cmdline(a)
           /\ HeaderV0(a)[14].val = update_sha(a)
           /\ HeaderV0(a)[15].val = extra_cmdline(a)
BY DEF HeaderV0, I, S, Free, Field

\* The halves are the whole.
LEMMA HalvesAdd ==
    ASSUME NEW a \in CommandLines
    PROVE  (cmdline(a) - 1) + extra_cmdline(a) = a.cmdline
<1>1. a.cmdline \in Nat
  BY ArgTypes
<1> QED
  BY <1>1 DEF cmdline, extra_cmdline, BOOT_ARGS_SIZE

\* And are read as the whole.
LEMMA HalvesRead ==
    ASSUME NEW a, Accepted(a), a.version \in 0 .. 4, NEW f, Begun(f, a),
           Has(f, "extra_cmdline")
    PROVE  (Value(f, "cmdline") - 1) + Value(f, "extra_cmdline") = a.cmdline
<1>1. /\ OldNames[13] = "cmdline" /\ OldNames[15] = "extra_cmdline"
  BY DEF OldNames
<1>2. a \in CommandLines
  BY DEF Accepted
<1>3. CASE a.version = 2 /\ f = Put(<<>>, HeaderV1(a))
  <2> DEFINE k == 18
             s == HeaderV1(a)
  <2>1. /\ IsFields(s) /\ Len(s) = 18
        /\ \A n \in 1 .. 18 : s[n].name = OldNames[n] /\ s[n].size = OldSizes[n]
        /\ s[13] = HeaderV0(a)[13] /\ s[15] = HeaderV0(a)[15]
    <3>1. /\ \A n \in 1 .. 20 :
               Header(a)[n].name = OldNames[n] /\ Header(a)[n].size = OldSizes[n]
          /\ \A n \in 1 .. 15 : Header(a)[n] = HeaderV0(a)[n]
          /\ \A n \in 1 .. 18 : Header(a)[n] = HeaderV1(a)[n]
      <4>1. FieldCount(a.version) = 20 /\ a.version \in 0 .. 2 /\ a.version > 0
        BY <1>3 DEF FieldCount
      <4>2. \A n \in 1 .. FieldCount(a.version) :
               Header(a)[n].name = OldNames[n] /\ Header(a)[n].size = OldSizes[n]
        BY <4>1, OldFields
      <4>3. \A n \in 1 .. 15 : Header(a)[n] = HeaderV0(a)[n]
        BY <4>1, OldFields
      <4>4. \A n \in 1 .. 18 : Header(a)[n] = HeaderV1(a)[n]
        BY <4>1, OldFields
      <4> QED
        BY <4>1, <4>2, <4>3, <4>4
    <3>2. IsFields(s) /\ Len(s) = 18
      BY FieldsV1
    <3> QED
      BY <3>1, <3>2
  <2> HIDE DEF s
  <2>2. OldLike(s, k)
    BY <2>1 DEF OldLike
  <2>3. f = Put(<<>>, s)
    BY <1>3 DEF s
  <2> HIDE DEF k
  <2>4. /\ Len(f) = Len(s) /\ DOMAIN f = 1 .. Len(s)
        /\ \A n \in 1 .. k : /\ f[n].name = OldNames[n]
                              /\ Piece(f, OldNames[n]) = f[n]
                              /\ f[n].at = OldPlaces[n]
                              /\ f[n].size = OldSizes[n]
    BY <2>2, <2>3, StructPlace
  <2>5. Piece(f, "cmdline") = f[13] /\ Piece(f, "extra_cmdline") = f[15]
    BY <1>1, <2>4 DEF k
  <2>6. f[13].val = s[13].val /\ f[15].val = s[15].val
    <3>1. \A n \in 1 .. Len(s) : f[n].val = s[n].val
      <4>1. IsFields(s)
        BY <2>1
      <4> QED
        BY <2>3, <4>1, PutFirst
    <3> QED
      BY <2>1, <3>1
  <2>7. Value(f, "cmdline") = cmdline(a) /\ Value(f, "extra_cmdline") = extra_cmdline(a)
    BY <2>1, <2>5, <2>6, OldValues DEF Value
  <2> QED
    BY <1>2, <2>7, HalvesAdd
<1>4. CASE Writable(a) /\ f \in {HeadOf(a), DataOf(a), ImageOf(a)}
  <2>1. Writable(a) /\ f \in {HeadOf(a), DataOf(a), ImageOf(a)}
    BY <1>4
  <2>2. HeaderIn(f, a)
    BY <2>1, Headed
  <2>3. CASE a.version \in 0 .. 2
    <3>1. FieldNames(a.version) = OldNames /\ FieldCount(a.version) \in 15 .. 20
      BY <2>3 DEF FieldNames, FieldCount
    <3>2. 13 \in 1 .. FieldCount(a.version) /\ 15 \in 1 .. FieldCount(a.version)
      BY <3>1
    <3>3. /\ Piece(f, "cmdline") = f[13] /\ Piece(f, "extra_cmdline") = f[15]
          /\ f[13].val = Header(a)[13].val /\ f[15].val = Header(a)[15].val
      BY <1>1, <2>2, <3>1, <3>2 DEF HeaderIn
    <3>4. Header(a)[13] = HeaderV0(a)[13] /\ Header(a)[15] = HeaderV0(a)[15]
      <4>1. \A n \in 1 .. 15 : Header(a)[n] = HeaderV0(a)[n]
        BY <2>3, OldFields
      <4> QED
        BY <4>1
    <3>5. Value(f, "cmdline") = cmdline(a) /\ Value(f, "extra_cmdline") = extra_cmdline(a)
      BY <3>3, <3>4, OldValues DEF Value
    <3> QED
      BY <1>2, <3>5, HalvesAdd
  <2>4. CASE a.version \in {3, 4}
    <3> DEFINE h == Put(<<>>, Header(a))
    <3>1. IsFile(f) /\ IsFile(h) /\ Prefix(h, f) /\ NewNames(h, f, OtherNames)
      BY <2>1, Headed
    <3>2. h = Put(<<>>, Header(a))
      OBVIOUS
    <3> HIDE DEF h
    <3>3. Len(h) = FieldCount(a.version)
          /\ \A n \in 1 .. Len(h) : h[n].name = NewerNames[n]
      <4>1. Len(h) = Len(Header(a)) /\ \A n \in 1 .. Len(h) : h[n].name = Header(a)[n].name
        BY <1>2, <3>2, HeadParts
      <4>2. Len(Header(a)) = FieldCount(a.version)
            /\ \A n \in 1 .. FieldCount(a.version) : Header(a)[n].name = NewerNames[n]
        BY <2>4, NewerFields
      <4> QED
        BY <4>1, <4>2
    <3>4. FieldCount(a.version) \in 8 .. 9
      BY <2>4 DEF FieldCount
    <3>5. \A n \in 1 .. 9 : NewerNames[n] # "extra_cmdline"
      BY DEF NewerNames
    <3>6. \A n \in 1 .. Len(h) : h[n].name # "extra_cmdline"
      BY <3>3, <3>4, <3>5
    <3>7. ~Has(h, "extra_cmdline")
      BY <3>1, <3>6, SeqParts DEF Has, IsFile
    <3>8. "extra_cmdline" \notin OtherNames
      BY DEF OtherNames, PartNames
    <3> QED
      BY <3>1, <3>7, <3>8, NameKept
  <2> QED
    BY <2>3, <2>4
<1> QED
  BY <1>3, <1>4 DEF Begun

\* No text is cut off.
LEMMA TextsFit == WriterInv /\ VendorInv => CommandLineFits
<1> SUFFICES ASSUME WriterInv, VendorInv PROVE CommandLineFits
  OBVIOUS
<1>1. step # "cut"
  BY DEF WriterInv
<1>2. IsFile(output) /\ TextsIn(output) /\ IsFile(vendor) /\ TextsIn(vendor)
  <2>1. CASE output = <<>>
    BY <2>1, EmptyFile DEF TextsIn, VendorInv
  <2>2. CASE output # <<>>
    <3>1. Accepted(args) /\ args.version \in 0 .. 4 /\ Begun(output, args)
      BY <2>2 DEF WriterInv
    <3> QED
      BY <3>1, OutputFits DEF VendorInv
  <2> QED
    BY <2>1, <2>2
<1>3. ASSUME NEW f \in {output, vendor}, NEW n \in DOMAIN f,
             f[n].name \in {"cmdline", "extra_cmdline", "name"}
      PROVE  f[n].val <= f[n].size
  <2>1. IsFile(f) /\ TextsIn(f)
    BY <1>2
  <2>2. n \in 1 .. Len(f)
    BY <2>1, SeqParts DEF IsFile
  <2> QED
    BY <1>3, <2>1, <2>2 DEF TextsIn, Texts
<1>4. ASSUME Has(output, "extra_cmdline")
      PROVE  (Value(output, "cmdline") - 1) + Value(output, "extra_cmdline")
                = args.cmdline
  <2>1. output # <<>>
    <3>1. \A n \in DOMAIN <<>> : FALSE
      OBVIOUS
    <3> QED
      BY <1>4, <3>1 DEF Has
  <2>2. Accepted(args) /\ args.version \in 0 .. 4 /\ Begun(output, args)
    BY <2>1 DEF WriterInv
  <2> QED
    BY <1>4, <2>2, HalvesRead
<1> QED
  BY <1>1, <1>3, <1>4 DEF CommandLineFits

\* The operating system's version and patch level, read back.
LEMMA OsPartNat ==
    ASSUME NEW x \in OsVersions, NEW n \in 1 .. 3
    PROVE  OsPart(x, n) \in Nat
<1>1. CASE n <= Len(x)
  <2>1. n \in 1 .. Len(x)
    BY <1>1
  <2> DEFINE T == 0 .. 9999
  <2>2. x \in Seq(T)
    BY DEF OsVersions
  <2> HIDE DEF T
  <2>3. x[n] \in T
    BY <2>1, <2>2, ElementOfSeq
  <2>4. PICK y \in T : x[n] = y
    BY <2>3
  <2>5. y \in Nat /\ y \div 10 \in Nat
    BY DEF T
  <2>6. OsPart(x, n) \in {y, y \div 10, 0}
    BY <2>4 DEF OsPart
  <2> QED
    BY <2>5, <2>6
<1>2. CASE ~(n <= Len(x))
  BY <1>2 DEF OsPart
<1> QED
  BY <1>1, <1>2

\* Two numbers in one.
LEMMA TwoParts ==
    ASSUME NEW p \in 0 .. 127, NEW q \in 1 .. 12, NEW w, w = p * 16 + q
    PROVE  w < 2048 /\ w \div 16 = p /\ w % 16 = q
  OBVIOUS

Packed(w, p, q, r) ==
  /\ p \in 0 .. 127 /\ q \in 0 .. 127 /\ r \in 0 .. 127
  /\ w = p * 16384 + q * 128 + r
Unpacked(w, p, q, r) ==
  /\ w < 2097152 /\ w \div 16384 = p /\ (w \div 128) % 128 = q
  /\ w % 128 = r

\* Three numbers in one.
LEMMA ThreeInOne ==
    ASSUME NEW w, NEW p, NEW q, NEW r, Packed(w, p, q, r)
    PROVE  Unpacked(w, p, q, r)
<1>1. /\ p \in 0 .. 127 /\ q \in 0 .. 127 /\ r \in 0 .. 127
      /\ w = p * 16384 + q * 128 + r
  BY DEF Packed
<1>2. w \in Nat /\ w < 2097152
  BY <1>1
<1>3. w \div 16384 = p
  BY <1>1
<1>4. w = 128 * (p * 128 + q) + r
  BY <1>1
<1>5. w \div 128 = p * 128 + q /\ w % 128 = r
  BY <1>1, <1>4
<1>6. (p * 128 + q) % 128 = q
  BY <1>1
<1> QED
  BY <1>2, <1>3, <1>5, <1>6 DEF Unpacked

\* The version word is read as it was made.
LEMMA OsWordReads ==
    ASSUME NEW a \in CommandLines, Asserts(a),
           NEW word, word = OsWord(a).val
    PROVE  /\ word[1] < 2097152 /\ word[2] < 2048
           /\ word[1] \div 16384 = OsPart(a.os_version, 1)
           /\ (word[1] \div 128) % 128 = OsPart(a.os_version, 2)
           /\ word[1] % 128 = OsPart(a.os_version, 3)
           /\ a.os_patch_level # <<>> =>
                /\ word[2] \div 16 + 2000 = a.os_patch_level[1]
                /\ word[2] % 16 = a.os_patch_level[2]
<1> DEFINE x == a.os_version
           p == OsPart(x, 1)
           q == OsPart(x, 2)
           r == OsPart(x, 3)
           y == a.os_patch_level
           w == p * 16384 + q * 128 + r
           z == parse_os_patch_level(y)
<1>1. x \in OsVersions /\ (y # <<>> => y \in Nat \X Nat)
  BY ArgTypes DEF PatchLevels
<1>2. word[1] = w /\ word[2] = z
  BY DEF OsWord, I, Field, parse_os_version
<1>3. /\ \A n \in 1 .. 3 : OsPart(x, n) < 128
      /\ y # <<>> => y[1] - 2000 \in 0 .. 127 /\ y[2] \in 1 .. 12
  BY DEF Asserts, OsVersionAsserts, PatchLevelAsserts
<1>4. \A n \in 1 .. 3 : OsPart(x, n) \in Nat
  BY <1>1, OsPartNat
<1>5. /\ OsPart(x, 1) \in Nat /\ OsPart(x, 2) \in Nat /\ OsPart(x, 3) \in Nat
      /\ OsPart(x, 1) < 128 /\ OsPart(x, 2) < 128 /\ OsPart(x, 3) < 128
  BY <1>3, <1>4
<1>6. p \in 0 .. 127 /\ q \in 0 .. 127 /\ r \in 0 .. 127
  BY <1>5
<1> HIDE DEF p, q, r
<1>7. /\ w < 2097152 /\ w \div 16384 = p /\ (w \div 128) % 128 = q
      /\ w % 128 = r
  <2>1. w = p * 16384 + q * 128 + r
    OBVIOUS
  <2> HIDE DEF w
  <2>2. Packed(w, p, q, r)
    BY <1>6, <2>1 DEF Packed
  <2>3. Unpacked(w, p, q, r)
    BY <2>2, ThreeInOne, Zenon
  <2> QED
    BY <2>3 DEF Unpacked
<1> HIDE DEF w
<1>8. /\ z < 2048
      /\ y # <<>> => z \div 16 + 2000 = y[1] /\ z % 16 = y[2]
  <2>1. CASE y = <<>>
    BY <2>1 DEF parse_os_patch_level
  <2>2. CASE y # <<>>
    <3>1. /\ y \in Nat \X Nat /\ y[1] - 2000 \in 0 .. 127 /\ y[2] \in 1 .. 12
          /\ z = (y[1] - 2000) * 16 + y[2]
      BY <1>1, <1>3, <2>2 DEF parse_os_patch_level
    <3> DEFINE m == y[1] - 2000
               n == y[2]
    <3>2. y[1] \in Nat
      BY <3>1
    <3>3. m \in 0 .. 127 /\ n \in 1 .. 12 /\ z = m * 16 + n /\ m + 2000 = y[1]
      BY SMTT(60), <3>1, <3>2
    <3> HIDE DEF m, n, y, z
    <3>4. z < 2048 /\ z \div 16 = m /\ z % 16 = n
      BY <3>3, TwoParts
    <3>5. z \div 16 + 2000 = y[1]
      BY <3>3, <3>4
    <3>6. z % 16 = y[2]
      BY <3>4 DEF n
    <3> QED
      BY <3>4, <3>5, <3>6
  <2> QED
    BY <2>1, <2>2
<1> HIDE DEF z
<1> QED
  BY <1>2, <1>7, <1>8 DEF p, q, r

-----------------------------------------------------------------------------
(* What the header says. *)

\* A header takes one page.
LEMMA FirstPage ==
    ASSUME NEW p \in Nat \ {0}, NEW x \in Nat, 0 < x, x <= p
    PROVE  Padded(x, p) = p
<1>1. PICK i \in Nat : Padded(x, p) = p * i /\ x <= p * i /\ p * i < x + p
  BY PaddedMultiple
<1>2. p * 1 = p /\ 1 \in Nat
  OBVIOUS
<1>3. i # 0
  BY <1>1
<1>4. p * i < p * 1 + p
  BY <1>1, <1>2
<1>5. p * i >= p
  BY <1>3
<1>6. p * 1 < p * i + p
  BY <1>2, <1>5
<1>7. i = 1
  BY <1>2, <1>4, <1>6, SameMultiple
<1> QED
  BY <1>1, <1>2, <1>7

\* A part that begins on a page takes its pages.
LEMMA NextPages ==
    ASSUME NEW p \in Nat \ {0}, NEW k \in Nat, NEW size,
           size = Absent \/ size \in Nat
    PROVE  /\ Pages(filesize(size), p) \in Nat
           /\ NextAt(p * k, size, p) = p * (k + Pages(filesize(size), p))
<1>1. CASE size = Absent
  <2>1. filesize(size) = 0
    BY <1>1 DEF filesize
  <2>2. (0 + p - 1) \div p = 0
    OBVIOUS
  <2>3. Pages(filesize(size), p) = 0
    BY <2>1, <2>2 DEF Pages
  <2>4. k + 0 = k
    OBVIOUS
  <2> QED
    BY <1>1, <2>3, <2>4 DEF NextAt
<1>2. CASE size \in Nat
  <2>1. size # Absent /\ filesize(size) = size
    BY <1>2 DEF filesize, Absent
  <2> DEFINE n == Pages(size, p)
  <2>2. n \in Nat
    BY <1>2 DEF Pages
  <2>3. Align(size, p) = n * p
    BY DEF Align, Pages
  <2>4. Padded(p * k + size, p) = p * k + Align(size, p)
    BY <1>2, PaddedBehind
  <2> HIDE DEF n
  <2>5. p * k + n * p = p * (k + n)
    BY <2>2
  <2>6. NextAt(p * k, size, p) = p * (k + n)
    BY <2>1, <2>3, <2>4, <2>5 DEF NextAt
  <2> QED
    BY <2>1, <2>2, <2>6 DEF n
<1> QED
  BY <1>1, <1>2

\* The recovery_dtbo begins where the header says.
LEMMA DtboWhere ==
    ASSUME NEW a \in CommandLines,
           NEW at, at = DataAt(a.page, a, a.page)
    PROVE  at[4] = recovery_dtbo_offset(a)
<1> DEFINE p == a.page
           x == a.kernel
           y == a.ramdisk
           z == a.second
           k == Pages(filesize(x), p)
           r == Pages(filesize(y), p)
           s == Pages(filesize(z), p)
<1>1. /\ p \in Nat \ {0} /\ (x = Absent \/ x \in Nat)
      /\ (y = Absent \/ y \in Nat) /\ (z = Absent \/ z \in Nat)
  BY ArgTypes, PageArg DEF FileArgs
<1>2. at[4] = NextAt(NextAt(NextAt(p, x, p), y, p), z, p)
  BY DEF DataAt
<1>3. recovery_dtbo_offset(a) = p * (1 + k + r + s)
  BY DEF recovery_dtbo_offset
<1> HIDE DEF p, x, y, z
<1>4. k \in Nat /\ r \in Nat /\ s \in Nat
  BY <1>1, NextPages
<1>5. p = p * 1
  BY <1>1
<1>6. NextAt(p * 1, x, p) = p * (1 + k)
  BY <1>1, NextPages
<1>7. NextAt(p * (1 + k), y, p) = p * ((1 + k) + r)
  <2>1. 1 + k \in Nat
    BY <1>4
  <2> QED
    BY <1>1, <2>1, NextPages
<1>8. NextAt(p * ((1 + k) + r), z, p) = p * (((1 + k) + r) + s)
  <2>1. (1 + k) + r \in Nat
    BY <1>4
  <2> QED
    BY <1>1, <2>1, NextPages
<1> HIDE DEF k, r, s
<1>9. at[4] = p * (((1 + k) + r) + s)
  BY <1>2, <1>5, <1>6, <1>7, <1>8
<1> QED
  BY <1>3, <1>9

\* Value of a header's field.
LEMMA HeldValue ==
    ASSUME NEW a, a.version \in 0 .. 4, NEW f, HeaderIn(f, a),
           NEW n \in 1 .. FieldCount(a.version)
    PROVE  Value(f, FieldNames(a.version)[n]) = Header(a)[n].val
BY DEF HeaderIn, Value

\* What a header up to version 2 holds.
LEMMA OldHeld ==
    ASSUME NEW a, a.version \in 0 .. 2, NEW f, HeaderIn(f, a)
    PROVE  /\ Value(f, "kernel_size") = filesize(a.kernel)
           /\ Value(f, "ramdisk_size") = filesize(a.ramdisk)
           /\ Value(f, "second_size") = filesize(a.second)
           /\ Value(f, "os_version") = OsWord(a).val
           /\ Value(f, "id") = update_sha(a)
           /\ Value(f, "extra_cmdline") = extra_cmdline(a)
<1>1. FieldNames(a.version) = OldNames /\ FieldCount(a.version) \in 15 .. 20
  BY DEF FieldNames, FieldCount
<1>2. \A n \in 1 .. 15 : Header(a)[n] = HeaderV0(a)[n]
  BY OldFields
<1>3. ASSUME NEW n \in 1 .. 15 PROVE Value(f, OldNames[n]) = HeaderV0(a)[n].val
  <2>1. n \in 1 .. FieldCount(a.version)
    BY <1>1
  <2>2. a.version \in 0 .. 4
    OBVIOUS
  <2>3. Value(f, FieldNames(a.version)[n]) = Header(a)[n].val
    BY <2>1, <2>2, HeldValue
  <2> QED
    BY <1>1, <1>2, <2>3
<1>4. /\ OldNames[2] = "kernel_size" /\ OldNames[4] = "ramdisk_size"
      /\ OldNames[6] = "second_size" /\ OldNames[11] = "os_version"
      /\ OldNames[14] = "id" /\ OldNames[15] = "extra_cmdline"
  BY DEF OldNames
<1>5. {2, 4, 6, 11, 14, 15} \subseteq 1 .. 15
  OBVIOUS
<1>6. /\ Value(f, OldNames[2]) = HeaderV0(a)[2].val
      /\ Value(f, OldNames[4]) = HeaderV0(a)[4].val
      /\ Value(f, OldNames[6]) = HeaderV0(a)[6].val
      /\ Value(f, OldNames[11]) = HeaderV0(a)[11].val
      /\ Value(f, OldNames[14]) = HeaderV0(a)[14].val
      /\ Value(f, OldNames[15]) = HeaderV0(a)[15].val
  BY <1>3, <1>5
<1> QED
  BY <1>4, <1>6, OldValues

\* What version 1 adds.
LEMMA V1Held ==
    ASSUME NEW a, a.version \in {1, 2}, NEW f, HeaderIn(f, a)
    PROVE  /\ Value(f, "recovery_dtbo_size") = filesize(a.recovery_dtbo)
           /\ Value(f, "recovery_dtbo_offset") =
                 IF a.recovery_dtbo = Absent THEN 0 ELSE recovery_dtbo_offset(a)
           /\ Value(f, "header_size") = HeaderBytes(a.version)
<1>1. FieldNames(a.version) = OldNames /\ FieldCount(a.version) \in 18 .. 20
  BY DEF FieldNames, FieldCount
<1>2. \A n \in 1 .. 18 : Header(a)[n] = HeaderV1(a)[n]
  <2>1. a.version \in 0 .. 2 /\ a.version > 0
    OBVIOUS
  <2> QED
    BY <2>1, OldFields
<1>3. ASSUME NEW n \in 1 .. 18 PROVE Value(f, OldNames[n]) = HeaderV1(a)[n].val
  <2>1. n \in 1 .. FieldCount(a.version) /\ a.version \in 0 .. 4
    BY <1>1
  <2>3. Value(f, FieldNames(a.version)[n]) = Header(a)[n].val
    BY <2>1, HeldValue
  <2> QED
    BY <1>1, <1>2, <2>3
<1>4. /\ OldNames[16] = "recovery_dtbo_size"
      /\ OldNames[17] = "recovery_dtbo_offset" /\ OldNames[18] = "header_size"
  BY DEF OldNames
<1>5. \A name, size, v : Field(name, size, v).val = v /\ I(name, v).val = v
  BY DEF Field, I
<1>6. HeaderV1(a)[16].val = filesize(a.recovery_dtbo)
  <2>1. HeaderV1(a)[16] = I("recovery_dtbo_size", filesize(a.recovery_dtbo))
    BY FieldsV1
  <2> QED
    BY <1>5, <2>1
<1>7. HeaderV1(a)[17].val =
         IF a.recovery_dtbo = Absent THEN 0 ELSE recovery_dtbo_offset(a)
  <2> DEFINE x == IF a.recovery_dtbo = Absent THEN 0 ELSE recovery_dtbo_offset(a)
  <2>1. HeaderV1(a)[17] = Field("recovery_dtbo_offset", 8, x)
    BY FieldsV1
  <2> HIDE DEF x
  <2>2. HeaderV1(a)[17].val = x
    BY <1>5, <2>1
  <2> QED
    BY <2>2 DEF x
<1>8. HeaderV1(a)[18].val = HeaderBytes(a.version)
  <2> DEFINE x == IF a.version = 1 THEN BOOT_IMAGE_HEADER_V1_SIZE
                  ELSE BOOT_IMAGE_HEADER_V2_SIZE
  <2>1. HeaderV1(a)[18] = I("header_size", x)
    BY FieldsV1
  <2>2. x = HeaderBytes(a.version)
    BY DEF HeaderBytes, BOOT_IMAGE_HEADER_V1_SIZE, BOOT_IMAGE_HEADER_V2_SIZE
  <2> HIDE DEF x
  <2> QED
    BY <1>5, <2>1, <2>2
<1>9. 16 \in 1 .. 18 /\ 17 \in 1 .. 18 /\ 18 \in 1 .. 18
  OBVIOUS
<1>10. /\ Value(f, OldNames[16]) = HeaderV1(a)[16].val
       /\ Value(f, OldNames[17]) = HeaderV1(a)[17].val
       /\ Value(f, OldNames[18]) = HeaderV1(a)[18].val
  BY <1>3, <1>9
<1> QED
  BY <1>4, <1>6, <1>7, <1>8, <1>10

\* What version 2 adds.
LEMMA V2Held ==
    ASSUME NEW a, a.version = 2, NEW f, HeaderIn(f, a)
    PROVE  Value(f, "dtb_size") = filesize(a.dtb)
<1>1. /\ FieldNames(a.version) = OldNames /\ 19 \in 1 .. FieldCount(a.version)
      /\ OldNames[19] = "dtb_size"
  BY DEF FieldNames, FieldCount, OldNames
<1>2. Header(a)[19] = HeaderV2(a)[19]
  <2>0. a.version \in 0 .. 2 /\ a.version > 1
    OBVIOUS
  <2>1. \A n \in 1 .. 20 : Header(a)[n] = HeaderV2(a)[n]
    BY <2>0, OldFields
  <2> QED
    BY <2>1
<1>3. HeaderV2(a)[19].val = filesize(a.dtb)
  <2>1. HeaderV2(a)[19] = I("dtb_size", filesize(a.dtb))
    BY FieldsV2
  <2> QED
    BY <2>1 DEF I, Field
<1>4. Value(f, FieldNames(a.version)[19]) = Header(a)[19].val
  <2>1. a.version \in 0 .. 4
    OBVIOUS
  <2> QED
    BY <1>1, <2>1, HeldValue
<1> QED
  BY <1>1, <1>2, <1>3, <1>4

\* What a header from version 3 on holds.
LEMMA NewerHeld ==
    ASSUME NEW a, a.version \in {3, 4}, NEW f, HeaderIn(f, a)
    PROVE  /\ Value(f, "kernel_size") = filesize(a.kernel)
           /\ Value(f, "ramdisk_size") = filesize(a.ramdisk)
           /\ Value(f, "os_version") = OsWord(a).val
           /\ Value(f, "header_size") = HeaderBytes(a.version)
           /\ a.version = 4 => Value(f, "signature_size") =
                                  IF a.signature = Absent THEN 0
                                  ELSE V4_SIGNATURE_SIZE
<1>1. /\ FieldNames(a.version) = NewerNames /\ FieldCount(a.version) \in 8 .. 9
      /\ a.version = 4 => FieldCount(a.version) = 9
  BY DEF FieldNames, FieldCount
<1>2. /\ Header(a)[2].val = filesize(a.kernel)
      /\ Header(a)[3].val = filesize(a.ramdisk)
      /\ Header(a)[4].val = OsWord(a).val
      /\ Header(a)[5].val = IF a.version > 3 THEN 1584 ELSE 1580
      /\ a.version = 4 => Header(a)[9].val = IF a.signature = Absent THEN 0
                                                ELSE V4_SIGNATURE_SIZE
  BY NewerFields
<1>3. ASSUME NEW n \in 1 .. FieldCount(a.version)
      PROVE  Value(f, NewerNames[n]) = Header(a)[n].val
  <2>1. a.version \in 0 .. 4
    OBVIOUS
  <2>2. Value(f, FieldNames(a.version)[n]) = Header(a)[n].val
    BY <2>1, HeldValue
  <2> QED
    BY <1>1, <2>2
<1>4. /\ NewerNames[2] = "kernel_size" /\ NewerNames[3] = "ramdisk_size"
      /\ NewerNames[4] = "os_version" /\ NewerNames[5] = "header_size"
      /\ NewerNames[9] = "signature_size"
  BY DEF NewerNames
<1>5. HeaderBytes(a.version) = IF a.version > 3 THEN 1584 ELSE 1580
  BY DEF HeaderBytes
<1>6. /\ 2 \in 1 .. FieldCount(a.version) /\ 3 \in 1 .. FieldCount(a.version)
      /\ 4 \in 1 .. FieldCount(a.version) /\ 5 \in 1 .. FieldCount(a.version)
      /\ a.version = 4 => 9 \in 1 .. FieldCount(a.version)
  BY <1>1
<1>7. /\ Value(f, NewerNames[2]) = Header(a)[2].val
      /\ Value(f, NewerNames[3]) = Header(a)[3].val
      /\ Value(f, NewerNames[4]) = Header(a)[4].val
      /\ Value(f, NewerNames[5]) = Header(a)[5].val
      /\ a.version = 4 => Value(f, NewerNames[9]) = Header(a)[9].val
  BY <1>3, <1>6
<1> QED
  BY <1>2, <1>4, <1>5, <1>7

\* One more behind three.
LEMMA Join4 ==
    ASSUME NEW All, NEW x \in All, NEW y \in All, NEW z \in All, NEW d \in All
    PROVE  <<x, y, z>> \o <<d>> = <<x, y, z, d>>
<1> DEFINE p == <<x, y, z>>
           q == <<d>>
           u == <<x, y, z, d>>
<1>1. p \in Seq(All) /\ q \in Seq(All) /\ u \in Seq(All)
  OBVIOUS
<1>2. /\ Len(p) = 3 /\ Len(q) = 1 /\ q[1] = d
      /\ p[1] = x /\ p[2] = y /\ p[3] = z
  OBVIOUS
<1>3. /\ Len(u) = 4
      /\ u[1] = x /\ u[2] = y /\ u[3] = z /\ u[4] = d
  OBVIOUS
<1> HIDE DEF p, q, u
<1>4. p \o q \in Seq(All) /\ Len(p \o q) = 4
  BY <1>1, <1>2 DEF p, q
<1>5. \A n \in 1 .. 4 : (p \o q)[n] = u[n]
  BY <1>1, <1>2, <1>3, ConcatProperties DEF p, q
<1>6. p \o q = u
  BY <1>1, <1>3, <1>4, <1>5, SeqEqual
<1> QED
  BY <1>6 DEF p, q, u

\* One more behind four.
LEMMA Join5 ==
    ASSUME NEW All, NEW x \in All, NEW y \in All, NEW z \in All, NEW d \in All, NEW t \in All
    PROVE  <<x, y, z, d>> \o <<t>> = <<x, y, z, d, t>>
<1> DEFINE p == <<x, y, z, d>>
           q == <<t>>
           u == <<x, y, z, d, t>>
<1>1. p \in Seq(All) /\ q \in Seq(All) /\ u \in Seq(All)
  OBVIOUS
<1>2. /\ Len(p) = 4 /\ Len(q) = 1 /\ q[1] = t
      /\ p[1] = x /\ p[2] = y /\ p[3] = z /\ p[4] = d
  OBVIOUS
<1>3. /\ Len(u) = 5
      /\ u[1] = x /\ u[2] = y /\ u[3] = z /\ u[4] = d /\ u[5] = t
  OBVIOUS
<1> HIDE DEF p, q, u
<1>4. p \o q \in Seq(All) /\ Len(p \o q) = 5
  BY <1>1, <1>2 DEF p, q
<1>5. \A n \in 1 .. 5 : (p \o q)[n] = u[n]
  BY <1>1, <1>2, <1>3, ConcatProperties DEF p, q
<1>6. p \o q = u
  BY <1>1, <1>3, <1>4, <1>5, SeqEqual
<1> QED
  BY <1>6 DEF p, q, u

\* The parts that the id covers.
LEMMA IdOf ==
    ASSUME NEW a, a.version \in 0 .. 2, NEW s,
           s[1] = filesize(a.kernel), s[2] = filesize(a.ramdisk),
           s[3] = filesize(a.second),
           a.version > 0 => s[4] = filesize(a.recovery_dtbo),
           a.version > 1 => s[5] = filesize(a.dtb)
    PROVE  update_sha(a) = [n \in 1 .. 3 + a.version |-> s[n]]
<1> DEFINE x == filesize(a.kernel)
           y == filesize(a.ramdisk)
           z == filesize(a.second)
           d == filesize(a.recovery_dtbo)
           t == filesize(a.dtb)
<1>0. s[1] = x /\ s[2] = y /\ s[3] = z
  OBVIOUS
<1>1. CASE a.version = 0
  <2>1. update_sha(a) = <<x, y, z>>
    BY <1>1 DEF update_sha
  <2> HIDE DEF x, y, z
  <2>2. <<x, y, z>> = [n \in 1 .. 3 |-> s[n]]
    BY <1>0
  <2> QED
    BY <1>1, <2>1, <2>2
<1>2. CASE a.version = 1
  <2>1. update_sha(a) = <<x, y, z, d>>
    <3>1. update_sha(a) = <<x, y, z>> \o <<d>> \o <<>>
      BY <1>2 DEF update_sha
    <3> HIDE DEF x, y, z, d
    <3>2. <<x, y, z>> \o <<d>> = <<x, y, z, d>>
      <4> DEFINE All == {x, y, z, d}
      <4>1. x \in All /\ y \in All /\ z \in All /\ d \in All
        OBVIOUS
      <4> HIDE DEF All
      <4> QED
        BY <4>1, Join4
    <3>3. <<x, y, z, d>> \o <<>> = <<x, y, z, d>>
      OBVIOUS
    <3> QED
      BY <3>1, <3>2, <3>3
  <2>2. s[4] = d
    BY <1>2
  <2> HIDE DEF x, y, z, d
  <2>3. <<x, y, z, d>> = [n \in 1 .. 4 |-> s[n]]
    BY <1>0, <2>2
  <2> QED
    BY <1>2, <2>1, <2>3
<1>3. CASE a.version = 2
  <2>1. update_sha(a) = <<x, y, z, d, t>>
    <3>1. update_sha(a) = <<x, y, z>> \o <<d>> \o <<t>>
      BY <1>3 DEF update_sha
    <3> HIDE DEF x, y, z, d, t
    <3>2. <<x, y, z>> \o <<d>> = <<x, y, z, d>>
      <4>1. /\ x \in {x, y, z, d} /\ y \in {x, y, z, d}
            /\ z \in {x, y, z, d} /\ d \in {x, y, z, d}
        OBVIOUS
      <4> QED
        BY <4>1, Join4
    <3>3. <<x, y, z, d>> \o <<t>> = <<x, y, z, d, t>>
      <4> DEFINE All == {x, y, z, d, t}
      <4>1. x \in All /\ y \in All /\ z \in All /\ d \in All /\ t \in All
        OBVIOUS
      <4> HIDE DEF All
      <4> QED
        BY <4>1, Join5
    <3> QED
      BY <3>1, <3>2, <3>3
  <2>2. s[4] = d /\ s[5] = t
    BY <1>3
  <2> HIDE DEF x, y, z, d, t
  <2>3. <<x, y, z, d, t>> = [n \in 1 .. 5 |-> s[n]]
    BY <1>0, <2>2
  <2> QED
    BY <1>3, <2>1, <2>3
<1> QED
  BY <1>1, <1>2, <1>3

-----------------------------------------------------------------------------
(* The header agrees. *)

\* Where the parts of an image of the older versions begin.
LEMMA FirstOld ==
    ASSUME NEW a, Writable(a), a.version \in 0 .. 2
    PROVE  /\ HeaderPage(a) = a.page
           /\ Padded(Tell(Put(<<>>, Header(a))), HeaderPage(a)) = a.page
<1>1. HeaderPage(a) = a.page
  BY DEF HeaderPage
<1>2. a.page \in Nat \ {0} /\ a.page >= 2048
  BY PageArg DEF Writable, Accepted
<1>3. Tell(Put(<<>>, Header(a))) = HeaderBytes(a.version)
  <2>1. HeadOf(a) \in {HeadOf(a), DataOf(a), ImageOf(a)}
    OBVIOUS
  <2> QED
    BY <2>1, Headed
<1>4. HeaderBytes(a.version) \in Nat /\ 0 < HeaderBytes(a.version)
      /\ HeaderBytes(a.version) <= 2048
  BY DEF HeaderBytes
<1>5. Padded(HeaderBytes(a.version), a.page) = a.page
  <2>1. HeaderBytes(a.version) <= a.page
    BY <1>2, <1>4
  <2> QED
    BY <1>2, <1>4, <2>1, FirstPage
<1> QED
  BY <1>1, <1>3, <1>5

\* What an image's header and parts are.
LEMMA ImageSizes ==
    ASSUME NEW a, Writable(a), NEW f, f = ImageOf(a)
    PROVE  /\ HeaderIn(f, a) /\ HeaderEnd(f) = HeaderBytes(a.version)
           /\ SizeOf(f, "kernel") = filesize(a.kernel)
           /\ SizeOf(f, "ramdisk") = filesize(a.ramdisk)
           /\ SizeOf(f, "second") = filesize(a.second)
           /\ SizeOf(f, "dtbo") = filesize(DtboOf(a))
           /\ SizeOf(f, "dtb") = filesize(DtbOf(a))
           /\ SizeOf(f, "signature") = IF Signs(a) THEN V4_SIGNATURE_SIZE ELSE 0
           /\ Has(f, "dtbo") <=> DtboOf(a) # Absent
           /\ a.version \in 0 .. 2 /\ DtboOf(a) # Absent =>
                 Piece(f, "dtbo").at = recovery_dtbo_offset(a)
<1>1. a \in CommandLines /\ a.version \in 0 .. 4
  BY DEF Writable, Accepted
<1>2. HeaderIn(f, a) /\ HeaderEnd(f) = HeaderBytes(a.version)
  <2>1. f \in {HeadOf(a), DataOf(a), ImageOf(a)}
    OBVIOUS
  <2> QED
    BY <2>1, Headed
<1> DEFINE h == Put(<<>>, Header(a))
           at == DataAt(Padded(Tell(h), HeaderPage(a)), a, HeaderPage(a))
<1>3. h = Put(<<>>, Header(a)) /\ f = ImageOf(a)
      /\ at = DataAt(Padded(Tell(h), HeaderPage(a)), a, HeaderPage(a))
  OBVIOUS
<1>4. a.version \in 0 .. 2 => at = DataAt(a.page, a, a.page)
  BY FirstOld
<1> HIDE DEF h, at
<1>5. /\ AllParts(f, a, at)
      /\ IF Signs(a)
         THEN /\ Has(f, "signature") /\ Piece(f, "signature").name = "signature"
              /\ SizeOf(f, "signature") = V4_SIGNATURE_SIZE
         ELSE SizeOf(f, "signature") = 0 /\ Tell(f) = at[6]
  BY <1>1, <1>3, ImageParts
<1>6. a.version \in 0 .. 2 => at[4] = recovery_dtbo_offset(a)
  <2> SUFFICES ASSUME a.version \in 0 .. 2 PROVE at[4] = recovery_dtbo_offset(a)
    OBVIOUS
  <2>1. at = DataAt(a.page, a, a.page)
    BY <1>4
  <2> QED
    BY <1>1, <2>1, DtboWhere
<1>7. /\ PartAt(f, "kernel", a.kernel, at[1])
      /\ PartAt(f, "ramdisk", a.ramdisk, at[2])
      /\ PartAt(f, "second", a.second, at[3])
      /\ PartAt(f, "dtbo", DtboOf(a), at[4])
      /\ PartAt(f, "dtb", DtbOf(a), at[5])
  BY <1>5 DEF AllParts
<1>8. /\ SizeOf(f, "kernel") = filesize(a.kernel)
      /\ SizeOf(f, "ramdisk") = filesize(a.ramdisk)
      /\ SizeOf(f, "second") = filesize(a.second)
      /\ SizeOf(f, "dtbo") = filesize(DtboOf(a))
      /\ SizeOf(f, "dtb") = filesize(DtbOf(a))
      /\ Has(f, "dtbo") <=> DtboOf(a) # Absent
      /\ DtboOf(a) # Absent => Piece(f, "dtbo").at = at[4]
  BY <1>7 DEF PartAt
<1> QED
  BY <1>2, <1>5, <1>6, <1>8

\* The header tells the truth.
LEMMA HeaderTells == WriterInv => HeaderTruthful
<1> SUFFICES ASSUME WriterInv, step = "done" PROVE HeaderTruthful
  BY DEF HeaderTruthful
<1> DEFINE a == args
           f == output
           v == a.version
<1>1. Writable(a) /\ f = ImageOf(a)
  BY DEF WriterInv, DoneSteps
<1>2. a \in CommandLines /\ Asserts(a) /\ v \in 0 .. 4
  BY <1>1 DEF Writable, Accepted
<1>s. step = "done"
  OBVIOUS
<1> HIDE DEF a, f
<1>3. /\ HeaderIn(f, a) /\ HeaderEnd(f) = HeaderBytes(v)
      /\ SizeOf(f, "kernel") = filesize(a.kernel)
      /\ SizeOf(f, "ramdisk") = filesize(a.ramdisk)
      /\ SizeOf(f, "second") = filesize(a.second)
      /\ SizeOf(f, "dtbo") = filesize(DtboOf(a))
      /\ SizeOf(f, "dtb") = filesize(DtbOf(a))
      /\ SizeOf(f, "signature") = IF Signs(a) THEN V4_SIGNATURE_SIZE ELSE 0
      /\ Has(f, "dtbo") <=> DtboOf(a) # Absent
      /\ v \in 0 .. 2 /\ DtboOf(a) # Absent =>
            Piece(f, "dtbo").at = recovery_dtbo_offset(a)
  BY <1>1, ImageSizes
<1>4. /\ Value(f, "kernel_size") = filesize(a.kernel)
      /\ Value(f, "ramdisk_size") = filesize(a.ramdisk)
      /\ Value(f, "os_version") = OsWord(a).val
  <2>1. CASE v \in 0 .. 2
    BY <1>3, <2>1, OldHeld
  <2>2. CASE v \in {3, 4}
    BY <1>3, <2>2, NewerHeld
  <2> QED
    BY <1>2, <2>1, <2>2
<1>5. Tells(f, "kernel_size", "kernel") /\ Tells(f, "ramdisk_size", "ramdisk")
  BY <1>3, <1>4 DEF Tells
<1>6. v < 3 => Tells(f, "second_size", "second")
  <2>1. v < 3 => v \in 0 .. 2
    BY <1>2
  <2> QED
    BY <1>3, <2>1, OldHeld DEF Tells
<1>7. v > 0 => Value(f, "header_size") = HeaderEnd(f)
  <2>1. v > 0 => v \in {1, 2} \/ v \in {3, 4}
    BY <1>2
  <2> QED
    BY <1>3, <2>1, V1Held, NewerHeld
<1>8. ASSUME v \in {1, 2}, Has(f, "dtbo")
      PROVE  /\ Tells(f, "recovery_dtbo_size", "dtbo")
             /\ Value(f, "recovery_dtbo_offset") = Piece(f, "dtbo").at
  <2>1. DtboOf(a) = a.recovery_dtbo /\ v \in 0 .. 2
    BY <1>8 DEF DtboOf
  <2>2. /\ Value(f, "recovery_dtbo_size") = filesize(a.recovery_dtbo)
        /\ Value(f, "recovery_dtbo_offset") =
              IF a.recovery_dtbo = Absent THEN 0 ELSE recovery_dtbo_offset(a)
    BY <1>3, <1>8, V1Held
  <2> QED
    BY <1>3, <1>8, <2>1, <2>2 DEF Tells
<1>9. v = 2 => Tells(f, "dtb_size", "dtb")
  <2>1. v = 2 => DtbOf(a) = a.dtb
    BY DEF DtbOf
  <2> QED
    BY <1>3, <2>1, V2Held DEF Tells
<1>10. v = 4 => Tells(f, "signature_size", "signature")
  <2> SUFFICES ASSUME v = 4 PROVE Tells(f, "signature_size", "signature")
    OBVIOUS
  <2>1. Signs(a) <=> a.signature # Absent
    BY DEF Signs
  <2>2. Value(f, "signature_size") = IF a.signature = Absent THEN 0
                                     ELSE V4_SIGNATURE_SIZE
    BY <1>3, NewerHeld
  <2> QED
    BY <1>3, <2>1, <2>2 DEF Tells
<1>11. ASSUME v < 3
       PROVE  Value(f, "id") =
                [n \in 1 .. 3 + v |->
                   SizeOf(f, <<"kernel", "ramdisk", "second", "dtbo", "dtb">>[n])]
  <2> DEFINE names == <<"kernel", "ramdisk", "second", "dtbo", "dtb">>
             s == [n \in 1 .. 5 |-> SizeOf(f, names[n])]
  <2>1. v \in 0 .. 2
    BY <1>2, <1>11
  <2>2. Value(f, "id") = update_sha(a)
    BY <1>3, <2>1, OldHeld
  <2>3. /\ s[1] = SizeOf(f, "kernel") /\ s[2] = SizeOf(f, "ramdisk")
        /\ s[3] = SizeOf(f, "second") /\ s[4] = SizeOf(f, "dtbo")
        /\ s[5] = SizeOf(f, "dtb")
    OBVIOUS
  <2>4. /\ v > 0 => DtboOf(a) = a.recovery_dtbo
        /\ v > 1 => DtbOf(a) = a.dtb
    BY <2>1 DEF DtboOf, DtbOf
  <2>5. \A n \in 1 .. 3 + v : n \in 1 .. 5
    BY <2>1
  <2>6. [n \in 1 .. 3 + v |-> s[n]] = [n \in 1 .. 3 + v |-> SizeOf(f, names[n])]
    BY <2>5
  <2> HIDE DEF s
  <2>7. update_sha(a) = [n \in 1 .. 3 + v |-> s[n]]
    BY <1>3, <2>1, <2>3, <2>4, IdOf
  <2> QED
    BY <2>2, <2>6, <2>7
<1>12. OsWordTruthful
  <2> DEFINE word == Value(f, "os_version")
  <2>1. word = OsWord(a).val
    BY <1>4
  <2> HIDE DEF word
  <2>2. /\ word[1] < 2097152 /\ word[2] < 2048
        /\ word[1] \div 16384 = OsPart(a.os_version, 1)
        /\ (word[1] \div 128) % 128 = OsPart(a.os_version, 2)
        /\ word[1] % 128 = OsPart(a.os_version, 3)
        /\ a.os_patch_level # <<>> =>
             /\ word[2] \div 16 + 2000 = a.os_patch_level[1]
             /\ word[2] % 16 = a.os_patch_level[2]
    BY <1>2, <2>1, OsWordReads
  <2> QED
    BY <2>2 DEF OsWordTruthful, word, a, f
<1> QED
  BY <1>5, <1>6, <1>7, <1>8, <1>9, <1>10, <1>11, <1>12
     DEF HeaderTruthful, a, f

\* The header is one to the scripts and to the loader, for every image and
\* every command line (mkbootimg.py:114-140, 192-271, 484-494, boot.c:21-39,
\* 70-97, 113-176).
THEOREM HeaderAlwaysAgrees == FlashSpec => []HeaderAgrees
<1>1. WriterInv /\ VendorInv => HeaderAgrees
  BY LoaderLooksThere, HeaderTells, TextsFit DEF HeaderAgrees
<1> QED
  BY <1>1, WriterInitially, WriterNextInv, VendorInitially, VendorNext, PTL
     DEF FlashSpec

-----------------------------------------------------------------------------
(* Bytes and units: the file is the loader's image. *)

\* Padding scales.
LEMMA PaddedScales ==
    ASSUME NEW u \in Nat \ {0}, NEW p \in Nat \ {0}, NEW x \in Nat
    PROVE  Padded(x * u, p * u) = Padded(x, p) * u
<1>1. PICK i \in Nat : Padded(x, p) = p * i /\ x <= p * i /\ p * i < x + p
  BY PaddedMultiple
<1>2. p * u \in Nat \ {0} /\ x * u \in Nat
  OBVIOUS
<1>3. PICK j \in Nat : /\ Padded(x * u, p * u) = (p * u) * j
                       /\ x * u <= (p * u) * j /\ (p * u) * j < x * u + p * u
  BY <1>2, PaddedMultiple
<1>4. (p * u) * i = (p * i) * u /\ p * i \in Nat
  OBVIOUS
<1>5. x * u <= (p * i) * u
  <2> DEFINE y == p * i
  <2>1. y \in Nat /\ x <= y
    BY <1>1
  <2> HIDE DEF y
  <2>2. x * u <= y * u
    BY <2>1
  <2> QED
    BY <2>2 DEF y
<1>6. (p * i) * u < x * u + p * u
  <2> DEFINE y == p * i
             z == x + p
  <2>1. y \in Nat /\ z \in Nat /\ y < z
    BY <1>1
  <2>2. z * u = x * u + p * u
    OBVIOUS
  <2> HIDE DEF y, z
  <2>3. y * u < z * u
    BY <2>1
  <2> QED
    BY <2>2, <2>3 DEF y
<1>7. i = j
  <2> DEFINE q == p * u
  <2>1. q \in Nat \ {0} /\ q * i < q * j + q /\ q * j < q * i + q
    BY <1>2, <1>3, <1>4, <1>5, <1>6
  <2> HIDE DEF q
  <2> QED
    BY <2>1, SameMultiple
<1> QED
  BY <1>1, <1>3, <1>4, <1>7

\* A part of x bytes of the loader, in the writer's; one may be absent.
Scaled(x, size, u) == x \in Nat /\ (size = x * u \/ (x = 0 /\ size = Absent))
Multiple(t, p) == \E n \in Nat : t = p * n

\* What follows a part that begins on a page.
LEMMA NextScales ==
    ASSUME NEW u \in Nat \ {0}, NEW p \in Nat \ {0}, NEW t, Multiple(t, p),
           NEW x, NEW size, Scaled(x, size, u), NEW pu, pu = p * u
    PROVE  /\ Multiple(Padded(t + x, p), p)
           /\ NextAt(t * u, size, pu) = Padded(t + x, p) * u
<1>1. PICK k \in Nat : t = p * k
  BY DEF Multiple
<1>2. x \in Nat /\ (size = x * u \/ (x = 0 /\ size = Absent))
  BY DEF Scaled
<1>3. t + x \in Nat /\ t \in Nat
  BY <1>1, <1>2
<1>4. Multiple(Padded(t + x, p), p)
  BY <1>3, PaddedMultiple DEF Multiple
<1>5. CASE size = x * u /\ size # Absent
  <2>1. NextAt(t * u, size, pu) = Padded(t * u + x * u, pu)
    BY <1>5 DEF NextAt
  <2>2. t * u + x * u = (t + x) * u
    BY <1>2, <1>3
  <2>3. Padded((t + x) * u, pu) = Padded(t + x, p) * u
    <3> DEFINE y == t + x
    <3>1. y \in Nat
      BY <1>3
    <3> HIDE DEF y
    <3>2. Padded(y * u, p * u) = Padded(y, p) * u
      BY <3>1, PaddedScales
    <3> QED
      BY <3>2 DEF y
  <2> QED
    BY <1>4, <2>1, <2>2, <2>3
<1>6. CASE x = 0 /\ size = Absent
  <2>1. Padded(p * k + x, p) = p * k + Align(x, p)
    BY <1>2, PaddedBehind
  <2>2. Align(x, p) = 0
    <3>1. PICK i \in Nat : Align(x, p) = p * i /\ p * i < x + p
      BY <1>2, AlignMultiple
    <3>2. i = 0
      <4>1. p * i < p
        BY <1>6, <3>1
      <4>2. i >= 1 => p * i >= p
        OBVIOUS
      <4> QED
        BY <4>1, <4>2
    <3> QED
      BY <3>1, <3>2
  <2>3. Padded(t + x, p) = t
    BY <1>1, <1>3, <2>1, <2>2
  <2> QED
    BY <1>4, <1>6, <2>3 DEF NextAt
<1>7. x * u # Absent
  BY <1>2 DEF Absent
<1> QED
  BY <1>2, <1>4, <1>5, <1>6, <1>7

\* Starts of the loader's model in bytes.
LEMMA StartsScale ==
    ASSUME NEW h \in Images, NEW a, a = ArgsOf(h),
           NEW at, at = DataAt(a.page, a, a.page)
    PROVE  /\ at[1] = Starts(h)[1] * Unit /\ at[2] = Starts(h)[2] * Unit
           /\ at[3] = Starts(h)[3] * Unit /\ at[4] = Starts(h)[4] * Unit
           /\ h.version > 0 => at[5] = Starts(h)[5] * Unit
           /\ h.version = 2 => at[6] = Starts(h)[6] * Unit
           /\ h.version = 0 => at[6] = at[4]
           /\ h.version = 1 => at[6] = at[5]
<1> DEFINE p == h.page
           u == Unit
           next(t, x) == Padded(t + x, p)
           kernel  == Padded(HeaderSize, p)
           ramdisk == next(kernel, h.kernel)
           second  == next(ramdisk, h.ramdisk)
           dtbo    == next(second, h.second)
           dtb     == next(dtbo, h.dtbo)
           end     == next(dtb, h.dtb)
           OnPage(t) == Multiple(t, p)
           Sized(x, size) == Scaled(x, size, u)
<1>1. /\ p \in Nat \ {0} /\ u \in Nat \ {0}
      /\ h.kernel \in Nat /\ h.ramdisk \in Nat /\ h.second \in Nat
      /\ h.dtbo \in Nat /\ h.dtb \in Nat
      /\ HeaderSize \in Nat /\ 0 < HeaderSize /\ HeaderSize <= p
  BY Sizes, FlashAssumption
<1>2. /\ a.page = p * u /\ a.version = h.version
      /\ Sized(h.kernel, a.kernel) /\ Sized(h.ramdisk, a.ramdisk)
      /\ Sized(h.second, a.second) /\ Sized(h.dtbo, a.recovery_dtbo)
      /\ Sized(h.dtb, a.dtb)
  BY <1>1 DEF ArgsOf, Optional, Scaled
<1>3. /\ Starts(h)[1] = kernel /\ Starts(h)[2] = ramdisk
      /\ Starts(h)[3] = second /\ Starts(h)[4] = dtbo /\ Starts(h)[5] = dtb
      /\ Starts(h)[6] = end
  BY DEF Starts
<1>4. /\ at[1] = p * u /\ at[2] = NextAt(at[1], a.kernel, p * u)
      /\ at[3] = NextAt(at[2], a.ramdisk, p * u)
      /\ at[4] = NextAt(at[3], a.second, p * u)
      /\ h.version \in {1, 2} =>
            at[5] = NextAt(at[4], a.recovery_dtbo, p * u)
      /\ h.version = 2 => at[6] = NextAt(at[5], a.dtb, p * u)
      /\ h.version = 0 => at[6] = at[4]
      /\ h.version = 1 => at[6] = at[5]
  BY <1>2 DEF DataAt
<1>5. kernel = p /\ OnPage(kernel)
  <2>1. kernel = p
    BY <1>1, FirstPage
  <2>2. p = p * 1
    BY <1>1
  <2> QED
    BY <2>1, <2>2 DEF Multiple
<1>v. h.version \in 0 .. 2
  BY FlashAssumption
<1>6. ASSUME NEW t, OnPage(t), NEW x, NEW size, Sized(x, size)
      PROVE  OnPage(next(t, x)) /\ NextAt(t * u, size, p * u) = next(t, x) * u
  <2> DEFINE pu == p * u
  <2>1. /\ p \in Nat \ {0} /\ u \in Nat \ {0} /\ Multiple(t, p)
        /\ Scaled(x, size, u) /\ pu = p * u
    BY <1>1, <1>6
  <2> HIDE DEF p, u, pu
  <2>2. /\ Multiple(Padded(t + x, p), p)
        /\ NextAt(t * u, size, pu) = Padded(t + x, p) * u
    BY <2>1, NextScales
  <2> QED
    BY <2>2 DEF pu
<1> HIDE DEF p, u, next, kernel, OnPage, Sized
<1>7. OnPage(ramdisk) /\ at[1] = kernel * u /\ at[2] = ramdisk * u
  BY <1>2, <1>4, <1>5, <1>6
<1> HIDE DEF ramdisk
<1>8. OnPage(second) /\ at[3] = second * u
  BY <1>2, <1>4, <1>6, <1>7
<1> HIDE DEF second
<1>9. OnPage(dtbo) /\ at[4] = dtbo * u
  BY <1>2, <1>4, <1>6, <1>8
<1> HIDE DEF dtbo
<1>10. OnPage(dtb) /\ NextAt(at[4], a.recovery_dtbo, p * u) = dtb * u
  BY <1>2, <1>6, <1>9
<1> HIDE DEF dtb
<1>11. h.version > 0 => at[5] = dtb * u
  <2>1. h.version > 0 => h.version \in {1, 2}
    BY <1>v
  <2> QED
    BY <1>4, <1>10, <2>1
<1>12. NextAt(dtb * u, a.dtb, p * u) = end * u
  BY <1>2, <1>6, <1>10
<1> HIDE DEF end
<1>13. h.version = 2 => at[6] = end * u
  BY <1>4, <1>11, <1>12
<1> QED
  BY <1>3, <1>4, <1>7, <1>8, <1>9, <1>11, <1>13 DEF u

\* There is extra text in the one where there is in the other.
LEMMA ExtraText ==
    ASSUME NEW h \in Images
    PROVE  extra_cmdline(ArgsOf(h)) > 1 <=> ExtraField(h) # <<>>
<1> DEFINE c == h.cmdline
           a == ArgsOf(h)
           s == SubSeq(c, 2, Len(c))
<1>1. c \in Seq(STRING) /\ Len(c) \in 1 .. 2
  BY FlashAssumption
<1>2. a.cmdline = IF Len(c) = 1 THEN 511 ELSE 513
  BY DEF ArgsOf, BOOT_ARGS_SIZE
<1>3. ExtraField(h) = s
  BY DEF ExtraField
<1> HIDE DEF c, a
<1>4. CASE Len(c) = 1
  <2>1. s = <<>>
    BY <1>4, SubSeqEmpty
  <2>2. extra_cmdline(a) = 0
    BY <1>2, <1>4 DEF extra_cmdline, BOOT_ARGS_SIZE
  <2> QED
    BY <1>3, <2>1, <2>2 DEF a
<1>5. CASE Len(c) = 2
  <2>1. s # <<>>
    <3>1. \A i \in 2 .. 2 : c[i] \in STRING
      BY <1>1, <1>5
    <3>2. s = SubSeq(c, 2, 2)
      BY <1>5
    <3>3. Len(SubSeq(c, 2, 2)) = 1
      BY <3>1, SubSeqProperties
    <3> QED
      BY <3>2, <3>3, EmptyFile
  <2>2. extra_cmdline(a) = 2
    BY <1>2, <1>5 DEF extra_cmdline, BOOT_ARGS_SIZE
  <2> QED
    BY <1>3, <2>1, <2>2 DEF a
<1> QED
  BY <1>1, <1>4, <1>5

\* The image that is booted does not change.
LEMMA ImgStays ==
    /\ FlashInit => img \in Images
    /\ img \in Images /\ [FlashNext]_<<vars, wvars>> => img' \in Images
<1>1. FlashInit => img \in Images
  BY DEF FlashInit, Init
<1>2. Next => img' = img
  BY DEF Next, EarlyLcdc, EmbedBoot, ReadHeader, BadMagic, AllocImage,
         AllocFails, ReadImage, JzCopyKernel, JzCopyRamdisk, JzParam,
         V2CopyKernel, V2CopyRamdisk, V2CopyDtb, V2Fdt, loader
<1>3. UNCHANGED vars => img' = img
  BY DEF vars, loader
<1> QED
  BY <1>1, <1>2, <1>3 DEF FlashNext

\* The finished file is the image.
LEMMA FileAgrees == WriterInv /\ img \in Images => FileIsImage
<1> SUFFICES ASSUME WriterInv, img \in Images, step = "done", args = ArgsOf(img)
             PROVE  FileIsImage
  BY DEF FileIsImage
<1> DEFINE a == args
           f == output
           h == img
           at == DataAt(a.page, a, a.page)
<1>1. Writable(a) /\ f = ImageOf(a) /\ a \in CommandLines
  BY DEF WriterInv, DoneSteps, Writable, Accepted
<1>2. /\ h \in Images /\ a = ArgsOf(h) /\ at = DataAt(a.page, a, a.page)
      /\ h.version \in 0 .. 2
  BY FlashAssumption
<1> HIDE DEF a, f, h, at
<1>3. /\ a.version = h.version /\ a.signature = Absent
      /\ h.kernel > 0 => a.kernel = h.kernel * Unit /\ a.kernel # Absent
      /\ h.ramdisk > 0 => a.ramdisk = h.ramdisk * Unit /\ a.ramdisk # Absent
      /\ h.second > 0 => a.second = h.second * Unit /\ a.second # Absent
      /\ h.dtbo > 0 => a.recovery_dtbo = h.dtbo * Unit /\ a.recovery_dtbo # Absent
      /\ h.dtb > 0 => a.dtb = h.dtb * Unit /\ a.dtb # Absent
  <2>1. /\ h.kernel \in Nat /\ h.ramdisk \in Nat /\ h.second \in Nat
        /\ h.dtbo \in Nat /\ h.dtb \in Nat /\ Unit \in Nat
    BY <1>2, Sizes, FlashAssumption
  <2>2. \A x \in Nat : x * Unit # Absent
    BY <2>1 DEF Absent
  <2>3. /\ a.kernel = h.kernel * Unit /\ a.ramdisk = h.ramdisk * Unit
        /\ a.second = Optional(h.second)
        /\ a.recovery_dtbo = Optional(h.dtbo) /\ a.dtb = h.dtb * Unit
        /\ a.version = h.version /\ a.signature = Absent
    BY <1>2 DEF ArgsOf
  <2>4. /\ h.second > 0 => Optional(h.second) = h.second * Unit
        /\ h.dtbo > 0 => Optional(h.dtbo) = h.dtbo * Unit
    BY <2>1 DEF Optional
  <2> QED
    BY <2>1, <2>2, <2>3, <2>4
<1>4. AllParts(f, a, at) /\ Tell(f) = at[6]
  <2> DEFINE g == Put(<<>>, Header(a))
             t == DataAt(Padded(Tell(g), HeaderPage(a)), a, HeaderPage(a))
  <2>1. t = at
    BY <1>1, <1>2, <1>3, FirstOld
  <2>2. /\ g = Put(<<>>, Header(a)) /\ a.version \in 0 .. 4
        /\ t = DataAt(Padded(Tell(g), HeaderPage(a)), a, HeaderPage(a))
    BY <1>2, <1>3
  <2> HIDE DEF g, t
  <2>3. ~Signs(a)
    BY <1>2, <1>3 DEF Signs
  <2>4. /\ AllParts(f, a, t)
        /\ IF Signs(a)
           THEN /\ Has(f, "signature") /\ Piece(f, "signature").name = "signature"
                /\ SizeOf(f, "signature") = V4_SIGNATURE_SIZE
           ELSE SizeOf(f, "signature") = 0 /\ Tell(f) = t[6]
    BY <1>1, <2>2, ImageParts
  <2> QED
    BY <2>1, <2>3, <2>4
<1>5. /\ at[1] = Starts(h)[1] * Unit /\ at[2] = Starts(h)[2] * Unit
      /\ at[3] = Starts(h)[3] * Unit /\ at[4] = Starts(h)[4] * Unit
      /\ h.version > 0 => at[5] = Starts(h)[5] * Unit
      /\ h.version = 2 => at[6] = Starts(h)[6] * Unit
      /\ h.version = 0 => at[6] = at[4]
      /\ h.version = 1 => at[6] = at[5]
  BY <1>2, StartsScale
<1>6. /\ h.kernel > 0 => /\ Piece(f, "kernel").at = at[1]
                         /\ Piece(f, "kernel").size = h.kernel * Unit
      /\ h.ramdisk > 0 => /\ Piece(f, "ramdisk").at = at[2]
                          /\ Piece(f, "ramdisk").size = h.ramdisk * Unit
      /\ h.second > 0 => /\ Piece(f, "second").at = at[3]
                         /\ Piece(f, "second").size = h.second * Unit
      /\ h.version > 0 /\ h.dtbo > 0 =>
                         /\ Piece(f, "dtbo").at = at[4]
                         /\ Piece(f, "dtbo").size = h.dtbo * Unit
      /\ h.version = 2 /\ h.dtb > 0 =>
                         /\ Piece(f, "dtb").at = at[5]
                         /\ Piece(f, "dtb").size = h.dtb * Unit
  <2>1. /\ h.version > 0 => DtboOf(a) = a.recovery_dtbo
        /\ h.version = 2 => DtbOf(a) = a.dtb
    BY <1>2, <1>3 DEF DtboOf, DtbOf
  <2> QED
    BY <1>3, <1>4, <2>1 DEF AllParts, PartAt
<1>7. ASSUME NEW n \in DOMAIN Parts(h), h[Parts(h)[n]] > 0
      PROVE  /\ Piece(f, Parts(h)[n]).at = Starts(h)[n] * Unit
             /\ Piece(f, Parts(h)[n]).size = h[Parts(h)[n]] * Unit
  <2>1. CASE n = 1
    <3>1. Parts(h)[n] = "kernel"
      BY <2>1 DEF Parts
    <3> QED
      BY <1>5, <1>6, <1>7, <2>1, <3>1
  <2>2. CASE n = 2
    <3>1. Parts(h)[n] = "ramdisk"
      BY <2>2 DEF Parts
    <3> QED
      BY <1>5, <1>6, <1>7, <2>2, <3>1
  <2>3. CASE n = 3
    <3>1. Parts(h)[n] = "second"
      BY <2>3 DEF Parts
    <3> QED
      BY <1>5, <1>6, <1>7, <2>3, <3>1
  <2>4. CASE n = 4
    <3>1. Parts(h)[n] = "dtbo" /\ h.version > 0
      BY <1>2, <1>7, <2>4 DEF Parts
    <3> QED
      BY <1>5, <1>6, <1>7, <2>4, <3>1
  <2>5. CASE n = 5
    <3>1. Parts(h)[n] = "dtb" /\ h.version = 2
      BY <1>2, <1>7, <2>5 DEF Parts
    <3> QED
      BY <1>5, <1>6, <1>7, <2>5, <3>1
  <2>6. n \in 1 .. 5
    BY <1>7 DEF Parts
  <2> QED
    BY <2>1, <2>2, <2>3, <2>4, <2>5, <2>6
<1>8. Tell(f) = Starts(h)[Len(Parts(h)) + 1] * Unit
  <2>1. Len(Parts(h)) + 1 = IF h.version = 2 THEN 6
                            ELSE IF h.version = 1 THEN 5 ELSE 4
    BY <1>2 DEF Parts
  <2> QED
    BY <1>2, <1>4, <1>5, <2>1
<1>9. Value(f, "extra_cmdline") > 1 <=> ExtraField(h) # <<>>
  <2>1. HeaderIn(f, a)
    BY <1>1, ImageSizes
  <2>2. Value(f, "extra_cmdline") = extra_cmdline(a)
    <3>1. a.version \in 0 .. 2
      BY <1>2, <1>3
    <3> QED
      BY <2>1, <3>1, OldHeld
  <2> QED
    BY <1>2, <2>2, ExtraText
<1> QED
  BY <1>7, <1>8, <1>9 DEF FileIsImage, f, h

\* The file that mkbootimg writes is the image that the loader reads, whatever
\* its parts and its page (mkbootimg.py:86-93, 359-363, 616-624).
THEOREM FileIsTheImage == FlashSpec => []FileIsImage
<1>1. FlashInit => img \in Images
  BY ImgStays
<1>2. img \in Images /\ [FlashNext]_<<vars, wvars>> => (img \in Images)'
  BY ImgStays
<1> QED
  BY <1>1, <1>2, FileAgrees, WriterInitially, WriterNextInv, PTL DEF FlashSpec

-----------------------------------------------------------------------------
(* Certifying. *)

\* What a file began with.
LEMMA TakePrefix ==
    ASSUME NEW f, NEW g, IsFile(f), IsFile(g), Prefix(f, g)
    PROVE  SubSeq(g, 1, Len(f)) = f
<1>1. Len(f) \in Nat /\ Len(g) \in Nat /\ Len(f) <= Len(g)
  BY FileEnd DEF Prefix
<1>2. PICK A, B : f \in Seq(A) /\ g \in Seq(B)
  BY DEF IsFile, IsSeq
<1> DEFINE T == A \cup B
           s == SubSeq(g, 1, Len(f))
<1>3. f \in Seq(T) /\ g \in Seq(T)
  BY <1>2, SeqMonotonic
<1> HIDE DEF T
<1>4. \A i \in 1 .. Len(f) : g[i] \in T
  <2>1. \A i \in 1 .. Len(f) : i \in 1 .. Len(g)
    BY <1>1
  <2> QED
    BY <1>3, <2>1, ElementOfSeq
<1>5. /\ s \in Seq(T)
      /\ Len(s) = IF 1 <= Len(f) THEN Len(f) - 1 + 1 ELSE 0
      /\ \A i \in 1 .. Len(f) - 1 + 1 : s[i] = g[1 + i - 1]
  <2> DEFINE k == Len(f)
  <2>1. k \in Int /\ 1 \in Int /\ \A i \in 1 .. k : g[i] \in T
    BY <1>1, <1>4
  <2> HIDE DEF k
  <2>2. /\ SubSeq(g, 1, k) \in Seq(T)
        /\ Len(SubSeq(g, 1, k)) = IF 1 <= k THEN k - 1 + 1 ELSE 0
        /\ \A i \in 1 .. k - 1 + 1 : SubSeq(g, 1, k)[i] = g[1 + i - 1]
    BY <2>1, SubSeqProperties
  <2> QED
    BY <2>2 DEF k
<1> HIDE DEF s
<1>6. Len(s) = Len(f)
  BY <1>1, <1>5
<1>7. \A i \in 1 .. Len(s) : s[i] = f[i]
  <2>1. \A i \in 1 .. Len(s) : i \in 1 .. Len(f) - 1 + 1 /\ 1 + i - 1 = i
                               /\ i \in 1 .. Len(f)
    BY <1>1, <1>6
  <2> QED
    BY <1>5, <2>1 DEF Prefix
<1>8. s = f
  BY <1>3, <1>5, <1>6, <1>7, SeqEqual
<1> QED
  BY <1>8 DEF s

\* No piece reaches beyond the end of its file.
LEMMA PieceEnds ==
    ASSUME NEW f, IsFile(f), NEW n \in 1 .. Len(f)
    PROVE  f[n].at + f[n].size <= Tell(f)
<1> DEFINE End(m) == f[m].at + f[m].size
           P == {k \in Nat : n + k <= Len(f) => End(n) <= End(n + k)}
<1>1. Len(f) \in Nat
  BY FileEnd
<1>2. \A m \in 1 .. Len(f) : End(m) \in Int
  BY DEF IsFile
<1>3. 0 \in P
  <2>1. n + 0 = n
    OBVIOUS
  <2>2. End(n) <= End(n)
    BY <1>2
  <2> QED
    BY <2>1, <2>2
<1>4. ASSUME NEW k \in Nat, k \in P PROVE k + 1 \in P
  <2> SUFFICES ASSUME n + (k + 1) <= Len(f) PROVE End(n) <= End(n + (k + 1))
    OBVIOUS
  <2>1. /\ n + k \in 1 .. Len(f) /\ n + (k + 1) \in 1 .. Len(f)
        /\ n + (k + 1) # 1 /\ (n + (k + 1)) - 1 = n + k
    BY <1>1
  <2>2. End(n) <= End(n + k)
    BY <1>4, <2>1
  <2>3. f[n + (k + 1)].at = End(n + k) /\ f[n + (k + 1)].size \in Nat
    BY <2>1 DEF IsFile
  <2>4. End(n) \in Int /\ End(n + k) \in Int
    BY <1>2, <2>1
  <2>5. End(n + (k + 1)) = End(n + k) + f[n + (k + 1)].size
    BY <2>3
  <2> HIDE DEF End
  <2> QED
    BY <2>2, <2>3, <2>4, <2>5
<1>5. Nat \subseteq P
  <2> HIDE DEF P
  <2> QED
    BY <1>3, <1>4, SetInduction
<1>6. Len(f) - n \in Nat /\ n + (Len(f) - n) = Len(f) /\ Len(f) # 0
  BY <1>1
<1>7. Len(f) - n \in P
  BY <1>5, <1>6
<1>8. End(n) <= End(Len(f))
  BY <1>1, <1>6, <1>7
<1>9. Tell(f) = End(Len(f))
  BY <1>6, FileEnd
<1> QED
  BY <1>8, <1>9

\* Nor ends before it.
LEMMA TellGrows ==
    ASSUME NEW f, NEW g, IsFile(f), IsFile(g), Prefix(f, g)
    PROVE  Tell(f) <= Tell(g)
<1>1. Len(f) \in Nat /\ Len(g) \in Nat /\ Tell(f) \in Nat /\ Tell(g) \in Nat
  BY FileEnd
<1>2. CASE Len(f) = 0
  BY <1>1, <1>2, FileEnd
<1>3. CASE Len(f) # 0
  <2>1. Len(f) \in 1 .. Len(g) /\ Len(f) \in 1 .. Len(f)
    BY <1>1, <1>3 DEF Prefix
  <2>2. g[Len(f)] = f[Len(f)]
    BY <2>1 DEF Prefix
  <2>3. g[Len(f)].at + g[Len(f)].size <= Tell(g)
    BY <2>1, PieceEnds
  <2>4. Tell(f) = f[Len(f)].at + f[Len(f)].size
    BY <1>3, FileEnd
  <2> QED
    BY <2>2, <2>3, <2>4
<1> QED
  BY <1>2, <1>3

\* The names that an image and an archive have in them.
NamesOf(a) == IF a.archive THEN {"boot.img", "boot-gz.img", "vendor_boot.img"}
                           ELSE {"boot.img"}

\* The image o of a as it is built; with certificates for it and its kernel;
\* and with a footer behind these.
InOf(o, a) == a.partition >= Tell(o) + Metadata
BuiltOf(o, a) == IF InOf(o, a) THEN add_hash_footer(o, a.partition) ELSE o
WholeOf(o, a) == IF InOf(o, a) THEN a.partition
                 ELSE Padded(Tell(o) + BOOT_SIGNATURE_SIZE, 4096) + Metadata
CertsOf(g, o, a) ==
    \E s \in Nat \ {0} :
      /\ 2 * s <= BOOT_SIGNATURE_SIZE
      /\ g = Put(o, << Field("boot", s, Tell(o)),
                       Field("generic_kernel", s, a.kernel),
                       Free("zeros", BOOT_SIGNATURE_SIZE - 2 * s) >>)
FootedOf(f, o, a) ==
    \E g : /\ CertsOf(g, o, a) /\ Tell(g) + Metadata <= WholeOf(o, a)
           /\ f = add_hash_footer(g, WholeOf(o, a))

\* What is in an archive after so many runs, and in between.
Finished(f, n, k, o, a) ==
    IF n # "vendor_boot.img" /\ k > 0 THEN FootedOf(f, o, a)
                                      ELSE f = BuiltOf(o, a)
Between(f, n, left, o, a) ==
    /\ n = "vendor_boot.img" => f = BuiltOf(o, a)
    /\ n \in left => f = BuiltOf(o, a) \/ FootedOf(f, o, a)
    /\ n # "vendor_boot.img" /\ n \notin left => FootedOf(f, o, a)

\* Images are as they were built until they are certified once, and then
\* always have one set of certificates.
CertInv ==
    /\ extra \in Nat /\ runs \in Nat /\ (images = <<>> => runs = 0)
    /\ images # <<>> =>
         /\ DOMAIN images = NamesOf(args)
         /\ \A n \in NamesOf(args) : Finished(images[n], n, runs, output, args)
    /\ step \in CertifySteps =>
         /\ images # <<>> /\ DOMAIN work = NamesOf(args)
         /\ todo \subseteq NamesOf(args) \ {"vendor_boot.img"}
         /\ \A n \in NamesOf(args) : Between(work[n], n, todo, output, args)
    /\ step \in {"certify", "footer"} => member \in todo
    /\ step = "certify" => temp = output
    /\ step = "footer" => CertsOf(temp, output, args)

CertNames == {"boot", "generic_kernel", "zeros", "footer"}

\* An image without certificates and footer.
Bare(o) == /\ IsFile(o) /\ Len(o) # 0 /\ Tell(o) > 0
           /\ \A n \in 1 .. Len(o) : o[n].name \notin CertNames

\* What mkbootimg writes is one.
LEMMA OutputBare ==
    ASSUME NEW a, Writable(a), NEW o, o = ImageOf(a)
    PROVE  Bare(o)
<1> DEFINE h == Put(<<>>, Header(a))
           at == DataAt(Padded(Tell(h), HeaderPage(a)), a, HeaderPage(a))
<1>1. a \in CommandLines /\ a.version \in 0 .. 4
  BY DEF Writable, Accepted
<1>2. /\ IsFile(h) /\ IsFile(o) /\ Prefix(h, o) /\ NewNames(h, o, OtherNames)
      /\ Len(o) \in Nat \ {0}
  BY <1>1, ImageParts
<1>3. Len(h) = Len(Header(a)) /\ \A n \in 1 .. Len(h) : h[n].name \in HeaderNames
  <2> DEFINE g == HeadOf(a)
  <2> HIDE DEF h
  <2>1. h = Put(<<>>, Header(a))
    BY DEF h
  <2> QED
    BY <1>1, <2>1, HeadParts
<1>4. Tell(h) > 0
  <2>1. Tell(h) = HeaderBytes(a.version)
    BY <1>1, <1>2, HeaderHeld
  <2> QED
    BY <1>1, <2>1 DEF HeaderBytes
<1> HIDE DEF h
<1>5. Tell(o) > 0
  <2>1. Tell(h) <= Tell(o) /\ Tell(h) \in Nat /\ Tell(o) \in Nat
    BY <1>2, TellGrows, FileEnd
  <2> QED
    BY <1>4, <2>1
<1>6. ASSUME NEW n \in 1 .. Len(o) PROVE o[n].name \notin CertNames
  <2>1. Len(h) \in Nat /\ Len(o) \in Nat
    BY <1>2, FileEnd
  <2>2. CASE n \in 1 .. Len(h)
    <3>1. o[n].name \in HeaderNames
      BY <1>2, <1>3, <2>2 DEF Prefix
    <3> QED
      BY <3>1, NamesApart DEF CertNames
  <2>3. CASE n \in Len(h) + 1 .. Len(o)
    <3>1. o[n].name \in OtherNames
      BY <1>2, <2>3 DEF NewNames
    <3> QED
      BY <3>1, NamesApart DEF CertNames
  <2> QED
    BY <2>1, <2>2, <2>3
<1> QED
  BY <1>2, <1>5, <1>6 DEF Bare

\* A footer fills a file up to its size, and comes off again.
LEMMA FooterFile ==
    ASSUME NEW g, IsFile(g), NEW w \in Nat, Tell(g) <= w,
           NEW f, f = add_hash_footer(g, w)
    PROVE  /\ IsFile(f) /\ Len(f) = Len(g) + 1 /\ Prefix(g, f) /\ Tell(f) = w
           /\ f[Len(g) + 1] = [name |-> "footer", at |-> Tell(g),
                               size |-> w - Tell(g), val |-> Tell(g)]
           /\ HasFooter(f) /\ EraseFooter(f) = g
<1>1. Len(g) \in Nat /\ Tell(g) \in Nat
  BY FileEnd
<1> DEFINE e == Field("footer", w - Tell(g), Tell(g))
<1>2. e.name = "footer" /\ e.size = w - Tell(g) /\ e.val = Tell(g)
  BY DEF Field
<1>3. f = Put(g, <<e>>)
  BY DEF add_hash_footer
<1>4. e.size \in Nat
  BY <1>1, <1>2
<1> HIDE DEF e
<1>5. /\ IsFile(f) /\ Len(f) = Len(g) + 1 /\ Prefix(g, f)
      /\ f[Len(g) + 1] = [name |-> e.name, at |-> Tell(g),
                          size |-> e.size, val |-> e.val]
      /\ Tell(f) = Tell(g) + e.size
  BY <1>3, <1>4, PutOne
<1>6. Tell(f) = w
  BY <1>1, <1>2, <1>5
<1>7. HasFooter(f)
  BY <1>2, <1>5 DEF HasFooter, LastPiece
<1>8. EraseFooter(f) = g
  <2>1. SubSeq(f, 1, Len(g)) = g
    BY <1>5, TakePrefix
  <2>2. Len(f) - 1 = Len(g)
    BY <1>1, <1>5
  <2> QED
    BY <1>7, <2>1, <2>2 DEF EraseFooter
<1> QED
  BY <1>2, <1>5, <1>6, <1>7, <1>8

\* A file that ends otherwise has none.
LEMMA NoFooter ==
    ASSUME NEW f, f[Len(f)].name # "footer"
    PROVE  ~HasFooter(f) /\ EraseFooter(f) = f
BY DEF HasFooter, LastPiece, EraseFooter

\* Certificates of size s behind o.
Behind(g, o, a, s) ==
    /\ IsFile(g) /\ Len(g) = Len(o) + 3 /\ Prefix(o, g)
    /\ Tell(g) = Tell(o) + BOOT_SIGNATURE_SIZE
    /\ g[Len(o) + 1] = [name |-> "boot", at |-> Tell(o), size |-> s,
                        val |-> Tell(o)]
    /\ g[Len(o) + 2] = [name |-> "generic_kernel", at |-> Tell(o) + s,
                        size |-> s, val |-> a.kernel]
    /\ g[Len(o) + 3].name = "zeros" /\ g[Len(o) + 3].at = Tell(o) + 2 * s

\* Three pieces at the end of a file.
LEMMA PutThree ==
    ASSUME NEW f, IsFile(f), NEW s, IsFields(s), NEW g, g = Put(f, s)
    PROVE  Len(s) = 3 =>
             /\ IsFile(g) /\ Len(g) = Len(f) + 3
             /\ \A n \in 1 .. Len(f) : g[n] = f[n]
             /\ g[Len(f) + 1].at = Tell(f)
             /\ \A n \in 1 .. 3 :
                   g[Len(f) + n] = [name |-> s[n].name, at |-> g[Len(f) + n].at,
                                    size |-> s[n].size, val |-> s[n].val]
<1>1. /\ IsFile(g) /\ Len(g) = Len(f) + Len(s)
      /\ \A n \in 1 .. Len(f) : g[n] = f[n]
      /\ \A n \in 1 .. Len(s) :
            /\ g[Len(f) + n].name = s[n].name
            /\ g[Len(f) + n].size = s[n].size
            /\ g[Len(f) + n].val = s[n].val
            /\ g[Len(f) + n] =
                 [name |-> s[n].name, at |-> g[Len(f) + n].at,
                  size |-> s[n].size, val |-> s[n].val]
      /\ Len(s) > 0 => g[Len(f) + 1].at = Tell(f)
      /\ Len(s) = 0 => g = f
  <2>1. IsFile(f)
    OBVIOUS
  <2>2. IsFields(s)
    OBVIOUS
  <2>3. g = Put(f, s)
    OBVIOUS
  <2> QED
    BY <2>1, <2>2, <2>3, PutFile, Zenon
<1> QED
  BY <1>1

\* What is then where.
LEMMA CertsBehind ==
    ASSUME NEW o, Bare(o), NEW a, NEW g, CertsOf(g, o, a)
    PROVE  \E s \in Nat \ {0} : Behind(g, o, a, s)
<1>1. PICK s \in Nat \ {0} :
        /\ 2 * s <= BOOT_SIGNATURE_SIZE
        /\ g = Put(o, << Field("boot", s, Tell(o)),
                         Field("generic_kernel", s, a.kernel),
                         Free("zeros", BOOT_SIGNATURE_SIZE - 2 * s) >>)
  BY DEF CertsOf
<1>2. IsFile(o) /\ Len(o) \in Nat /\ Tell(o) \in Nat
  BY FileEnd DEF Bare
<1>3. BOOT_SIGNATURE_SIZE \in Nat
  BY CertifyAssumption
<1> DEFINE x == Field("boot", s, Tell(o))
           y == Field("generic_kernel", s, a.kernel)
           z == Free("zeros", BOOT_SIGNATURE_SIZE - 2 * s)
           p == <<x, y, z>>
<1>4. /\ x.name = "boot" /\ x.size = s /\ x.val = Tell(o)
      /\ y.name = "generic_kernel" /\ y.size = s /\ y.val = a.kernel
      /\ z.name = "zeros" /\ z.size = BOOT_SIGNATURE_SIZE - 2 * s
  BY DEF Field, Free
<1>5. g = Put(o, p)
  BY <1>1
<1> HIDE DEF x, y, z
<1>6. Len(p) = 3 /\ p[1] = x /\ p[2] = y /\ p[3] = z /\ IsSeq(p)
  <2>1. p \in Seq({x, y, z})
    OBVIOUS
  <2> QED
    BY <2>1 DEF IsSeq
<1> HIDE DEF p
<1>7. z.size \in Nat
  BY <1>1, <1>3, <1>4
<1>8. IsFields(p)
  <2>1. \A n \in 1 .. 3 : n = 1 \/ n = 2 \/ n = 3
    OBVIOUS
  <2> QED
    BY <1>4, <1>6, <1>7, <2>1 DEF IsFields
<1>9. IsFile(o) /\ IsFields(p) /\ Len(p) = 3 /\ g = Put(o, p)
  BY <1>2, <1>5, <1>6, <1>8
<1>10. /\ IsFile(g) /\ Len(g) = Len(o) + 3
       /\ \A n \in 1 .. Len(o) : g[n] = o[n]
       /\ g[Len(o) + 1].at = Tell(o)
       /\ \A n \in 1 .. 3 :
             g[Len(o) + n] =
               [name |-> p[n].name, at |-> g[Len(o) + n].at,
                size |-> p[n].size, val |-> p[n].val]
  BY <1>9, PutThree
<1>11. /\ g[Len(o) + 1] = [name |-> x.name, at |-> g[Len(o) + 1].at,
                           size |-> x.size, val |-> x.val]
       /\ g[Len(o) + 2] = [name |-> y.name, at |-> g[Len(o) + 2].at,
                           size |-> y.size, val |-> y.val]
       /\ g[Len(o) + 3].name = z.name /\ g[Len(o) + 3].size = z.size
  <2>1. 1 \in 1 .. 3 /\ 2 \in 1 .. 3 /\ 3 \in 1 .. 3
    OBVIOUS
  <2> QED
    BY <1>6, <1>10, <2>1
<1>0. \A n \in 1 .. Len(g) : n # 1 => g[n].at = g[n - 1].at + g[n - 1].size
  BY <1>10 DEF IsFile
<1>12. g[Len(o) + 2].at = Tell(o) + s
  <2>1. /\ Len(o) + 2 \in 1 .. Len(g) /\ Len(o) + 2 # 1
        /\ (Len(o) + 2) - 1 = Len(o) + 1
    BY <1>2, <1>10
  <2>2. g[Len(o) + 2].at = g[Len(o) + 1].at + g[Len(o) + 1].size
    BY <1>0, <2>1
  <2> QED
    BY <1>4, <1>10, <1>11, <2>2
<1>13. g[Len(o) + 3].at = Tell(o) + 2 * s
  <2>1. /\ Len(o) + 3 \in 1 .. Len(g) /\ Len(o) + 3 # 1
        /\ (Len(o) + 3) - 1 = Len(o) + 2
    BY <1>2, <1>10
  <2>2. g[Len(o) + 3].at = g[Len(o) + 2].at + g[Len(o) + 2].size
    BY <1>0, <2>1
  <2>3. g[Len(o) + 2].size = s
    BY <1>4, <1>11
  <2> QED
    BY <1>2, <1>12, <2>2, <2>3
<1>14. Tell(g) = Tell(o) + BOOT_SIGNATURE_SIZE
  <2>1. Len(g) # 0
    BY <1>2, <1>10
  <2>2. Tell(g) = g[Len(g)].at + g[Len(g)].size
    BY <1>10, <2>1, FileEnd
  <2>3. Tell(g) = (Tell(o) + 2 * s) + (BOOT_SIGNATURE_SIZE - 2 * s)
    BY <1>4, <1>10, <1>11, <1>13, <2>2
  <2> QED
    BY <1>2, <1>3, <2>3
<1>15. Prefix(o, g)
  BY <1>2, <1>10 DEF Prefix
<1> QED
  BY <1>4, <1>10, <1>11, <1>12, <1>13, <1>14, <1>15 DEF Behind

\* A file without a certificate is left alone.
LEMMA NothingToErase ==
    ASSUME NEW f, IsFile(f), \A n \in 1 .. Len(f) : f[n].name # "boot"
    PROVE  EraseCertificate(f) = f
<1>1. DOMAIN f = 1 .. Len(f)
  BY SeqParts DEF IsFile
<1>2. ~HasCertificate(f)
  BY <1>1 DEF HasCertificate, CertificateAt
<1> QED
  BY <1>2 DEF EraseCertificate

\* What is behind an image comes off it.
LEMMA CertsErased ==
    ASSUME NEW o, Bare(o), NEW a, NEW g, CertsOf(g, o, a)
    PROVE  EraseCertificate(g) = o
<1>1. PICK s \in Nat \ {0} : Behind(g, o, a, s)
  BY CertsBehind
<1>2. /\ IsFile(o) /\ Len(o) \in Nat /\ Tell(o) \in Nat /\ Tell(o) > 0
      /\ \A n \in 1 .. Len(o) : o[n].name # "boot"
  BY FileEnd DEF Bare, CertNames
<1>3. BOOT_SIGNATURE_SIZE \in Nat
  BY CertifyAssumption
<1>4. /\ IsFile(g) /\ Len(g) = Len(o) + 3 /\ Prefix(o, g)
      /\ Tell(g) = Tell(o) + BOOT_SIGNATURE_SIZE
      /\ g[Len(o) + 1].name = "boot" /\ g[Len(o) + 1].at = Tell(o)
      /\ g[Len(o) + 2].name = "generic_kernel"
      /\ g[Len(o) + 3].name = "zeros"
  BY <1>1 DEF Behind
<1> DEFINE k == Len(o) + 1
<1>5. DOMAIN g = 1 .. Len(g) /\ k \in 1 .. Len(g) /\ k - 1 = Len(o)
  BY <1>2, <1>4, SeqParts DEF IsFile
<1>6. CertificateAt(g, k)
  <2>1. Tell(g) - BOOT_SIGNATURE_SIZE = Tell(o)
    BY <1>2, <1>3, <1>4
  <2> QED
    BY <1>4, <2>1 DEF CertificateAt
<1>7. HasCertificate(g)
  <2>1. Tell(g) > BOOT_SIGNATURE_SIZE
    BY <1>2, <1>3, <1>4
  <2> QED
    BY <1>5, <1>6, <2>1 DEF HasCertificate
<1>8. ASSUME NEW n \in DOMAIN g, CertificateAt(g, n) PROVE n = k
  <2>1. g[n].name = "boot"
    BY <1>8 DEF CertificateAt
  <2>2. n \notin 1 .. Len(o)
    BY <1>2, <1>4, <2>1 DEF Prefix
  <2>3. n = Len(o) + 1 \/ n = Len(o) + 2 \/ n = Len(o) + 3
    BY <1>2, <1>4, <1>5, <2>2
  <2> QED
    BY <1>4, <2>1, <2>3
<1>9. (CHOOSE n \in DOMAIN g : CertificateAt(g, n)) = k
  <2> HIDE DEF k
  <2>1. k \in DOMAIN g
    BY <1>5
  <2> QED
    BY <1>6, <1>8, <2>1, Zenon
<1>10. SubSeq(g, 1, Len(o)) = o
  BY <1>2, <1>4, TakePrefix
<1>11. EraseCertificate(g) = SubSeq(g, 1, k - 1)
  BY <1>7, <1>9 DEF EraseCertificate
<1> QED
  BY <1>5, <1>10, <1>11

\* Padding leaves a number.
LEMMA PaddedNat ==
    ASSUME NEW t \in Nat, NEW p \in Nat \ {0}
    PROVE  Padded(t, p) \in Nat
<1>1. PICK i \in Nat : Padded(t, p) = p * i
  BY PaddedMultiple
<1> QED
  BY <1>1

\* Sizes of the partition.
LEMMA WholeNat ==
    ASSUME NEW o, Bare(o), NEW a \in CommandLines
    PROVE  /\ WholeOf(o, a) \in Nat /\ a.partition \in Nat
           /\ Tell(o) \in Nat /\ Metadata \in Nat
<1>1. a.partition \in Nat
  BY ArgTypes
<1>2. Tell(o) \in Nat /\ Metadata \in Nat /\ BOOT_SIGNATURE_SIZE \in Nat
  BY FileEnd, CertifyAssumption DEF Bare
<1>3. Padded(Tell(o) + BOOT_SIGNATURE_SIZE, 4096) + Metadata \in Nat
  <2> DEFINE t == Tell(o) + BOOT_SIGNATURE_SIZE
             p == 4096
  <2>1. t \in Nat /\ p \in Nat \ {0}
    BY <1>2
  <2> HIDE DEF t, p
  <2>2. Padded(t, p) \in Nat
    BY <2>1, PaddedNat
  <2> QED
    BY <1>2, <2>2 DEF t, p
<1> QED
  BY <1>1, <1>2, <1>3 DEF WholeOf

\* An image as it is built: with a footer, or bare.
LEMMA BuiltHas ==
    ASSUME NEW o, Bare(o), NEW a \in CommandLines, NEW f, f = BuiltOf(o, a)
    PROVE  /\ Erase(f) = o
           /\ InOf(o, a) => HasFooter(f) /\ Tell(f) = a.partition
           /\ ~InOf(o, a) => ~HasFooter(f)
<1>1. /\ IsFile(o) /\ a.partition \in Nat /\ Tell(o) \in Nat /\ Metadata \in Nat
  BY WholeNat DEF Bare
<1>2. EraseCertificate(o) = o
  <2>1. \A n \in 1 .. Len(o) : o[n].name # "boot"
    BY DEF Bare, CertNames
  <2> QED
    BY <1>1, <2>1, NothingToErase
<1>3. CASE InOf(o, a)
  <2>1. f = add_hash_footer(o, a.partition) /\ Tell(o) <= a.partition
    BY <1>1, <1>3 DEF BuiltOf, InOf
  <2>2. Tell(f) = a.partition /\ HasFooter(f) /\ EraseFooter(f) = o
    <3> DEFINE w == a.partition
    <3>1. IsFile(o) /\ w \in Nat /\ Tell(o) <= w /\ f = add_hash_footer(o, w)
      BY <1>1, <2>1
    <3> HIDE DEF w
    <3>2. Tell(f) = w /\ HasFooter(f) /\ EraseFooter(f) = o
      BY <3>1, FooterFile
    <3> QED
      BY <3>2 DEF w
  <2> QED
    BY <1>2, <1>3, <2>2 DEF Erase
<1>4. CASE ~InOf(o, a)
  <2>1. f = o
    BY <1>4 DEF BuiltOf
  <2>2. Len(o) \in 1 .. Len(o)
    <3>1. Len(o) \in Nat /\ Len(o) # 0
      BY FileEnd DEF Bare
    <3> QED
      BY <3>1
  <2>3. o[Len(o)].name # "footer"
    BY <2>2 DEF Bare, CertNames
  <2>4. ~HasFooter(o) /\ EraseFooter(o) = o
    BY <2>3, NoFooter
  <2> QED
    BY <1>2, <1>4, <2>1, <2>4 DEF Erase
<1> QED
  BY <1>3, <1>4

\* And as it is certified.
LEMMA FootedHas ==
    ASSUME NEW o, Bare(o), NEW a \in CommandLines, NEW f, FootedOf(f, o, a)
    PROVE  Erase(f) = o /\ HasFooter(f) /\ Tell(f) = WholeOf(o, a)
<1>1. PICK g : /\ CertsOf(g, o, a) /\ Tell(g) + Metadata <= WholeOf(o, a)
               /\ f = add_hash_footer(g, WholeOf(o, a))
  BY DEF FootedOf
<1>2. PICK s \in Nat \ {0} : Behind(g, o, a, s)
  BY <1>1, CertsBehind
<1>3. IsFile(g) /\ Tell(g) \in Nat
  BY <1>2, FileEnd DEF Behind
<1>4. WholeOf(o, a) \in Nat /\ Metadata \in Nat
  BY WholeNat
<1>5. Tell(g) <= WholeOf(o, a)
  BY <1>1, <1>3, <1>4
<1>6. Tell(f) = WholeOf(o, a) /\ HasFooter(f) /\ EraseFooter(f) = g
  BY <1>1, <1>3, <1>4, <1>5, FooterFile
<1>7. EraseCertificate(g) = o
  BY <1>1, CertsErased
<1> QED
  BY <1>6, <1>7 DEF Erase

\* Whatever was certified, the partition is the same.
LEMMA SamePartition ==
    ASSUME NEW o, Bare(o), NEW a \in CommandLines, NEW f,
           f = BuiltOf(o, a) \/ FootedOf(f, o, a), NEW g, CertsOf(g, o, a)
    PROVE  (IF HasFooter(f) THEN Tell(f) ELSE Padded(Tell(g), 4096) + Metadata)
              = WholeOf(o, a)
<1>1. Tell(g) = Tell(o) + BOOT_SIGNATURE_SIZE
  BY CertsBehind DEF Behind
<1>2. CASE FootedOf(f, o, a)
  BY <1>2, FootedHas
<1>3. CASE f = BuiltOf(o, a) /\ InOf(o, a)
  BY <1>3, BuiltHas DEF WholeOf
<1>4. CASE f = BuiltOf(o, a) /\ ~InOf(o, a)
  <2>1. ~HasFooter(f)
    BY <1>4, BuiltHas
  <2> QED
    BY <1>1, <1>4, <2>1 DEF WholeOf
<1> QED
  BY <1>2, <1>3, <1>4

-----------------------------------------------------------------------------
(* What is shown. *)

\* A certified image: the image, its certificates, the footer.
LEMMA FootedPieces ==
    ASSUME NEW o, Bare(o), NEW a \in CommandLines, NEW f, FootedOf(f, o, a)
    PROVE  /\ IsFile(f) /\ Len(f) = Len(o) + 4 /\ SubSeq(f, 1, Len(o)) = o
           /\ f[Len(o) + 1].name = "boot" /\ f[Len(o) + 1].val = Tell(o)
           /\ f[Len(o) + 2].name = "generic_kernel"
           /\ f[Len(o) + 2].val = a.kernel
           /\ f[Len(o) + 4].name = "footer"
           /\ f[Len(o) + 4].at = Tell(o) + BOOT_SIGNATURE_SIZE
           /\ f[Len(o) + 4].val = f[Len(o) + 4].at
           /\ Tell(f) = WholeOf(o, a)
           /\ \E s \in Nat \ {0} : Behind(EraseFooter(f), o, a, s)
<1>1. PICK g : /\ CertsOf(g, o, a) /\ Tell(g) + Metadata <= WholeOf(o, a)
               /\ f = add_hash_footer(g, WholeOf(o, a))
  BY DEF FootedOf
<1>2. PICK s \in Nat \ {0} : Behind(g, o, a, s)
  BY <1>1, CertsBehind
<1>3. /\ IsFile(g) /\ Len(g) = Len(o) + 3 /\ Prefix(o, g)
      /\ Tell(g) = Tell(o) + BOOT_SIGNATURE_SIZE
      /\ g[Len(o) + 1].name = "boot" /\ g[Len(o) + 1].val = Tell(o)
      /\ g[Len(o) + 2].name = "generic_kernel"
      /\ g[Len(o) + 2].val = a.kernel
  BY <1>2 DEF Behind
<1>4. Tell(g) \in Nat /\ IsFile(o) /\ Len(o) \in Nat
  BY <1>3, FileEnd DEF Bare
<1>5. WholeOf(o, a) \in Nat /\ Metadata \in Nat
  BY WholeNat
<1>6. Tell(g) <= WholeOf(o, a)
  BY <1>1, <1>4, <1>5
<1>7. /\ IsFile(f) /\ Len(f) = Len(g) + 1 /\ Prefix(g, f)
      /\ Tell(f) = WholeOf(o, a) /\ EraseFooter(f) = g
      /\ f[Len(g) + 1] = [name |-> "footer", at |-> Tell(g),
                          size |-> WholeOf(o, a) - Tell(g), val |-> Tell(g)]
  BY <1>1, <1>3, <1>5, <1>6, FooterFile
<1>8. /\ Len(f) = Len(o) + 4 /\ Len(g) + 1 = Len(o) + 4
      /\ Len(o) + 1 \in 1 .. Len(g) /\ Len(o) + 2 \in 1 .. Len(g)
      /\ \A n \in 1 .. Len(o) : n \in 1 .. Len(g)
  BY <1>3, <1>4, <1>7
<1>9. f[Len(o) + 1] = g[Len(o) + 1] /\ f[Len(o) + 2] = g[Len(o) + 2]
  BY <1>7, <1>8 DEF Prefix
<1>10. /\ f[Len(o) + 4].name = "footer" /\ f[Len(o) + 4].at = Tell(g)
       /\ f[Len(o) + 4].val = Tell(g)
  BY <1>7, <1>8
<1>11. Prefix(o, f)
  BY <1>3, <1>4, <1>7, <1>8 DEF Prefix
<1>12. SubSeq(f, 1, Len(o)) = o
  BY <1>4, <1>7, <1>11, TakePrefix
<1>13. Behind(EraseFooter(f), o, a, s)
  BY <1>2, <1>7
<1> QED
  BY <1>3, <1>7, <1>8, <1>9, <1>10, <1>12, <1>13

\* Certificates are carved out up to the first piece that is none.
LEMMA CarvedFirst ==
    ASSUME NEW s, IsSeq(s), NEW k \in Nat, k <= Len(s),
           \A m \in 1 .. k : IsVbmeta(s[m]),
           k < Len(s) => ~IsVbmeta(s[k + 1])
    PROVE  Carved(s) = SubSeq(s, 1, k)
<1> DEFINE P(n) == /\ \A m \in 1 .. n : IsVbmeta(s[m])
                   /\ n < Len(s) => ~IsVbmeta(s[n + 1])
<1>1. Len(s) \in Nat
  BY SeqParts
<1>2. k \in 0 .. Len(s) /\ P(k)
  BY <1>1
<1>3. ASSUME NEW n \in 0 .. Len(s), P(n) PROVE n = k
  <2>1. CASE n < k
    <3>1. n + 1 \in 1 .. k /\ n < Len(s)
      BY <1>1, <2>1
    <3> QED
      BY <1>3, <3>1
  <2>2. CASE k < n
    <3>1. k + 1 \in 1 .. n /\ k < Len(s)
      BY <1>1, <2>2
    <3> QED
      BY <1>3, <3>1
  <2> QED
    BY <1>1, <2>1, <2>2
<1>4. Carved(s) = SubSeq(s, 1, CHOOSE n \in 0 .. Len(s) : P(n))
  BY DEF Carved
<1> HIDE DEF P
<1>5. (CHOOSE n \in 0 .. Len(s) : P(n)) = k
  BY <1>2, <1>3, Zenon
<1> QED
  BY <1>4, <1>5

\* The names of a sequence of pieces.
LEMMA NamesAre ==
    ASSUME NEW s, IsSeq(s)
    PROVE  /\ Len(s) = 1 /\ s[1].name = "signature" =>
                [n \in DOMAIN s |-> s[n].name] = <<"signature">>
           /\ Len(s) = 2 /\ s[1].name = "boot" /\ s[2].name = "generic_kernel" =>
                [n \in DOMAIN s |-> s[n].name] = <<"boot", "generic_kernel">>
<1>1. DOMAIN s = 1 .. Len(s)
  BY SeqParts
<1>2. ASSUME Len(s) = 1, s[1].name = "signature"
      PROVE  [n \in DOMAIN s |-> s[n].name] = <<"signature">>
  <2>1. DOMAIN s = {1}
    BY <1>1, <1>2
  <2>2. [n \in DOMAIN s |-> s[n].name] = [n \in {1} |-> "signature"]
    BY <1>2, <2>1
  <2>3. <<"signature">> = [n \in {1} |-> "signature"]
    <3>1. \A n : n \in 1 .. 1 <=> n = 1
      OBVIOUS
    <3> QED
      BY <3>1
  <2> QED
    BY <2>2, <2>3
<1>3. ASSUME Len(s) = 2, s[1].name = "boot", s[2].name = "generic_kernel"
      PROVE  [n \in DOMAIN s |-> s[n].name] = <<"boot", "generic_kernel">>
  <2> DEFINE v(n) == IF n = 1 THEN "boot" ELSE "generic_kernel"
  <2>1. DOMAIN s = {1, 2}
    BY <1>1, <1>3
  <2>2. [n \in DOMAIN s |-> s[n].name] = [n \in {1, 2} |-> v(n)]
    BY <1>3, <2>1
  <2>3. <<"boot", "generic_kernel">> = [n \in {1, 2} |-> v(n)]
    <3>1. \A n : n \in 1 .. 2 <=> n \in {1, 2}
      OBVIOUS
    <3> QED
      BY <3>1
  <2> QED
    BY <2>2, <2>3
<1> QED
  BY <1>2, <1>3

\* The certificates of an image without a signature are found at its end.
LEMMA EndFound ==
    ASSUME NEW o, Bare(o), NEW a, NEW s \in Nat \ {0}, NEW g, Behind(g, o, a, s),
           NEW from, from = {n \in DOMAIN g :
                               /\ g[n].at = Tell(g) - BOOT_SIGNATURE_SIZE
                               /\ g[n].size > 0}
    PROVE  from = {Len(o) + 1}
<1>1. /\ IsFile(o) /\ Len(o) \in Nat /\ Tell(o) \in Nat
      /\ BOOT_SIGNATURE_SIZE \in Nat
  BY FileEnd, CertifyAssumption DEF Bare
<1>2. /\ IsFile(g) /\ Len(g) = Len(o) + 3 /\ Prefix(o, g)
      /\ Tell(g) = Tell(o) + BOOT_SIGNATURE_SIZE
      /\ g[Len(o) + 1].at = Tell(o) /\ g[Len(o) + 1].size = s
      /\ g[Len(o) + 2].at = Tell(o) + s /\ g[Len(o) + 3].at = Tell(o) + 2 * s
  BY DEF Behind
<1>3. DOMAIN g = 1 .. Len(o) + 3
  BY <1>2, SeqParts DEF IsFile
<1>4. Tell(g) - BOOT_SIGNATURE_SIZE = Tell(o)
  BY <1>1, <1>2
<1>5. Len(o) + 1 \in from
  BY <1>1, <1>2, <1>3, <1>4
<1>6. ASSUME NEW n \in from PROVE n = Len(o) + 1
  <2>1. n \in 1 .. Len(o) + 3 /\ g[n].at = Tell(o) /\ g[n].size > 0
    BY <1>3, <1>4
  <2>2. CASE n \in 1 .. Len(o)
    <3>1. g[n] = o[n]
      BY <1>2, <2>2 DEF Prefix
    <3>2. o[n].at + o[n].size <= Tell(o) /\ o[n].size \in Nat
      BY <1>1, <2>2, PieceEnds DEF IsFile
    <3> QED
      BY <1>1, <2>1, <3>1, <3>2
  <2>3. CASE n = Len(o) + 2
    BY <1>1, <1>2, <2>1, <2>3
  <2>4. CASE n = Len(o) + 3
    BY <1>1, <1>2, <2>1, <2>4
  <2> QED
    BY <1>1, <2>1, <2>2, <2>3, <2>4
<1> QED
  BY <1>5, <1>6

\* A stretch of a sequence.
Stretched(t, g, m, n) ==
    /\ IsSeq(t) /\ Len(t) = (n - m) + 1
    /\ \A i \in 1 .. (n - m) + 1 : t[i] = g[(m + i) - 1]

\* It is as long as it should be.
LEMMA Stretch ==
    ASSUME NEW g, IsSeq(g), NEW m \in Nat \ {0}, NEW n \in Nat,
           m <= n, n <= Len(g), NEW t, t = SubSeq(g, m, n)
    PROVE  Stretched(t, g, m, n)
<1> DEFINE Vals == {g[i] : i \in m .. n}
<1>1. m \in Int /\ n \in Int /\ \A i \in m .. n : g[i] \in Vals
  OBVIOUS
<1> HIDE DEF Vals
<1>2. /\ SubSeq(g, m, n) \in Seq(Vals)
      /\ Len(SubSeq(g, m, n)) = IF m <= n THEN n - m + 1 ELSE 0
      /\ \A i \in 1 .. n - m + 1 : SubSeq(g, m, n)[i] = g[m + i - 1]
  BY <1>1, SubSeqProperties
<1>3. IsSeq(t)
  BY <1>2 DEF IsSeq
<1> QED
  BY <1>2, <1>3 DEF Stretched

\* What is shown of a signature, and of certificates at the end.
LEMMA SignatureShown ==
    ASSUME NEW p, p.name = "signature", NEW c, c = Carved(<<p>>)
    PROVE  [n \in DOMAIN c |-> c[n].name] = <<"signature">>
<1> DEFINE s == <<p>>
<1>1. s \in Seq({p}) /\ Len(s) = 1 /\ s[1] = p
  OBVIOUS
<1>2. c = Carved(s)
  OBVIOUS
<1> HIDE DEF s
<1>3. IsSeq(s)
  BY <1>1 DEF IsSeq
<1>4. \A m \in 1 .. 1 : IsVbmeta(s[m])
  BY <1>1 DEF IsVbmeta
<1>5. Carved(s) = SubSeq(s, 1, 1)
  <2>1. 1 \in Nat /\ 1 <= Len(s) /\ ~(1 < Len(s))
    BY <1>1
  <2> QED
    BY <1>3, <1>4, <2>1, CarvedFirst
<1>6. IsSeq(c) /\ Len(c) = 1 /\ c[1] = p
  <2>1. Stretched(c, s, 1, 1)
    <3>1. 1 \in Nat \ {0} /\ 1 <= 1 /\ 1 <= Len(s) /\ c = SubSeq(s, 1, 1)
      BY <1>1, <1>2, <1>5
    <3> QED
      BY <1>3, <3>1, Stretch
  <2> QED
    BY <1>1, <2>1 DEF Stretched
<1> QED
  BY <1>6, NamesAre

\* And of certificates their names.
LEMMA CertificatesShown ==
    ASSUME NEW s, IsSeq(s), Len(s) = 3, s[1].name = "boot",
           s[2].name = "generic_kernel", s[3].name = "zeros",
           NEW c, c = Carved(s)
    PROVE  [n \in DOMAIN c |-> c[n].name] = <<"boot", "generic_kernel">>
<1>1. \A m \in 1 .. 2 : IsVbmeta(s[m])
  BY DEF IsVbmeta
<1>2. ~IsVbmeta(s[2 + 1])
  BY DEF IsVbmeta
<1>3. Carved(s) = SubSeq(s, 1, 2)
  <2>1. 2 \in Nat /\ 2 <= Len(s)
    OBVIOUS
  <2> QED
    BY <1>1, <1>2, <2>1, CarvedFirst
<1>4. Stretched(c, s, 1, 2)
  <2>1. 1 \in Nat \ {0} /\ 2 \in Nat /\ 1 <= 2 /\ 2 <= Len(s)
        /\ c = SubSeq(s, 1, 2)
    BY <1>3
  <2> QED
    BY <2>1, Stretch
<1>5. IsSeq(c) /\ Len(c) = 2 /\ c[1] = s[1] /\ c[2] = s[2]
  BY <1>4 DEF Stretched
<1> QED
  BY <1>5, NamesAre

\* boot_signature_info shows the signature that the header tells of, or else
\* the certificates.
LEMMA ShownOf ==
    ASSUME Writable(args), NEW o, o = ImageOf(args), NEW f, FootedOf(f, o, args)
    PROVE  Shown(f) = IF Signs(args) THEN <<"signature">>
                                     ELSE <<"boot", "generic_kernel">>
<1> DEFINE h == Put(<<>>, Header(args))
           at == DataAt(Padded(Tell(h), HeaderPage(args)), args,
                        HeaderPage(args))
           g == EraseFooter(f)
<1>1. args \in CommandLines /\ args.version \in 0 .. 4
  BY DEF Writable, Accepted
<1>2. Bare(o)
  BY OutputBare
<1>3. PICK s \in Nat \ {0} : Behind(g, o, args, s)
  BY <1>1, <1>2, FootedPieces
<1>4. /\ IsFile(g) /\ Len(g) = Len(o) + 3 /\ Prefix(o, g)
      /\ g[Len(o) + 1].name = "boot" /\ g[Len(o) + 2].name = "generic_kernel"
      /\ g[Len(o) + 3].name = "zeros"
  BY <1>3 DEF Behind
<1>5. /\ IsFile(h) /\ IsFile(o) /\ Prefix(h, o)
      /\ IF Signs(args)
         THEN Has(o, "signature") /\ Piece(o, "signature").name = "signature"
         ELSE TRUE
  BY <1>1, ImageParts
<1>6. Len(h) \in Nat /\ Len(o) \in Nat /\ Len(g) \in Nat
  BY <1>4, <1>5, FileEnd
<1>7. Shown(f) = [n \in DOMAIN Carved(Signature(g)) |->
                    Carved(Signature(g))[n].name]
  BY DEF Shown
<1>8. args.version >= 4 =>
        Value(g, "signature_size") = IF args.signature = Absent THEN 0
                                     ELSE V4_SIGNATURE_SIZE
  <2> SUFFICES ASSUME args.version >= 4
               PROVE  Value(g, "signature_size") =
                        IF args.signature = Absent THEN 0
                        ELSE V4_SIGNATURE_SIZE
    OBVIOUS
  <2>1. args.version = 4
    BY <1>1
  <2>2. Prefix(h, g)
    BY <1>4, <1>5, <1>6 DEF Prefix
  <2>3. h = Put(<<>>, Header(args))
    OBVIOUS
  <2> HIDE DEF h, g
  <2>4. HeaderIn(g, args)
    BY <1>1, <1>4, <2>2, <2>3, HeaderHeld
  <2> QED
    BY <2>1, <2>4, NewerHeld
<1> HIDE DEF h, g
<1>9. CASE Signs(args)
  <2>1. args.version >= 4 /\ Value(g, "signature_size") > 0
    BY <1>8, <1>9 DEF Signs, V4_SIGNATURE_SIZE
  <2>2. Piece(g, "signature").name = "signature"
    <3>1. Has(o, "signature") /\ Piece(o, "signature").name = "signature"
      BY <1>5, <1>9
    <3> QED
      BY <1>4, <1>5, <3>1, PieceKept
  <2>3. Signature(g) = <<Piece(g, "signature")>>
    BY <2>1 DEF Signature
  <2>4. [n \in DOMAIN Carved(<<Piece(g, "signature")>>) |->
           Carved(<<Piece(g, "signature")>>)[n].name] = <<"signature">>
    BY <2>2, SignatureShown
  <2> QED
    BY <1>7, <1>9, <2>3, <2>4
<1>10. CASE ~Signs(args)
  <2>1. ~(args.version >= 4 /\ Value(g, "signature_size") > 0)
    BY <1>8, <1>10 DEF Signs
  <2> DEFINE from == {n \in DOMAIN g :
                        /\ g[n].at = Tell(g) - BOOT_SIGNATURE_SIZE
                        /\ g[n].size > 0}
             t == SubSeq(g, Len(o) + 1, Len(g))
  <2>2. from = {Len(o) + 1}
    <3>1. from = {n \in DOMAIN g : /\ g[n].at = Tell(g) - BOOT_SIGNATURE_SIZE
                                  /\ g[n].size > 0}
      OBVIOUS
    <3> HIDE DEF from
    <3> QED
      BY <1>2, <1>3, <3>1, EndFound
  <2>3. Signature(g) = IF from = {} THEN <<>>
                       ELSE SubSeq(g, CHOOSE n \in from : TRUE, Len(g))
    BY <2>1 DEF Signature
  <2> HIDE DEF from
  <2>4. Signature(g) = t
    <3>1. (CHOOSE n \in from : TRUE) = Len(o) + 1
      BY <2>2
    <3>2. from # {}
      BY <2>2
    <3> QED
      BY <2>3, <3>1, <3>2
  <2> DEFINE m == Len(o) + 1
             k == Len(g)
  <2>5. /\ IsSeq(g) /\ m \in Nat \ {0} /\ k \in Nat /\ m <= k /\ k <= Len(g)
        /\ t = SubSeq(g, m, k) /\ (k - m) + 1 = 3
        /\ \A i \in 1 .. 3 : (m + i) - 1 = Len(o) + i
    BY <1>4, <1>6 DEF IsFile
  <2> HIDE DEF t, m, k
  <2>6. Stretched(t, g, m, k)
    BY <2>5, Stretch
  <2>7. /\ IsSeq(t) /\ Len(t) = 3 /\ t[1] = g[Len(o) + 1]
        /\ t[2] = g[Len(o) + 2] /\ t[3] = g[Len(o) + 3]
    BY <2>5, <2>6 DEF Stretched
  <2>8. [n \in DOMAIN Carved(t) |-> Carved(t)[n].name]
           = <<"boot", "generic_kernel">>
    BY <1>4, <2>7, CertificatesShown
  <2> QED
    BY <1>7, <1>10, <2>4, <2>8
<1> QED
  BY <1>9, <1>10

\* The extra arguments add some bytes.
LEMMA ExtraNat ==
    ASSUME NEW a \in CommandLines
    PROVE  a.extra_args + (IF a.gki_info = "no" THEN 0
                           ELSE load_gki_info_file(a.info)) \in Nat
<1>1. a.extra_args \in Nat /\ a.info \in InfoFiles
  BY ArgTypes
<1> DEFINE info == a.info
           lines == {n \in DOMAIN info : info[n].key = "certify_bootimg_extra_args"}
           last == CHOOSE n \in lines : \A m \in lines : m <= n
<1>2. /\ DOMAIN info = 1 .. Len(info) /\ Len(info) \in Nat
      /\ \A n \in 1 .. Len(info) : info[n].size \in Nat
  <2> DEFINE T == [key : STRING, size : Nat]
  <2>1. info \in Seq(T) /\ \A e \in T : e.size \in Nat
    BY <1>1 DEF InfoFiles
  <2> HIDE DEF T, info
  <2>2. /\ DOMAIN info = 1 .. Len(info) /\ Len(info) \in Nat
        /\ \A n \in 1 .. Len(info) : info[n] \in T
    BY <2>1, LenProperties, ElementOfSeq
  <2> QED
    BY <2>1, <2>2
<1>3. load_gki_info_file(a.info) = IF lines = {} THEN 0 ELSE info[last].size
  BY DEF load_gki_info_file, InfoOf
<1>4. ASSUME lines # {} PROVE last \in 1 .. Len(info)
  <2> DEFINE k == Len(info)
             Gaps == {k - n : n \in lines}
  <2>1. lines \subseteq 1 .. k /\ k \in Nat
    BY <1>2
  <2> HIDE DEF lines, k
  <2>2. Gaps \subseteq Nat /\ Gaps # {}
    <3>1. \A n \in lines : k - n \in Nat
      BY <2>1
    <3> QED
      BY <1>4, <3>1
  <2>3. PICK d \in Gaps : \A e \in Gaps : d <= e
    <3> HIDE DEF Gaps
    <3> QED
      BY <2>2, LeastNat
  <2>4. PICK n \in lines : d = k - n
    BY DEF Gaps
  <2>5. \A m \in lines : m <= n
    <3> SUFFICES ASSUME NEW m \in lines PROVE m <= n
      OBVIOUS
    <3>1. k - n <= k - m
      BY <2>3, <2>4
    <3> QED
      BY <2>1, <3>1
  <2>6. last \in lines
    BY <2>5
  <2> QED
    BY <2>1, <2>6 DEF k
<1> HIDE DEF last, lines
<1>5. load_gki_info_file(a.info) \in Nat
  BY <1>2, <1>3, <1>4
<1> QED
  BY <1>1, <1>5

-----------------------------------------------------------------------------
(* The invariant of certifying. *)

\* Nothing is certified to begin with.
LEMMA CertInitially == FlashInit => CertInv
<1> SUFFICES ASSUME FlashInit PROVE CertInv
  OBVIOUS
<1>1. step = "parse" /\ images = <<>> /\ extra = 0 /\ runs = 0
  BY DEF FlashInit, WriterInit, MkInit, CertifyInit
<1>2. step \notin CertifySteps /\ step \notin {"certify", "footer"}
  BY <1>1 DEF CertifySteps
<1> QED
  BY <1>1, <1>2 DEF CertInv

\* What mkbootimg does happens before any image is there.
LEMMA MkBefore ==
    ASSUME WriterInv, MkNext
    PROVE  images = <<>> /\ step' \notin CertifySteps
<1>1. /\ step \in {"parse", "vendor", "header"} => images = <<>>
      /\ step = "data" => images = <<>>
  BY DEF WriterInv
<1>2. step \in {"parse", "vendor", "header", "data"}
  BY DEF MkNext, ParseRefuses, AssertFails, Parsed, VendorRefuses,
         WriteVendorBoot, NoOutput, HeaderRefuses, WriteHeader, WriteData
<1>3. step' \in {"error", "assertion", "cut", "vendor", "header", "end", "data",
                 "done"}
  BY DEF MkNext, ParseRefuses, AssertFails, Parsed, VendorRefuses,
         WriteVendorBoot, NoOutput, HeaderRefuses, WriteHeader, WriteData, Stop
<1> QED
  BY <1>1, <1>2, <1>3 DEF CertifySteps

\* The build has its images.
LEMMA BuildInv ==
    ASSUME CertInv, Build
    PROVE  CertInv'
<1>1. /\ step = "done" /\ images = <<>> /\ UNCHANGED <<args, step, output>>
      /\ extra' = extra /\ runs' = runs
      /\ images' = [n \in Names |-> Built]
  BY DEF Build, mkvars, files
<1>2. Names = NamesOf(args) /\ Built = BuiltOf(output, args)
  BY DEF Names, NamesOf, Built, BuiltOf, InPartition, InOf
<1>3. runs = 0 /\ extra \in Nat
  BY <1>1 DEF CertInv
<1>4. DOMAIN images' = NamesOf(args')
  BY <1>1, <1>2
<1>5. ASSUME NEW n \in NamesOf(args')
      PROVE  Finished(images'[n], n, runs', output', args')
  <2>1. images'[n] = BuiltOf(output', args') /\ runs' = 0
    BY <1>1, <1>2, <1>3
  <2> QED
    BY <2>1 DEF Finished
<1>6. step' \notin CertifySteps /\ step' \notin {"certify", "footer"}
  BY <1>1 DEF CertifySteps
<1> QED
  BY <1>1, <1>3, <1>4, <1>5, <1>6 DEF CertInv

\* What is given up leaves the images alone.
LEMMA GivenUpInv ==
    ASSUME CertInv, step' = "error", UNCHANGED <<args, output, images, extra, runs>>
    PROVE  CertInv'
<1>1. step' \notin CertifySteps /\ step' \notin {"certify", "footer"}
  BY DEF CertifySteps
<1> QED
  BY <1>1 DEF CertInv

\* All that are to be certified are as they were built, or certified.
LEMMA StartInv ==
    ASSUME CertInv, args \in CommandLines, StartCertify
    PROVE  CertInv'
<1>1. /\ images # <<>> /\ work' = images /\ todo' = BootNames
      /\ step' = "certifying" /\ UNCHANGED <<args, output, images, runs>>
      /\ extra' = args.extra_args + (IF args.gki_info = "no" THEN 0
                                     ELSE load_gki_info_file(args.info))
  BY DEF StartCertify, files
<1>2. extra' \in Nat
  BY <1>1, ExtraNat
<1>3. todo' = NamesOf(args) \ {"vendor_boot.img"}
  BY <1>1 DEF BootNames, Names, NamesOf
<1>4. /\ runs \in Nat /\ DOMAIN images = NamesOf(args)
      /\ \A n \in NamesOf(args) : Finished(images[n], n, runs, output, args)
  BY <1>1 DEF CertInv
<1>5. ASSUME NEW n \in NamesOf(args')
      PROVE  Between(work'[n], n, todo', output', args')
  <2>1. n \in NamesOf(args) /\ Finished(images[n], n, runs, output, args)
    BY <1>1, <1>4
  <2>2. Between(images[n], n, NamesOf(args) \ {"vendor_boot.img"}, output, args)
    BY <2>1 DEF Finished, Between
  <2> QED
    BY <1>1, <1>3, <2>2
<1>6. step' \notin {"certify", "footer"}
  BY <1>1
<1> QED
  BY <1>1, <1>2, <1>3, <1>4, <1>5, <1>6 DEF CertInv

\* The image is bare before it is certified again.
LEMMA OneInv ==
    ASSUME CertInv, args \in CommandLines, Bare(output), CertifyOne
    PROVE  CertInv'
<1>1. /\ step = "certifying" /\ step' = "certify"
      /\ UNCHANGED <<args, output, images, work, todo, extra, runs>>
  BY DEF CertifyOne, files
<1>2. PICK n \in todo : member' = n /\ temp' = Erase(work[n])
  BY DEF CertifyOne
<1>3. /\ todo \subseteq NamesOf(args) \ {"vendor_boot.img"}
      /\ \A m \in NamesOf(args) : Between(work[m], m, todo, output, args)
  BY <1>1 DEF CertInv, CertifySteps
<1>4. work[n] = BuiltOf(output, args) \/ FootedOf(work[n], output, args)
  BY <1>2, <1>3 DEF Between
<1>5. Erase(work[n]) = output
  BY <1>4, BuiltHas, FootedHas
<1>6. step \in CertifySteps /\ step' # "footer"
  BY <1>1 DEF CertifySteps
<1> QED
  BY <1>1, <1>2, <1>5, <1>6 DEF CertInv

\* It gets its certificates.
LEMMA AddInv ==
    ASSUME CertInv, AddCertificate
    PROVE  CertInv'
<1>1. /\ step = "certify" /\ step' = "footer"
      /\ CertificatesSize <= BOOT_SIGNATURE_SIZE
      /\ temp' = Put(temp,
           << generate_gki_certificate("boot", Tell(temp)),
              generate_gki_certificate("generic_kernel", args.kernel),
              Free("zeros", BOOT_SIGNATURE_SIZE - CertificatesSize) >>)
      /\ UNCHANGED <<args, output, images, work, todo, member, extra, runs>>
  BY DEF AddCertificate, files
<1>2. temp = output /\ extra \in Nat /\ member \in todo
  BY <1>1 DEF CertInv
<1> DEFINE s == VbmetaSize + extra
<1>3. s \in Nat \ {0}
  BY <1>2, CertifyAssumption
<1>4. CertificatesSize = 2 * s
  BY DEF CertificatesSize
<1>5. /\ generate_gki_certificate("boot", Tell(temp))
            = Field("boot", s, Tell(output))
      /\ generate_gki_certificate("generic_kernel", args.kernel)
            = Field("generic_kernel", s, args.kernel)
  BY <1>2 DEF generate_gki_certificate
<1> HIDE DEF s
<1>6. CertsOf(temp', output, args)
  BY <1>1, <1>2, <1>3, <1>4, <1>5 DEF CertsOf
<1>7. step \in CertifySteps /\ step' # "certify"
  BY <1>1 DEF CertifySteps
<1> QED
  BY <1>1, <1>2, <1>6, <1>7 DEF CertInv

\* And its footer, in the partition it had.
LEMMA FooterInv ==
    ASSUME CertInv, args \in CommandLines, Bare(output), AddFooter
    PROVE  CertInv'
<1>1. /\ step = "footer" /\ step' = "certifying"
      /\ Tell(temp) + Metadata <= Partition
      /\ work' = [work EXCEPT ![member] = add_hash_footer(temp, Partition)]
      /\ todo' = todo \ {member}
      /\ UNCHANGED <<args, output, images, extra, runs>>
  BY DEF AddFooter, files
<1>2. /\ images # <<>> /\ DOMAIN work = NamesOf(args)
      /\ todo \subseteq NamesOf(args) \ {"vendor_boot.img"}
      /\ \A n \in NamesOf(args) : Between(work[n], n, todo, output, args)
      /\ member \in todo /\ CertsOf(temp, output, args)
  BY <1>1 DEF CertInv, CertifySteps
<1>3. \/ work[member] = BuiltOf(output, args)
      \/ FootedOf(work[member], output, args)
  BY <1>2 DEF Between
<1>4. Partition = WholeOf(output, args)
  BY <1>2, <1>3, SamePartition DEF Partition
<1>5. FootedOf(add_hash_footer(temp, Partition), output, args)
  BY <1>1, <1>2, <1>4 DEF FootedOf
<1>6. ASSUME NEW n \in NamesOf(args)
      PROVE  Between(work'[n], n, todo', output, args)
  <2>1. CASE n = member
    <3>1. work'[n] = add_hash_footer(temp, Partition)
      BY <1>1, <1>2, <2>1
    <3>2. n # "vendor_boot.img" /\ n \notin todo'
      BY <1>1, <1>2, <2>1
    <3> QED
      BY <1>5, <3>1, <3>2 DEF Between
  <2>2. CASE n # member
    <3>1. work'[n] = work[n] /\ (n \in todo' <=> n \in todo)
      BY <1>1, <1>2, <2>2
    <3> QED
      BY <1>2, <3>1 DEF Between
  <2> QED
    BY <2>1, <2>2
<1>7. DOMAIN work' = NamesOf(args)
  BY <1>1, <1>2
<1>8. todo' \subseteq NamesOf(args) \ {"vendor_boot.img"}
  BY <1>1, <1>2
<1>9. step' \notin {"certify", "footer"}
  BY <1>1
<1> QED
  BY <1>1, <1>2, <1>6, <1>7, <1>8, <1>9 DEF CertInv

\* When none is left, all are certified.
LEMMA ArchiveInv ==
    ASSUME CertInv, MakeArchive
    PROVE  CertInv'
<1>1. /\ step = "certifying" /\ todo = {}
      /\ UNCHANGED <<args, output, extra>>
      /\ \/ step' = "error" /\ UNCHANGED <<images, runs>>
         \/ step' = "done" /\ images' = work /\ runs' = runs + 1
  BY DEF MakeArchive, files
<1>2. CASE step' = "error" /\ UNCHANGED <<images, runs>>
  BY <1>1, <1>2, GivenUpInv
<1>3. CASE step' = "done" /\ images' = work /\ runs' = runs + 1
  <2>1. /\ extra \in Nat /\ runs \in Nat /\ DOMAIN work = NamesOf(args)
        /\ \A n \in NamesOf(args) : Between(work[n], n, todo, output, args)
    BY <1>1 DEF CertInv, CertifySteps
  <2>2. runs' \in Nat /\ runs' > 0
    BY <1>3, <2>1
  <2>3. images' # <<>>
    <3>1. "boot.img" \in DOMAIN work
      BY <2>1 DEF NamesOf
    <3>2. work # <<>>
      BY <3>1
    <3> QED
      BY <1>3, <3>2
  <2>4. ASSUME NEW n \in NamesOf(args)
        PROVE  Finished(images'[n], n, runs', output, args)
    <3>1. Between(work[n], n, {}, output, args)
      BY <1>1, <2>1
    <3> QED
      BY <1>3, <2>2, <3>1 DEF Between, Finished
  <2>5. step' \notin CertifySteps /\ step' \notin {"certify", "footer"}
    BY <1>3 DEF CertifySteps
  <2> QED
    BY <1>1, <1>3, <2>1, <2>2, <2>3, <2>4, <2>5 DEF CertInv
<1> QED
  BY <1>1, <1>2, <1>3

\* Every step keeps images certified once.
LEMMA CertNextInv ==
    WriterInv /\ CertInv /\ [FlashNext]_<<vars, wvars>> => CertInv'
<1> SUFFICES ASSUME WriterInv, CertInv, [FlashNext]_<<vars, wvars>>
             PROVE  CertInv'
  OBVIOUS
<1>1. CASE UNCHANGED wvars
  BY <1>1 DEF CertInv, CertifySteps, wvars, mkvars, cvars, files
<1>2. CASE MkNext /\ UNCHANGED cvars
  <2>1. /\ images = <<>> /\ step' \notin CertifySteps
        /\ UNCHANGED <<images, extra, runs>>
    BY <1>2, MkBefore DEF cvars
  <2>2. step' \notin {"certify", "footer"}
    BY <2>1 DEF CertifySteps
  <2> QED
    BY <2>1, <2>2 DEF CertInv
<1>3. args \in CommandLines
  BY DEF WriterInv
<1>4. step \in CertifySteps => Bare(output)
  <2>1. step \in CertifySteps => Writable(args) /\ output = ImageOf(args)
    BY DEF WriterInv, DoneSteps
  <2> QED
    BY <2>1, OutputBare
<1>5. CASE Build
  BY <1>5, BuildInv
<1>6. CASE CertifyRefuses
  BY <1>6, GivenUpInv DEF CertifyRefuses, Give_up, files, cvars
<1>7. CASE StartCertify
  BY <1>3, <1>7, StartInv
<1>8. CASE CertifyOne
  BY <1>3, <1>4, <1>8, OneInv DEF CertifyOne, CertifySteps
<1>9. CASE CertifyFails
  BY <1>9, GivenUpInv DEF CertifyFails, Give_up, files, cvars
<1>10. CASE AddCertificate
  BY <1>10, AddInv
<1>11. CASE AddFooter
  BY <1>3, <1>4, <1>11, FooterInv DEF AddFooter, CertifySteps
<1>12. CASE MakeArchive
  BY <1>12, ArchiveInv
<1> QED
  BY <1>1, <1>2, <1>5, <1>6, <1>7, <1>8, <1>9, <1>10, <1>11, <1>12
     DEF FlashNext, WriterNext, CertifyNext

\* Images that are certified any number of times have one set of certificates.
LEMMA OneSet == WriterInv /\ CertInv => CertifiedOnce
<1> SUFFICES ASSUME WriterInv, CertInv, images # <<>>
             PROVE  /\ DOMAIN images = Names
                    /\ \A n \in Names :
                         IF n \in BootNames /\ runs > 0
                         THEN /\ Certified(images[n])
                              /\ Shown(images[n]) =
                                   IF Signs(args) THEN <<"signature">>
                                   ELSE <<"boot", "generic_kernel">>
                         ELSE images[n] = Built
  BY DEF CertifiedOnce
<1>1. Writable(args) /\ output = ImageOf(args) /\ args \in CommandLines
  BY DEF WriterInv
<1>2. Bare(output)
  BY <1>1, OutputBare
<1>3. Names = NamesOf(args) /\ Built = BuiltOf(output, args)
  BY DEF Names, NamesOf, Built, BuiltOf, InPartition, InOf
<1>4. /\ DOMAIN images = NamesOf(args)
      /\ \A n \in NamesOf(args) : Finished(images[n], n, runs, output, args)
  BY DEF CertInv
<1>5. ASSUME NEW n \in Names, n \in BootNames /\ runs > 0
      PROVE  /\ Certified(images[n])
             /\ Shown(images[n]) = IF Signs(args) THEN <<"signature">>
                                   ELSE <<"boot", "generic_kernel">>
  <2> DEFINE f == images[n]
  <2>1. FootedOf(f, output, args)
    BY <1>3, <1>4, <1>5 DEF Finished, BootNames
  <2> HIDE DEF f
  <2>2. Shown(f) = IF Signs(args) THEN <<"signature">>
                                  ELSE <<"boot", "generic_kernel">>
    BY <1>1, <2>1, ShownOf
  <2>3. /\ Len(f) = Len(output) + 4 /\ SubSeq(f, 1, Len(output)) = output
        /\ f[Len(output) + 1].name = "boot"
        /\ f[Len(output) + 1].val = Tell(output)
        /\ f[Len(output) + 2].name = "generic_kernel"
        /\ f[Len(output) + 2].val = args.kernel
        /\ f[Len(output) + 4].name = "footer"
        /\ f[Len(output) + 4].at = Tell(output) + BOOT_SIGNATURE_SIZE
        /\ f[Len(output) + 4].val = f[Len(output) + 4].at
        /\ Tell(f) = WholeOf(output, args)
    BY <1>1, <1>2, <2>1, FootedPieces
  <2>4. Tell(f) = IF InPartition THEN args.partition
                  ELSE Padded(f[Len(output) + 4].at, 4096) + Metadata
    BY <2>3 DEF WholeOf, InOf, InPartition
  <2>5. Certified(f)
    BY <2>3, <2>4 DEF Certified
  <2> QED
    BY <2>2, <2>5 DEF f
<1>6. ASSUME NEW n \in Names, ~(n \in BootNames /\ runs > 0)
      PROVE  images[n] = Built
  BY <1>3, <1>4, <1>6 DEF Finished, BootNames
<1> QED
  BY <1>3, <1>4, <1>5, <1>6

\* However often images are certified, alone or in an archive, whatever fails
\* in between, each is what mkbootimg wrote with one set of certificates, and
\* these are what is shown of it; the others are left alone
\* (certify_bootimg.py:44-146, 249-306, boot_signature_info.sh:62-98).
THEOREM CertifiedAlwaysOnce == FlashSpec => []CertifiedOnce
<1>1. FlashInit => WriterInv /\ CertInv
  BY WriterInitially, CertInitially
<1>2. WriterInv /\ CertInv /\ [FlashNext]_<<vars, wvars>>
        => (WriterInv /\ CertInv)'
  BY WriterNextInv, CertNextInv
<1> QED
  BY <1>1, <1>2, OneSet, PTL DEF FlashSpec

-----------------------------------------------------------------------------
(* The vendor ramdisk table. *)

\* The member of a set of numbers that has n of them below it.
NthIn(set, n) == CHOOSE k \in set : Cardinality({j \in set : j < k}) = n

\* Of numbers that are listed from below, it is the one of that number.
LEMMA NthOf ==
    ASSUME NEW l \in Nat, NEW g, \A i \in 0 .. l - 1 : g[i] \in Nat,
           \A i \in 0 .. l - 1 : \A j \in 0 .. i - 1 : g[j] < g[i],
           NEW set, set = {g[i] : i \in 0 .. l - 1}
    PROVE  /\ Cardinality(set) = l
           /\ \A n \in 0 .. l - 1 : NthIn(set, n) = g[n]
<1>1. \A i, j \in 0 .. l - 1 : i < j <=> g[i] < g[j]
  <2> SUFFICES ASSUME NEW i \in 0 .. l - 1, NEW j \in 0 .. l - 1
               PROVE  i < j <=> g[i] < g[j]
    OBVIOUS
  <2>0. g[i] \in Nat /\ g[j] \in Nat
    OBVIOUS
  <2>1. CASE i < j
    <3>1. i \in 0 .. j - 1
      BY <2>1
    <3> QED
      BY <2>0, <2>1, <3>1
  <2>2. CASE j < i
    <3>1. j \in 0 .. i - 1
      BY <2>2
    <3>2. g[j] < g[i]
      BY <3>1
    <3> QED
      BY <2>0, <2>2, <3>2
  <2>3. CASE i = j
    BY <2>0, <2>3
  <2> QED
    BY <2>1, <2>2, <2>3
<1>2. ASSUME NEW k \in 0 .. l
      PROVE  Cardinality({g[i] : i \in 0 .. k - 1}) = k
  <2> DEFINE A == 0 .. k - 1
             B == {g[i] : i \in A}
             f == [i \in A |-> g[i]]
  <2>1. IsFiniteSet(A) /\ Cardinality(A) = k
    <3>1. IsFiniteSet(0 .. k - 1)
          /\ Cardinality(0 .. k - 1) = IF 0 > k - 1 THEN 0 ELSE (k - 1) - 0 + 1
      BY FS_Interval
    <3> QED
      BY <3>1
  <2>2. \A i, j \in A : f[i] = f[j] => i = j
    <3>1. \A i \in A : i \in 0 .. l - 1 /\ f[i] = g[i] /\ g[i] \in Nat
      OBVIOUS
    <3> QED
      BY <1>1, <3>1
  <2>3. f \in Surjection(A, B)
    BY DEF Surjection
  <2>4. f \in Injection(A, B)
    BY <2>2 DEF Injection, IsInjective
  <2>5. Cardinality(B) = Cardinality(A)
    <3> HIDE DEF A, B, f
    <3> QED
      BY <2>1, <2>3, <2>4, FS_Surjection
  <2> QED
    BY <2>1, <2>5
<1>3. ASSUME NEW n \in 0 .. l - 1
      PROVE  Cardinality({j \in set : j < g[n]}) = n
  <2>1. {j \in set : j < g[n]} = {g[i] : i \in 0 .. n - 1}
    <3>1. ASSUME NEW i \in 0 .. l - 1 PROVE g[i] < g[n] <=> i \in 0 .. n - 1
      BY <1>1
    <3>2. \A i \in 0 .. n - 1 : i \in 0 .. l - 1
      OBVIOUS
    <3> QED
      BY <3>1, <3>2
  <2>2. n \in 0 .. l
    OBVIOUS
  <2> QED
    BY <1>2, <2>1, <2>2
<1>4. ASSUME NEW n \in 0 .. l - 1 PROVE NthIn(set, n) = g[n]
  <2>1. g[n] \in set
    OBVIOUS
  <2>2. ASSUME NEW k \in set, Cardinality({j \in set : j < k}) = n PROVE k = g[n]
    <3>1. PICK m \in 0 .. l - 1 : k = g[m]
      OBVIOUS
    <3>2. m = n
      BY <1>3, <2>2, <3>1
    <3> QED
      BY <3>1, <3>2
  <2> DEFINE C(k) == Cardinality({j \in set : j < k}) = n
  <2>3. C(g[n]) /\ \A k \in set : C(k) => k = g[n]
    BY <1>3, <2>2
  <2>4. NthIn(set, n) = CHOOSE k \in set : C(k)
    BY DEF NthIn
  <2> HIDE DEF C
  <2> QED
    BY <2>1, <2>3, <2>4
<1>5. Cardinality(set) = l
  <2>1. l \in 0 .. l
    OBVIOUS
  <2> QED
    BY <1>2, <2>1
<1> QED
  BY <1>4, <1>5

\* What the entries before each one add up to.
Before(to, list) ==
  to = [n \in 0 .. Len(list) |-> IF n = 0 THEN 0 ELSE to[n - 1] + list[n].size]

\* There is such a function, and the entries are by it.
LEMMA EntriesBefore ==
    ASSUME NEW list, Len(list) \in Nat
    PROVE  \E to : /\ Before(to, list)
                   /\ Entries(list) =
                        [n \in 1 .. Len(list) |->
                           [size |-> list[n].size, offset |-> to[n - 1],
                            type |-> list[n].type, name |-> list[n].name]]
<1> DEFINE Upto_(h, k) ==
             h = [n \in 0 .. k |-> IF n = 0 THEN 0 ELSE h[n - 1] + list[n].size]
           P == {k \in Nat : \E h : Upto_(h, k)}
<1>1. 0 \in P
  <2>1. Upto_([n \in 0 .. 0 |-> 0], 0)
    OBVIOUS
  <2> QED
    BY <2>1
<1>2. ASSUME NEW k \in Nat, k \in P PROVE k + 1 \in P
  <2>1. PICK h : Upto_(h, k)
    BY <1>2
  <2> DEFINE g == [n \in 0 .. k + 1 |-> IF n = 0 THEN 0
                                        ELSE h[n - 1] + list[n].size]
  <2>2. ASSUME NEW n \in 0 .. k PROVE g[n] = h[n]
    BY <2>1
  <2>3. ASSUME NEW n \in 0 .. k + 1
        PROVE  g[n] = IF n = 0 THEN 0 ELSE g[n - 1] + list[n].size
    <3>1. CASE n = 0
      BY <3>1
    <3>2. CASE n # 0
      <4>1. n - 1 \in 0 .. k
        BY <3>2
      <4> QED
        BY <2>2, <3>2, <4>1
    <3> QED
      BY <3>1, <3>2
  <2>4. DOMAIN g = 0 .. k + 1 /\ g = [n \in 0 .. k + 1 |-> g[n]]
    OBVIOUS
  <2> HIDE DEF g
  <2>5. g = [n \in 0 .. k + 1 |-> IF n = 0 THEN 0 ELSE g[n - 1] + list[n].size]
    BY <2>3, <2>4
  <2>6. Upto_(g, k + 1)
    BY <2>5
  <2> QED
    BY <2>6
<1>3. Nat \subseteq P
  <2> HIDE DEF P
  <2> QED
    BY <1>1, <1>2, SetInduction
<1>4. \E to : Upto_(to, Len(list))
  BY <1>3
<1> QED
  BY <1>4 DEF Entries, Before

\* An entry's offset is where the one before it ends.
Follows(t) ==
  \A n \in 1 .. Len(t) :
     /\ t[n].offset \in Nat
     /\ t[n].offset = IF n = 1 THEN 0 ELSE t[n - 1].offset + t[n - 1].size

\* Entries follow one another, one for each ramdisk.
LEMMA EntriesFollow ==
    ASSUME NEW list, IsFields(list), NEW t, t = Entries(list)
    PROVE  /\ Len(t) = Len(list) /\ TableSizes(t) /\ Follows(t)
           /\ \A n \in 1 .. Len(t) : t[n].type = list[n].type
<1>0. Len(list) \in Nat /\ \A n \in 1 .. Len(list) : list[n].size \in Nat
  BY SeqParts DEF IsFields
<1>1. PICK to : /\ Before(to, list)
                /\ Entries(list) =
                     [n \in 1 .. Len(list) |->
                        [size |-> list[n].size, offset |-> to[n - 1],
                         type |-> list[n].type, name |-> list[n].name]]
  BY <1>0, EntriesBefore
<1>n. \A n \in 0 .. Len(list) : to[n] = IF n = 0 THEN 0
                                        ELSE to[n - 1] + list[n].size
  BY <1>1 DEF Before
<1>2. /\ DOMAIN t = 1 .. Len(list) /\ t = [n \in 1 .. Len(list) |-> t[n]]
      /\ \A n \in 1 .. Len(list) :
            /\ t[n].size = list[n].size /\ t[n].offset = to[n - 1]
            /\ t[n].type = list[n].type
  BY <1>1
<1>3. IsSeq(t) /\ Len(t) = Len(list)
  BY <1>0, <1>2, FunIsSeq
<1>4. \A n \in 0 .. Len(list) : to[n] \in Nat
  <2> DEFINE P == {k \in Nat : k <= Len(list) => to[k] \in Nat}
  <2>1. 0 \in P
    BY <1>0, <1>n
  <2>2. ASSUME NEW k \in Nat, k \in P PROVE k + 1 \in P
    <3> SUFFICES ASSUME k + 1 <= Len(list) PROVE to[k + 1] \in Nat
      OBVIOUS
    <3>1. to[k] \in Nat
      BY <1>0, <2>2
    <3>2. k + 1 \in 0 .. Len(list) /\ k + 1 # 0 /\ (k + 1) - 1 = k
      BY <1>0
    <3>3. to[k + 1] = to[k] + list[k + 1].size
      BY <1>n, <3>2
    <3>4. list[k + 1].size \in Nat
      BY <1>0
    <3> QED
      BY <3>1, <3>3, <3>4
  <2>3. Nat \subseteq P
    <3> HIDE DEF P
    <3> QED
      BY <2>1, <2>2, SetInduction
  <2> QED
    BY <2>3
<1>5. ASSUME NEW n \in 1 .. Len(list)
      PROVE  /\ t[n].offset \in Nat
             /\ t[n].offset = IF n = 1 THEN 0 ELSE t[n - 1].offset + t[n - 1].size
  <2>1. n - 1 \in 0 .. Len(list)
    BY <1>0
  <2>2. t[n].offset = to[n - 1]
    BY <1>2
  <2>3. CASE n = 1
    BY <1>n, <2>1, <2>2, <2>3, <1>4
  <2>4. CASE n # 1
    <3>1. n - 1 \in 1 .. Len(list) /\ (n - 1) - 1 \in 0 .. Len(list) /\ n - 1 # 0
      BY <1>0, <2>4
    <3>2. to[n - 1] = to[(n - 1) - 1] + list[n - 1].size
      BY <1>n, <2>1, <3>1
    <3>3. t[n - 1].offset = to[(n - 1) - 1] /\ t[n - 1].size = list[n - 1].size
      BY <1>2, <3>1
    <3>4. to[n - 1] \in Nat
      BY <1>4, <2>1
    <3> QED
      BY <2>2, <2>4, <3>2, <3>3, <3>4
  <2> QED
    BY <2>3, <2>4
<1> QED
  BY <1>0, <1>2, <1>3, <1>5 DEF TableSizes, Follows

-----------------------------------------------------------------------------
(* The vendor header. *)

\* The fields of the vendor header.
VendorNames ==
  << "magic", "header_version", "page_size", "kernel_addr", "ramdisk_addr",
     "vendor_ramdisk_size", "cmdline", "tags_addr", "name", "header_size",
     "dtb_size", "dtb_addr", "vendor_ramdisk_table_size",
     "vendor_ramdisk_table_entry_num", "vendor_ramdisk_table_entry_size",
     "bootconfig_size" >>
VendorSizes == << 8, 4, 4, 4, 4, 4, 2048, 4, 16, 4, 4, 8, 4, 4, 4, 4 >>
VendorCount(version) == IF version > 3 THEN 16 ELSE 12
VendorBytes(version) == IF version > 3 THEN 2128 ELSE 2112

\* What they hold.
VendorHolds(s, a) ==
  /\ \A n \in 1 .. VendorCount(a.version) : s[n].name = VendorNames[n]
  /\ s[10].val = VendorBytes(a.version)
  /\ s[11].val = filesize(a.dtb)
  /\ a.version > 3 => /\ s[13].val = 108 * Len(table)
                      /\ s[16].val = filesize(a.vendor_bootconfig)

\* The fields of the vendor header, and what they hold.
LEMMA VendorFields ==
    ASSUME NEW a \in CommandLines, Len(table) \in Nat, NEW s, s = VendorHeader(a)
    PROVE  /\ IsFields(s) /\ Len(s) = VendorCount(a.version) /\ VendorHolds(s, a)
           /\ \A n \in 1 .. Len(s) : s[n].size = VendorSizes[n]
<1> DEFINE u ==
    << Free("magic", 8), I("header_version", a.version), I("page_size", a.page),
       Free("kernel_addr", 4), Free("ramdisk_addr", 4),
       I("vendor_ramdisk_size", IF a.version > 3 THEN TotalRamdisk
                                ELSE filesize(a.vendor_ramdisk)),
       S("cmdline", VENDOR_BOOT_ARGS_SIZE, a.vendor_cmdline),
       Free("tags_addr", 4), S("name", BOOT_NAME_SIZE, a.board),
       I("header_size", IF a.version > 3
                        THEN VENDOR_BOOT_IMAGE_HEADER_V4_SIZE
                        ELSE VENDOR_BOOT_IMAGE_HEADER_V3_SIZE),
       I("dtb_size", filesize(a.dtb)), Free("dtb_addr", 8) >>
           t == << I("vendor_ramdisk_table_size", Len(table) * ENTRY_V4_SIZE),
                I("vendor_ramdisk_table_entry_num", Len(table)),
                I("vendor_ramdisk_table_entry_size", ENTRY_V4_SIZE),
                I("bootconfig_size", filesize(a.vendor_bootconfig)) >>
           e == <<>>
<1>1. s = u \o (IF a.version > 3 THEN t ELSE e)
  BY DEF VendorHeader
<1>2. IsSeq(u) /\ Len(u) = 12
  <2>1. u \in Seq({u[n] : n \in 1 .. 12}) /\ Len(u) = 12
    OBVIOUS
  <2> HIDE DEF u
  <2> QED
    BY <2>1 DEF IsSeq
<1>3. IsSeq(t) /\ Len(t) = 4
  <2>1. t \in Seq({t[n] : n \in 1 .. 4}) /\ Len(t) = 4
    OBVIOUS
  <2> HIDE DEF t
  <2> QED
    BY <2>1 DEF IsSeq
<1>4. IsSeq(e) /\ Len(e) = 0
  BY EmptyFile DEF IsFile
<1>5. \A n \in 1 .. 12 : u[n].name = VendorNames[n] /\ u[n].size = VendorSizes[n]
  BY DEF Free, I, S, Field, VENDOR_BOOT_ARGS_SIZE, BOOT_NAME_SIZE, VendorNames,
         VendorSizes
<1>6. /\ t[1].name = "vendor_ramdisk_table_size"
      /\ t[2].name = "vendor_ramdisk_table_entry_num"
      /\ t[3].name = "vendor_ramdisk_table_entry_size"
      /\ t[4].name = "bootconfig_size"
      /\ t[1].size = 4 /\ t[2].size = 4 /\ t[3].size = 4 /\ t[4].size = 4
  BY DEF I, Field
<1>7. /\ u[10].val = VendorBytes(a.version)
      /\ u[11].val = filesize(a.dtb)
  BY DEF I, Field, VendorBytes, VENDOR_BOOT_IMAGE_HEADER_V4_SIZE,
         VENDOR_BOOT_IMAGE_HEADER_V3_SIZE
<1>8. t[1].val = 108 * Len(table) /\ t[4].val = filesize(a.vendor_bootconfig)
  <2>1. Len(table) * 108 = 108 * Len(table)
    OBVIOUS
  <2> QED
    BY <2>1 DEF I, Field, ENTRY_V4_SIZE
<1> HIDE DEF u, t, e
<1>9. CASE a.version > 3
  <2>1. s = u \o t
    BY <1>1, <1>9
  <2>2. /\ IsSeq(u \o t) /\ Len(u \o t) = Len(u) + Len(t)
        /\ \A n \in 1 .. Len(u) : (u \o t)[n] = u[n]
        /\ \A n \in 1 .. Len(t) : (u \o t)[Len(u) + n] = t[n]
    <3>1. IsSeq(u)
      BY <1>2
    <3>2. IsSeq(t)
      BY <1>3
    <3> QED
      BY <3>1, <3>2, SeqJoin
  <2>3. /\ IsSeq(s) /\ Len(s) = 16 /\ \A n \in 1 .. 12 : s[n] = u[n]
        /\ s[13] = t[1] /\ s[14] = t[2] /\ s[15] = t[3] /\ s[16] = t[4]
    <3>1. /\ \A n \in 1 .. 12 : s[n] = u[n]
          /\ \A n \in 1 .. 4 : s[12 + n] = t[n]
      BY <1>2, <1>3, <2>1, <2>2
    <3>2. s[12 + 1] = t[1] /\ s[12 + 2] = t[2] /\ s[12 + 3] = t[3]
          /\ s[12 + 4] = t[4]
      BY <3>1
    <3>3. s[13] = t[1] /\ s[14] = t[2] /\ s[15] = t[3] /\ s[16] = t[4]
      BY <3>2
    <3>4. Len(s) = 16
      BY <1>2, <1>3, <2>1, <2>2
    <3>5. IsSeq(s)
      BY <2>1, <2>2
    <3> QED
      BY <3>1, <3>3, <3>4, <3>5
  <2>4. /\ VendorNames[13] = "vendor_ramdisk_table_size"
        /\ VendorNames[14] = "vendor_ramdisk_table_entry_num"
        /\ VendorNames[15] = "vendor_ramdisk_table_entry_size"
        /\ VendorNames[16] = "bootconfig_size"
        /\ VendorSizes[13] = 4 /\ VendorSizes[14] = 4 /\ VendorSizes[15] = 4
        /\ VendorSizes[16] = 4
    BY DEF VendorNames, VendorSizes
  <2>5. \A n \in 1 .. 16 : s[n].name = VendorNames[n] /\ s[n].size = VendorSizes[n]
    <3>1. \A n \in 1 .. 16 : n \in 1 .. 12 \/ n = 13 \/ n = 14 \/ n = 15 \/ n = 16
      OBVIOUS
    <3>2. ASSUME NEW n \in 1 .. 12
          PROVE  s[n].name = VendorNames[n] /\ s[n].size = VendorSizes[n]
      BY <1>5, <2>3
    <3>3. /\ s[13].name = VendorNames[13] /\ s[13].size = VendorSizes[13]
          /\ s[14].name = VendorNames[14] /\ s[14].size = VendorSizes[14]
          /\ s[15].name = VendorNames[15] /\ s[15].size = VendorSizes[15]
          /\ s[16].name = VendorNames[16] /\ s[16].size = VendorSizes[16]
      BY <1>6, <2>3, <2>4
    <3> QED
      BY <3>1, <3>2, <3>3
  <2>6. \A n \in 1 .. 16 : VendorSizes[n] \in Nat
    BY SMTT(60) DEF VendorSizes
  <2>7. 10 \in 1 .. 12 /\ 11 \in 1 .. 12
    OBVIOUS
  <2>8. VendorHolds(s, a)
    BY <1>7, <1>8, <1>9, <2>3, <2>5, <2>7 DEF VendorHolds, VendorCount
  <2>9. IsFields(s)
    BY <2>3, <2>5, <2>6 DEF IsFields
  <2> QED
    BY <1>9, <2>3, <2>5, <2>8, <2>9 DEF VendorCount
<1>10. CASE ~(a.version > 3)
  <2>1. s = u \o e
    BY <1>1, <1>10
  <2>2. /\ IsSeq(u \o e) /\ Len(u \o e) = Len(u) + Len(e)
        /\ \A n \in 1 .. Len(u) : (u \o e)[n] = u[n]
    <3>1. IsSeq(u)
      BY <1>2
    <3>2. IsSeq(e)
      BY <1>4
    <3> QED
      BY <3>1, <3>2, SeqJoin
  <2>3. IsSeq(s) /\ Len(s) = 12 /\ \A n \in 1 .. 12 : s[n] = u[n]
    <3>1. IsSeq(s)
      BY <2>1, <2>2
    <3>2. Len(s) = 12
      BY <1>2, <1>4, <2>1, <2>2
    <3>3. \A n \in 1 .. 12 : s[n] = u[n]
      BY <1>2, <2>1, <2>2
    <3> QED
      BY <3>1, <3>2, <3>3
  <2>5. \A n \in 1 .. 12 : s[n].name = VendorNames[n] /\ s[n].size = VendorSizes[n]
    BY <1>5, <2>3
  <2>6. \A n \in 1 .. 12 : VendorSizes[n] \in Nat
    BY SMTT(60) DEF VendorSizes
  <2>7. 10 \in 1 .. 12 /\ 11 \in 1 .. 12
    OBVIOUS
  <2>8. VendorHolds(s, a)
    BY <1>7, <1>10, <2>3, <2>5, <2>7 DEF VendorHolds, VendorCount
  <2>9. IsFields(s)
    BY <2>3, <2>5, <2>6 DEF IsFields
  <2> QED
    BY <1>10, <2>3, <2>5, <2>8, <2>9 DEF VendorCount
<1> QED
  BY <1>9, <1>10

\* Their sizes add up to the header's.
LEMMA VendorEnds ==
    ASSUME NEW f, IsFile(f), NEW k, k \in {12, 16}, Len(f) = k,
           \A n \in 1 .. k : f[n].size = VendorSizes[n]
    PROVE  Tell(f) = IF k = 16 THEN 2128 ELSE 2112
<1>1. /\ f[1].at = 0
      /\ \A n \in 2 .. 12 : f[n].at = f[n - 1].at + f[n - 1].size
      /\ k = 16 => \A n \in 13 .. 16 : f[n].at = f[n - 1].at + f[n - 1].size
  <2>1. \A n \in 1 .. k : f[n].at = IF n = 1 THEN 0
                                    ELSE f[n - 1].at + f[n - 1].size
    BY DEF IsFile
  <2>2. \A n \in 2 .. 12 : n \in 1 .. k /\ n # 1
    OBVIOUS
  <2>3. 1 \in 1 .. k /\ (k = 16 => \A n \in 13 .. 16 : n \in 1 .. k /\ n # 1)
    OBVIOUS
  <2> QED
    BY <2>1, <2>2, <2>3
<1>2. \A n \in 1 .. 12 : f[n].size = VendorSizes[n]
  OBVIOUS
<1>3. f[2].at = 8 /\ f[3].at = 12 /\ f[4].at = 16 /\ f[5].at = 20
  <2>1. f[1].size = 8 /\ f[2].size = 4 /\ f[3].size = 4 /\ f[4].size = 4
    BY <1>2 DEF VendorSizes
  <2>2. /\ f[2].at = f[2 - 1].at + f[2 - 1].size
        /\ f[3].at = f[3 - 1].at + f[3 - 1].size
        /\ f[4].at = f[4 - 1].at + f[4 - 1].size
        /\ f[5].at = f[5 - 1].at + f[5 - 1].size
    BY <1>1
  <2> QED
    BY <1>1, <2>1, <2>2
<1>4. f[6].at = 24 /\ f[7].at = 28 /\ f[8].at = 2076 /\ f[9].at = 2080
  <2>1. f[5].size = 4 /\ f[6].size = 4 /\ f[7].size = 2048 /\ f[8].size = 4
    BY <1>2 DEF VendorSizes
  <2>2. /\ f[6].at = f[6 - 1].at + f[6 - 1].size
        /\ f[7].at = f[7 - 1].at + f[7 - 1].size
        /\ f[8].at = f[8 - 1].at + f[8 - 1].size
        /\ f[9].at = f[9 - 1].at + f[9 - 1].size
    BY <1>1
  <2> QED
    BY <1>3, <2>1, <2>2
<1>5. f[10].at = 2096 /\ f[11].at = 2100 /\ f[12].at = 2104 /\ f[12].size = 8
  <2>1. f[9].size = 16 /\ f[10].size = 4 /\ f[11].size = 4 /\ f[12].size = 8
    BY <1>2 DEF VendorSizes
  <2>2. /\ f[10].at = f[10 - 1].at + f[10 - 1].size
        /\ f[11].at = f[11 - 1].at + f[11 - 1].size
        /\ f[12].at = f[12 - 1].at + f[12 - 1].size
    BY <1>1
  <2> QED
    BY <1>4, <2>1, <2>2
<1>6. CASE k = 12
  <2>0. Tell(f) = IF Len(f) = 0 THEN 0 ELSE f[Len(f)].at + f[Len(f)].size
    BY FileEnd
  <2>1. Tell(f) = f[12].at + f[12].size
    <3>1. Len(f) = 12
      BY <1>6
    <3> QED
      BY <2>0, <3>1
  <2> QED
    BY <1>5, <1>6, <2>1
<1>7. CASE k = 16
  <2>1. f[13].size = 4 /\ f[14].size = 4 /\ f[15].size = 4 /\ f[16].size = 4
    BY <1>7 DEF VendorSizes
  <2>2. /\ f[13].at = f[13 - 1].at + f[13 - 1].size
        /\ f[14].at = f[14 - 1].at + f[14 - 1].size
        /\ f[15].at = f[15 - 1].at + f[15 - 1].size
        /\ f[16].at = f[16 - 1].at + f[16 - 1].size
    BY <1>1, <1>7
  <2>0. Tell(f) = IF Len(f) = 0 THEN 0 ELSE f[Len(f)].at + f[Len(f)].size
    BY FileEnd
  <2>3. Tell(f) = f[16].at + f[16].size
    <3>1. Len(f) = 16
      BY <1>7
    <3> QED
      BY <2>0, <3>1
  <2> QED
    BY <1>5, <1>7, <2>1, <2>2, <2>3
<1> QED
  BY <1>6, <1>7

\* What the vendor image begins with: its header, and a page it fills.
VendorHead(p, a) ==
  LET k == VendorCount(a.version) IN
    /\ IsFile(p) /\ Len(p) = k + 1 /\ VendorHolds(p, a)
    /\ p[k + 1].name = "pad" /\ p[k + 1].at = VendorBytes(a.version)
    /\ p[k + 1].at + p[k + 1].size = Tell(p)
    /\ Tell(p) = Padded(VendorBytes(a.version), a.page)

\* So begins every vendor image.
LEMMA VendorBegins ==
    ASSUME NEW a \in CommandLines, Len(table) \in Nat, NEW p,
           p = pad_file(Put(<<>>, VendorHeader(a)), a.page)
    PROVE  VendorHead(p, a)
<1> DEFINE k == VendorCount(a.version)
           s == VendorHeader(a)
           h == Put(<<>>, s)
<1>0. a.page \in Nat \ {0}
  BY PageArg
<1>1. p = pad_file(h, a.page)
  OBVIOUS
<1>2. /\ IsFields(s) /\ Len(s) = k /\ VendorHolds(s, a)
      /\ \A n \in 1 .. Len(s) : s[n].size = VendorSizes[n]
  BY VendorFields
<1> HIDE DEF s
<1>4. h = Put(<<>>, s)
  OBVIOUS
<1> HIDE DEF h
<1>5. k \in {12, 16} /\ k = (IF a.version > 3 THEN 16 ELSE 12)
  BY DEF VendorCount
<1>6. VendorBytes(a.version) = IF k = 16 THEN 2128 ELSE 2112
  BY <1>5 DEF VendorBytes
<1> HIDE DEF k
<1>7. /\ IsFile(h) /\ Len(h) = Len(s) /\ Len(s) \in Nat
      /\ \A n \in 1 .. Len(s) : /\ h[n].name = s[n].name
                                /\ h[n].size = s[n].size
                                /\ h[n].val = s[n].val
  <2>1. IsFields(s)
    BY <1>2
  <2> QED
    BY <1>4, <2>1, PutFirst
<1>8. /\ Len(h) = k
      /\ \A n \in 1 .. k : /\ h[n].name = s[n].name /\ h[n].size = s[n].size
                           /\ h[n].val = s[n].val
  BY <1>2, <1>7
<1>9. Tell(h) = VendorBytes(a.version)
  <2>1. \A n \in 1 .. k : h[n].size = VendorSizes[n]
    BY <1>2, <1>8
  <2> QED
    <3>1. IsFile(h)
      BY <1>7
    <3>2. Len(h) = k
      BY <1>8
    <3>3. k \in {12, 16}
      BY <1>5
    <3>4. Tell(h) = IF k = 16 THEN 2128 ELSE 2112
      BY <2>1, <3>1, <3>2, <3>3, VendorEnds
    <3> QED
      BY <1>6, <3>4
<1>10. /\ IsFile(p) /\ Len(p) = Len(h) + 1 /\ Prefix(h, p)
       /\ p[Len(h) + 1].name = "pad" /\ p[Len(h) + 1].at = Tell(h)
       /\ Tell(p) = Padded(Tell(h), a.page)
  <2> DEFINE page == a.page
  <2>1. IsFile(h)
    BY <1>7
  <2>2. page \in Nat \ {0} /\ p = pad_file(h, page)
    BY <1>0, <1>1
  <2> HIDE DEF page
  <2>3. /\ IsFile(p) /\ Len(p) = Len(h) + 1 /\ Prefix(h, p)
        /\ p[Len(h) + 1].name = "pad" /\ p[Len(h) + 1].at = Tell(h)
        /\ Tell(p) = Padded(Tell(h), page)
    BY <2>1, <2>2, PadFile
  <2> QED
    BY <2>3 DEF page
<1>11. \A n \in 1 .. k : p[n] = h[n]
  BY <1>8, <1>10 DEF Prefix
<1>12. p[k + 1].at + p[k + 1].size = Tell(p)
  <2>1. Tell(p) = IF Len(p) = 0 THEN 0 ELSE p[Len(p)].at + p[Len(p)].size
    BY <1>10, FileEnd
  <2> QED
    BY <1>5, <1>8, <1>10, <2>1
<1>13. VendorHolds(p, a)
  <2>1. \A n \in 1 .. k : p[n].name = s[n].name /\ p[n].val = s[n].val
    BY <1>8, <1>11
  <2>2. /\ 10 \in 1 .. k /\ 11 \in 1 .. k
        /\ a.version > 3 => 13 \in 1 .. k /\ 16 \in 1 .. k
    BY <1>5
  <2> QED
    BY <1>2, <2>1, <2>2 DEF VendorHolds, k
<1> QED
  BY <1>8, <1>9, <1>10, <1>12, <1>13 DEF VendorHead, k

\* What is padded is whole pages.
LEMMA WholePages ==
    ASSUME NEW page \in Nat \ {0}, NEW x \in Nat
    PROVE  Padded(x, page) \in Nat /\ Padded(x, page) % page = 0
<1> DEFINE y == Padded(x, page)
<1>1. PICK i \in Nat : y = page * i
  BY PaddedMultiple
<1>2. y \in Nat
  BY <1>1
<1> HIDE DEF y
<1>3. /\ y \div page \in Int /\ y % page \in 0 .. page - 1
      /\ y = page * (y \div page) + (y % page)
  BY <1>2, Division
<1>4. page * i + 0 = page * (y \div page) + (y % page) /\ 0 \in 0 .. page - 1
  BY <1>1, <1>3
<1>5. 0 = y % page
  <2> DEFINE q == y \div page
             r == y % page
  <2> HIDE DEF q, r
  <2>1. q \in Int /\ r \in 0 .. page - 1 /\ page * i + 0 = page * q + r
    BY <1>3, <1>4 DEF q, r
  <2>3. 0 \in 0 .. page - 1 /\ i \in Int
    OBVIOUS
  <2>2. 0 = r
    BY <2>1, <2>3, OneRemainder
  <2> QED
    BY <2>2 DEF r
<1> QED
  BY <1>2, <1>5 DEF y

-----------------------------------------------------------------------------
(* Ramdisks and entries in the vendor image. *)

\* The ramdisks from k on, each where its entry says.
RamdisksAt(f, k, start) ==
  \A n \in 1 .. Len(table) : /\ f[k + n].name = "vendor_ramdisk"
                             /\ f[k + n].size = table[n].size
                             /\ f[k + n].at = start + table[n].offset

\* The ramdisks are put where their entries say.
LEMMA RamdisksPut ==
    ASSUME NEW p, IsFile(p), TableSizes(table), Follows(table), NEW q,
           q = Put(p, RamdiskPieces)
    PROVE  /\ IsFile(q) /\ Len(q) = Len(p) + Len(table) /\ Prefix(p, q)
           /\ RamdisksAt(q, Len(p), Tell(p))
<1> DEFINE l == Len(table)
           k == Len(p)
           s == RamdiskPieces
<1>1. l \in Nat /\ DOMAIN table = 1 .. l /\ \A n \in 1 .. l : table[n].size \in Nat
  BY SeqParts DEF TableSizes
<1>2. k \in Nat /\ Tell(p) \in Nat
  BY FileEnd
<1>3. IsFields(s)
  BY TableWhole DEF WholeFields
<1>4. Len(s) = l /\ \A n \in 1 .. l : s[n] = Free("vendor_ramdisk", table[n].size)
  <2>1. /\ DOMAIN s = 1 .. l /\ s = [n \in 1 .. l |-> s[n]]
        /\ \A n \in 1 .. l : s[n] = Free("vendor_ramdisk", table[n].size)
    BY <1>1 DEF RamdiskPieces
  <2> HIDE DEF s, l
  <2>2. IsSeq(s) /\ Len(s) = l
    BY <1>1, <2>1, FunIsSeq
  <2> QED
    BY <2>1, <2>2
<1>5. \A n \in 1 .. l : s[n].name = "vendor_ramdisk" /\ s[n].size = table[n].size
  <2>1. \A z : /\ Free("vendor_ramdisk", z).name = "vendor_ramdisk"
              /\ Free("vendor_ramdisk", z).size = z
    BY DEF Free, Field
  <2> HIDE DEF s
  <2> QED
    BY <1>4, <2>1
<1>6. q = Put(p, s)
  OBVIOUS
<1> HIDE DEF s
<1>7. /\ IsFile(q) /\ Len(q) = Len(p) + Len(s)
      /\ \A n \in 1 .. Len(p) : q[n] = p[n]
      /\ \A n \in 1 .. Len(s) :
            /\ q[Len(p) + n].name = s[n].name
            /\ q[Len(p) + n].size = s[n].size
            /\ q[Len(p) + n].val = s[n].val
            /\ q[Len(p) + n] =
                 [name |-> s[n].name, at |-> q[Len(p) + n].at,
                  size |-> s[n].size, val |-> s[n].val]
      /\ Len(s) > 0 => q[Len(p) + 1].at = Tell(p)
      /\ Len(s) = 0 => q = p
  <2>1. IsFile(p)
    OBVIOUS
  <2> QED
    BY <1>3, <1>6, <2>1, PutFile, Zenon
<1>8. \A n \in 1 .. l : q[k + n].name = "vendor_ramdisk" /\ q[k + n].size = table[n].size
  BY <1>4, <1>5, <1>7
<1>9. \A n \in 1 .. l : q[k + n].at = Tell(p) + table[n].offset
  <2> DEFINE P == {n \in Nat : n + 1 <= l =>
                     q[k + (n + 1)].at = Tell(p) + table[n + 1].offset}
  <2>1. 0 \in P
    <3> SUFFICES ASSUME 1 <= l PROVE q[k + 1].at = Tell(p) + table[1].offset
      OBVIOUS
    <3>1. q[k + 1].at = Tell(p)
      BY <1>1, <1>4, <1>7
    <3>2. table[1].offset = 0
      BY <1>1 DEF Follows
    <3> QED
      BY <1>2, <3>1, <3>2
  <2>2. ASSUME NEW n \in Nat, n \in P PROVE n + 1 \in P
    <3> SUFFICES ASSUME n + 2 <= l
                 PROVE  q[k + (n + 2)].at = Tell(p) + table[n + 2].offset
      OBVIOUS
    <3>1. q[k + (n + 1)].at = Tell(p) + table[n + 1].offset
      BY <1>1, <2>2
    <3>2. q[k + (n + 2)].at = q[k + (n + 1)].at + q[k + (n + 1)].size
      <4>1. k + (n + 2) \in 1 .. Len(q)
        BY <1>1, <1>2, <1>4, <1>7
      <4>2. k + (n + 2) # 1 /\ (k + (n + 2)) - 1 = k + (n + 1)
        BY <1>2
      <4> QED
        BY <1>7, <4>1, <4>2 DEF IsFile
    <3>3. n + 1 \in 1 .. l /\ n + 2 \in 1 .. l /\ n + 2 # 1 /\ (n + 2) - 1 = n + 1
      BY <1>1
    <3>4. q[k + (n + 1)].size = table[n + 1].size
      BY <1>8, <3>3
    <3>5. /\ table[n + 2].offset = table[n + 1].offset + table[n + 1].size
          /\ table[n + 1].offset \in Nat
      BY <3>3 DEF Follows
    <3>6. table[n + 1].size \in Nat
      BY <1>1, <3>3
    <3> QED
      BY <1>2, <3>1, <3>2, <3>4, <3>5, <3>6
  <2>3. Nat \subseteq P
    <3> HIDE DEF P
    <3> QED
      BY <2>1, <2>2, SetInduction
  <2>4. ASSUME NEW n \in 1 .. l PROVE q[k + n].at = Tell(p) + table[n].offset
    <3>1. n - 1 \in Nat /\ (n - 1) + 1 = n /\ n <= l
      BY <1>1
    <3>2. n - 1 \in P
      BY <2>3, <3>1
    <3> QED
      BY <3>1, <3>2
  <2> QED
    BY <2>4
<1>10. Prefix(p, q)
  BY <1>1, <1>2, <1>4, <1>7 DEF Prefix
<1> QED
  BY <1>4, <1>7, <1>8, <1>9, <1>10 DEF RamdisksAt

\* The table from k on, an entry of five fields and 108 bytes for each.
EntryNames ==
  {"ramdisk_size", "ramdisk_offset", "ramdisk_type", "ramdisk_name", "board_id"}
EntryAt(f, j, e, at) ==
  /\ f[j + 1].name = "ramdisk_size" /\ f[j + 1].val = e.size
  /\ f[j + 2].name = "ramdisk_offset" /\ f[j + 2].val = e.offset
  /\ f[j + 3].name = "ramdisk_type" /\ f[j + 3].val = e.type
  /\ f[j + 4].name = "ramdisk_name" /\ f[j + 5].name = "board_id"
  /\ f[j + 1].at = at
EntriesAt(f, k, at) ==
  \A i \in 0 .. Len(table) - 1 : EntryAt(f, k + 5 * i, table[i + 1], at + 108 * i)

\* The fields of an entry.
LEMMA EntryFields ==
    ASSUME NEW e, NEW s, s = EntryPieces(e)
    PROVE  /\ s[1].name = "ramdisk_size" /\ s[1].size = 4 /\ s[1].val = e.size
           /\ s[2].name = "ramdisk_offset" /\ s[2].size = 4 /\ s[2].val = e.offset
           /\ s[3].name = "ramdisk_type" /\ s[3].size = 4 /\ s[3].val = e.type
           /\ s[4].name = "ramdisk_name" /\ s[4].size = 32
           /\ s[5].name = "board_id" /\ s[5].size = 64
BY DEF EntryPieces, I, Free, Field, VENDOR_RAMDISK_NAME_SIZE

\* The table is put entry by entry.
LEMMA TablePut ==
    ASSUME NEW d, IsFile(d), TableSizes(table), NEW r, r = Put(d, TablePieces)
    PROVE  /\ IsFile(r) /\ Len(r) = Len(d) + 5 * Len(table) /\ Prefix(d, r)
           /\ EntriesAt(r, Len(d), Tell(d)) /\ Tell(r) = Tell(d) + 108 * Len(table)
<1> DEFINE l == Len(table)
           k == Len(d)
           s == TablePieces
           t == Tell(d)
<1>1. l \in Nat
  BY SeqParts DEF TableSizes
<1>2. k \in Nat /\ t \in Nat
  BY FileEnd
<1>3. IsFields(s)
  BY TableWhole DEF WholeFields
<1>4. Len(s) = 5 * l
  <2> DEFINE m == 5 * l
  <2>1. DOMAIN s = 1 .. m /\ s = [n \in 1 .. m |-> s[n]] /\ m \in Nat
    BY <1>1 DEF TablePieces
  <2> HIDE DEF s, m
  <2>2. IsSeq(s) /\ Len(s) = m
    BY <2>1, FunIsSeq
  <2> QED
    BY <2>2 DEF m
<1>5. ASSUME NEW i \in 0 .. l - 1, NEW m \in 1 .. 5
      PROVE  5 * i + m \in 1 .. 5 * l /\ s[5 * i + m] = EntryPieces(table[i + 1])[m]
  <2>1. 5 * i + m \in 1 .. 5 * l
    BY <1>1
  <2>2. ((5 * i + m) - 1) \div 5 = i /\ ((5 * i + m) - 1) % 5 = m - 1
    OBVIOUS
  <2>3. s[5 * i + m] = EntryPieces(table[(((5 * i + m) - 1) \div 5) + 1])
                                  [(((5 * i + m) - 1) % 5) + 1]
    BY <2>1 DEF TablePieces
  <2>4. (m - 1) + 1 = m
    OBVIOUS
  <2> QED
    BY <2>1, <2>2, <2>3, <2>4
<1>6. r = Put(d, s)
  OBVIOUS
<1> HIDE DEF s
<1>7. /\ IsFile(r) /\ Len(r) = Len(d) + Len(s)
      /\ \A n \in 1 .. Len(d) : r[n] = d[n]
      /\ \A n \in 1 .. Len(s) :
            /\ r[Len(d) + n].name = s[n].name
            /\ r[Len(d) + n].size = s[n].size
            /\ r[Len(d) + n].val = s[n].val
            /\ r[Len(d) + n] =
                 [name |-> s[n].name, at |-> r[Len(d) + n].at,
                  size |-> s[n].size, val |-> s[n].val]
      /\ Len(s) > 0 => r[Len(d) + 1].at = Tell(d)
      /\ Len(s) = 0 => r = d
  <2>1. IsFile(d)
    OBVIOUS
  <2> QED
    BY <1>3, <1>6, <2>1, PutFile, Zenon
<1>8. ASSUME NEW i \in 0 .. l - 1, NEW m \in 1 .. 5, NEW u,
             u = EntryPieces(table[i + 1])
      PROVE  /\ r[(k + 5 * i) + m].name = u[m].name
             /\ r[(k + 5 * i) + m].size = u[m].size
             /\ r[(k + 5 * i) + m].val = u[m].val
             /\ (k + 5 * i) + m \in 1 .. Len(r)
  <2>1. 5 * i + m \in 1 .. Len(s) /\ s[5 * i + m] = u[m]
    BY <1>4, <1>5, <1>8
  <2>2. k + (5 * i + m) = (k + 5 * i) + m
    BY <1>2
  <2>3. /\ r[k + (5 * i + m)].name = u[m].name
        /\ r[k + (5 * i + m)].size = u[m].size
        /\ r[k + (5 * i + m)].val = u[m].val
    BY <1>7, <2>1
  <2>4. k + (5 * i + m) \in 1 .. Len(r)
    BY <1>1, <1>2, <1>4, <1>7, <2>1
  <2> QED
    BY <2>2, <2>3, <2>4
<1>9. ASSUME NEW i \in 0 .. l - 1
      PROVE  LET j == k + 5 * i IN
             /\ j + 1 \in 1 .. Len(r) /\ j + 5 \in 1 .. Len(r)
             /\ r[j + 1].name = "ramdisk_size" /\ r[j + 1].val = table[i + 1].size
             /\ r[j + 2].name = "ramdisk_offset"
             /\ r[j + 2].val = table[i + 1].offset
             /\ r[j + 3].name = "ramdisk_type" /\ r[j + 3].val = table[i + 1].type
             /\ r[j + 4].name = "ramdisk_name" /\ r[j + 5].name = "board_id"
             /\ r[j + 1].size = 4 /\ r[j + 2].size = 4 /\ r[j + 3].size = 4
             /\ r[j + 4].size = 32 /\ r[j + 5].size = 64
  <2> DEFINE j == k + 5 * i
             e == table[i + 1]
             u == EntryPieces(e)
  <2>1. \A m \in 1 .. 5 : /\ r[j + m].name = u[m].name
                          /\ r[j + m].size = u[m].size
                          /\ r[j + m].val = u[m].val
                          /\ j + m \in 1 .. Len(r)
    BY <1>8
  <2>2. /\ u[1].name = "ramdisk_size" /\ u[1].size = 4 /\ u[1].val = e.size
        /\ u[2].name = "ramdisk_offset" /\ u[2].size = 4 /\ u[2].val = e.offset
        /\ u[3].name = "ramdisk_type" /\ u[3].size = 4 /\ u[3].val = e.type
        /\ u[4].name = "ramdisk_name" /\ u[4].size = 32
        /\ u[5].name = "board_id" /\ u[5].size = 64
    BY EntryFields
  <2> HIDE DEF u, j
  <2>3. /\ 1 \in 1 .. 5 /\ 2 \in 1 .. 5 /\ 3 \in 1 .. 5 /\ 4 \in 1 .. 5
        /\ 5 \in 1 .. 5
    OBVIOUS
  <2>4. /\ j + 1 \in 1 .. Len(r) /\ j + 5 \in 1 .. Len(r)
        /\ r[j + 1].name = u[1].name /\ r[j + 1].size = u[1].size
        /\ r[j + 1].val = u[1].val
        /\ r[j + 2].name = u[2].name /\ r[j + 2].size = u[2].size
        /\ r[j + 2].val = u[2].val
        /\ r[j + 3].name = u[3].name /\ r[j + 3].size = u[3].size
        /\ r[j + 3].val = u[3].val
        /\ r[j + 4].name = u[4].name /\ r[j + 4].size = u[4].size
        /\ r[j + 5].name = u[5].name /\ r[j + 5].size = u[5].size
    BY <2>1, <2>3, Zenon
  <2>5. /\ j + 1 \in 1 .. Len(r) /\ j + 5 \in 1 .. Len(r)
        /\ r[j + 1].name = "ramdisk_size" /\ r[j + 1].val = e.size
        /\ r[j + 2].name = "ramdisk_offset" /\ r[j + 2].val = e.offset
        /\ r[j + 3].name = "ramdisk_type" /\ r[j + 3].val = e.type
        /\ r[j + 4].name = "ramdisk_name" /\ r[j + 5].name = "board_id"
        /\ r[j + 1].size = 4 /\ r[j + 2].size = 4 /\ r[j + 3].size = 4
        /\ r[j + 4].size = 32 /\ r[j + 5].size = 64
    BY <2>2, <2>4
  <2> QED
    BY <2>5 DEF j
<1>10. ASSUME NEW i \in 0 .. l - 1
       PROVE  LET j == k + 5 * i IN
              r[j + 5].at + r[j + 5].size = r[j + 1].at + 108
  <2> DEFINE j == k + 5 * i
  <2>1. j \in Nat
    BY <1>2
  <2>2. /\ j + 1 \in 1 .. Len(r) /\ j + 5 \in 1 .. Len(r)
        /\ r[j + 1].size = 4 /\ r[j + 2].size = 4 /\ r[j + 3].size = 4
        /\ r[j + 4].size = 32 /\ r[j + 5].size = 64
    BY <1>9
  <2>0. Len(r) \in Nat
    BY <1>7, FileEnd
  <2> HIDE DEF j
  <2>3. ASSUME NEW n \in 2 .. 5 PROVE r[j + n].at = r[j + (n - 1)].at + r[j + (n - 1)].size
    <3>1. j + n \in 1 .. Len(r) /\ j + n # 1 /\ (j + n) - 1 = j + (n - 1)
      BY <2>0, <2>1, <2>2
    <3> QED
      BY <1>7, <3>1 DEF IsFile
  <2>4. /\ r[j + 2].at = r[j + (2 - 1)].at + r[j + (2 - 1)].size
        /\ r[j + 3].at = r[j + (3 - 1)].at + r[j + (3 - 1)].size
        /\ r[j + 4].at = r[j + (4 - 1)].at + r[j + (4 - 1)].size
        /\ r[j + 5].at = r[j + (5 - 1)].at + r[j + (5 - 1)].size
    BY <2>3
  <2>5. r[j + 1].at \in Nat
    BY <1>7, <2>2 DEF IsFile
  <2>6. r[j + 5].at + r[j + 5].size = r[j + 1].at + 108
    <3>1. r[j + 2].at = r[j + 1].at + 4
      BY <2>2, <2>4
    <3>2. r[j + 3].at = r[j + 2].at + 4
      BY <2>2, <2>4
    <3>3. r[j + 4].at = r[j + 3].at + 4
      BY <2>2, <2>4
    <3>4. r[j + 5].at = r[j + 4].at + 32
      BY <2>2, <2>4
    <3> QED
      BY SMTT(60), <2>2, <2>5, <3>1, <3>2, <3>3, <3>4
  <2> QED
    BY <2>6 DEF j
<1>11. \A i \in 0 .. l - 1 : r[(k + 5 * i) + 1].at = t + 108 * i
  <2> DEFINE P == {i \in Nat : i < l => r[(k + 5 * i) + 1].at = t + 108 * i}
  <2>1. 0 \in P
    <3> SUFFICES ASSUME 0 < l PROVE r[(k + 5 * 0) + 1].at = t + 108 * 0
      OBVIOUS
    <3>1. Len(s) > 0
      BY <1>1, <1>4
    <3>2. r[k + 1].at = t
      BY <1>7, <3>1
    <3>3. (k + 5 * 0) + 1 = k + 1 /\ t + 108 * 0 = t
      BY <1>2
    <3> QED
      BY <3>2, <3>3
  <2>2. ASSUME NEW i \in Nat, i \in P PROVE i + 1 \in P
    <3> SUFFICES ASSUME i + 1 < l
                 PROVE  r[(k + 5 * (i + 1)) + 1].at = t + 108 * (i + 1)
      OBVIOUS
    <3>1. i \in 0 .. l - 1 /\ i + 1 \in 0 .. l - 1
      BY <1>1
    <3>2. r[(k + 5 * i) + 1].at = t + 108 * i
      BY <1>1, <2>2
    <3>3. r[(k + 5 * i) + 5].at + r[(k + 5 * i) + 5].size = r[(k + 5 * i) + 1].at + 108
      BY <1>10, <3>1
    <3>4. /\ (k + 5 * (i + 1)) + 1 \in 1 .. Len(r)
          /\ (k + 5 * (i + 1)) + 1 # 1
          /\ ((k + 5 * (i + 1)) + 1) - 1 = (k + 5 * i) + 5
      <4>1. (k + 5 * (i + 1)) + 1 \in 1 .. Len(r)
        BY <1>9, <3>1
      <4> QED
        BY <1>2, <4>1
    <3>5. r[(k + 5 * (i + 1)) + 1].at = r[(k + 5 * i) + 5].at + r[(k + 5 * i) + 5].size
      BY <1>7, <3>4 DEF IsFile
    <3> QED
      BY <1>2, <3>2, <3>3, <3>5
  <2>3. Nat \subseteq P
    <3> HIDE DEF P
    <3> QED
      BY <2>1, <2>2, SetInduction
  <2>4. ASSUME NEW i \in 0 .. l - 1 PROVE r[(k + 5 * i) + 1].at = t + 108 * i
    <3>1. i \in Nat /\ i < l
      BY <1>1
    <3>2. i \in P
      BY <2>3, <3>1
    <3> QED
      BY <3>1, <3>2
  <2> QED
    BY <2>4
<1>12. Tell(r) = t + 108 * l
  <2>1. Tell(r) = IF Len(r) = 0 THEN 0 ELSE r[Len(r)].at + r[Len(r)].size
    BY <1>7, FileEnd
  <2>2. CASE l = 0
    <3>1. Len(s) = 0
      BY <1>4, <2>2
    <3>2. r = d
      BY <1>7, <3>1
    <3> QED
      BY <1>2, <2>2, <3>2
  <2>3. CASE l # 0
    <3>1. l - 1 \in 0 .. l - 1 /\ (k + 5 * (l - 1)) + 5 = k + 5 * l
      BY <1>1, <1>2, <2>3
    <3>2. Len(r) = (k + 5 * (l - 1)) + 5 /\ Len(r) # 0
      BY <1>1, <1>2, <1>4, <1>7, <2>3, <3>1
    <3>3. Tell(r) = r[(k + 5 * (l - 1)) + 5].at + r[(k + 5 * (l - 1)) + 5].size
      BY <2>1, <3>2
    <3>4. Tell(r) = r[(k + 5 * (l - 1)) + 1].at + 108
      BY <1>10, <3>1, <3>3
    <3>5. r[(k + 5 * (l - 1)) + 1].at = t + 108 * (l - 1)
      BY <1>11, <3>1
    <3> QED
      BY <1>1, <1>2, <3>4, <3>5
  <2> QED
    BY <2>2, <2>3
<1>13. EntriesAt(r, k, t)
  <2>1. ASSUME NEW i \in 0 .. l - 1
        PROVE  EntryAt(r, k + 5 * i, table[i + 1], t + 108 * i)
    BY <1>9, <1>11 DEF EntryAt
  <2> QED
    BY <2>1 DEF EntriesAt
<1>14. Prefix(d, r)
  BY <1>1, <1>2, <1>4, <1>7 DEF Prefix
<1> QED
  BY <1>4, <1>7, <1>12, <1>13, <1>14

\* Names that are not in the vendor header, and its own are there once.
LaterNames == {"vendor_ramdisk", "dtb", "bootconfig"} \cup EntryNames

\* The header has none of them, nor a field twice.
LEMMA VendorNamesApart ==
    /\ \A n \in 1 .. 16 : /\ VendorNames[n] \notin LaterNames
                          /\ VendorNames[n] # "pad"
    /\ \A n \in {10, 11, 13, 16} : \A m \in 1 .. n - 1 :
          VendorNames[m] # VendorNames[n]
    /\ VendorNames[10] = "header_size" /\ VendorNames[11] = "dtb_size"
    /\ VendorNames[13] = "vendor_ramdisk_table_size"
    /\ VendorNames[16] = "bootconfig_size"
    /\ "pad" \notin LaterNames
<1>1. \A n \in 1 .. 16 : /\ VendorNames[n] \notin LaterNames
                         /\ VendorNames[n] # "pad"
  BY DEF VendorNames, LaterNames, EntryNames
<1>2. /\ VendorNames[10] = "header_size" /\ VendorNames[11] = "dtb_size"
      /\ VendorNames[13] = "vendor_ramdisk_table_size"
      /\ VendorNames[16] = "bootconfig_size"
  BY DEF VendorNames
<1>3. \A m \in 1 .. 9 : VendorNames[m] # "header_size"
  BY DEF VendorNames
<1>4. \A m \in 1 .. 10 : VendorNames[m] # "dtb_size"
  BY DEF VendorNames
<1>5. \A m \in 1 .. 12 : VendorNames[m] # "vendor_ramdisk_table_size"
  BY DEF VendorNames
<1>6. \A m \in 1 .. 15 : VendorNames[m] # "bootconfig_size"
  BY DEF VendorNames
<1>7. "pad" \notin LaterNames
  BY DEF LaterNames, EntryNames
<1>8. ASSUME NEW n \in {10, 11, 13, 16}, NEW m \in 1 .. n - 1
      PROVE  VendorNames[m] # VendorNames[n]
  <2>1. CASE n = 10
    <3>1. m \in 1 .. 9
      BY <2>1
    <3> QED
      BY <1>2, <1>3, <2>1, <3>1
  <2>2. CASE n = 11
    <3>1. m \in 1 .. 10
      BY <2>2
    <3> QED
      BY <1>2, <1>4, <2>2, <3>1
  <2>3. CASE n = 13
    <3>1. m \in 1 .. 12
      BY <2>3
    <3> QED
      BY <1>2, <1>5, <2>3, <3>1
  <2>4. CASE n = 16
    <3>1. m \in 1 .. 15
      BY <2>4
    <3> QED
      BY <1>2, <1>6, <2>4, <3>1
  <2> QED
    BY <2>1, <2>2, <2>3, <2>4
<1> QED
  BY <1>1, <1>2, <1>7, <1>8

\* Whatever follows it, the header holds what it does.
HeadRead(f, a) ==
  /\ Value(f, "header_size") = VendorBytes(a.version)
  /\ HeaderEnd(f) = VendorBytes(a.version)
  /\ Value(f, "dtb_size") = filesize(a.dtb)
  /\ a.version = 4 =>
       /\ Value(f, "vendor_ramdisk_table_size") = 108 * Len(table)
       /\ Value(f, "bootconfig_size") = filesize(a.vendor_bootconfig)
       /\ Piece(f, "pad").at + Piece(f, "pad").size
             = Padded(VendorBytes(a.version), a.page)

\* So it is in all that goes on after the head.
LEMMA HeadHeld ==
    ASSUME NEW a, a.version \in {3, 4}, NEW p, VendorHead(p, a),
           NEW f, IsFile(f), Prefix(p, f)
    PROVE  /\ HeadRead(f, a)
           /\ \A n \in 1 .. Len(p) : f[n].name \notin LaterNames
<1> DEFINE k == VendorCount(a.version)
<1>1. k \in {12, 16} /\ (a.version = 4 => k = 16) /\ (a.version > 3 <=> k = 16)
  BY DEF VendorCount
<1>2. /\ IsFile(p) /\ Len(p) = k + 1 /\ VendorHolds(p, a)
      /\ p[k + 1].name = "pad" /\ p[k + 1].at = VendorBytes(a.version)
      /\ p[k + 1].at + p[k + 1].size = Tell(p)
      /\ Tell(p) = Padded(VendorBytes(a.version), a.page)
  BY DEF VendorHead
<1>3. /\ \A n \in 1 .. k : p[n].name = VendorNames[n]
      /\ p[10].val = VendorBytes(a.version)
      /\ p[11].val = filesize(a.dtb)
      /\ k = 16 => /\ p[13].val = 108 * Len(table)
                   /\ p[16].val = filesize(a.vendor_bootconfig)
  BY <1>1, <1>2 DEF VendorHolds
<1> HIDE DEF k
<1>4. \A n \in 1 .. k + 1 : f[n] = p[n] /\ n \in 1 .. Len(f)
  <2>1. Len(f) \in Nat
    BY FileEnd
  <2> QED
    BY <1>1, <1>2, <2>1 DEF Prefix
<1>5. ASSUME NEW n \in {10, 11, 13, 16}, n <= k
      PROVE  Piece(f, VendorNames[n]) = p[n]
  <2>1. n \in 1 .. k + 1 /\ n \in 1 .. k /\ \A m \in 1 .. n - 1 : m \in 1 .. k /\ m \in 1 .. k + 1
    BY <1>1, <1>5
  <2>2. f[n].name = VendorNames[n] /\ f[n] = p[n] /\ n \in 1 .. Len(f)
    BY <1>3, <1>4, <2>1
  <2>3. \A m \in 1 .. n - 1 : f[m].name # f[n].name
    <3>1. \A m \in 1 .. n - 1 : f[m].name = VendorNames[m]
      BY <1>3, <1>4, <2>1
    <3>2. \A m \in 1 .. n - 1 : VendorNames[m] # VendorNames[n]
      BY VendorNamesApart
    <3> QED
      BY <2>2, <3>1, <3>2
  <2>4. Piece(f, f[n].name) = f[n]
    BY <2>2, <2>3, PieceIs
  <2> QED
    BY <2>2, <2>4
<1>6. Piece(f, "pad") = p[k + 1]
  <2>1. /\ k + 1 \in 1 .. k + 1
        /\ \A m \in 1 .. (k + 1) - 1 : /\ m \in 1 .. 16 /\ m \in 1 .. k
                                       /\ m \in 1 .. k + 1
    BY <1>1
  <2>2. f[k + 1].name = "pad" /\ f[k + 1] = p[k + 1] /\ k + 1 \in 1 .. Len(f)
    BY <1>2, <1>4, <2>1
  <2>3. \A m \in 1 .. (k + 1) - 1 : f[m].name # f[k + 1].name
    <3>1. \A m \in 1 .. (k + 1) - 1 : f[m].name = VendorNames[m]
      BY <1>3, <1>4, <2>1
    <3>2. \A m \in 1 .. (k + 1) - 1 : VendorNames[m] # "pad"
      BY <2>1, VendorNamesApart
    <3> QED
      BY <2>2, <3>1, <3>2
  <2>4. Piece(f, f[k + 1].name) = f[k + 1]
    BY <2>2, <2>3, PieceIs
  <2> QED
    BY <2>2, <2>4
<1>7. /\ Piece(f, "header_size") = p[10] /\ Piece(f, "dtb_size") = p[11]
      /\ k = 16 => /\ Piece(f, "vendor_ramdisk_table_size") = p[13]
                   /\ Piece(f, "bootconfig_size") = p[16]
  <2>1. 10 <= k /\ 11 <= k /\ (k = 16 => 13 <= k /\ 16 <= k)
    BY <1>1
  <2>2. /\ Piece(f, VendorNames[10]) = p[10] /\ Piece(f, VendorNames[11]) = p[11]
        /\ k = 16 => /\ Piece(f, VendorNames[13]) = p[13]
                     /\ Piece(f, VendorNames[16]) = p[16]
    BY <1>5, <2>1
  <2> QED
    BY <2>2, VendorNamesApart
<1>8. HeadRead(f, a)
  BY <1>1, <1>2, <1>3, <1>6, <1>7 DEF HeadRead, Value, HeaderEnd
<1>9. \A n \in 1 .. Len(p) : f[n].name \notin LaterNames
  <2>1. \A n \in 1 .. k : n \in 1 .. 16 /\ n \in 1 .. k + 1
    BY <1>1
  <2>2. \A n \in 1 .. k : f[n].name \notin LaterNames
    BY SMTT(60), <1>3, <1>4, <2>1, VendorNamesApart
  <2>3. f[k + 1].name = "pad"
    BY <1>1, <1>2, <1>4
  <2>4. \A n \in 1 .. k + 1 : n \in 1 .. k \/ n = k + 1
    BY <1>1
  <2> QED
    BY <1>2, <2>2, <2>3, <2>4, VendorNamesApart
<1> QED
  BY <1>8, <1>9

\* A beginning of a beginning.
LEMMA PrefixChain ==
    ASSUME NEW f, NEW g, NEW h, IsFile(f), IsFile(g), IsFile(h),
           Prefix(f, g), Prefix(g, h)
    PROVE  Prefix(f, h)
<1>1. Len(f) \in Nat /\ Len(g) \in Nat /\ Len(h) \in Nat
  BY FileEnd
<1>2. Len(f) <= Len(g) /\ Len(g) <= Len(h)
  BY DEF Prefix
<1>3. ASSUME NEW n \in 1 .. Len(f) PROVE h[n] = f[n]
  <2>1. n \in 1 .. Len(g)
    BY <1>1, <1>2
  <2> QED
    BY <2>1 DEF Prefix
<1> QED
  BY <1>1, <1>2, <1>3 DEF Prefix

\* What is not among the names is not there.
LEMMA NotThere ==
    ASSUME NEW f, IsFile(f), NEW name, \A n \in 1 .. Len(f) : f[n].name # name
    PROVE  ~Has(f, name)
<1>1. DOMAIN f = 1 .. Len(f)
  BY SeqParts DEF IsFile
<1> QED
  BY <1>1 DEF Has

\* The image of version 3.
LEMMA OldVendor ==
    ASSUME NEW a \in CommandLines, a.version = 3, NEW p, VendorHead(p, a),
           NEW f, f = VendorData(p, a)
    PROVE  /\ IsFile(f) /\ Prefix(p, f) /\ SizeOf(f, "dtb") = filesize(a.dtb)
           /\ Len(p) = 13
<1> DEFINE r == write_padded_file(p, "vendor_ramdisk", a.vendor_ramdisk, a.page)
<1>1. /\ a.page \in Nat \ {0}
      /\ a.vendor_ramdisk = Absent \/ a.vendor_ramdisk \in Nat
      /\ a.dtb = Absent \/ a.dtb \in Nat
  BY PageArg, ArgTypes DEF FileArgs
<1>2. f = write_padded_file(r, "dtb", a.dtb, a.page)
  BY DEF VendorData
<1>3. IsFile(p) /\ Len(p) = 13
  BY DEF VendorHead, VendorCount
<1>4. ~Has(p, "vendor_ramdisk") /\ ~Has(p, "dtb")
  <2>1. Prefix(p, p)
    BY <1>3, FileEnd DEF Prefix
  <2>2. \A n \in 1 .. Len(p) : p[n].name \notin LaterNames
    <3>1. a.version \in {3, 4}
      OBVIOUS
    <3>2. VendorHead(p, a)
      OBVIOUS
    <3>3. IsFile(p)
      BY <1>3
    <3>4. /\ HeadRead(p, a)
          /\ \A n \in 1 .. Len(p) : p[n].name \notin LaterNames
      BY <2>1, <3>1, <3>2, <3>3, HeadHeld
    <3> QED
      BY <3>4
  <2>3. \A n \in 1 .. Len(p) : p[n].name # "dtb" /\ p[n].name # "vendor_ramdisk"
    BY <2>2 DEF LaterNames
  <2> QED
    BY <1>3, <2>3, NotThere
<1>5. /\ IsFile(r) /\ Prefix(p, r) /\ NewNames(p, r, {"vendor_ramdisk", "pad"})
  <2>1. /\ IsFile(r) /\ Prefix(p, r) /\ NewNames(p, r, {"vendor_ramdisk", "pad"})
        /\ Tell(r) = NextAt(Tell(p), a.vendor_ramdisk, a.page)
        /\ PartAt(r, "vendor_ramdisk", a.vendor_ramdisk, Tell(p))
    <3>1. "vendor_ramdisk" # "pad"
      OBVIOUS
    <3>2. r = write_padded_file(p, "vendor_ramdisk", a.vendor_ramdisk, a.page)
      OBVIOUS
    <3>3. IsFile(p)
      BY <1>3
    <3>4. ~Has(p, "vendor_ramdisk")
      BY <1>4
    <3> HIDE DEF r
    <3> QED
      BY <1>1, <3>1, <3>2, <3>3, <3>4, PartAdded, ZenonT(60)
  <2> QED
    BY <2>1
<1> HIDE DEF r
<1>6. ~Has(r, "dtb")
  <2>1. "dtb" \notin {"vendor_ramdisk", "pad"}
    OBVIOUS
  <2> QED
    BY <1>3, <1>4, <1>5, <2>1, NameKept
<1>7. /\ IsFile(f) /\ Prefix(r, f) /\ PartAt(f, "dtb", a.dtb, Tell(r))
  <2>1. "dtb" # "pad"
    OBVIOUS
  <2> QED
    BY <1>1, <1>2, <1>5, <1>6, <2>1, PartAdded
<1>8. Prefix(p, f)
  BY <1>3, <1>5, <1>7, PrefixChain
<1> QED
  BY <1>3, <1>7, <1>8 DEF PartAt

\* Which field of the table is which.
LEMMA TableNamed ==
    ASSUME NEW f, NEW b \in Nat, NEW at, EntriesAt(f, b, at), Len(table) \in Nat,
           NEW n \in b + 1 .. b + 5 * Len(table)
    PROVE  /\ f[n].name \in EntryNames
           /\ f[n].name = "ramdisk_offset" =>
                \E i \in 0 .. Len(table) - 1 : n = (b + 5 * i) + 2
<1> DEFINE x == n - b - 1
           i == x \div 5
           m == x % 5
           e == table[i + 1]
           j == b + 5 * i
<1>1. x \in Nat /\ x < 5 * Len(table) /\ n = b + x + 1
  OBVIOUS
<1> HIDE DEF x
<1>2. i \in 0 .. Len(table) - 1 /\ m \in 0 .. 4 /\ x = 5 * i + m
  BY <1>1
<1> HIDE DEF i, m
<1>3. n = j + (m + 1) /\ j \in Nat
  BY <1>1, <1>2
<1>4. EntryAt(f, j, e, at + 108 * i)
  BY <1>2 DEF EntriesAt
<1> HIDE DEF j, e
<1>5. /\ f[j + 1].name = "ramdisk_size" /\ f[j + 2].name = "ramdisk_offset"
      /\ f[j + 3].name = "ramdisk_type" /\ f[j + 4].name = "ramdisk_name"
      /\ f[j + 5].name = "board_id"
  BY <1>4 DEF EntryAt
<1>6. n = j + 1 \/ n = j + 2 \/ n = j + 3 \/ n = j + 4 \/ n = j + 5
  BY <1>2, <1>3
<1>7. f[n].name \in EntryNames
  BY <1>5, <1>6 DEF EntryNames
<1>8. f[n].name = "ramdisk_offset" => n = j + 2
  BY <1>5, <1>6
<1> QED
  BY <1>2, <1>7, <1>8 DEF j

-----------------------------------------------------------------------------
(* The vendor image of version 4. *)

\* A vendor image with a table: behind its head of k pieces the ramdisks, the
\* device tree, the table behind the first b pieces, its padding, the rest.
TableFile(f, a, k, b, start, at) ==
  LET l == Len(table) IN
    /\ IsFile(f) /\ k \in Nat /\ b \in Nat /\ at \in Nat /\ start \in Nat
    /\ k + l + 1 <= b /\ b + 5 * l + 1 <= Len(f)
    /\ \A n \in 1 .. k : f[n].name \notin LaterNames
    /\ RamdisksAt(f, k, start)
    /\ \A n \in k + l + 1 .. b : f[n].name \in {"dtb", "pad"}
    /\ EntriesAt(f, b, at) /\ at % a.page = 0
    /\ f[b + 5 * l + 1].at = at + 108 * l
    /\ \A n \in b + 5 * l + 1 .. Len(f) : f[n].name \in {"bootconfig", "pad"}

\* What is so in a file is so in what it goes on to be.
LEMMA RamdisksKept ==
    ASSUME NEW f, NEW g, IsFile(f), IsFile(g), Prefix(f, g), NEW k \in Nat,
           Len(table) \in Nat, k + Len(table) <= Len(f), NEW start,
           RamdisksAt(f, k, start)
    PROVE  RamdisksAt(g, k, start)
<1>1. Len(f) \in Nat
  BY FileEnd
<1>2. ASSUME NEW n \in 1 .. Len(table) PROVE g[k + n] = f[k + n]
  <2>1. k + n \in 1 .. Len(f)
    BY <1>1
  <2> QED
    BY <2>1 DEF Prefix
<1> QED
  BY <1>2 DEF RamdisksAt

\* Nor do entries move.
LEMMA EntriesKept ==
    ASSUME NEW f, NEW g, IsFile(f), IsFile(g), Prefix(f, g), NEW b \in Nat,
           Len(table) \in Nat, b + 5 * Len(table) <= Len(f), NEW at,
           EntriesAt(f, b, at)
    PROVE  EntriesAt(g, b, at)
<1>1. Len(f) \in Nat
  BY FileEnd
<1>2. ASSUME NEW i \in 0 .. Len(table) - 1
      PROVE  EntryAt(g, b + 5 * i, table[i + 1], at + 108 * i)
  <2> DEFINE j == b + 5 * i
             e == table[i + 1]
  <2>1. \A m \in 1 .. 5 : j + m \in 1 .. Len(f)
    BY <1>1
  <2>2. j \in Nat
    OBVIOUS
  <2>3. EntryAt(f, j, e, at + 108 * i)
    BY DEF EntriesAt
  <2> HIDE DEF j, e
  <2>4. /\ g[j + 1] = f[j + 1] /\ g[j + 2] = f[j + 2] /\ g[j + 3] = f[j + 3]
        /\ g[j + 4] = f[j + 4] /\ g[j + 5] = f[j + 5]
    <3>1. \A m \in 1 .. 5 : g[j + m] = f[j + m]
      BY <2>1 DEF Prefix
    <3> QED
      BY <3>1
  <2>5. EntryAt(g, j, e, at + 108 * i)
    BY <2>3, <2>4 DEF EntryAt
  <2> QED
    BY <2>5 DEF j, e
<1> QED
  BY <1>2 DEF EntriesAt

\* Nor do names change.
LEMMA NamesKept ==
    ASSUME NEW f, NEW g, IsFile(f), IsFile(g), Prefix(f, g), NEW m \in Nat,
           NEW n, n \in Nat, n <= Len(f), NEW set,
           \A i \in m + 1 .. n : f[i].name \in set
    PROVE  \A i \in m + 1 .. n : g[i].name \in set
<1>1. Len(f) \in Nat
  BY FileEnd
<1>2. \A i \in m + 1 .. n : i \in 1 .. Len(f)
  BY <1>1
<1> QED
  BY <1>2 DEF Prefix

\* The image of version 4.
LEMMA NewVendor ==
    ASSUME NEW a \in CommandLines, a.version = 4, NEW p, VendorHead(p, a),
           TableSizes(table), Follows(table), NEW f, f = VendorData(p, a)
    PROVE  /\ IsFile(f) /\ Prefix(p, f) /\ SizeOf(f, "dtb") = filesize(a.dtb)
           /\ SizeOf(f, "bootconfig") = filesize(a.vendor_bootconfig)
           /\ \E b, at \in Nat :
                 TableFile(f, a, 17, b, Padded(VendorBytes(a.version), a.page), at)
<1> DEFINE l == Len(table)
           start == Padded(VendorBytes(a.version), a.page)
           q == Put(p, RamdiskPieces)
           q1 == pad_file(q, a.page)
           d == write_padded_file(q1, "dtb", a.dtb, a.page)
           r == Put(d, TablePieces)
           e == pad_file(r, a.page)
<1>1. /\ a.page \in Nat \ {0} /\ l \in Nat
      /\ a.vendor_bootconfig = Absent \/ a.vendor_bootconfig \in Nat
      /\ a.dtb = Absent \/ a.dtb \in Nat
  BY PageArg, ArgTypes, SeqParts DEF FileArgs, TableSizes
<1>2. f = write_padded_file(e, "bootconfig", a.vendor_bootconfig, a.page)
  BY DEF VendorData
<1>3. IsFile(p) /\ Len(p) = 17 /\ Tell(p) = start
  BY DEF VendorHead, VendorCount
<1>4. \A n \in 1 .. Len(p) : p[n].name \notin LaterNames
  <2>1. Prefix(p, p)
    BY <1>3, FileEnd DEF Prefix
  <2>2. a.version \in {3, 4}
    OBVIOUS
  <2>3. VendorHead(p, a)
    OBVIOUS
  <2>4. IsFile(p)
    BY <1>3
  <2>5. /\ HeadRead(p, a)
        /\ \A n \in 1 .. Len(p) : p[n].name \notin LaterNames
    BY <2>1, <2>2, <2>3, <2>4, HeadHeld
  <2> QED
    BY <2>5
<1>5. start \in Nat
  BY <1>3, FileEnd
<1>6. /\ IsFile(q) /\ Len(q) = 17 + l /\ Prefix(p, q)
      /\ RamdisksAt(q, 17, start)
  <2>1. IsFile(p)
    BY <1>3
  <2>2. q = Put(p, RamdiskPieces)
    OBVIOUS
  <2> HIDE DEF q
  <2>3. /\ IsFile(q) /\ Len(q) = Len(p) + Len(table) /\ Prefix(p, q)
        /\ RamdisksAt(q, Len(p), Tell(p))
    BY <2>1, <2>2, RamdisksPut
  <2> QED
    BY <1>3, <2>3
<1>7. \A n \in 18 .. 17 + l : q[n].name \in {"vendor_ramdisk"}
  <2>1. \A m \in 1 .. l : q[17 + m].name = "vendor_ramdisk"
    BY <1>6 DEF RamdisksAt
  <2> HIDE DEF q
  <2>2. ASSUME NEW n \in 18 .. 17 + l PROVE q[n].name \in {"vendor_ramdisk"}
    <3>1. n - 17 \in 1 .. l /\ 17 + (n - 17) = n
      BY <1>1
    <3>2. q[17 + (n - 17)].name = "vendor_ramdisk"
      BY <2>1, <3>1
    <3> QED
      BY <3>1, <3>2
  <2> QED
    BY <2>2
<1> HIDE DEF q
<1>8. /\ IsFile(q1) /\ Len(q1) = 18 + l /\ Prefix(q, q1)
      /\ q1[18 + l].name = "pad" /\ Tell(q1) = Padded(Tell(q), a.page)
  <2>1. IsFile(q)
    BY <1>6
  <2>2. q1 = pad_file(q, a.page)
    OBVIOUS
  <2> HIDE DEF q1
  <2>3. /\ IsFile(q1) /\ Len(q1) = Len(q) + 1 /\ Prefix(q, q1)
        /\ q1[Len(q) + 1].name = "pad" /\ q1[Len(q) + 1].at = Tell(q)
        /\ Tell(q1) = Padded(Tell(q), a.page)
    BY <1>1, <2>1, <2>2, PadFile
  <2>4. Len(q) + 1 = 18 + l
    BY <1>1, <1>6
  <2> QED
    BY <2>3, <2>4
<1> HIDE DEF q1
<1>9. Tell(q1) \in Nat /\ Tell(q1) % a.page = 0
  <2>1. Tell(q) \in Nat
    BY <1>6, FileEnd
  <2>2. Padded(Tell(q), a.page) \in Nat /\ Padded(Tell(q), a.page) % a.page = 0
    BY <1>1, <2>1, WholePages
  <2> QED
    BY <1>8, <2>2
<1>10. /\ \A n \in 1 .. 17 : q1[n].name \notin LaterNames
       /\ \A n \in 18 .. 17 + l : q1[n].name = "vendor_ramdisk"
       /\ RamdisksAt(q1, 17, start) /\ Prefix(p, q1)
  <2>1. Prefix(p, q1)
    BY <1>3, <1>6, <1>8, PrefixChain
  <2>2. \A n \in 1 .. 17 : q1[n].name \notin LaterNames
    BY <1>3, <1>4, <2>1 DEF Prefix
  <2>3. \A n \in 18 .. 17 + l : n \in 1 .. Len(q)
    BY <1>1, <1>6
  <2>4. \A n \in 18 .. 17 + l : q1[n].name = "vendor_ramdisk"
    BY <1>7, <1>8, <2>3 DEF Prefix
  <2>5. RamdisksAt(q1, 17, start)
    <3>1. 17 + Len(table) <= Len(q)
      BY <1>1, <1>6
    <3>2. IsFile(q) /\ IsFile(q1) /\ Prefix(q, q1) /\ Len(table) \in Nat
      BY <1>1, <1>6, <1>8
    <3>3. RamdisksAt(q, 17, start)
      BY <1>6
    <3> QED
      BY <3>1, <3>2, <3>3, RamdisksKept
  <2> QED
    BY <2>1, <2>2, <2>4, <2>5
<1>11. ~Has(q1, "dtb") /\ ~Has(q1, "bootconfig")
  <2>1. \A n \in 1 .. Len(q1) : n \in 1 .. 17 \/ n \in 18 .. 17 + l \/ n = 18 + l
    BY <1>1, <1>8
  <2>2. \A n \in 1 .. Len(q1) : q1[n].name # "dtb" /\ q1[n].name # "bootconfig"
    BY <1>8, <1>10, <2>1 DEF LaterNames
  <2> QED
    BY <1>8, <2>2, NotThere
<1>12. /\ IsFile(d) /\ Prefix(q1, d) /\ NewNames(q1, d, {"dtb", "pad"})
       /\ Tell(d) = NextAt(Tell(q1), a.dtb, a.page)
       /\ PartAt(d, "dtb", a.dtb, Tell(q1))
  <2>1. "dtb" # "pad"
    OBVIOUS
  <2>2. d = write_padded_file(q1, "dtb", a.dtb, a.page)
    OBVIOUS
  <2>3. IsFile(q1)
    BY <1>8
  <2>4. ~Has(q1, "dtb")
    BY <1>11
  <2> HIDE DEF d
  <2> QED
    BY <1>1, <2>1, <2>2, <2>3, <2>4, PartAdded, ZenonT(60)
<1> HIDE DEF d
<1>13. Tell(d) \in Nat /\ Tell(d) % a.page = 0
  <2>1. CASE a.dtb = Absent
    BY <1>9, <1>12, <2>1 DEF NextAt
  <2>2. CASE a.dtb # Absent
    <3>1. Tell(d) = Padded(Tell(q1) + a.dtb, a.page) /\ Tell(q1) + a.dtb \in Nat
      BY <1>1, <1>9, <1>12, <2>2 DEF NextAt
    <3> QED
      BY <1>1, <3>1, WholePages
  <2> QED
    BY <2>1, <2>2
<1>14. /\ IsFile(r) /\ Len(r) = Len(d) + 5 * l /\ Prefix(d, r)
       /\ EntriesAt(r, Len(d), Tell(d)) /\ Tell(r) = Tell(d) + 108 * l
  <2>1. IsFile(d)
    BY <1>12
  <2>2. r = Put(d, TablePieces)
    OBVIOUS
  <2> HIDE DEF r
  <2> QED
    BY <2>1, <2>2, TablePut
<1> HIDE DEF r
<1>15. /\ IsFile(e) /\ Len(e) = Len(r) + 1 /\ Prefix(r, e)
       /\ e[Len(r) + 1].name = "pad" /\ e[Len(r) + 1].at = Tell(r)
  <2>1. IsFile(r)
    BY <1>14
  <2>2. e = pad_file(r, a.page)
    OBVIOUS
  <2> HIDE DEF e
  <2>3. /\ IsFile(e) /\ Len(e) = Len(r) + 1 /\ Prefix(r, e)
        /\ e[Len(r) + 1].name = "pad" /\ e[Len(r) + 1].at = Tell(r)
        /\ Tell(e) = Padded(Tell(r), a.page)
    BY <1>1, <2>1, <2>2, PadFile
  <2> QED
    BY <2>3
<1> HIDE DEF e
<1>16. Len(d) \in Nat /\ Len(r) \in Nat /\ Len(d) >= 18 + l
  <2>1. Len(d) \in Nat /\ Len(r) \in Nat
    BY <1>12, <1>14, FileEnd
  <2>2. Len(q1) <= Len(d)
    BY <1>12 DEF Prefix
  <2> QED
    BY <1>1, <1>8, <2>1, <2>2
<1>17. /\ NewNames(d, r, EntryNames) /\ NewNames(r, e, {"pad"})
       /\ "dtb" \notin EntryNames /\ "bootconfig" \notin EntryNames
  <2>1. ASSUME NEW n \in Len(d) + 1 .. Len(r) PROVE r[n].name \in EntryNames
    <3>1. n \in Len(d) + 1 .. Len(d) + 5 * Len(table)
      BY <1>14
    <3>2. Len(d) \in Nat /\ Len(table) \in Nat /\ EntriesAt(r, Len(d), Tell(d))
      BY <1>1, <1>14, <1>16
    <3> QED
      BY <3>1, <3>2, TableNamed
  <2>2. \A n \in Len(r) + 1 .. Len(e) : n = Len(r) + 1
    BY <1>15, <1>16
  <2>3. NewNames(r, e, {"pad"})
    BY <1>15, <2>2 DEF NewNames
  <2>4. "dtb" \notin EntryNames /\ "bootconfig" \notin EntryNames
    BY DEF EntryNames
  <2> QED
    BY <2>1, <2>3, <2>4 DEF NewNames
<1>18. ~Has(e, "bootconfig") /\ PartAt(e, "dtb", a.dtb, Tell(q1))
  <2>1. "bootconfig" \notin {"dtb", "pad"} /\ "bootconfig" \notin {"pad"} /\ "dtb" \notin {"pad"}
    OBVIOUS
  <2>2. ~Has(d, "bootconfig")
    BY <1>8, <1>11, <1>12, <2>1, NameKept
  <2>3. ~Has(r, "bootconfig")
    BY <1>12, <1>14, <1>17, <2>2, NameKept
  <2>4. ~Has(e, "bootconfig")
    BY <1>14, <1>15, <1>17, <2>1, <2>3, NameKept
  <2>5. PartAt(r, "dtb", a.dtb, Tell(q1))
    BY <1>12, <1>14, <1>17, PartKept
  <2>6. PartAt(e, "dtb", a.dtb, Tell(q1))
    BY <1>14, <1>15, <1>17, <2>1, <2>5, PartKept
  <2> QED
    BY <2>4, <2>6
<1>19. /\ IsFile(f) /\ Prefix(e, f) /\ NewNames(e, f, {"bootconfig", "pad"})
       /\ PartAt(f, "bootconfig", a.vendor_bootconfig, Tell(e))
  <2>1. "bootconfig" # "pad"
    OBVIOUS
  <2>2. f = write_padded_file(e, "bootconfig", a.vendor_bootconfig, a.page)
    BY <1>2
  <2>3. IsFile(e)
    BY <1>15
  <2>4. ~Has(e, "bootconfig")
    BY <1>18
  <2>5. /\ IsFile(f) /\ Prefix(e, f) /\ NewNames(e, f, {"bootconfig", "pad"})
        /\ Tell(f) = NextAt(Tell(e), a.vendor_bootconfig, a.page)
        /\ PartAt(f, "bootconfig", a.vendor_bootconfig, Tell(e))
    BY <1>1, <2>1, <2>2, <2>3, <2>4, PartAdded, Zenon
  <2> QED
    BY <2>5
<1>20. PartAt(f, "dtb", a.dtb, Tell(q1))
  <2>1. "dtb" \notin {"bootconfig", "pad"}
    OBVIOUS
  <2> QED
    BY <1>15, <1>18, <1>19, <2>1, PartKept
<1>21. /\ Prefix(r, f) /\ Prefix(d, f) /\ Prefix(q1, f) /\ Prefix(p, f)
  <2>1. Prefix(r, f)
    BY <1>14, <1>15, <1>19, PrefixChain
  <2>2. Prefix(d, f)
    BY <1>12, <1>14, <1>19, <2>1, PrefixChain
  <2>3. Prefix(q1, f)
    BY <1>8, <1>12, <1>19, <2>2, PrefixChain
  <2>4. Prefix(p, f)
    BY <1>3, <1>8, <1>10, <1>19, <2>3, PrefixChain
  <2> QED
    BY <2>1, <2>2, <2>3, <2>4
<1>22. Len(f) \in Nat /\ Len(e) <= Len(f) /\ Len(e) = Len(d) + 5 * l + 1
  BY <1>14, <1>15, <1>19, FileEnd DEF Prefix
<1>23. \A n \in 1 .. 17 : f[n].name \notin LaterNames
  BY <1>3, <1>4, <1>21 DEF Prefix
<1>24. RamdisksAt(f, 17, start)
  <2>1. 17 + Len(table) <= Len(q1) /\ 17 \in Nat /\ Len(table) \in Nat
    BY <1>1, <1>8
  <2>2. IsFile(q1) /\ IsFile(f) /\ Prefix(q1, f) /\ RamdisksAt(q1, 17, start)
    BY <1>8, <1>10, <1>19, <1>21
  <2> QED
    BY <2>1, <2>2, RamdisksKept
<1>25. \A n \in 17 + l + 1 .. Len(d) : f[n].name \in {"dtb", "pad"}
  <2>1. ASSUME NEW n \in 17 + l + 1 .. Len(d) PROVE d[n].name \in {"dtb", "pad"}
    <3>1. CASE n = 18 + l
      <4>1. n \in 1 .. Len(q1)
        BY <1>1, <1>8, <3>1
      <4>2. d[n] = q1[n]
        BY <1>12, <4>1 DEF Prefix
      <4> QED
        BY <1>8, <3>1, <4>2
    <3>2. CASE n # 18 + l
      <4>1. n \in Len(q1) + 1 .. Len(d)
        BY <1>1, <1>8, <1>16, <3>2
      <4> QED
        BY <1>12, <4>1 DEF NewNames
    <3> QED
      BY <3>1, <3>2
  <2>2. \A n \in 17 + l + 1 .. Len(d) : n \in 1 .. Len(d)
    BY <1>1, <1>16
  <2> QED
    BY <1>21, <2>1, <2>2 DEF Prefix
<1>26. EntriesAt(f, Len(d), Tell(d))
  <2>1. Len(d) + 5 * Len(table) <= Len(r) /\ Len(d) \in Nat /\ Len(table) \in Nat
    BY <1>1, <1>14, <1>16
  <2>2. IsFile(r) /\ IsFile(f) /\ Prefix(r, f) /\ EntriesAt(r, Len(d), Tell(d))
    BY <1>14, <1>19, <1>21
  <2> QED
    BY <2>1, <2>2, EntriesKept
<1>27. Len(d) + 5 * l + 1 \in 1 .. Len(e) /\ Len(r) + 1 = Len(d) + 5 * l + 1
  BY <1>1, <1>14, <1>16, <1>22
<1>28. f[Len(d) + 5 * l + 1] = e[Len(r) + 1]
  BY <1>19, <1>27 DEF Prefix
<1>29. f[Len(d) + 5 * l + 1].at = Tell(d) + 108 * l
  BY <1>14, <1>15, <1>28
<1>30. \A n \in Len(d) + 5 * l + 1 .. Len(f) : f[n].name \in {"bootconfig", "pad"}
  <2>1. \A n \in Len(d) + 5 * l + 1 .. Len(f) :
           n = Len(d) + 5 * l + 1 \/ n \in Len(e) + 1 .. Len(f)
    BY <1>1, <1>16, <1>22
  <2> QED
    BY <1>15, <1>19, <1>28, <2>1 DEF NewNames
<1>31. 17 + l + 1 <= Len(d) /\ Len(d) + 5 * l + 1 <= Len(f) /\ 17 \in Nat
  BY <1>1, <1>16, <1>22
<1> HIDE DEF l, start
<1>32. TableFile(f, a, 17, Len(d), start, Tell(d))
  BY <1>5, <1>13, <1>16, <1>19, <1>23, <1>24, <1>25, <1>26, <1>29, <1>30, <1>31
     DEF TableFile, l
<1>33. \E b, at \in Nat : TableFile(f, a, 17, b, start, at)
  BY <1>13, <1>16, <1>32
<1> QED
  BY <1>19, <1>20, <1>21, <1>33 DEF PartAt, start

Named(f, name) == {n \in DOMAIN f : f[n].name = name}

\* Where the ramdisks are and where their offsets.
LEMMA RamdisksWhere ==
    ASSUME Len(table) \in Nat, NEW f, NEW a, NEW k, NEW b, NEW start, NEW at,
           TableFile(f, a, k, b, start, at)
    PROVE  /\ Named(f, "vendor_ramdisk") = {k + 1 + i : i \in 0 .. Len(table) - 1}
           /\ Named(f, "ramdisk_offset") =
                {(b + 5 * i) + 2 : i \in 0 .. Len(table) - 1}
<1> DEFINE l == Len(table)
<1>1. /\ IsFile(f) /\ k \in Nat /\ b \in Nat
      /\ k + l + 1 <= b /\ b + 5 * l + 1 <= Len(f)
      /\ \A n \in 1 .. k : f[n].name \notin LaterNames
      /\ RamdisksAt(f, k, start)
      /\ \A n \in k + l + 1 .. b : f[n].name \in {"dtb", "pad"}
      /\ EntriesAt(f, b, at)
      /\ \A n \in b + 5 * l + 1 .. Len(f) : f[n].name \in {"bootconfig", "pad"}
  BY DEF TableFile
<1>2. Len(f) \in Nat /\ DOMAIN f = 1 .. Len(f)
  BY <1>1, FileEnd, SeqParts DEF IsFile
<1>3. \A n \in 1 .. Len(f) : \/ n \in 1 .. k
                             \/ n \in k + 1 .. k + l
                             \/ n \in k + l + 1 .. b
                             \/ n \in b + 1 .. b + 5 * l
                             \/ n \in b + 5 * l + 1 .. Len(f)
  BY <1>1, <1>2
<1>4. \A m \in 1 .. l : f[k + m].name = "vendor_ramdisk"
  BY <1>1 DEF RamdisksAt
<1>5. ASSUME NEW n \in k + 1 .. k + l
      PROVE  f[n].name = "vendor_ramdisk" /\ \E i \in 0 .. l - 1 : n = k + 1 + i
  <2>1. n - k \in 1 .. l /\ k + (n - k) = n
    BY <1>1
  <2>2. n - k - 1 \in 0 .. l - 1 /\ n = k + 1 + (n - k - 1)
    BY <1>1
  <2> QED
    BY <1>4, <2>1, <2>2
<1>6. ASSUME NEW n \in b + 1 .. b + 5 * l
      PROVE  /\ f[n].name \in EntryNames
             /\ f[n].name = "ramdisk_offset" =>
                  \E i \in 0 .. l - 1 : n = (b + 5 * i) + 2
  BY <1>1, TableNamed
<1>7. ASSUME NEW i \in 0 .. l - 1
      PROVE  /\ k + 1 + i \in 1 .. Len(f)
             /\ f[k + 1 + i].name = "vendor_ramdisk"
             /\ (b + 5 * i) + 2 \in 1 .. Len(f)
             /\ f[(b + 5 * i) + 2].name = "ramdisk_offset"
  <2>1. k + 1 + i \in 1 .. Len(f) /\ (b + 5 * i) + 2 \in 1 .. Len(f)
    BY SMTT(60), <1>1, <1>2
  <2>2. f[k + (1 + i)].name = "vendor_ramdisk"
    <3>1. 1 + i \in 1 .. l
      BY <1>1
    <3> QED
      BY <1>4, <3>1
  <2>3. k + (1 + i) = k + 1 + i
    BY <1>1
  <2>4. EntryAt(f, b + 5 * i, table[i + 1], at + 108 * i)
    BY <1>1 DEF EntriesAt
  <2>5. f[(b + 5 * i) + 2].name = "ramdisk_offset"
    BY <2>4 DEF EntryAt
  <2> QED
    BY <2>1, <2>2, <2>3, <2>5
<1>8. ASSUME NEW n \in 1 .. Len(f)
      PROVE  /\ f[n].name = "vendor_ramdisk" =>
                  \E i \in 0 .. l - 1 : n = k + 1 + i
             /\ f[n].name = "ramdisk_offset" =>
                  \E i \in 0 .. l - 1 : n = (b + 5 * i) + 2
  <2>0. /\ "vendor_ramdisk" \in LaterNames /\ "ramdisk_offset" \in LaterNames
        /\ "vendor_ramdisk" \notin EntryNames
        /\ "vendor_ramdisk" \notin {"dtb", "pad"}
        /\ "vendor_ramdisk" \notin {"bootconfig", "pad"}
        /\ "ramdisk_offset" \notin {"dtb", "pad"}
        /\ "ramdisk_offset" \notin {"bootconfig", "pad"}
        /\ "ramdisk_offset" # "vendor_ramdisk"
    BY DEF LaterNames, EntryNames
  <2>1. CASE n \in 1 .. k
    BY <1>1, <2>0, <2>1
  <2>2. CASE n \in k + 1 .. k + l
    BY <1>5, <2>0, <2>2
  <2>3. CASE n \in k + l + 1 .. b
    BY <1>1, <2>0, <2>3
  <2>4. CASE n \in b + 1 .. b + 5 * l
    BY <1>6, <2>0, <2>4
  <2>5. CASE n \in b + 5 * l + 1 .. Len(f)
    BY <1>1, <2>0, <2>5
  <2> QED
    BY <1>3, <2>1, <2>2, <2>3, <2>4, <2>5
<1>9. Named(f, "vendor_ramdisk") = {k + 1 + i : i \in 0 .. l - 1}
  <2>1. \A n : n \in Named(f, "vendor_ramdisk")
                 <=> n \in 1 .. Len(f) /\ f[n].name = "vendor_ramdisk"
    BY <1>2 DEF Named
  <2>2. \A n : n \in {k + 1 + i : i \in 0 .. l - 1}
                 <=> \E i \in 0 .. l - 1 : n = k + 1 + i
    OBVIOUS
  <2>3. ASSUME NEW n, n \in Named(f, "vendor_ramdisk")
        PROVE  \E i \in 0 .. l - 1 : n = k + 1 + i
    BY <1>8, <2>1, <2>3
  <2>4. \A i \in 0 .. l - 1 : k + 1 + i \in Named(f, "vendor_ramdisk")
    BY <1>7, <2>1
  <2> QED
    BY <2>2, <2>3, <2>4
<1>10. Named(f, "ramdisk_offset") = {(b + 5 * i) + 2 : i \in 0 .. l - 1}
  <2>1. \A n : n \in Named(f, "ramdisk_offset")
                 <=> n \in 1 .. Len(f) /\ f[n].name = "ramdisk_offset"
    BY <1>2 DEF Named
  <2>2. \A n : n \in {(b + 5 * i) + 2 : i \in 0 .. l - 1}
                 <=> \E i \in 0 .. l - 1 : n = (b + 5 * i) + 2
    OBVIOUS
  <2>3. ASSUME NEW n, n \in Named(f, "ramdisk_offset")
        PROVE  \E i \in 0 .. l - 1 : n = (b + 5 * i) + 2
    BY <1>8, <2>1, <2>3
  <2>4. \A i \in 0 .. l - 1 : (b + 5 * i) + 2 \in Named(f, "ramdisk_offset")
    BY <1>7, <2>1
  <2> QED
    BY <2>2, <2>3, <2>4
<1> QED
  BY <1>9, <1>10

\* So the nth of them is there, and the entry names its ramdisk.
LEMMA EntriesName ==
    ASSUME TableSizes(table), Follows(table), NEW f, NEW a, NEW k, NEW b,
           NEW start, NEW at, TableFile(f, a, k, b, start, at),
           NEW ramdisks, ramdisks = Named(f, "vendor_ramdisk"),
           NEW offsets, offsets = Named(f, "ramdisk_offset")
    PROVE  /\ Cardinality(ramdisks) = Len(table)
           /\ Cardinality(offsets) = Len(table)
           /\ \A n \in 0 .. Len(table) - 1 :
                /\ f[NthIn(ramdisks, n)].at = start + f[NthIn(offsets, n)].val
                /\ f[NthIn(ramdisks, n)].size = f[NthIn(offsets, n) - 1].val
                /\ f[NthIn(offsets, n) + 1].val = table[n + 1].type
           /\ \A lo, hi \in offsets :
                (\A m \in offsets : lo <= m /\ m <= hi) =>
                   /\ f[lo - 1].at % a.page = 0
                   /\ f[hi + 4].at - f[lo - 1].at = 108 * Len(table)
<1> DEFINE l == Len(table)
           g == [i \in 0 .. l - 1 |-> k + 1 + i]
           h == [i \in 0 .. l - 1 |-> (b + 5 * i) + 2]
<1>1. l \in Nat
  BY SeqParts DEF TableSizes
<1>2. /\ IsFile(f) /\ k \in Nat /\ b \in Nat /\ at \in Nat /\ start \in Nat
      /\ b + 5 * l + 1 <= Len(f)
      /\ RamdisksAt(f, k, start) /\ EntriesAt(f, b, at) /\ at % a.page = 0
      /\ f[b + 5 * l + 1].at = at + 108 * l
  BY DEF TableFile
<1>3. /\ ramdisks = {k + 1 + i : i \in 0 .. l - 1}
      /\ offsets = {(b + 5 * i) + 2 : i \in 0 .. l - 1}
  BY <1>1, RamdisksWhere
<1>4. Cardinality(ramdisks) = l /\ \A n \in 0 .. l - 1 : NthIn(ramdisks, n) = k + 1 + n
  <2>1. \A i \in 0 .. l - 1 : g[i] = k + 1 + i /\ g[i] \in Nat
    BY <1>1, <1>2
  <2>2. \A i \in 0 .. l - 1 : \A j \in 0 .. i - 1 : g[j] < g[i]
    BY <1>1, <1>2
  <2>3. ramdisks = {g[i] : i \in 0 .. l - 1}
    BY <1>3, <2>1
  <2> HIDE DEF g
  <2>4. /\ Cardinality(ramdisks) = l
        /\ \A n \in 0 .. l - 1 : NthIn(ramdisks, n) = g[n]
    BY <1>1, <2>1, <2>2, <2>3, NthOf
  <2> QED
    BY <2>1, <2>4
<1>5. Cardinality(offsets) = l /\ \A n \in 0 .. l - 1 : NthIn(offsets, n) = (b + 5 * n) + 2
  <2>1. \A i \in 0 .. l - 1 : h[i] = (b + 5 * i) + 2 /\ h[i] \in Nat
    BY <1>1, <1>2
  <2>2. \A i \in 0 .. l - 1 : \A j \in 0 .. i - 1 : h[j] < h[i]
    BY <1>1, <1>2
  <2>3. offsets = {h[i] : i \in 0 .. l - 1}
    BY <1>3, <2>1
  <2> HIDE DEF h
  <2>4. /\ Cardinality(offsets) = l
        /\ \A n \in 0 .. l - 1 : NthIn(offsets, n) = h[n]
    BY ZenonT(60), <1>1, <2>1, <2>2, <2>3, NthOf
  <2> QED
    BY <2>1, <2>4
<1>6. ASSUME NEW n \in 0 .. l - 1
      PROVE  /\ f[NthIn(ramdisks, n)].at = start + f[NthIn(offsets, n)].val
             /\ f[NthIn(ramdisks, n)].size = f[NthIn(offsets, n) - 1].val
             /\ f[NthIn(offsets, n) + 1].val = table[n + 1].type
  <2> DEFINE j == b + 5 * n
             e == table[n + 1]
  <2>1. /\ NthIn(ramdisks, n) = k + (n + 1) /\ NthIn(offsets, n) = j + 2
        /\ NthIn(offsets, n) - 1 = j + 1 /\ NthIn(offsets, n) + 1 = j + 3
    <3>1. NthIn(ramdisks, n) = k + 1 + n /\ NthIn(offsets, n) = j + 2
      BY <1>4, <1>5
    <3>2. k + 1 + n = k + (n + 1) /\ (j + 2) - 1 = j + 1 /\ (j + 2) + 1 = j + 3
      BY <1>2
    <3> QED
      BY <3>1, <3>2
  <2>2. f[k + (n + 1)].size = e.size /\ f[k + (n + 1)].at = start + e.offset
    <3>1. n + 1 \in 1 .. Len(table)
      BY <1>1
    <3> QED
      BY <1>2, <3>1 DEF RamdisksAt
  <2>3. EntryAt(f, j, e, at + 108 * n)
    BY <1>2 DEF EntriesAt
  <2> HIDE DEF j, e
  <2>4. f[j + 1].val = e.size /\ f[j + 2].val = e.offset /\ f[j + 3].val = e.type
    BY <2>3 DEF EntryAt
  <2>5. /\ f[NthIn(ramdisks, n)].at = start + f[NthIn(offsets, n)].val
        /\ f[NthIn(ramdisks, n)].size = f[NthIn(offsets, n) - 1].val
        /\ f[NthIn(offsets, n) + 1].val = e.type
    BY <2>1, <2>2, <2>4
  <2> QED
    BY <2>5 DEF e
<1>7. ASSUME NEW lo \in offsets, NEW hi \in offsets,
             \A m \in offsets : lo <= m /\ m <= hi
      PROVE  /\ f[lo - 1].at % a.page = 0
             /\ f[hi + 4].at - f[lo - 1].at = 108 * Len(table)
  <2>1. PICK x \in 0 .. l - 1 : lo = (b + 5 * x) + 2
    BY <1>3
  <2>2. PICK y \in 0 .. l - 1 : hi = (b + 5 * y) + 2
    BY <1>3
  <2>3. 0 \in 0 .. l - 1 /\ l - 1 \in 0 .. l - 1
    BY <1>1, <2>1
  <2>4. (b + 5 * 0) + 2 \in offsets /\ (b + 5 * (l - 1)) + 2 \in offsets
    BY <1>3, <2>3
  <2>5. lo <= (b + 5 * 0) + 2 /\ (b + 5 * (l - 1)) + 2 <= hi
    BY <1>7, <2>4
  <2>6. x = 0 /\ y = l - 1
    BY <1>1, <1>2, <2>1, <2>2, <2>5
  <2>7. lo - 1 = (b + 5 * 0) + 1 /\ hi + 4 = b + 5 * l + 1
    BY <1>1, <1>2, <2>1, <2>2, <2>6
  <2>8. f[(b + 5 * 0) + 1].at = at + 108 * 0
    <3>1. EntryAt(f, b + 5 * 0, table[0 + 1], at + 108 * 0)
      BY ZenonT(60), <1>2, <2>3 DEF EntriesAt
    <3> QED
      BY <3>1 DEF EntryAt
  <2>9. f[lo - 1].at = at /\ f[hi + 4].at = at + 108 * l
    <3>1. at + 108 * 0 = at
      BY <1>2
    <3>2. f[lo - 1].at = f[(b + 5 * 0) + 1].at
      BY <2>7
    <3>3. f[hi + 4].at = f[b + 5 * l + 1].at
      BY <2>7
    <3> QED
      BY <1>2, <2>8, <3>1, <3>2, <3>3
  <2>10. (at + 108 * l) - at = 108 * l
    BY <1>1, <1>2
  <2> QED
    BY <1>2, <2>9, <2>10
<1> QED
  BY <1>4, <1>5, <1>6, <1>7

-----------------------------------------------------------------------------
(* The invariant of the vendor image. *)

\* The table of a command line, and the image with it.
TableOfArgs(a) == IF TakesFragments(a) THEN Entries(Ramdisks(a)) ELSE <<>>
VendorOf(a) == VendorData(pad_file(Put(<<>>, VendorHeader(a)), a.page), a)

\* The vendor image is written once, with the table that was parsed.
TableInv ==
  /\ step = "parse" => table = <<>> /\ vendor = <<>>
  /\ step = "vendor" => /\ vendor = <<>> /\ args.vendor
                        /\ table = TableOfArgs(args)
  /\ vendor # <<>> => /\ step \notin {"parse", "vendor"}
                      /\ args.version \in {3, 4} /\ args.vendor
                      /\ table = TableOfArgs(args) /\ vendor = VendorOf(args)

\* There is no table to begin with.
LEMMA TableInitially == FlashInit => TableInv
BY DEF FlashInit, WriterInit, MkInit, TableInv

\* Every step keeps it.
LEMMA TableNext == TableInv /\ [FlashNext]_<<vars, wvars>> => TableInv'
<1> SUFFICES ASSUME TableInv, [FlashNext]_<<vars, wvars>> PROVE TableInv'
  OBVIOUS
<1>1. CASE UNCHANGED <<vendor, table, args>>
           /\ (step' = step \/ step' \notin {"parse", "vendor"})
  <2>1. VendorOf(args)' = VendorOf(args) /\ TableOfArgs(args)' = TableOfArgs(args)
    BY <1>1 DEF VendorOf, TableOfArgs, VendorData, VendorHeader, RamdiskPieces,
                TablePieces, TotalRamdisk
  <2> QED
    BY <1>1, <2>1 DEF TableInv
<1>2. CASE Parsed
  <2>1. /\ args' = args /\ vendor' = vendor /\ vendor = <<>> /\ table = <<>>
        /\ table' = TableOfArgs(args)
        /\ step' # "parse" /\ (step' = "vendor" => args.vendor)
    BY <1>2 DEF Parsed, TableInv, TableOfArgs
  <2>2. TableOfArgs(args)' = TableOfArgs(args)
    BY <2>1 DEF TableOfArgs
  <2> QED
    BY <2>1, <2>2 DEF TableInv
<1>3. CASE WriteVendorBoot
  <2>1. /\ args' = args /\ table' = table /\ table = TableOfArgs(args)
        /\ args.version \in {3, 4} /\ args.vendor /\ step' = "header"
        /\ vendor' = VendorOf(args)
    BY <1>3 DEF WriteVendorBoot, TableInv, VendorOf
  <2>2. VendorOf(args)' = VendorOf(args) /\ TableOfArgs(args)' = TableOfArgs(args)
    BY <2>1 DEF VendorOf, TableOfArgs, VendorData, VendorHeader, RamdiskPieces,
                TablePieces, TotalRamdisk
  <2> QED
    BY <2>1, <2>2 DEF TableInv
<1> QED
  BY <1>1, <1>2, <1>3
     DEF FlashNext, WriterNext, MkNext, CertifyNext, ParseRefuses, AssertFails,
         VendorRefuses, NoOutput, HeaderRefuses, WriteHeader, WriteData, Build,
         CertifyRefuses, StartCertify, CertifyOne, CertifyFails,
         AddCertificate, AddFooter, MakeArchive, Give_up, Stop, files, mkvars,
         wvars

\* What is so written names its ramdisks.
LEMMA TableNames ==
    ASSUME args \in CommandLines, TableInv
    PROVE  TableNamesRamdisks
<1> SUFFICES ASSUME vendor # <<>> PROVE TableNamesRamdisks
  BY DEF TableNamesRamdisks
<1> DEFINE p == pad_file(Put(<<>>, VendorHeader(args)), args.page)
<1>1. /\ args.version \in {3, 4} /\ args.vendor /\ table = TableOfArgs(args)
      /\ vendor = VendorData(p, args)
  BY DEF TableInv, VendorOf
<1>2. /\ Len(table) \in Nat
      /\ args.version = 4 => /\ TableSizes(table) /\ Follows(table)
                             /\ \A n \in 1 .. Len(table) :
                                   table[n].type = Ramdisks(args)[n].type
  <2>1. CASE args.version = 3
    <3>1. table = <<>>
      BY <1>1, <2>1 DEF TableOfArgs, TakesFragments
    <3>2. Len(<<>>) = 0
      BY EmptyFile
    <3> QED
      BY <2>1, <3>1, <3>2
  <2>2. CASE args.version = 4
    <3> DEFINE list == Ramdisks(args)
    <3>1. table = Entries(list)
      BY <1>1, <2>2 DEF TableOfArgs, TakesFragments
    <3>2. IsFields(list)
      BY RamdisksFields
    <3> HIDE DEF list
    <3>3. /\ Len(table) = Len(list) /\ TableSizes(table) /\ Follows(table)
          /\ \A n \in 1 .. Len(table) : table[n].type = list[n].type
      BY <3>1, <3>2, EntriesFollow
    <3>4. Len(table) \in Nat
      BY <3>3, SeqParts DEF TableSizes
    <3> QED
      BY <3>3, <3>4 DEF list
  <2> QED
    BY <1>1, <2>1, <2>2
<1>3. VendorHead(p, args)
  BY <1>2, VendorBegins
<1> HIDE DEF p
<1>4. CASE args.version = 3
  <2>1. /\ IsFile(vendor) /\ Prefix(p, vendor)
        /\ SizeOf(vendor, "dtb") = filesize(args.dtb)
    BY <1>1, <1>3, <1>4, OldVendor
  <2>2. HeadRead(vendor, args)
    <3>1. /\ HeadRead(vendor, args)
          /\ \A n \in 1 .. Len(p) : vendor[n].name \notin LaterNames
      BY <1>1, <1>3, <2>1, HeadHeld
    <3> QED
      BY <3>1
  <2> QED
    BY <1>4, <2>1, <2>2 DEF TableNamesRamdisks, HeadRead, Tells
<1>5. CASE args.version = 4
  <2> DEFINE start == Padded(VendorBytes(args.version), args.page)
             ramdisks == Named(vendor, "vendor_ramdisk")
             offsets == Named(vendor, "ramdisk_offset")
  <2>1. /\ IsFile(vendor) /\ Prefix(p, vendor)
        /\ SizeOf(vendor, "dtb") = filesize(args.dtb)
        /\ SizeOf(vendor, "bootconfig") = filesize(args.vendor_bootconfig)
        /\ \E b, at \in Nat : TableFile(vendor, args, 17, b, start, at)
    BY <1>1, <1>2, <1>3, <1>5, NewVendor
  <2>2. HeadRead(vendor, args)
    <3>1. /\ HeadRead(vendor, args)
          /\ \A n \in 1 .. Len(p) : vendor[n].name \notin LaterNames
      BY <1>1, <1>3, <2>1, HeadHeld
    <3> QED
      BY <3>1
  <2>3. PICK b \in Nat, at \in Nat : TableFile(vendor, args, 17, b, start, at)
    BY <2>1
  <2>4. /\ Value(vendor, "header_size") = HeaderEnd(vendor)
        /\ Tells(vendor, "dtb_size", "dtb")
        /\ Tells(vendor, "bootconfig_size", "bootconfig")
        /\ Value(vendor, "vendor_ramdisk_table_size") = 108 * Len(table)
        /\ Piece(vendor, "pad").at + Piece(vendor, "pad").size = start
    BY <1>5, <2>1, <2>2 DEF HeadRead, Tells
  <2> HIDE DEF start
  <2>5. ramdisks = Named(vendor, "vendor_ramdisk") /\ offsets = Named(vendor, "ramdisk_offset")
    OBVIOUS
  <2> HIDE DEF ramdisks, offsets
  <2>6. /\ Cardinality(ramdisks) = Len(table)
        /\ Cardinality(offsets) = Len(table)
        /\ \A n \in 0 .. Len(table) - 1 :
             /\ vendor[NthIn(ramdisks, n)].at = start + vendor[NthIn(offsets, n)].val
             /\ vendor[NthIn(ramdisks, n)].size = vendor[NthIn(offsets, n) - 1].val
             /\ vendor[NthIn(offsets, n) + 1].val = table[n + 1].type
        /\ \A lo, hi \in offsets :
             (\A m \in offsets : lo <= m /\ m <= hi) =>
                /\ vendor[lo - 1].at % args.page = 0
                /\ vendor[hi + 4].at - vendor[lo - 1].at = 108 * Len(table)
    BY <1>2, <1>5, <2>3, <2>5, EntriesName
  <2>7. \A n \in 0 .. Cardinality(offsets) - 1 :
           /\ vendor[NthIn(ramdisks, n)].at = start + vendor[NthIn(offsets, n)].val
           /\ vendor[NthIn(ramdisks, n)].size = vendor[NthIn(offsets, n) - 1].val
           /\ vendor[NthIn(offsets, n) + 1].val = Ramdisks(args)[n + 1].type
    <3>1. \A n \in 0 .. Len(table) - 1 : n + 1 \in 1 .. Len(table)
      BY <1>2
    <3>2. \A n \in 0 .. Len(table) - 1 : table[n + 1].type = Ramdisks(args)[n + 1].type
      BY <1>2, <1>5, <3>1
    <3> QED
      BY <2>6, <3>2
  <2>8. \A lo, hi \in offsets :
           (\A m \in offsets : lo <= m /\ m <= hi) =>
              /\ vendor[lo - 1].at % args.page = 0
              /\ Value(vendor, "vendor_ramdisk_table_size")
                   = vendor[hi + 4].at - vendor[lo - 1].at
    BY <2>4, <2>6
  <2>9. Cardinality(ramdisks) = Cardinality(offsets)
    BY <2>6
  <2>10. LET begins == Piece(vendor, "pad").at + Piece(vendor, "pad").size
         IN  \A n \in 0 .. Cardinality(offsets) - 1 :
                LET k == NthIn(offsets, n)
                    r == vendor[NthIn(ramdisks, n)]
                IN  /\ r.at = begins + vendor[k].val
                    /\ r.size = vendor[k - 1].val
                    /\ vendor[k + 1].val = Ramdisks(args)[n + 1].type
    BY <2>4, <2>7
  <2>11. LET begins == Piece(vendor, "pad").at + Piece(vendor, "pad").size
             Nth(set, n) == CHOOSE k \in set :
                              Cardinality({j \in set : j < k}) = n
         IN  /\ Cardinality(ramdisks) = Cardinality(offsets)
             /\ Tells(vendor, "bootconfig_size", "bootconfig")
             /\ \A n \in 0 .. Cardinality(offsets) - 1 :
                   LET k == Nth(offsets, n)
                       r == vendor[Nth(ramdisks, n)]
                   IN  /\ r.at = begins + vendor[k].val
                       /\ r.size = vendor[k - 1].val
                       /\ vendor[k + 1].val = Ramdisks(args)[n + 1].type
             /\ \A lo, hi \in offsets :
                   (\A k \in offsets : lo <= k /\ k <= hi) =>
                     /\ vendor[lo - 1].at % args.page = 0
                     /\ Value(vendor, "vendor_ramdisk_table_size")
                          = vendor[hi + 4].at - vendor[lo - 1].at
    BY <2>4, <2>8, <2>9, <2>10, Zenon DEF NthIn
  <2> QED
    BY <2>4, <2>11, Zenon DEF TableNamesRamdisks, ramdisks, offsets, Named
<1> QED
  BY <1>1, <1>4, <1>5

\* The vendor boot image's table names every ramdisk it packs, for every
\* command line: each entry its ramdisk's place, size and type, the header the
\* table's length, its own and those of the tree and the bootconfig
\* (mkbootimg.py:143-189, 297-356, 399-408, 629-639).
THEOREM TableAlwaysNames == FlashSpec => []TableNamesRamdisks
<1>1. FlashInit => WriterInv /\ TableInv
  BY WriterInitially, TableInitially
<1>2. WriterInv /\ TableInv /\ [FlashNext]_<<vars, wvars>> => (WriterInv /\ TableInv)'
  BY WriterNextInv, TableNext
<1>3. WriterInv /\ TableInv => TableNamesRamdisks
  BY TableNames DEF WriterInv
<1> QED
  BY <1>1, <1>2, <1>3, PTL DEF FlashSpec
=============================================================================
