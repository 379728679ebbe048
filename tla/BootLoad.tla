------------------------------ MODULE BootLoad ------------------------------
(***************************************************************************)
(* boot/boot.c: mmc_load_bootimg reads a boot image into the heap,         *)
(* boot_jz_image and boot_v2_bootimg copy its parts to where the kernel    *)
(* wants them and enter it.  Memory is a function from addresses to bytes; *)
(* a byte is tagged with where it came from.                               *)
(*                                                                         *)
(* Reads end as SectorRead says: front to back and, after a fault, early,  *)
(* with no word of it to the caller.  That a fault may also leave foreign  *)
(* words is left out: no promise is made about memory after a fault.       *)
(***************************************************************************)
EXTENDS Heap, BootImage

CONSTANTS
    Images,           \* images on flash, as mkbootimg writes them
    Stale,            \* headers, as memory holds them where a read brought none
    Marked,           \* those among them with the magic
    Sector,           \* bytes of a sector (512)
    KernelAddr,       \* where boot_v2_bootimg puts the kernel
    JZ_KERNEL_ADDR,   \* where boot_jz_image puts it
    RamdiskAlign,     \* the ramdisk begins at a multiple of it (0x100000)
    ParamSize,        \* parameter block with the command line behind it
    FdtSlack,         \* what fdt_open_into adds (1024)
    DescSize,         \* the display's three descriptors
    FbStart, FbEnd,   \* frame buffer
    Downstream,       \* address of the embedded image
    LoaderEnd         \* end of the relocated loader, which follows the heap

Addr == KernelAddr .. LoaderEnd

\* What memory says when it is read as a header: sizes of any kind.
Headers == [version : Nat, page : Nat \ {0}, kernel : Nat, ramdisk : Nat,
            second : Nat, dtbo : Nat, dtb : Nat, cmdline : Seq(STRING)]

\* The kernel's place is below the frame buffer, that is below the heap, and
\* the loader is above.
ASSUME LoadAssumption ==
    /\ {Sector, KernelAddr, JZ_KERNEL_ADDR, RamdiskAlign, ParamSize, FdtSlack,
        DescSize, FbStart, FbEnd, Downstream, LoaderEnd, HeaderSize}
          \subseteq Nat
    /\ Marked \subseteq Stale /\ Stale \subseteq Headers
    /\ Sector > 0 /\ RamdiskAlign > 0 /\ HeaderSize > 0
    /\ KernelAddr <= JZ_KERNEL_ADDR /\ JZ_KERNEL_ADDR < FbStart
    /\ FbStart <= FbEnd /\ FbEnd < HeapStart
    /\ HeapEnd < Downstream /\ Downstream <= LoaderEnd

VARIABLES
    pc,
    command,   \* the menu entry that runs
    img,       \* the image in the partition it boots from
    hdr,       \* the header it goes by
    bootimg,   \* address of the image
    mem,
    fdt,       \* what the device tree tells the kernel
    fault      \* history: a read has failed

loader == <<pc, command, img, hdr, bootimg, mem, fdt, fault>>
vars == <<loader, heap>>

Commands == {"continue_boot", "boot_recovery", "embed_boot"}
NoFdt == [ok |-> FALSE, start |-> 0, end |-> 0, bootargs |-> <<>>]
\* No header has been read.
NoHeader == [version |-> 0, page |-> 1, kernel |-> 0, ramdisk |-> 0,
         second |-> 0, dtbo |-> 0, dtb |-> 0, cmdline |-> <<>>]

Magic(h) == h \in Images \cup Marked

\* The byte at any address; only those of Addr are followed.
Seen(a) == IF a \in Addr THEN mem[a] ELSE <<"elsewhere", a>>

\* memcpy, front to back: with the destination in the source it repeats.
Copied(dst, src, n) ==
    [a \in Addr |->
        IF a \in dst .. dst + n - 1
        THEN IF dst > src THEN Seen(src + ((a - dst) % (dst - src)))
                          ELSE Seen(src + (a - dst))
        ELSE mem[a]]

Filled(lo, n, tag) ==
    [a \in Addr |-> IF a \in lo .. lo + n - 1 THEN <<tag, a - lo>> ELSE mem[a]]

Init ==
    /\ pc = "early" /\ command \in Commands /\ img \in Images
    /\ hdr = NoHeader /\ bootimg = 0 /\ fdt = NoFdt /\ fault = FALSE
    /\ mem = [a \in Addr |-> IF a >= Downstream
                             THEN Byte(img, a - Downstream) ELSE <<"old", a>>]
    /\ InitHeap

\* early_lcdc_init: from here on the display reads the descriptors.
EarlyLcdc ==
    /\ pc = "early"
    /\ Malloc(DescSize)
    /\ mem' = Filled(Ptr, DescSize, "desc")
    /\ pc' = "menu"
    /\ UNCHANGED <<command, img, hdr, bootimg, fdt, fault>>

EmbedBoot ==
    /\ pc = "menu" /\ command = "embed_boot"
    /\ bootimg' = Downstream /\ hdr' = img
    /\ pc' = "jz_kernel"
    /\ UNCHANGED <<command, img, mem, fdt, fault, heap>>

-----------------------------------------------------------------------------
(* mmc_load_bootimg. *)

\* After a failed read the buffer holds what was on the stack, the header an
\* earlier boot left there perhaps, or parts of both.
ReadHeader ==
    /\ pc = "menu" /\ command # "embed_boot"
    /\ \/ hdr' = img /\ UNCHANGED fault
       \/ hdr' \in Stale /\ fault' = TRUE
    /\ pc' = "header"
    /\ UNCHANGED <<command, img, bootimg, mem, fdt, heap>>

\* NULL is returned, and its header is looked at all the same.
BadMagic ==
    /\ pc = "header" /\ ~Magic(hdr)
    /\ pc' = "crash"
    /\ UNCHANGED <<command, img, hdr, bootimg, mem, fdt, fault, heap>>

\* Where the reader finds the parts.
RamdiskOffs(h) == h.page + Align(h.kernel, h.page)
SecondOffs(h) == RamdiskOffs(h) + Align(h.ramdisk, h.page)

\* Mutant: the part before the device tree is forgotten.
DtbOffs_NoDtbo(h) == SecondOffs(h) + Align(h.second, h.page)

DtbOffs(h) == SecondOffs(h) + Align(h.second, h.page) + Align(h.dtbo, h.page)

\* Mutant: the size leaves out the device tree.
Sectors_NoDtb(h) == Align(IF h.version = 2 THEN DtbOffs(h) ELSE SecondOffs(h),
                          Sector) \div Sector

Sectors(h) == Align(IF h.version = 2 THEN DtbOffs(h) + Align(h.dtb, h.page)
                                     ELSE SecondOffs(h),
                    Sector) \div Sector

ImageBytes(h) == Sectors(h) * Sector

\* Mutant: the magic is not looked at.
AllocImage_NoMagic ==
    /\ pc = "header"
    /\ Malloc(ImageBytes(hdr))
    /\ bootimg' = Ptr
    /\ pc' = "image"
    /\ UNCHANGED <<command, img, hdr, mem, fdt, fault>>

\* Mutant: the image goes to the beginning of the heap.
AllocImage_HeapStart ==
    /\ pc = "header" /\ Magic(hdr)
    /\ Malloc(ImageBytes(hdr))
    /\ bootimg' = HeapStart
    /\ pc' = "image"
    /\ UNCHANGED <<command, img, hdr, mem, fdt, fault>>

AllocImage ==
    /\ pc = "header" /\ Magic(hdr)
    /\ Malloc(ImageBytes(hdr))
    /\ bootimg' = Ptr
    /\ pc' = "image"
    /\ UNCHANGED <<command, img, hdr, mem, fdt, fault>>

\* The image is read to NULL.
AllocFails ==
    /\ pc = "header" /\ Magic(hdr)
    /\ MallocFails(ImageBytes(hdr))
    /\ pc' = "crash"
    /\ UNCHANGED <<command, img, hdr, bootimg, mem, fdt, fault>>

FirstCopy == IF command = "boot_recovery" THEN "v2_kernel" ELSE "jz_kernel"

\* Mutant: the header, read before, is not read again.
ReadImage_Body(n) ==
    /\ pc = "image"
    /\ mem' = [a \in Addr |-> IF a \in bootimg + HeaderSize .. bootimg + n - 1
                              THEN Byte(img, a - bootimg) ELSE mem[a]]
    /\ fault' = (fault \/ n < ImageBytes(hdr))
    /\ IF n >= HeaderSize THEN hdr' = img ELSE hdr' \in Stale
    /\ pc' = FirstCopy
    /\ UNCHANGED <<command, img, bootimg, fdt, heap>>

\* n bytes arrive.  From here on the header is the one in the heap, whose magic
\* nobody looks at: if it did not arrive whole, what the heap held decides.
ReadImage(n) ==
    /\ pc = "image"
    /\ mem' = [a \in Addr |-> IF a \in bootimg .. bootimg + n - 1
                              THEN Byte(img, a - bootimg) ELSE mem[a]]
    /\ fault' = (fault \/ n < ImageBytes(hdr))
    /\ IF n >= HeaderSize THEN hdr' = img ELSE hdr' \in Stale
    /\ pc' = FirstCopy
    /\ UNCHANGED <<command, img, bootimg, fdt, heap>>
-----------------------------------------------------------------------------
(* boot_jz_image. *)

JzRamdisk(h) == JZ_KERNEL_ADDR + Align(h.kernel, RamdiskAlign)

\* The parameters are put as far behind the ramdisk's beginning as the
\* kernel is long.
ParamBase(h) == JzRamdisk(h) + Align(h.kernel, WordAlign)

JzCopyKernel ==
    /\ pc = "jz_kernel"
    /\ mem' = Copied(JZ_KERNEL_ADDR, bootimg + hdr.page, hdr.kernel)
    /\ pc' = "jz_ramdisk"
    /\ UNCHANGED <<command, img, hdr, bootimg, fdt, fault, heap>>

JzCopyRamdisk ==
    /\ pc = "jz_ramdisk"
    /\ mem' = Copied(JzRamdisk(hdr), bootimg + RamdiskOffs(hdr), hdr.ramdisk)
    /\ pc' = "jz_param"
    /\ UNCHANGED <<command, img, hdr, bootimg, fdt, fault, heap>>

JzParam ==
    /\ pc = "jz_param"
    /\ mem' = Filled(ParamBase(hdr), ParamSize, "param")
    /\ pc' = "kernel"
    /\ UNCHANGED <<command, img, hdr, bootimg, fdt, fault, heap>>

-----------------------------------------------------------------------------
(* boot_v2_bootimg. *)

V2Ramdisk(h) == KernelAddr + Align(h.kernel, RamdiskAlign)
V2Dtb(h) == V2Ramdisk(h) + Align(h.ramdisk, WordAlign)

\* A header of another version is reported and used.
V2CopyKernel ==
    /\ pc = "v2_kernel"
    /\ mem' = Copied(KernelAddr, bootimg + hdr.page, hdr.kernel)
    /\ pc' = "v2_ramdisk"
    /\ UNCHANGED <<command, img, hdr, bootimg, fdt, fault, heap>>

V2CopyRamdisk ==
    /\ pc = "v2_ramdisk"
    /\ mem' = Copied(V2Ramdisk(hdr), bootimg + RamdiskOffs(hdr), hdr.ramdisk)
    /\ pc' = "v2_dtb"
    /\ UNCHANGED <<command, img, hdr, bootimg, fdt, fault, heap>>

V2CopyDtb ==
    /\ pc = "v2_dtb"
    /\ mem' = Copied(V2Dtb(hdr), bootimg + DtbOffs(hdr), hdr.dtb)
    /\ pc' = "v2_fdt"
    /\ UNCHANGED <<command, img, hdr, bootimg, fdt, fault, heap>>

DtbCopied == /\ hdr.dtb > 0
             /\ \A k \in 0 .. hdr.dtb - 1 : Seen(V2Dtb(hdr) + k) = <<"dtb", k>>

\* The device tree grows in place and is told the ramdisk and the command
\* line.  One that is damaged is reported, or corrupts on, and is used.
V2Fdt ==
    /\ pc = "v2_fdt"
    /\ IF DtbCopied
       THEN /\ mem' = Filled(V2Dtb(hdr), hdr.dtb + FdtSlack, "fdt")
            /\ fdt' = [ok |-> TRUE, start |-> V2Ramdisk(hdr),
                       end |-> V2Ramdisk(hdr) + hdr.ramdisk,
                       bootargs |-> CmdlineField(hdr)]
       ELSE UNCHANGED <<mem, fdt>>
    /\ pc' = "kernel"
    /\ UNCHANGED <<command, img, hdr, bootimg, fault, heap>>

-----------------------------------------------------------------------------
(* What the loader is given. *)

\* Headers are mkbootimg's.  boot_jz_image does not look whether the parts
\* end below the frame buffer: they do.  What malloc is asked for by a header
\* it takes for one does not make an address wrap.
ASSUME ImageAssumption ==
    /\ \A h \in Marked : ImageBytes(h) <= MaxRequest
    /\ \A h \in Images :
          /\ h.page \in Nat \ {0} /\ HeaderSize <= h.page
          /\ {h.kernel, h.ramdisk, h.second, h.dtbo, h.dtb} \subseteq Nat
          /\ IF h.version = 2 THEN h.dtb > 0 ELSE h.dtb = 0
          /\ ImageBytes(h) <= MaxRequest
          /\ JzRamdisk(h) + h.ramdisk <= FbStart
          /\ ParamBase(h) + ParamSize <= FbStart

\* The memory below the frame buffer takes whatever fits the heap, and the
\* image the loader carries is within the loader.
ASSUME PlaceAssumption ==
    /\ DescSize <= MaxRequest
    /\ KernelAddr + (HeapEnd - HeapStart) + RamdiskAlign + WordAlign + FdtSlack
          <= FbStart
    /\ \A h \in Images : Downstream + SecondOffs(h) <= LoaderEnd + 1

Next == \/ EarlyLcdc \/ EmbedBoot
        \/ ReadHeader \/ BadMagic \/ AllocImage \/ AllocFails
        \/ \E n \in 0 .. ImageBytes(hdr) : ReadImage(n)
        \/ JzCopyKernel \/ JzCopyRamdisk \/ JzParam
        \/ V2CopyKernel \/ V2CopyRamdisk \/ V2CopyDtb \/ V2Fdt

Spec == Init /\ [][Next]_vars

-----------------------------------------------------------------------------
(* Properties. *)

TypeOK ==
    /\ HeapTypeOK
    /\ pc \in {"early", "menu", "header", "image", "jz_kernel", "jz_ramdisk",
               "jz_param", "v2_kernel", "v2_ramdisk", "v2_dtb", "v2_fdt",
               "kernel", "crash"}
    /\ command \in Commands /\ img \in Images
    /\ hdr \in Images \cup Stale \cup {NoHeader}
    \* Memory is taken for an image on the word of a header with the magic only;
    \* of the header the boot goes by afterwards that is not so (boot.c:74-106).
    /\ pc = "image" => Magic(hdr)
    /\ bootimg \in Nat /\ fault \in BOOLEAN

Holds(lo, n, part) == \A k \in 0 .. n - 1 : mem[lo + k] = <<part, k>>

\* The kernel is entered with all that the parameters or the device tree
\* name in its place: kernel, ramdisk and the block that describes them.
\* For boot_jz_image that needs a ramdisk no longer than the kernel
\* (boot.c:32-61, 139-181).
PartsInPlace ==
    pc = "kernel" /\ ~fault =>
      /\ command = "boot_recovery" /\ img.version = 2 =>
            /\ Holds(KernelAddr, img.kernel, "kernel")
            /\ fdt.ok /\ fdt.end - fdt.start = img.ramdisk
            /\ Holds(fdt.start, img.ramdisk, "ramdisk")
            /\ Holds(V2Dtb(img), img.dtb + FdtSlack, "fdt")
      /\ command # "boot_recovery" /\ img.ramdisk <= img.kernel =>
            /\ Holds(JZ_KERNEL_ADDR, img.kernel, "kernel")
            /\ Holds(JzRamdisk(img), img.ramdisk, "ramdisk")
            /\ Holds(ParamBase(img), ParamSize, "param")

\* Loading leaves alone what is in use meanwhile: the frame buffer and the
\* descriptors the display reads, and the loader with its embedded image.
\* After a fault the sizes may be another image's (mem.c:16-32,
\* boot.c:103-148).
InUseUntouched ==
    pc # "early" /\ ~fault =>
      /\ \A a \in FbStart .. FbEnd : mem[a] = <<"old", a>>
      /\ Holds(HeapStart, DescSize, "desc")
      /\ \A a \in Downstream .. LoaderEnd : mem[a] = Byte(img, a - Downstream)

\* The header stays readable until the last size is taken from it
\* (boot.c:26-44, 132-176).
HeaderKept ==
    pc \in {"jz_kernel", "jz_ramdisk", "jz_param",
            "v2_kernel", "v2_ramdisk", "v2_dtb", "v2_fdt"} /\ ~fault
        => Holds(bootimg, HeaderSize, "header")

\* The reader looks for the parts where the writer put them, and the writer
\* says so in the header (boot.c:84-88, 132-136, mkbootimg.py:96-105).
OffsetsAgree ==
    LET at == Starts(img)
    IN  /\ at[1] = img.page /\ at[2] = RamdiskOffs(img)
        /\ at[3] = SecondOffs(img)
        /\ img.version = 2 => at[5] = DtbOffs(img)
        /\ DtboOffsetField(img) \in {0, at[4]}

\* "load each element (kernel, ramdisk, second) at the specified physical
\* address" (jz_bootimg.h:58-59): whatever the address, the kernel finds the
\* ramdisk of rd_size bytes at rd_start.
RamdiskLoaded ==
    pc = "kernel" /\ command = "embed_boot" =>
        Holds(JzRamdisk(img), img.ramdisk, "ramdisk")
=============================================================================
