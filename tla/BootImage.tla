----------------------------- MODULE BootImage -----------------------------
(***************************************************************************)
(* The boot image scripts/mkbootimg.py writes for header versions 0 to 2:  *)
(* the header and every part begin on a page.  An image is a record of its *)
(* header fields; a byte of it is <<part, index in the part>>.             *)
(***************************************************************************)
EXTENDS Integers, Sequences

CONSTANT HeaderSize  \* bytes of the header

\* get_number_of_pages.
Pages(size, page) == (size + page - 1) \div page

\* pad_file: the position behind the padding.
Padded(tell, page) == tell + ((page - (tell % page)) % page)

\* The parts in the order write_data writes them; an absent one is empty.
Parts(img) ==
    IF img.version = 2 THEN <<"kernel", "ramdisk", "second", "dtbo", "dtb">>
    ELSE IF img.version > 0 THEN <<"kernel", "ramdisk", "second", "dtbo">>
    ELSE <<"kernel", "ramdisk", "second">>

\* Where the parts begin, and behind the last of them where the file ends.
Starts(img) ==
    LET next(at, size) == Padded(at + size, img.page)
        kernel  == Padded(HeaderSize, img.page)
        ramdisk == next(kernel, img.kernel)
        second  == next(ramdisk, img.ramdisk)
        dtbo    == next(second, img.second)
        dtb     == next(dtbo, img.dtbo)
    IN  <<kernel, ramdisk, second, dtbo, dtb, next(dtb, img.dtb)>>

\* The byte at an offset of the file; what is not written is padding.
Byte(img, off) ==
    LET at == Starts(img)
        In(n) == at[n] <= off /\ off < at[n] + img[Parts(img)[n]]
    IN  IF off < HeaderSize THEN <<"header", off>>
        ELSE IF \E n \in DOMAIN Parts(img) : In(n)
             THEN LET n == CHOOSE n \in DOMAIN Parts(img) : In(n)
                  IN  <<Parts(img)[n], off - at[n]>>
             ELSE <<"pad", 0>>

\* parse_cmdline: what does not fit the first field goes to the second.
CmdlineField(img) == SubSeq(img.cmdline, 1, 1)
ExtraField(img) == SubSeq(img.cmdline, 2, Len(img.cmdline))

\* The recovery_dtbo_offset field of the header.
DtboOffsetField(img) ==
    IF img.dtbo = 0 THEN 0
    ELSE img.page * (1 + Pages(img.kernel, img.page)
                       + Pages(img.ramdisk, img.page)
                       + Pages(img.second, img.page))
=============================================================================
