----------------------------- MODULE MkBootImg -----------------------------
(***************************************************************************)
(* scripts/mkbootimg.py: the boot image of header versions 0 to 4, the     *)
(* vendor_boot image of versions 3 and 4.  A file is the sequence of what  *)
(* was written to it: for each piece its name, place, size and, for a      *)
(* field that later code goes by, its value.  Contents are left out.       *)
(***************************************************************************)
EXTENDS BootImage, FiniteSets

\* A file that was not given on the command line.
Absent == -1
filesize(f) == IF f = Absent THEN 0 ELSE f

\* Command lines: of strings the length, of a version the numbers in it.
FileArgs == Nat \cup {Absent}
PageSizes == {2048, 4096, 8192, 16384}
OsVersions == Seq(0 .. 9999)
PatchLevels == {<<>>} \cup (Nat \X Nat)
Fragments == Seq([name : STRING, size : Nat, len : Nat, type : STRING,
                  number : Nat])
InfoFiles == Seq([key : STRING, size : Nat])
CommandLines ==
    [version : Nat, page : PageSizes, kernel : FileArgs, ramdisk : FileArgs,
     second : FileArgs, recovery_dtbo : FileArgs, dtb : FileArgs,
     cmdline : Nat, vendor_cmdline : Nat, board : Nat,
     os_version : OsVersions, os_patch_level : PatchLevels,
     unknown : BOOLEAN, vendor : BOOLEAN, output : BOOLEAN,
     vendor_ramdisk : FileArgs, fragments : Fragments,
     vendor_bootconfig : FileArgs, signature : FileArgs,
     certify : BOOLEAN, partition : Nat, archive : BOOLEAN, format : STRING,
     gki_info : {"no", "option", "packed"}, info : InfoFiles,
     extra_args : Nat]

VARIABLES
    args,    \* the command line; names of files stand for their sizes
    step,    \* where the scripts are
    output,  \* --output
    vendor,  \* --vendor_boot
    table    \* the entries of VendorRamdiskTableBuilder

files == <<output, vendor, table>>
mkvars == <<args, step, files>>

-----------------------------------------------------------------------------
(* Files. *)

Tell(f) == IF f = <<>> THEN 0 ELSE f[Len(f)].at + f[Len(f)].size

Field(name, size, val) == [name |-> name, size |-> size, val |-> val]
I(name, val) == Field(name, 4, val)       \* pack('I', val)
S(name, size, val) == Field(name, size, val)  \* a string of val bytes
Free(name, size) == Field(name, size, 0)  \* a field nobody here goes by

\* f with the fields written at its end.
Put(f, fields) ==
    LET at[n \in 1 .. Len(fields) + 1] ==
          IF n = 1 THEN Tell(f) ELSE at[n - 1] + fields[n - 1].size
    IN  f \o [n \in 1 .. Len(fields) |->
                [name |-> fields[n].name, at |-> at[n],
                 size |-> fields[n].size, val |-> fields[n].val]]

\* Mutant: a file that ends on a page gets another page.
pad_file_Always(f, page) ==
    Put(f, <<Free("pad", page - (Tell(f) % page))>>)

pad_file(f, page) == Put(f, <<Free("pad", Padded(Tell(f), page) - Tell(f))>>)

write_padded_file(f, name, size, page) ==
    IF size = Absent THEN f ELSE pad_file(Put(f, <<Free(name, size)>>), page)

-----------------------------------------------------------------------------
(* The command line. *)

BOOT_ARGS_SIZE == 512
BOOT_EXTRA_ARGS_SIZE == 1024
BOOT_NAME_SIZE == 16
BOOT_IMAGE_HEADER_V1_SIZE == 1648
BOOT_IMAGE_HEADER_V2_SIZE == 1660
BOOT_IMAGE_HEADER_V3_SIZE == 1580
BOOT_IMAGE_HEADER_V4_SIZE == 1584
VENDOR_BOOT_IMAGE_HEADER_V3_SIZE == 2112
VENDOR_BOOT_IMAGE_HEADER_V4_SIZE == 2128
VENDOR_BOOT_ARGS_SIZE == 2048
VENDOR_RAMDISK_NAME_SIZE == 32
V3_PAGESIZE == 4096
V4_SIGNATURE_SIZE == 4096
ENTRY_V4_SIZE == 108

\* The longest --cmdline, with its terminator.
CmdlineSize(version) ==
    BOOT_ARGS_SIZE + BOOT_EXTRA_ARGS_SIZE - (IF version < 3 THEN 1 ELSE 0)

\* AsciizBytes: a string, of which a is the length with its NUL, fits.
Asciiz(bufsize, a) == a <= bufsize

StringsFit(a) ==
    /\ Asciiz(CmdlineSize(a.version), a.cmdline)
    /\ Asciiz(VENDOR_BOOT_ARGS_SIZE, a.vendor_cmdline)
    /\ Asciiz(BOOT_NAME_SIZE, a.board)

\* --os_version, as the numbers between its dots, of four digits at most; of a
\* number only three digits are read, and nothing behind one that has more.
OsPart(x, n) ==
    IF n <= Len(x) /\ \A m \in 1 .. n - 1 : x[m] < 1000
    THEN IF x[n] < 1000 THEN x[n] ELSE x[n] \div 10
    ELSE 0
OsVersionAsserts(x) == \A n \in 1 .. 3 : OsPart(x, n) < 128
parse_os_version(x) == OsPart(x, 1) * 16384 + OsPart(x, 2) * 128 + OsPart(x, 3)

\* --os_patch_level, year and month.
PatchLevelAsserts(x) == x # <<>> => x[1] - 2000 \in 0 .. 127 /\ x[2] \in 1 .. 12
parse_os_patch_level(x) == IF x = <<>> THEN 0 ELSE (x[1] - 2000) * 16 + x[2]

\* The command line of versions 0 to 2 goes to two fields.
cmdline(a) == IF a.cmdline < BOOT_ARGS_SIZE THEN a.cmdline + 1
                                            ELSE BOOT_ARGS_SIZE
extra_cmdline(a) == IF a.cmdline < BOOT_ARGS_SIZE THEN 0
                    ELSE a.cmdline - (BOOT_ARGS_SIZE - 1)

\* --ramdisk_type, a name or a number.
VENDOR_RAMDISK_TYPE == [none |-> 0, platform |-> 1, recovery |-> 2, dlkm |-> 3]
parse_vendor_ramdisk_type(f) ==
    IF f.type \in DOMAIN VENDOR_RAMDISK_TYPE THEN VENDOR_RAMDISK_TYPE[f.type]
                                             ELSE f.number

\* Ramdisks of the vendor table: --vendor_ramdisk without a name, then the
\* fragments.
Ramdisks(a) ==
    (IF a.vendor_ramdisk = Absent THEN <<>>
     ELSE <<[name |-> "", size |-> a.vendor_ramdisk,
             type |-> VENDOR_RAMDISK_TYPE.platform]>>)
    \o [n \in DOMAIN a.fragments |->
          [name |-> a.fragments[n].name, size |-> a.fragments[n].size,
           type |-> parse_vendor_ramdisk_type(a.fragments[n])]]

NamesFit(a) == \A n \in DOMAIN a.fragments :
                  Asciiz(VENDOR_RAMDISK_NAME_SIZE, a.fragments[n].len)

VENDOR_RAMDISK_NAME_BLOCKLIST == {"default"}

Banned(list) ==
    \E n \in DOMAIN list : \/ list[n].name \in VENDOR_RAMDISK_NAME_BLOCKLIST
                           \/ \E m \in 1 .. n - 1 : list[m].name = list[n].name

\* Mutant: the entry's offset counts the ramdisk itself.
Entries_After(list) ==
    LET to[n \in 0 .. Len(list)] ==
          IF n = 0 THEN 0 ELSE to[n - 1] + list[n].size
    IN  [n \in 1 .. Len(list) |->
            [size |-> list[n].size, offset |-> to[n], type |-> list[n].type,
             name |-> list[n].name]]

\* add_entry, one after the other.
Entries(list) ==
    LET to[n \in 0 .. Len(list)] ==
          IF n = 0 THEN 0 ELSE to[n - 1] + list[n].size
    IN  [n \in 1 .. Len(list) |->
            [size |-> list[n].size, offset |-> to[n - 1],
             type |-> list[n].type, name |-> list[n].name]]

MkInit == step = "parse" /\ output = <<>> /\ vendor = <<>> /\ table = <<>>

Stop(where) == step' = where /\ UNCHANGED <<args, files>>

TakesFragments(a) == a.vendor /\ a.version > 3

\* parse_cmdline: a string that is too long, a ramdisk of a name that is
\* taken, an option that nobody knows.
ParseRefuses ==
    /\ step = "parse"
    /\ \/ ~StringsFit(args)
       \/ TakesFragments(args) /\ (Banned(Ramdisks(args)) \/ ~NamesFit(args))
       \/ ~TakesFragments(args) /\ args.fragments # <<>>
       \/ args.unknown
    /\ Stop("error")

Asserts(a) ==
    /\ OsVersionAsserts(a.os_version) /\ PatchLevelAsserts(a.os_patch_level)

AssertFails == step = "parse" /\ ~Asserts(args) /\ Stop("assertion")

Parsed ==
    /\ step = "parse" /\ StringsFit(args) /\ Asserts(args) /\ ~args.unknown
    /\ IF TakesFragments(args)
       THEN /\ ~Banned(Ramdisks(args)) /\ NamesFit(args)
            /\ table' = Entries(Ramdisks(args))
       ELSE args.fragments = <<>> /\ UNCHANGED table
    /\ step' = IF args.version < 3 /\ extra_cmdline(args) > BOOT_EXTRA_ARGS_SIZE
               THEN "cut"
               ELSE IF args.vendor THEN "vendor" ELSE "header"
    /\ UNCHANGED <<args, output, vendor>>

-----------------------------------------------------------------------------
(* vendor_boot. *)

TotalRamdisk == IF table = <<>> THEN 0
                ELSE table[Len(table)].offset + table[Len(table)].size

VendorHeader(a) ==
    << Free("magic", 8), I("header_version", a.version), I("page_size", a.page),
       Free("kernel_addr", 4), Free("ramdisk_addr", 4),
       I("vendor_ramdisk_size", IF a.version > 3 THEN TotalRamdisk
                                ELSE filesize(a.vendor_ramdisk)),
       S("cmdline", VENDOR_BOOT_ARGS_SIZE, a.vendor_cmdline),
       Free("tags_addr", 4), S("name", BOOT_NAME_SIZE, a.board),
       I("header_size", IF a.version > 3
                        THEN VENDOR_BOOT_IMAGE_HEADER_V4_SIZE
                        ELSE VENDOR_BOOT_IMAGE_HEADER_V3_SIZE),
       I("dtb_size", filesize(a.dtb)), Free("dtb_addr", 8) >>
    \o (IF a.version > 3
        THEN << I("vendor_ramdisk_table_size", Len(table) * ENTRY_V4_SIZE),
                I("vendor_ramdisk_table_entry_num", Len(table)),
                I("vendor_ramdisk_table_entry_size", ENTRY_V4_SIZE),
                I("bootconfig_size", filesize(a.vendor_bootconfig)) >>
        ELSE <<>>)

\* write_ramdisks_padded, write_entries_padded.
RamdiskPieces == [n \in DOMAIN table |-> Free("vendor_ramdisk", table[n].size)]
EntryPieces(e) == << I("ramdisk_size", e.size), I("ramdisk_offset", e.offset),
                     I("ramdisk_type", e.type),
                     Free("ramdisk_name", VENDOR_RAMDISK_NAME_SIZE),
                     Free("board_id", 64) >>
TablePieces == [n \in 1 .. 5 * Len(table) |->
                  EntryPieces(table[((n - 1) \div 5) + 1])[((n - 1) % 5) + 1]]

VendorData(f, a) ==
    IF a.version > 3
    THEN LET ramdisks == pad_file(Put(f, RamdiskPieces), a.page)
             dtb == write_padded_file(ramdisks, "dtb", a.dtb, a.page)
             entries == pad_file(Put(dtb, TablePieces), a.page)
         IN  write_padded_file(entries, "bootconfig", a.vendor_bootconfig,
                               a.page)
    ELSE LET ramdisk == write_padded_file(f, "vendor_ramdisk",
                                          a.vendor_ramdisk, a.page)
         IN  write_padded_file(ramdisk, "dtb", a.dtb, a.page)

VendorRefuses ==
    /\ step = "vendor"
    /\ \/ args.version \notin {3, 4}
       \/ args.version = 3 /\ args.vendor_ramdisk = Absent
    /\ Stop("error")

WriteVendorBoot ==
    /\ step = "vendor" /\ args.version \in {3, 4}
    /\ args.version = 3 => args.vendor_ramdisk # Absent
    /\ vendor' = VendorData(pad_file(Put(<<>>, VendorHeader(args)), args.page),
                            args)
    /\ step' = "header"
    /\ UNCHANGED <<args, output, table>>

-----------------------------------------------------------------------------
(* The boot image. *)

\* The operating system's version in 21 bits, its patch level in 11.
OsWord(a) == I("os_version", <<parse_os_version(a.os_version),
                               parse_os_patch_level(a.os_patch_level)>>)

HeaderV3(a) ==
    << Free("magic", 8), I("kernel_size", filesize(a.kernel)),
       I("ramdisk_size", filesize(a.ramdisk)), OsWord(a),
       I("header_size", IF a.version > 3 THEN BOOT_IMAGE_HEADER_V4_SIZE
                        ELSE BOOT_IMAGE_HEADER_V3_SIZE),
       Free("reserved", 16), I("header_version", a.version),
       S("cmdline", BOOT_ARGS_SIZE + BOOT_EXTRA_ARGS_SIZE, a.cmdline) >>
    \o (IF a.version >= 4
        THEN << I("signature_size", IF a.signature = Absent THEN 0
                                    ELSE V4_SIGNATURE_SIZE) >>
        ELSE <<>>)

\* get_recovery_dtbo_offset.
recovery_dtbo_offset(a) ==
    a.page * (1 + Pages(filesize(a.kernel), a.page)
                + Pages(filesize(a.ramdisk), a.page)
                + Pages(filesize(a.second), a.page))

\* What the image's id is a digest of.
update_sha(a) ==
    <<filesize(a.kernel), filesize(a.ramdisk), filesize(a.second)>>
    \o (IF a.version > 0 THEN <<filesize(a.recovery_dtbo)>> ELSE <<>>)
    \o (IF a.version > 1 THEN <<filesize(a.dtb)>> ELSE <<>>)

\* Mutant: the version comes behind the operating system's.
HeaderV0_Swapped(a) ==
    << Free("magic", 8), I("kernel_size", filesize(a.kernel)),
       Free("kernel_addr", 4), I("ramdisk_size", filesize(a.ramdisk)),
       Free("ramdisk_addr", 4), I("second_size", filesize(a.second)),
       Free("second_addr", 4), Free("tags_addr", 4), I("page_size", a.page),
       OsWord(a), I("header_version", a.version),
       S("name", BOOT_NAME_SIZE, a.board), S("cmdline", BOOT_ARGS_SIZE, cmdline(a)),
       Field("id", 32, update_sha(a)), S("extra_cmdline", BOOT_EXTRA_ARGS_SIZE,
                         extra_cmdline(a)) >>

HeaderV0(a) ==
    << Free("magic", 8), I("kernel_size", filesize(a.kernel)),
       Free("kernel_addr", 4), I("ramdisk_size", filesize(a.ramdisk)),
       Free("ramdisk_addr", 4), I("second_size", filesize(a.second)),
       Free("second_addr", 4), Free("tags_addr", 4), I("page_size", a.page),
       I("header_version", a.version), OsWord(a),
       S("name", BOOT_NAME_SIZE, a.board), S("cmdline", BOOT_ARGS_SIZE, cmdline(a)),
       Field("id", 32, update_sha(a)), S("extra_cmdline", BOOT_EXTRA_ARGS_SIZE,
                         extra_cmdline(a)) >>

HeaderV1(a) ==
    HeaderV0(a)
    \o << I("recovery_dtbo_size", filesize(a.recovery_dtbo)),
          Field("recovery_dtbo_offset", 8,
                IF a.recovery_dtbo = Absent THEN 0
                ELSE recovery_dtbo_offset(a)),
          I("header_size", IF a.version = 1 THEN BOOT_IMAGE_HEADER_V1_SIZE
                           ELSE BOOT_IMAGE_HEADER_V2_SIZE) >>

HeaderV2(a) ==
    HeaderV1(a) \o << I("dtb_size", filesize(a.dtb)), Free("dtb_addr", 8) >>

Header(a) == CASE a.version \in {3, 4} -> HeaderV3(a)
               [] a.version = 2 -> HeaderV2(a)
               [] a.version = 1 -> HeaderV1(a)
               [] OTHER -> HeaderV0(a)

HeaderPage(a) == IF a.version > 2 THEN V3_PAGESIZE ELSE a.page

NoOutput == /\ step = "header" /\ ~args.output /\ Stop("end")

\* A tree that is missing is noticed after the rest of the header is written.
HeaderRefuses ==
    /\ step = "header" /\ args.output
    /\ \/ args.second # Absent /\ args.version > 2 /\ UNCHANGED output
       \/ args.version > 4 /\ UNCHANGED output
       \/ /\ args.version = 2 /\ filesize(args.dtb) = 0
          /\ output' = Put(<<>>, HeaderV1(args))
    /\ step' = "error"
    /\ UNCHANGED <<args, vendor, table>>

WriteHeader ==
    /\ step = "header" /\ args.output /\ args.version <= 4
    /\ args.version > 2 => args.second = Absent
    /\ args.version = 2 => filesize(args.dtb) > 0
    /\ output' = pad_file(Put(<<>>, Header(args)), HeaderPage(args))
    /\ step' = "data"
    /\ UNCHANGED <<args, vendor, table>>

\* write_data up to the signature.
Data(f, a, page) ==
    LET kernel == write_padded_file(f, "kernel", a.kernel, page)
        ramdisk == write_padded_file(kernel, "ramdisk", a.ramdisk, page)
        second == write_padded_file(ramdisk, "second", a.second, page)
        dtbo == IF a.version \in {1, 2}
                THEN write_padded_file(second, "dtbo", a.recovery_dtbo, page)
                ELSE second
    IN  IF a.version = 2 THEN write_padded_file(dtbo, "dtb", a.dtb, page)
                         ELSE dtbo

Signs(a) == a.version >= 4 /\ a.signature # Absent

WriteData ==
    /\ step = "data"
    /\ LET data == Data(output, args, HeaderPage(args))
       IN  IF ~Signs(args)
           THEN output' = data /\ step' = "done"
           ELSE IF args.signature > V4_SIGNATURE_SIZE
           THEN output' = data /\ step' = "error"
           ELSE /\ output' = pad_file(Put(data, <<Field("signature",
                                  V4_SIGNATURE_SIZE, Tell(data))>>),
                                  HeaderPage(args))
                /\ step' = "done"
    /\ UNCHANGED <<args, vendor, table>>

MkNext == \/ ParseRefuses \/ AssertFails \/ Parsed
          \/ VendorRefuses \/ WriteVendorBoot
          \/ NoOutput \/ HeaderRefuses \/ WriteHeader \/ WriteData

-----------------------------------------------------------------------------
(* Properties. *)

\* The first piece of that name.
Piece(f, name) == f[CHOOSE n \in DOMAIN f : /\ f[n].name = name
                                            /\ \A m \in 1 .. n - 1 :
                                                 f[m].name # name]
Has(f, name) == \E n \in DOMAIN f : f[n].name = name
Value(f, name) == Piece(f, name).val

SizeOf(f, part) == IF Has(f, part) THEN Piece(f, part).size ELSE 0

\* The part of that name takes up the bytes the field says.
Tells(f, field, part) == Value(f, field) = SizeOf(f, part)

\* Where the padding after a header begins: its size.
HeaderEnd(f) == Piece(f, "pad").at

\* The operating system's version is to be had from the header, and no part of
\* it reaches into another.
OsWordTruthful ==
    LET word == Value(output, "os_version") IN
      /\ word[1] < 2097152 /\ word[2] < 2048
      /\ word[1] \div 16384 = OsPart(args.os_version, 1)
      /\ (word[1] \div 128) % 128 = OsPart(args.os_version, 2)
      /\ word[1] % 128 = OsPart(args.os_version, 3)
      /\ args.os_patch_level # <<>> =>
           /\ word[2] \div 16 + 2000 = args.os_patch_level[1]
           /\ word[2] % 16 = args.os_patch_level[2]

\* The header says how long it is and how long the parts are that follow,
\* where the recovery_dtbo begins and for what system the image is, and its id
\* covers every part
\* (mkbootimg.py:77-83, 114-140, 192-271, 370-396, 580-626).
HeaderTruthful ==
    step = "done" =>
      /\ Tells(output, "kernel_size", "kernel")
      /\ Tells(output, "ramdisk_size", "ramdisk")
      /\ args.version < 3 => Tells(output, "second_size", "second")
      /\ args.version > 0 => Value(output, "header_size") = HeaderEnd(output)
      /\ args.version \in {1, 2} /\ Has(output, "dtbo") =>
            /\ Tells(output, "recovery_dtbo_size", "dtbo")
            /\ Value(output, "recovery_dtbo_offset")
                  = Piece(output, "dtbo").at
      /\ args.version = 2 => Tells(output, "dtb_size", "dtb")
      /\ args.version = 4 => Tells(output, "signature_size", "signature")
      /\ args.version < 3 =>
           Value(output, "id") =
             [n \in 1 .. 3 + args.version |->
                SizeOf(output,
                       <<"kernel", "ramdisk", "second", "dtbo", "dtb">>[n])]
      /\ OsWordTruthful

\* Each entry of the vendor ramdisk table names the bytes of its ramdisk, the
\* header the table, and the table is as long as it says
\* (mkbootimg.py:143-189, 297-356, 399-408, 629-639).
TableNamesRamdisks ==
    vendor # <<>> =>
      /\ Value(vendor, "header_size") = HeaderEnd(vendor)
      /\ Tells(vendor, "dtb_size", "dtb")
      /\ args.version = 4 =>
            LET ramdisks == {n \in DOMAIN vendor :
                               vendor[n].name = "vendor_ramdisk"}
                offsets == {n \in DOMAIN vendor :
                               vendor[n].name = "ramdisk_offset"}
                start == Piece(vendor, "pad").at + Piece(vendor, "pad").size
                Nth(set, n) == CHOOSE k \in set :
                                 Cardinality({j \in set : j < k}) = n
            IN  /\ Cardinality(ramdisks) = Cardinality(offsets)
                /\ Tells(vendor, "bootconfig_size", "bootconfig")
                /\ \A n \in 0 .. Cardinality(offsets) - 1 :
                      LET k == Nth(offsets, n)
                          r == vendor[Nth(ramdisks, n)]
                      IN  /\ r.at = start + vendor[k].val
                          /\ r.size = vendor[k - 1].val
                          /\ vendor[k + 1].val = Ramdisks(args)[n + 1].type
                /\ \A lo, hi \in offsets :
                      (\A k \in offsets : lo <= k /\ k <= hi) =>
                        /\ vendor[lo - 1].at % args.page = 0
                        /\ Value(vendor, "vendor_ramdisk_table_size")
                             = vendor[hi + 4].at - vendor[lo - 1].at

\* No command line that is accepted fails the assertions on its halves, no
\* string is cut where it is packed, and the command line loses no byte
\* between its halves (mkbootimg.py:274-294, 484-494, 571-575).
CommandLineFits ==
    /\ step # "cut"
    /\ \A f \in {output, vendor} : \A n \in DOMAIN f :
          f[n].name \in {"cmdline", "extra_cmdline", "name"}
            => f[n].val <= f[n].size
    /\ Has(output, "extra_cmdline") =>
         (Value(output, "cmdline") - 1) + Value(output, "extra_cmdline")
             = args.cmdline

=============================================================================
