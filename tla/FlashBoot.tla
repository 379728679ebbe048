----------------------------- MODULE FlashBoot -----------------------------
(***************************************************************************)
(* A boot image is written with mkbootimg and booted by cowboot.  The      *)
(* writer works in bytes, the loader in units of Unit bytes: its image is  *)
(* what BootImage says of the same command line.                           *)
(***************************************************************************)
EXTENDS BootLoad, CertifyBootImg

CONSTANTS Unit,      \* bytes of the writer in a byte of the loader
          OtherArgs  \* command lines of images that are not booted

\* The command line that asks for an image.
Optional(size) == IF size = 0 THEN Absent ELSE size * Unit
ArgsOf(image) ==
    [version |-> image.version, page |-> image.page * Unit,
     kernel |-> image.kernel * Unit, ramdisk |-> image.ramdisk * Unit,
     second |-> Optional(image.second),
     recovery_dtbo |-> Optional(image.dtbo), dtb |-> image.dtb * Unit,
     cmdline |-> IF Len(image.cmdline) = 1 THEN BOOT_ARGS_SIZE - 1
                                           ELSE BOOT_ARGS_SIZE + 1,
     vendor_cmdline |-> 1, board |-> 1, os_version |-> <<>>,
     os_patch_level |-> <<>>, unknown |-> FALSE,
     vendor |-> FALSE, output |-> TRUE, vendor_ramdisk |-> Absent,
     fragments |-> <<>>, vendor_bootconfig |-> Absent, signature |-> Absent,
     certify |-> FALSE, partition |-> 0, archive |-> FALSE, format |-> "",
     gki_info |-> "no", info |-> <<>>, extra_args |-> 0]

ASSUME FlashAssumption ==
    /\ Unit \in Nat \ {0}
    /\ {ArgsOf(image) : image \in Images} \cup OtherArgs \subseteq CommandLines
    /\ \A image \in Images : /\ image.version \in 0 .. 2
                             /\ image.cmdline \in Seq(STRING)
                             /\ Len(image.cmdline) \in 1 .. 2

FlashInit ==
    /\ Init /\ WriterInit
    /\ \/ args = ArgsOf(img)
       \/ /\ args \in OtherArgs /\ command = "embed_boot"
          /\ img = CHOOSE image \in Images : TRUE

FlashNext ==
    \/ WriterNext /\ UNCHANGED vars
    \/ step = "done" /\ args = ArgsOf(img) /\ Next /\ UNCHANGED wvars

FlashSpec == FlashInit /\ [][FlashNext]_<<vars, wvars>>

-----------------------------------------------------------------------------
(* Properties. *)

\* The file mkbootimg writes is the image the loader's model reads: every
\* part begins and ends where BootImage says (mkbootimg.py:86-93, 359-363,
\* 616-624).
FileIsImage ==
    step = "done" /\ args = ArgsOf(img) =>
      /\ \A n \in DOMAIN Parts(img) :
            LET name == Parts(img)[n] IN
              img[name] > 0 =>
                /\ Piece(output, name).at = Starts(img)[n] * Unit
                /\ Piece(output, name).size = img[name] * Unit
      /\ Tell(output) = Starts(img)[Len(Parts(img)) + 1] * Unit
      /\ Value(output, "extra_cmdline") > 1 <=> ExtraField(img) # <<>>

\* struct boot_img_hdr_v2.
boot_img_hdr_v2 == Put(<<>>,
    << Free("magic", 8), Free("kernel_size", 4), Free("kernel_addr", 4),
       Free("ramdisk_size", 4), Free("ramdisk_addr", 4), Free("second_size", 4),
       Free("second_addr", 4), Free("tags_addr", 4), Free("page_size", 4),
       Free("header_version", 4), Free("os_version", 4), Free("name", 16),
       Free("cmdline", 512), Free("id", 32), Free("extra_cmdline", 1024),
       Free("recovery_dtbo_size", 4), Free("recovery_dtbo_offset", 8),
       Free("header_size", 4), Free("dtb_size", 4), Free("dtb_addr", 8) >>)

\* struct jz_boot_img_hdr.
jz_boot_img_hdr == Put(<<>>,
    << Free("magic", 8), Free("kernel_size", 4), Free("kernel_addr", 4),
       Free("ramdisk_size", 4), Free("ramdisk_addr", 4), Free("second_size", 4),
       Free("second_addr", 4), Free("tags_addr", 4), Free("page_size", 4), Free("unused", 8),
       Free("name", 16), Free("cmdline", 512), Free("id", 32),
       Free("kcrc32", 4), Free("rcrc32", 4), Free("digi_sign_len", 4),
       Free("digi_sign", 4) >>)

SamePlace(f, field) ==
    /\ Piece(output, field).at = Piece(f, field).at
    /\ Piece(output, field).size = Piece(f, field).size

\* What the loader reads of a header is what the writer put there; of a
\* header it does not know it still finds the version
\* (boot.c:21-39, 70-97, 113-176).
HeaderWhereLoaderLooks ==
    step \in {"data", "done"} =>
      /\ SamePlace(boot_img_hdr_v2, "header_version")
      /\ SamePlace(boot_img_hdr_v2, "magic")
      /\ args.version <= 1 => \A n \in 1 .. 9 :
                                SamePlace(jz_boot_img_hdr,
                                          jz_boot_img_hdr[n].name)
      /\ args.version = 2 => \A n \in DOMAIN boot_img_hdr_v2 :
                                SamePlace(boot_img_hdr_v2,
                                          boot_img_hdr_v2[n].name)

\* The header is one to writer and reader: its fields are where they are looked
\* for, say what follows, and hold the command line whole
\* (mkbootimg.py:114-140, 192-271, 484-494, boot.c:21-39, 70-97, 113-176).
HeaderAgrees == HeaderWhereLoaderLooks /\ HeaderTruthful /\ CommandLineFits
=============================================================================
