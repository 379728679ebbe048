---------------------------- MODULE MCFlashBoot ----------------------------
(* The images of MCBootLoad with 1024 bytes to a byte of the loader, so that *)
(* its pages are of 2048 and 4096 bytes; and images that are only written:  *)
(* versions 1, 3 and 4, vendor_boot, and images certified again and again,  *)
(* alone and in archives.                                                  *)
EXTENDS FlashBoot, MCBootLoad

Plain == [version |-> 0, page |-> 2048, kernel |-> 5000, ramdisk |-> 2048,
          second |-> Absent, recovery_dtbo |-> Absent, dtb |-> Absent,
          cmdline |-> 1, vendor_cmdline |-> 1, board |-> 1,
          os_version |-> <<>>, os_patch_level |-> <<>>, unknown |-> FALSE,
          vendor |-> FALSE, output |-> TRUE,
          vendor_ramdisk |-> Absent, fragments |-> <<>>,
          vendor_bootconfig |-> Absent, signature |-> Absent,
          certify |-> FALSE, partition |-> 0, archive |-> FALSE,
          format |-> ".tgz", gki_info |-> "no", info |-> <<>>,
          extra_args |-> 0]
V1 == [Plain EXCEPT !.version = 1]
V3 == [Plain EXCEPT !.version = 3]
V4 == [Plain EXCEPT !.version = 4]
V2Plain == [Plain EXCEPT !.version = 2, !.dtb = 100]
Vendor3 == [V3 EXCEPT !.vendor = TRUE, !.dtb = 70]
Vendor4 == [V4 EXCEPT !.vendor = TRUE, !.dtb = 70]
Fragment(name, size) == [name |-> name, size |-> size, len |-> 6,
                         type |-> "recovery", number |-> 0]
Long(len) == <<[Fragment("a", 7) EXCEPT !.len = len, !.type = "number",
                                        !.number = 9]>>
Line(key, size) == [key |-> key, size |-> size]
Info == <<Line("certify_bootimg_extra_args", 9000), Line("other", 5),
          Line("certify_bootimg_extra_args", 200)>>

MCOtherArgs ==
    {[a EXCEPT !.second = s, !.recovery_dtbo = o] :
        a \in {Plain, V1, V2Plain, V3}, s \in {Absent, 3000},
        o \in {Absent, 0, 9}}
    \cup {[a EXCEPT !.cmdline = c] : a \in {Plain, V4},
              c \in {2, 510, 511, 512, 513, 1535, 1536, 1537}}
    \cup {[a EXCEPT !.dtb = d, !.kernel = k] : a \in {V2Plain, V3, V4},
              d \in {Absent, 0, 4096}, k \in {Absent, 4096}}
    \cup {[a EXCEPT !.signature = s] : a \in {V3, V4},
              s \in {Absent, 1500, 4096, 4097}}
    \cup {[Vendor3 EXCEPT !.vendor_ramdisk = r, !.output = o] :
              r \in {Absent, 10, 2048}, o \in BOOLEAN}
    \cup {[Vendor4 EXCEPT !.vendor_ramdisk = r, !.fragments = f,
                          !.vendor_bootconfig = b] :
              r \in {Absent, 10}, b \in {Absent, 3000},
              f \in {<<>>, <<Fragment("a", 2038)>>, <<Fragment("default", 1)>>,
                     <<Fragment("", 5)>>,
                     <<Fragment("a", 7), Fragment("b", 300)>>,
                     <<Fragment("a", 7), Fragment("a", 300)>>}}
    \cup {[V4 EXCEPT !.fragments = <<Fragment("a", 7)>>],
          [Vendor4 EXCEPT !.version = 2], [Vendor4 EXCEPT !.version = 5],
          [V4 EXCEPT !.version = 5]}
    \cup {[Plain EXCEPT !.os_version = v, !.os_patch_level = p] :
              v \in {<<12>>, <<12, 1, 127>>, <<1000, 5>>, <<1, 128>>,
                     <<127, 1277, 3>>, <<2000>>},
              p \in {<<>>, <<2023, 12>>, <<2127, 1>>, <<2128, 1>>, <<1999, 5>>,
                     <<2023, 0>>, <<2023, 13>>}}
    \cup {[a EXCEPT !.board = b] : a \in {Plain, Vendor3}, b \in {16, 17}}
    \cup {[Vendor3 EXCEPT !.vendor_ramdisk = 5, !.vendor_cmdline = c] :
              c \in {2048, 2049}}
    \cup {[Vendor4 EXCEPT !.fragments = Long(l)] : l \in {32, 33}}
    \cup {[Plain EXCEPT !.unknown = TRUE]}
    \cup {[a EXCEPT !.certify = TRUE, !.signature = s, !.ramdisk = r,
                    !.partition = p] :
              a \in {V2Plain, V4}, s \in {Absent, 2000}, r \in {0, 20000},
              p \in {0, 100000, 200000}}
    \cup {[Plain EXCEPT !.certify = TRUE, !.archive = a, !.gki_info = g,
                        !.info = i, !.format = f, !.extra_args = e] :
              a \in BOOLEAN, g \in {"no", "option"},
              i \in {<<>>, Info, <<Line("certify_bootimg_extra_args", 9000)>>},
              f \in {".tgz", ".xz"}, e \in {0, 7000}}
    \cup {[Plain EXCEPT !.certify = TRUE, !.archive = TRUE,
                        !.gki_info = "packed", !.info = Info]}
=============================================================================
