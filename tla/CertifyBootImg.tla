--------------------------- MODULE CertifyBootImg ---------------------------
(***************************************************************************)
(* scripts/gki.  certify_bootimg.py appends certificates and a footer to a *)
(* boot image, or to each in an archive, and may be run again on what it   *)
(* made; boot_signature_info.sh shows the certificates of an image.  Of    *)
(* avbtool: a footer fills the partition and knows the size the image had; *)
(* it is added only where its metadata fit.                                *)
(***************************************************************************)
EXTENDS MkBootImg

CONSTANTS BOOT_SIGNATURE_SIZE,  \* certificates behind an image (16384)
          VbmetaSize,           \* a certificate without extra arguments
          Metadata,             \* what avbtool wants behind an image, at least
          Certifications        \* how often certify_bootimg is run

ASSUME CertifyAssumption ==
    /\ {BOOT_SIGNATURE_SIZE, Metadata, Certifications} \subseteq Nat
    /\ VbmetaSize \in Nat \ {0}

VARIABLES
    images,  \* the image, or the images of the archive, by name
    work,    \* unpack_dir, or the image
    todo,    \* images to certify
    member,  \* the one that is certified
    temp,    \* boot.tmp
    extra,   \* bytes that the extra arguments add to a certificate
    runs     \* certifications done

cvars == <<images, work, todo, member, temp, extra, runs>>

CertifyInit == /\ images = <<>> /\ work = <<>> /\ todo = {} /\ member = ""
               /\ temp = <<>> /\ extra = 0 /\ runs = 0

-----------------------------------------------------------------------------
(* avbtool. *)

LastPiece(f) == f[Len(f)]
HasFooter(f) == LastPiece(f).name = "footer"
EraseFooter(f) == IF HasFooter(f) THEN SubSeq(f, 1, Len(f) - 1) ELSE f

add_hash_footer(f, partition) ==
    Put(f, <<Field("footer", partition - Tell(f), Tell(f))>>)

\* A certificate of that name for an image of so many bytes.
generate_gki_certificate(name, image) ==
    Field(name, VbmetaSize + extra, image)

IsVbmeta(piece) == piece.name \in {"boot", "generic_kernel", "signature"}

-----------------------------------------------------------------------------
(* The images that the build has, some put into their partition already. *)

Names == IF args.archive THEN {"boot.img", "boot-gz.img", "vendor_boot.img"}
                         ELSE {"boot.img"}
BootNames == Names \ {"vendor_boot.img"}   \* boot*.img

InPartition == args.partition >= Tell(output) + Metadata
Built == IF InPartition THEN add_hash_footer(output, args.partition) ELSE output

Build ==
    /\ step = "done" /\ args.certify /\ images = <<>>
    /\ images' = [n \in Names |-> Built]
    /\ UNCHANGED <<mkvars, work, todo, member, temp, extra, runs>>

-----------------------------------------------------------------------------
(* certify_bootimg.py *)

\* load_dict_from_file: the last line with a key counts.
InfoOf(info, key) ==
    LET lines == {n \in DOMAIN info : info[n].key = key}
    IN  IF lines = {} THEN 0
        ELSE info[CHOOSE n \in lines : \A m \in lines : m <= n].size

load_gki_info_file(info) == InfoOf(info, "certify_bootimg_extra_args")

Give_up == /\ step' = "error"
           /\ UNCHANGED <<args, files, cvars>>

\* The info file of an archive has to be in it.
CertifyRefuses ==
    /\ step = "done" /\ images # <<>> /\ runs < Certifications
    /\ args.archive /\ args.gki_info = "option"
    /\ Give_up

\* parse_cmdline, unpack_archive.
StartCertify ==
    /\ step = "done" /\ images # <<>> /\ runs < Certifications
    /\ ~(args.archive /\ args.gki_info = "option")
    /\ work' = images /\ todo' = BootNames
    /\ extra' = args.extra_args
                + (IF args.gki_info = "no" THEN 0
                   ELSE load_gki_info_file(args.info))
    /\ step' = "certifying"
    /\ UNCHANGED <<args, files, images, member, temp, runs>>

\* The last BOOT_SIGNATURE_SIZE bytes begin with a certificate.
CertificateAt(f, n) == /\ f[n].name = "boot"
                       /\ f[n].at = Tell(f) - BOOT_SIGNATURE_SIZE
HasCertificate(f) == /\ Tell(f) > BOOT_SIGNATURE_SIZE
                     /\ \E n \in DOMAIN f : CertificateAt(f, n)

EraseCertificate(f) ==
    IF HasCertificate(f)
    THEN SubSeq(f, 1, (CHOOSE n \in DOMAIN f : CertificateAt(f, n)) - 1)
    ELSE f

\* Mutant: the certificate is looked for before the footer is gone.
Erase_Swapped(f) == EraseFooter(EraseCertificate(f))

\* erase_certificate_and_avb_footer.
Erase(f) == EraseCertificate(EraseFooter(f))

\* certify_bootimg, for one after the other, in any order.
CertifyOne ==
    /\ step = "certifying"
    /\ \E n \in todo : member' = n /\ temp' = Erase(work[n])
    /\ step' = "certify"
    /\ UNCHANGED <<args, files, images, work, todo, extra, runs>>

CertificatesSize == 2 * (VbmetaSize + extra)

\* An image without a kernel, a tool that fails: all is given up.
CertifyFails == step \in {"certify", "footer"} /\ Give_up

\* add_certificate: for the image and for the kernel in it, and zeros.
AddCertificate ==
    /\ step = "certify" /\ filesize(args.kernel) > 0
    /\ CertificatesSize <= BOOT_SIGNATURE_SIZE
    /\ temp' = Put(temp,
         << generate_gki_certificate("boot", Tell(temp)),
            generate_gki_certificate("generic_kernel", args.kernel),
            Free("zeros", BOOT_SIGNATURE_SIZE - CertificatesSize) >>)
    /\ step' = "footer"
    /\ UNCHANGED <<args, files, images, work, todo, member, extra, runs>>

\* get_avb_image_size: the size of the partition, where there was a footer.
Partition == IF HasFooter(work[member]) THEN Tell(work[member])
             ELSE Padded(Tell(temp), 4096) + Metadata

\* add_avb_footer, and the copy to the output.
AddFooter ==
    /\ step = "footer" /\ Tell(temp) + Metadata <= Partition
    /\ work' = [work EXCEPT ![member] = add_hash_footer(temp, Partition)]
    /\ todo' = todo \ {member}
    /\ step' = "certifying"
    /\ UNCHANGED <<args, files, images, member, temp, extra, runs>>

\* get_archive_name_and_format_for_shutil.
KnownFormats == {".tar.gz", ".tgz", ".zip"}

MakeArchive ==
    /\ step = "certifying" /\ todo = {}
    /\ IF args.archive /\ args.format \notin KnownFormats
       THEN step' = "error" /\ UNCHANGED <<images, runs>>
       ELSE step' = "done" /\ images' = work /\ runs' = runs + 1
    /\ UNCHANGED <<args, files, work, todo, member, temp, extra>>

-----------------------------------------------------------------------------
(* boot_signature_info.sh *)

\* unpack_bootimg finds the signature that the header of version 4 tells of.
\* Otherwise the last BOOT_SIGNATURE_SIZE bytes are looked at.
Signature(f) ==
    IF args.version >= 4 /\ Value(f, "signature_size") > 0
    THEN <<Piece(f, "signature")>>
    ELSE LET from == {n \in DOMAIN f :
                        /\ f[n].at = Tell(f) - BOOT_SIGNATURE_SIZE
                        /\ f[n].size > 0}
         IN  IF from = {} THEN <<>>
             ELSE SubSeq(f, CHOOSE n \in from : TRUE, Len(f))

\* Certificates are carved out of it until there is none.
Carved(s) == SubSeq(s, 1, CHOOSE n \in 0 .. Len(s) :
                            /\ \A m \in 1 .. n : IsVbmeta(s[m])
                            /\ n < Len(s) => ~IsVbmeta(s[n + 1]))

Shown(f) == LET shown == Carved(Signature(EraseFooter(f)))
            IN  [n \in DOMAIN shown |-> shown[n].name]

-----------------------------------------------------------------------------
WriterInit == MkInit /\ CertifyInit

CertifyNext == \/ Build \/ CertifyRefuses \/ StartCertify \/ CertifyOne
               \/ CertifyFails \/ AddCertificate \/ AddFooter \/ MakeArchive

WriterNext == (MkNext /\ UNCHANGED cvars) \/ CertifyNext

wvars == <<mkvars, cvars>>

-----------------------------------------------------------------------------
(* Properties. *)

\* f is the image, the certificates for exactly it and its kernel, and a
\* footer at the end of the partition.
Certified(f) ==
    LET image == Len(output) IN
      /\ Len(f) = image + 4 /\ SubSeq(f, 1, image) = output
      /\ f[image + 1].name = "boot" /\ f[image + 1].val = Tell(output)
      /\ f[image + 2].name = "generic_kernel"
      /\ f[image + 2].val = args.kernel
      /\ f[image + 4].name = "footer"
      /\ f[image + 4].at = Tell(output) + BOOT_SIGNATURE_SIZE
      /\ f[image + 4].val = f[image + 4].at
      /\ Tell(f) = IF InPartition THEN args.partition
                   ELSE Padded(f[image + 4].at, 4096) + Metadata

\* However often an image is certified, alone or in an archive, it is what
\* mkbootimg wrote with one set of certificates, and these are what
\* boot_signature_info shows of an image without a signature of its own.  One
\* that fails leaves all as they were, other images are left alone
\* (certify_bootimg.py:44-146, 249-306, boot_signature_info.sh:62-98).
CertifiedOnce ==
    images # <<>> =>
      /\ DOMAIN images = Names
      /\ \A n \in Names :
           IF n \in BootNames /\ runs > 0
           THEN /\ Certified(images[n])
                /\ Shown(images[n]) = IF Signs(args) THEN <<"signature">>
                                      ELSE <<"boot", "generic_kernel">>
           ELSE images[n] = Built
=============================================================================
