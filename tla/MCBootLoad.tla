----------------------------- MODULE MCBootLoad -----------------------------
(* Memory of 101 bytes, pages of two and four bytes, ramdisks below, at and  *)
(* above the size of the kernel, images the heap cannot hold, and command   *)
(* lines that need one field and two.                                       *)
EXTENDS BootLoad

V0(p, k, r, s) == [version |-> 0, page |-> p, kernel |-> k, ramdisk |-> r,
                   second |-> s, dtbo |-> 0, dtb |-> 0, cmdline |-> <<"a">>]
V2(p, k, r, s, o, d, c) == [version |-> 2, page |-> p, kernel |-> k,
                            ramdisk |-> r, second |-> s, dtbo |-> o,
                            dtb |-> d, cmdline |-> c]

MCImages ==
    {V0(p, k, r, s) : p \in {2, 4}, k \in {3, 4}, r \in {0, 4, 7},
                      s \in {0, 1}}
    \cup {V2(4, k, r, s, o, d, <<"a">>) :
             k \in {3, 5}, r \in {2, 5}, s \in {0, 1}, o \in {0, 3}, d \in {1, 3}}
    \cup {V2(2, 3, 3, 0, 0, 2, <<"a", "b">>)}

\* Headers of earlier boots, one of them mixed with what was there before, and
\* what is no header: sizes that name addresses behind the end of memory.
MCMarked == {V0(2, 4, 4, 0), V2(2, 3, 3, 0, 0, 2, <<"a", "b">>),
             V2(4, 3, 2, 0, 9, 11, <<"a">>)}
MCStale  == MCMarked \cup {V0(3, 0, 6, 1), V2(1, 1, 8, 50, 0, 9, <<"a">>)}
=============================================================================
