------------------------------ MODULE Relocate ------------------------------
(***************************************************************************)
(* relocate_code of cpu/start.S: the loader copies itself to the top of    *)
(* memory, moves the pointers of the copy by the distance, clears bss and  *)
(* jumps to main in the copy.  One action is one turn of a loop.           *)
(*                                                                         *)
(* Words of the image are numbered from its start; `src' is the image as   *)
(* early_init leaves it, `dst' the copy.  .rel.dyn follows the image and   *)
(* is read where it is; bss of the copy takes its place (cpu/link.lds:40). *)
(***************************************************************************)
EXTENDS Integers

CONSTANTS ImageSize,  \* words up to __image_copy_end
          Got,        \* first word of the GOT
          NumGot,     \* num_got_entries, two of them reserved
          NumRel,     \* entries of .rel.dyn, the first one reserved
          BssSize,    \* words of bss
          Offset,     \* distance between copy and image
          Word        \* what a word of the image may hold

\* The linker places the GOT at the end of the image.
ASSUME RelocateAssumption ==
    /\ ImageSize \in Nat /\ Got \in Nat /\ NumGot \in Nat /\ NumRel \in Nat
    /\ NumGot > 2 /\ Got + NumGot = ImageSize
    /\ NumRel > 2
    /\ BssSize \in Nat \ {0}
    /\ Offset \in Int
    /\ Word \subseteq Int

R_MIPS_REL32 == 3
R_MIPS_NONE == 0

VARIABLES pc, src, dst, rel, bss,
          t0,  \* copy_loop, clear_bss: word to write next
          t2,  \* reloc_got_loop: GOT entry
          t1   \* reloc_dyn_loop: entry behind the one to look at

vars == <<pc, src, dst, rel, bss, t0, t1, t2>>

Image == 0 .. ImageSize - 1
Entry == [loc : Image, info : {R_MIPS_NONE, R_MIPS_REL32}]

\* .rel.dyn may name any word, one in the GOT too, and one more than once.
Init ==
    /\ pc = "copy_loop"
    /\ src \in [Image -> Word]
    /\ rel \in [0 .. NumRel - 1 -> Entry]
    /\ rel[0] = [loc |-> 0, info |-> R_MIPS_NONE]
    /\ dst \in [Image -> {1}]
    /\ bss \in [0 .. BssSize - 1 -> {1}]
    /\ t0 = 0 /\ t1 = 0 /\ t2 = 2

CopyWord ==
    /\ pc = "copy_loop"
    /\ dst' = [dst EXCEPT ![t0] = src[t0]]
    /\ t0' = t0 + 1
    /\ pc' = IF t0' < ImageSize THEN "copy_loop" ELSE "reloc_got_loop"
    /\ UNCHANGED <<src, rel, bss, t1, t2>>

\* A null entry is skipped.
Moved(p) == IF p = 0 THEN p ELSE p + Offset

RelocGot ==
    /\ pc = "reloc_got_loop"
    /\ dst' = [dst EXCEPT ![Got + t2] = Moved(@)]
    /\ t2' = t2 + 1
    /\ pc' = IF t2' < NumGot THEN "reloc_got_loop" ELSE "reloc_dyn_start"
    /\ UNCHANGED <<src, rel, bss, t0, t1>>

\* The reserved entry is skipped: t1 is one entry on when the loop's
\* condition is first evaluated, and that moves it on again.
RelocDynNext(t) == /\ t1' = t + 1
                   /\ pc' = IF t1' < NumRel THEN "reloc_dyn_loop" ELSE "clear_bss"

RelocDynStart ==
    /\ pc = "reloc_dyn_start"
    /\ RelocDynNext(1)
    /\ t0' = 0
    /\ UNCHANGED <<src, dst, rel, bss, t2>>

\* Mutant: the pointer is read from the copy.
FixUp_Copy(e) == IF e.info = R_MIPS_REL32
                 THEN [dst EXCEPT ![e.loc] = dst[e.loc] + Offset]
                 ELSE dst

\* The pointer is read from the image, not from the copy.
FixUp(e) == IF e.info = R_MIPS_REL32
            THEN [dst EXCEPT ![e.loc] = src[e.loc] + Offset]
            ELSE dst

\* Mutant: an entry of another type is skipped without moving on.
RelocDyn_Stuck ==
    /\ pc = "reloc_dyn_loop"
    /\ dst' = FixUp(rel[t1 - 1])
    /\ IF rel[t1 - 1].info = R_MIPS_REL32 THEN RelocDynNext(t1)
       ELSE UNCHANGED <<t1, pc>>
    /\ UNCHANGED <<src, rel, bss, t0, t2>>

RelocDyn ==
    /\ pc = "reloc_dyn_loop"
    /\ dst' = FixUp(rel[t1 - 1])
    /\ RelocDynNext(t1)
    /\ UNCHANGED <<src, rel, bss, t0, t2>>

ClearBss ==
    /\ pc = "clear_bss"
    /\ bss' = [bss EXCEPT ![t0] = 0]
    /\ t0' = t0 + 1
    /\ pc' = IF t0' < BssSize THEN "clear_bss" ELSE "main"
    /\ UNCHANGED <<src, dst, rel, t1, t2>>

Next == CopyWord \/ RelocGot \/ RelocDynStart \/ RelocDyn \/ ClearBss

Spec == Init /\ [][Next]_vars /\ WF_vars(Next)

-----------------------------------------------------------------------------
(* Properties. *)

TypeOK ==
    /\ pc \in {"copy_loop", "reloc_got_loop", "reloc_dyn_start",
               "reloc_dyn_loop", "clear_bss", "main"}
    /\ src \in [Image -> Int] /\ dst \in [Image -> Int]
    /\ rel \in [0 .. NumRel - 1 -> Entry]
    /\ bss \in [0 .. BssSize - 1 -> Int]
    /\ t0 \in 0 .. ImageSize + BssSize
    /\ t1 \in 0 .. NumRel /\ t2 \in 2 .. NumGot

Listed(w, entries) ==
    \E k \in entries : rel[k].info = R_MIPS_REL32 /\ rel[k].loc = w

\* The word the copy needs at w when the given entries have been applied.
Target(w, entries) ==
    IF Listed(w, entries) \/ (w >= Got + 2 /\ src[w] # 0)
    THEN src[w] + Offset ELSE src[w]

\* When main runs, every word of the copy is the word early_init left, moved
\* once if it is a pointer, also one that is in the GOT and listed or is
\* listed twice, and not otherwise; and bss is clear.  This is what the loops
\* do for all entries of .rel.dyn but the first, which is reserved, and the
\* last, which they do not reach (start.S:97-149).
CopyRelocated ==
    pc = "main" => /\ \A w \in Image : dst[w] = Target(w, 1 .. NumRel - 2)
                   /\ \A b \in DOMAIN bss : bss[b] = 0

\* Whatever a loop reads or writes next is in its table: copy_loop in the
\* image, reloc_got_loop in the GOT behind the two reserved entries,
\* reloc_dyn_loop in .rel.dyn behind the reserved one, clear_bss in bss.  All
\* but the third test their end behind the body only (start.S:42, 111, 138,
\* 148).
WithinTables ==
    /\ pc = "copy_loop" => t0 \in Image
    /\ pc = "reloc_got_loop" => t2 \in 2 .. NumGot - 1
    /\ pc = "reloc_dyn_loop" => t1 - 1 \in 1 .. NumRel - 1
    /\ pc = "clear_bss" => t0 \in DOMAIN bss

\* The copy is whole and nothing beside it is touched (start.S:38-149).
RelocationSound == CopyRelocated /\ WithinTables

\* The loops end and main is entered (start.S:38-155).
ReachesMain == <>(pc = "main")

\* "Update dynamic relocations" (start.S:114): only the reserved first entry
\* (start.S:118) and those of another type (start.S:125) are skipped.
AllEntriesApplied ==
    pc = "main" => \A w \in Image : dst[w] = Target(w, 1 .. NumRel - 1)
=============================================================================
