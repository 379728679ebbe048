--------------------------- MODULE RelocateProofs ---------------------------
(***************************************************************************)
(* The loops of relocate_code, proved for every image, GOT, list of        *)
(* relocations, bss and distance: the invariant says how far each loop has *)
(* come.                                                                   *)
(***************************************************************************)
EXTENDS Relocate, TLAPS

Copying == pc = "copy_loop" => /\ t0 \in Image /\ t2 = 2
                               /\ \A w \in 0 .. t0 - 1 : dst[w] = src[w]

MovingGot ==
    pc = "reloc_got_loop" =>
        /\ t2 < NumGot
        /\ \A w \in Image : dst[w] = IF w \in Got + 2 .. Got + t2 - 1
                                     THEN Moved(src[w]) ELSE src[w]

\* The entries of .rel.dyn that have been applied.
Applied == CASE pc = "reloc_dyn_start" -> {}
             [] pc = "reloc_dyn_loop" -> 1 .. t1 - 2
             [] OTHER -> 1 .. NumRel - 2

Fixing ==
    pc \in {"reloc_dyn_start", "reloc_dyn_loop", "clear_bss", "main"} =>
        /\ pc = "reloc_dyn_loop" => t1 \in 2 .. NumRel - 1 /\ t0 = 0
        /\ \A w \in Image : dst[w] = Target(w, Applied)

Clearing ==
    /\ pc = "clear_bss" => /\ t0 < BssSize
                           /\ \A b \in 0 .. t0 - 1 : bss[b] = 0
    /\ pc = "main" => \A b \in DOMAIN bss : bss[b] = 0

IInv == TypeOK /\ Copying /\ MovingGot /\ Fixing /\ Clearing

-----------------------------------------------------------------------------
\* Applying one more entry of .rel.dyn.
LEMMA ListedNext ==
    ASSUME TypeOK, NEW w \in Image, NEW n \in 1 .. NumRel - 1
    PROVE  Listed(w, 1 .. n) <=>
              \/ Listed(w, 1 .. n - 1)
              \/ rel[n].info = R_MIPS_REL32 /\ rel[n].loc = w
  BY RelocateAssumption DEF Listed

LEMMA InitIInv == Init => IInv
<1> SUFFICES ASSUME Init PROVE IInv
  OBVIOUS
<1> USE RelocateAssumption DEF Init
<1>1. TypeOK
  <2>1. Word \subseteq Int /\ src \in [Image -> Word]
    OBVIOUS
  <2>2. src \in [Image -> Int]
    BY <2>1
  <2>3. dst \in [Image -> Int] /\ bss \in [0 .. BssSize - 1 -> Int]
    OBVIOUS
  <2>4. /\ pc = "copy_loop" /\ rel \in [0 .. NumRel - 1 -> Entry]
        /\ t0 \in 0 .. ImageSize + BssSize
        /\ t1 \in 0 .. NumRel /\ t2 \in 2 .. NumGot
    OBVIOUS
  <2> QED
    BY <2>2, <2>3, <2>4 DEF TypeOK
<1>2. Copying /\ MovingGot /\ Fixing /\ Clearing
  BY DEF Copying, MovingGot, Fixing, Clearing, Image
<1> QED
  BY <1>1, <1>2 DEF IInv

LEMMA NextType == IInv /\ [Next]_vars => TypeOK'
<1> SUFFICES ASSUME IInv, [Next]_vars PROVE TypeOK'
  OBVIOUS
<1> USE RelocateAssumption DEF IInv, TypeOK
<1>1. CASE CopyWord
  BY <1>1 DEF CopyWord, Copying, Image
<1>2. CASE RelocGot
  <2>1. Moved(dst[Got + t2]) \in Int
    BY <1>2 DEF RelocGot, MovingGot, Moved, Image
  <2>2. dst' \in [Image -> Int]
    BY <1>2, <2>1 DEF RelocGot
  <2>3. t2' \in 2 .. NumGot /\ pc' \in {"reloc_got_loop", "reloc_dyn_start"}
    BY <1>2 DEF RelocGot, MovingGot
  <2> QED
    BY <1>2, <2>2, <2>3 DEF RelocGot
<1>3. CASE RelocDynStart
  BY <1>3 DEF RelocDynStart, RelocDynNext
<1>4. CASE RelocDyn
  <2>1. t1 \in 2 .. NumRel - 1 /\ rel[t1 - 1] \in Entry
    BY <1>4 DEF RelocDyn, Fixing
  <2>2. FixUp(rel[t1 - 1]) \in [Image -> Int]
    <3>1. rel[t1 - 1].loc \in Image
      BY <2>1 DEF Entry
    <3> QED
      BY <3>1 DEF FixUp
  <2> QED
    BY <1>4, <2>1, <2>2 DEF RelocDyn, RelocDynNext
<1>5. CASE ClearBss
  BY <1>5 DEF ClearBss, Clearing
<1>6. CASE UNCHANGED vars
  BY <1>6 DEF vars
<1> QED
  BY <1>1, <1>2, <1>3, <1>4, <1>5, <1>6 DEF Next

LEMMA NextLoops ==
    IInv /\ [Next]_vars => (Copying /\ MovingGot /\ Fixing /\ Clearing)'
<1> SUFFICES ASSUME IInv, [Next]_vars
             PROVE  (Copying /\ MovingGot /\ Fixing /\ Clearing)'
  OBVIOUS
<1>0. TypeOK /\ TypeOK'
  BY NextType DEF IInv
<1> USE RelocateAssumption DEF IInv, TypeOK
<1>1. CASE CopyWord
  <2>1. \A w \in 0 .. t0 : dst'[w] = src'[w]
    BY <1>1 DEF CopyWord, Copying, Image
  <2>2. CASE t0' < ImageSize
    BY <1>0, <1>1, <2>1, <2>2
       DEF CopyWord, Copying, MovingGot, Fixing, Clearing, Image
  <2>3. CASE t0' >= ImageSize
    <3>1. \A w \in Image : dst'[w] = src'[w]
      BY <1>0, <1>1, <2>1, <2>3 DEF CopyWord, Image
    <3>2. pc' = "reloc_got_loop" /\ t2' = 2
      BY <1>0, <1>1, <2>3 DEF CopyWord, Copying
    <3> QED
      BY <3>1, <3>2 DEF Copying, MovingGot, Fixing, Clearing
  <2> QED
    BY <1>0, <2>2, <2>3
<1>2. CASE RelocGot
  <2>1. \A w \in Image : dst'[w] = IF w \in Got + 2 .. Got + t2
                                   THEN Moved(src[w]) ELSE src[w]
    <3> SUFFICES ASSUME NEW w \in Image
                 PROVE  dst'[w] = IF w \in Got + 2 .. Got + t2
                                  THEN Moved(src[w]) ELSE src[w]
      OBVIOUS
    <3>1. dst[w] = IF w \in Got + 2 .. Got + t2 - 1
                   THEN Moved(src[w]) ELSE src[w]
      BY <1>2 DEF RelocGot, MovingGot
    <3>2. Got + t2 \in Image /\ dst' = [dst EXCEPT ![Got + t2] = Moved(@)]
      BY <1>2 DEF RelocGot, MovingGot, Image
    <3>3. CASE w = Got + t2
      BY <3>1, <3>2, <3>3
    <3>4. CASE w # Got + t2
      BY <3>1, <3>2, <3>4 DEF Image
    <3> QED
      BY <3>3, <3>4
  <2>2. CASE t2' < NumGot
    BY <1>2, <2>1, <2>2
       DEF RelocGot, Copying, MovingGot, Fixing, Clearing, Moved
  <2>3. CASE t2' = NumGot
    <3>1. \A w \in Image : dst'[w] = Target(w, {})
      BY <1>2, <2>1, <2>3 DEF RelocGot, Target, Listed, Moved, Image
    <3>2. pc' = "reloc_dyn_start" /\ Applied' = {} /\ UNCHANGED <<src, rel>>
      BY SMTT(60), <1>2, <2>3 DEF RelocGot, Applied
    <3> QED
      BY <3>1, <3>2
         DEF Copying, MovingGot, Fixing, Clearing, Target, Listed, Moved
  <2> QED
    BY <1>0, <1>2, <2>2, <2>3 DEF RelocGot, MovingGot
<1>3. CASE RelocDynStart
  <2>1. Applied = {} /\ Applied' = {} /\ pc' = "reloc_dyn_loop" /\ t1' = 2
    BY <1>3 DEF RelocDynStart, RelocDynNext, Applied
  <2> QED
    BY <1>3, <2>1 DEF RelocDynStart, Copying, MovingGot, Fixing, Clearing,
                      Target, Listed, Moved
<1>4. CASE RelocDyn
  <2>1. t1 \in 2 .. NumRel - 1 /\ rel[t1 - 1] \in Entry /\ Applied = 1 .. t1 - 2
    BY SMTT(60), <1>4 DEF RelocDyn, Fixing, Applied
  <2>2. Applied' = 1 .. t1 - 1
    BY SMTT(60), <1>4, <2>1 DEF RelocDyn, RelocDynNext, Applied
  <2>3. \A w \in Image : dst'[w] = Target(w, 1 .. t1 - 1)
    <3> SUFFICES ASSUME NEW w \in Image
                 PROVE  dst'[w] = Target(w, 1 .. t1 - 1)
      OBVIOUS
    <3>1. Listed(w, 1 .. t1 - 1) <=>
             \/ Listed(w, 1 .. t1 - 2)
             \/ rel[t1 - 1].info = R_MIPS_REL32 /\ rel[t1 - 1].loc = w
      BY <2>1, ListedNext
    <3>2. dst[w] = Target(w, 1 .. t1 - 2)
      BY <1>4, <2>1 DEF RelocDyn, Fixing
    <3>4. rel[t1 - 1].loc \in Image
      BY <2>1 DEF Entry
    <3>5. dst' = FixUp(rel[t1 - 1])
      BY <1>4 DEF RelocDyn
    <3>6. CASE rel[t1 - 1].info = R_MIPS_REL32 /\ rel[t1 - 1].loc = w
      <4>1. dst'[w] = src[w] + Offset
        BY <3>5, <3>6 DEF FixUp
      <4> QED
        BY <3>1, <3>4, <3>6, <4>1 DEF Target, Image
    <3>7. CASE ~(rel[t1 - 1].info = R_MIPS_REL32 /\ rel[t1 - 1].loc = w)
      <4>1. dst'[w] = dst[w]
        BY <3>4, <3>5, <3>7 DEF FixUp
      <4> QED
        BY <3>1, <3>2, <3>7, <4>1 DEF Target
    <3> QED
      BY <3>6, <3>7
  <2>4. /\ pc' \in {"reloc_dyn_loop", "clear_bss"} /\ UNCHANGED <<src, rel, t0>>
        /\ pc' = "reloc_dyn_loop" => t1' \in 2 .. NumRel - 1
        /\ t0' = 0
    BY <1>4, <2>1 DEF RelocDyn, RelocDynNext, Fixing
  <2>5. \A w \in Image : dst'[w] = Target(w, Applied)'
    BY <2>2, <2>3, <2>4 DEF Target, Listed, Moved
  <2>6. Fixing'
    BY <2>4, <2>5 DEF Fixing
  <2>7. (Copying /\ MovingGot /\ Clearing)'
    BY <2>4 DEF Copying, MovingGot, Clearing
  <2> QED
    BY <2>6, <2>7
<1>5. CASE ClearBss
  <2>1. \A b \in 0 .. t0 : bss'[b] = 0
    BY <1>5 DEF ClearBss, Clearing
  <2>2. Applied' = Applied /\ UNCHANGED <<src, dst, rel>>
    BY <1>5 DEF ClearBss, Applied
  <2> QED
    BY <1>5, <2>1, <2>2 DEF ClearBss, Copying, MovingGot, Fixing, Clearing,
                      Target, Listed, Moved
<1>6. CASE UNCHANGED vars
  BY <1>6 DEF vars, Copying, MovingGot, Fixing, Clearing, Applied, Target,
              Listed, Moved
<1> QED
  BY <1>1, <1>2, <1>3, <1>4, <1>5, <1>6 DEF Next

\* The loop invariant holds throughout (start.S:38-149).
THEOREM Invariance == Spec => []IInv
<1>1. IInv /\ [Next]_vars => IInv'
  BY NextType, NextLoops DEF IInv
<1> QED
  BY InitIInv, <1>1, PTL DEF Spec

\* When main runs, the copy is the image with its pointers moved once, bar
\* the last entry of .rel.dyn, and bss is clear; and no loop reads or writes
\* beside its table on the way (start.S:38-149).
THEOREM Relocated == Spec => []RelocationSound
<1>1. IInv => CopyRelocated
  BY DEF IInv, Fixing, Clearing, CopyRelocated, Applied
<1>2. IInv => WithinTables
  <2> SUFFICES ASSUME IInv PROVE WithinTables
    OBVIOUS
  <2> USE RelocateAssumption DEF IInv, TypeOK
  <2>1. pc = "copy_loop" => t0 \in Image
    BY DEF Copying
  <2>2. pc = "reloc_got_loop" => t2 \in 2 .. NumGot - 1
    BY DEF MovingGot
  <2>3. pc = "reloc_dyn_loop" => t1 - 1 \in 1 .. NumRel - 1
    BY DEF Fixing
  <2>4. pc = "clear_bss" => t0 \in DOMAIN bss
    BY DEF Clearing
  <2> QED
    BY <2>1, <2>2, <2>3, <2>4 DEF WithinTables
<1>3. IInv => RelocationSound
  BY <1>1, <1>2 DEF RelocationSound
<1> QED
  BY Invariance, <1>3, PTL
=============================================================================
