------------------------------ MODULE LibProofs ------------------------------
(***************************************************************************)
(* The string functions of src/lib/string.c do what the C library says of  *)
(* them, for every memory, word size, pointer and count.  A loop has done  *)
(* to the bytes behind it what the function promises of them, and those    *)
(* before it are as they were: that is the invariant, one for each         *)
(* function.  And npf_vsnprintf formats as C says, for every format with   *)
(* its arguments, every buffer and every width of the numbers: what is put *)
(* is what the directives and characters so far mean.                      *)
(***************************************************************************)
EXTENDS Lib, Numbers, SequenceTheorems

Size == Len(op.mem)

\* The call, while it runs: one that its caller may make.
TheCall ==
    /\ Legal(op) /\ op.fn \in Functions_
    /\ op.mem \in [1 .. Size -> 0 .. 255] /\ Size \in Nat
    /\ op.cs \in 1 .. Size /\ op.ct \in 1 .. Size /\ op.n \in 0 .. Size
    /\ op.c \in Int

\* The bytes a function that writes has written.
BytesDone == IF at = "backward" THEN cs .. op.cs + op.n - 1 ELSE op.cs .. cs - 1

MemoryInv ==
    /\ DOMAIN mem = 1 .. Size
    /\ \A a \in 1 .. Size :
          mem[a] = IF Writes /\ a \in BytesDone THEN Written(a - op.cs)
                   ELSE op.mem[a]

\* How far the pointers and the count have come.
Counting == n \in 0 .. op.n /\ cs = op.cs + (op.n - n)
Both == ct = op.ct + (op.n - n)
\* The bytes compared agree, and neither string has ended.
Agreed == \A k \in 0 .. cs - op.cs - 1 : Same(k)
Missing(S) == \A a \in S : op.mem[a] # Byte_(op.c)
InString(p, first) == p \in first .. End(op.mem, first)

Loop ==
    /\ op.fn = "memset"  => Counting /\ at = "none"
    /\ op.fn = "memcmp"  => Counting /\ Both /\ Agreed
    /\ op.fn = "memcpy"  =>
            /\ Counting /\ Both /\ op.cs # op.ct /\ at \in {"words", "bytes"}
            /\ at = "words" => Aligned(op)
    /\ op.fn = "memmove" =>
            \/ Counting /\ Both /\ op.cs < op.ct /\ at = "forward"
            \/ /\ n \in 0 .. op.n /\ cs = op.cs + n /\ ct = op.ct + n
               /\ op.ct < op.cs /\ at = "backward"
    /\ op.fn = "memchr"  => Counting /\ Missing(op.cs .. cs - 1)
    /\ op.fn = "strlen"  => InString(cs, op.cs)
    /\ op.fn = "strncpy" =>
            /\ Counting /\ InString(ct, op.ct) /\ at = "none"
            /\ IF op.n - n <= End(op.mem, op.ct) - op.ct
               THEN Both ELSE ct = End(op.mem, op.ct)
    /\ op.fn = "strcmp"  =>
            /\ InString(cs, op.cs) /\ InString(ct, op.ct)
            /\ ct = op.ct + (cs - op.cs) /\ Agreed
    /\ op.fn = "strncmp" =>
            /\ InString(cs, op.cs) /\ InString(ct, op.ct)
            /\ Counting /\ Both /\ Agreed
    /\ op.fn = "strchr"  => InString(cs, op.cs) /\ Missing(op.cs .. cs - 1)
    /\ op.fn = "strrchr" =>
            /\ InString(cs, op.cs)
            /\ \/ last = NoPointer /\ Missing(op.cs .. cs - 1)
               \/ /\ last \in op.cs .. cs - 1 /\ op.mem[last] = Byte_(op.c)
                  /\ Missing(last + 1 .. cs - 1)

StringsInv == /\ ret = Running => TheCall /\ Loop /\ MemoryInv
              /\ FunctionsAsC /\ ReadsOperands

------------------------------------------------------------------------------

\* A string in memory has one first terminator: End finds it.
LEMMA EndOfString ==
  ASSUME NEW m, NEW p \in Nat, Len(m) \in Nat, IsString(m, p)
  PROVE  /\ End(m, p) \in p .. Len(m) - 1 /\ m[End(m, p)] = 0
         /\ \A k \in p .. End(m, p) - 1 : m[k] # 0
<1> DEFINE S == {e \in p .. Len(m) - 1 : m[e] = 0}
<1>1. S \subseteq Nat /\ S # {}
  BY DEF IsString
<1>2. PICK e \in S : \A k \in S : e <= k
  <2> HIDE DEF S
  <2> QED
    BY <1>1, LeastNat
<1>3. e \in p .. Len(m) /\ m[e] = 0 /\ \A k \in p .. e - 1 : m[k] # 0
  BY <1>2
<1>4. /\ End(m, p) \in p .. Len(m) /\ m[End(m, p)] = 0
      /\ \A k \in p .. End(m, p) - 1 : m[k] # 0
  BY <1>3 DEF End
<1>5. End(m, p) <= e
  BY <1>3, <1>4
<1> QED
  BY <1>4, <1>5, <1>2

\* The least and the greatest of a set, as Min and Max choose them.
LEMMA LeastOf ==
  ASSUME NEW S, S \subseteq Int, NEW m \in S, \A k \in S : m <= k
  PROVE  Min(S) = m
<1> DEFINE x == Min(S)
<1>1. x \in S /\ \A k \in S : x <= k
  BY DEF Min
<1> HIDE DEF x
<1>2. x = m
  BY <1>1
<1> QED
  BY <1>2 DEF x

LEMMA GreatestOf ==
  ASSUME NEW S, S \subseteq Int, NEW m \in S, \A k \in S : k <= m
  PROVE  Max(S) = m
<1> DEFINE x == Max(S)
<1>1. x \in S /\ \A k \in S : k <= x
  BY DEF Max
<1> HIDE DEF x
<1>2. x = m
  BY <1>1
<1> QED
  BY <1>2 DEF x

\* What the promise says of a call does not change while the call runs.
LEMMA SameCall ==
  ASSUME op' = op
  PROVE  /\ Result' = Result /\ Operands' = Operands /\ Writes' = Writes
         /\ Size' = Size /\ (TheCall => TheCall')
         /\ \A k : Written(k)' = Written(k) /\ Same(k)' = Same(k)
         /\ \A S : Missing(S)' = Missing(S)
BY DEF Result, Operands, Writes, Size, TheCall, Written, Same, Missing,
       Difference, Found, Upto, Common

\* A step that goes on with the loop, and one that returns.
LEMMA GoesOn ==
  ASSUME op' = op, StringsInv, ret = Running, Loop', MemoryInv',
         reads' \subseteq reads \cup Operands, ret' = Running
  PROVE  StringsInv'
BY SameCall DEF StringsInv, FunctionsAsC, ReadsOperands

LEMMA Finishes ==
  ASSUME op' = op, StringsInv, ret = Running, ret' # Running, ret' = Result,
         mem' = mem, reads' \subseteq reads \cup Operands,
         Writes => \A a \in 1 .. Size :
                      a \in BytesDone <=> a \in op.cs .. op.cs + op.n - 1
  PROVE  StringsInv'
<1>1. FunctionsAsC'
  BY SameCall DEF StringsInv, FunctionsAsC, MemoryInv
<1> QED
  BY <1>1, SameCall DEF StringsInv, ReadsOperands

\* The functions that only look leave memory as it is.
LEMMA Untouched ==
  ASSUME op' = op, MemoryInv, ~Writes, mem' = mem
  PROVE  /\ \A a \in 1 .. Size : mem[a] = op.mem[a]
         /\ MemoryInv'
BY SameCall DEF MemoryInv

\* The numbers of a call, and how its pointers move with its count.
LEMMA NumbersOf ==
  ASSUME TheCall
  PROVE  /\ op.cs \in Nat /\ op.ct \in Nat /\ op.n \in Nat /\ Size \in Nat
         /\ op.cs >= 1 /\ op.ct >= 1 /\ op.c \in Int
         /\ op.cs <= Size /\ op.ct <= Size /\ op.n <= Size
BY DEF TheCall

LEMMA BytesOf ==
  ASSUME TheCall, NEW a \in 1 .. Size
  PROVE  op.mem[a] \in 0 .. 255
BY DEF TheCall

LEMMA Counts ==
  ASSUME op' = op, TheCall, Counting, n > 0, n' = n - 1, cs' = cs + 1
  PROVE  /\ Counting' /\ (Both /\ ct' = ct + 1 => Both')
         /\ cs \in Int /\ cs - op.cs = op.n - n /\ cs - op.cs \in 0 .. op.n - 1
         /\ cs \in op.cs .. op.cs + op.n - 1 /\ cs >= 1
<1>1. /\ op.cs \in Nat /\ op.n \in Nat /\ op.ct \in Nat /\ op.cs >= 1
  BY NumbersOf
<1> QED
  BY <1>1 DEF Counting, Both

\* A function that goes forward has one more byte behind it.
LEMMA OneMoreDone ==
  ASSUME op' = op, op.cs \in Nat, cs \in Int, op.cs <= cs, cs' = cs + 1,
         at # "backward", at' = at
  PROVE  \A a \in 1 .. Size : a \in BytesDone' <=> a = cs \/ a \in BytesDone
<1>1. BytesDone = op.cs .. cs - 1 /\ BytesDone' = op.cs .. cs
  BY DEF BytesDone
<1> QED
  BY <1>1

LEMMA MemsetKeeps ==
  ASSUME op' = op, StringsInv, memset
  PROVE  StringsInv'
<1>1. /\ ret = Running /\ op.fn = "memset" /\ reads' = reads
      /\ TheCall /\ Loop /\ MemoryInv
  BY DEF memset, In, StringsInv
<1>2. /\ Result = op.cs /\ Writes /\ at = "none" /\ Counting
      /\ \A k : Written(k) = Byte_(op.c)
      /\ op.cs + op.n - 1 <= Size
  BY <1>1 DEF Result, Writes, Loop, Written, TheCall, Legal, Size
<1>n. /\ op.cs \in Nat /\ op.n \in Nat /\ Size \in Nat /\ op.cs >= 1
  BY <1>1, NumbersOf
<1>3. CASE n = 0 /\ Returns(op.cs)
  <2>1. ret' = op.cs /\ mem' = mem /\ ret' # Running
    BY <1>n, <1>3 DEF Returns, Running
  <2>2. \A a \in 1 .. Size : a \in BytesDone <=> a \in op.cs .. op.cs + op.n - 1
    BY <1>n, <1>2, <1>3 DEF BytesDone, Counting
  <2> QED
    BY <1>1, <1>2, <2>1, <2>2, Finishes
<1>4. CASE n > 0 /\ mem' = [mem EXCEPT ![cs] = Byte_(op.c)] /\ Step(1, 0, -1)
  <2>1. cs' = cs + 1 /\ n' = n - 1 /\ at' = at /\ ret' = ret
    BY <1>2, <1>n, <1>4 DEF Step, Counting
  <2>2. Counting' /\ cs \in Int /\ cs >= 1 /\ cs >= op.cs /\ cs <= Size
    BY <1>1, <1>2, <1>4, <1>n, <2>1, Counts
  <2>3. Loop'
    BY <1>1, <1>2, <2>1, <2>2 DEF Loop
  <2>4. \A a \in 1 .. Size : a \in BytesDone' <=> a = cs \/ a \in BytesDone
    BY <1>n, <1>2, <2>1, <2>2 DEF BytesDone
  <2>5. MemoryInv'
    BY SMTT(60), <1>1, <1>2, <1>4, <2>2, <2>4, SameCall DEF MemoryInv
  <2> QED
    BY <1>1, <2>1, <2>3, <2>5, GoesOn
<1> QED
  BY <1>3, <1>4 DEF memset

\* A comparison of k-th bytes: what it reads is op's.
LEMMA Compared ==
  ASSUME TheCall, MemoryInv, ~Writes, NEW k \in Nat,
         cs = op.cs + k, ct = op.ct + k, cs <= Size, ct <= Size
  PROVE  /\ cs \in 1 .. Size /\ ct \in 1 .. Size
         /\ mem[cs] = op.mem[op.cs + k] /\ mem[ct] = op.mem[op.ct + k]
         /\ mem[cs] = mem[ct] <=> Same(k)
         /\ mem[cs] \in 0 .. 255 /\ mem[ct] \in 0 .. 255
<1>1. cs \in 1 .. Size /\ ct \in 1 .. Size
  BY NumbersOf
<1>2. mem[cs] = op.mem[cs] /\ mem[ct] = op.mem[ct]
  BY <1>1 DEF MemoryInv
<1>3. op.mem[cs] \in 0 .. 255 /\ op.mem[ct] \in 0 .. 255
  BY <1>1, BytesOf
<1> QED
  BY <1>1, <1>2, <1>3 DEF Same

\* The difference at the first place that differs.
LEMMA DifferenceAt ==
  ASSUME NEW places \in SUBSET Nat, NEW k \in places, ~Same(k),
         \A j \in 0 .. k - 1 : Same(j)
  PROVE  Difference(places) = op.mem[op.cs + k] - op.mem[op.ct + k]
<1> DEFINE differ == {j \in places : ~Same(j)}
<1>1. k \in differ /\ \A j \in differ : k <= j
  <2>1. k \in Nat /\ k \in differ
    OBVIOUS
  <2>2. ASSUME NEW j \in differ PROVE k <= j
    <3>1. j \in Nat /\ ~Same(j)
      OBVIOUS
    <3> HIDE DEF differ
    <3> QED
      BY <2>1, <3>1
  <2> QED
    BY <2>1, <2>2
<1>2. differ \subseteq Int
  <2>1. places \subseteq Int
    <3>1. Nat \subseteq Int
      OBVIOUS
    <3> QED
      BY <3>1, Zenon
  <2> QED
    BY <2>1, Zenon
<1>3. Difference(places) = IF differ = {} THEN 0
        ELSE op.mem[op.cs + Min(differ)] - op.mem[op.ct + Min(differ)]
  BY DEF Difference
<1> HIDE DEF differ
<1>4. Min(differ) = k
  BY <1>1, <1>2, LeastOf
<1> QED
  BY <1>1, <1>3, <1>4

\* No difference of bytes is the model's mark of a function that runs.
LEMMA NoCode ==
  ASSUME NEW x \in 0 .. 255, NEW y \in 0 .. 255
  PROVE  x - y # Running
BY DEF Running

LEMMA NoDifference ==
  ASSUME NEW places, \A j \in places : Same(j)
  PROVE  Difference(places) = 0
BY DEF Difference

\* One more place agrees.
LEMMA AgreeOn ==
  ASSUME op' = op, op.cs \in Int, NEW k \in Nat, cs = op.cs + k, cs' = cs + 1,
         Agreed, Same(k)
  PROVE  Agreed'
<1>1. \A j \in 0 .. cs' - op.cs - 1 : j \in 0 .. cs - op.cs - 1 \/ j = k
  OBVIOUS
<1> QED
  BY <1>1, SameCall DEF Agreed

LEMMA MemcmpKeeps ==
  ASSUME op' = op, StringsInv, memcmp
  PROVE  StringsInv'
<1>1. /\ ret = Running /\ op.fn = "memcmp"
      /\ TheCall /\ Loop /\ MemoryInv
  BY DEF memcmp, In, StringsInv
<1>2. /\ Result = Difference(0 .. op.n - 1) /\ ~Writes
      /\ Counting /\ Both /\ Agreed
      /\ Operands = (op.cs .. op.cs + op.n - 1) \cup (op.ct .. op.ct + op.n - 1)
  BY <1>1 DEF Result, Writes, Loop, Operands
<1>l. op.cs + op.n - 1 <= Size /\ op.ct + op.n - 1 <= Size
  BY <1>1 DEF TheCall, Legal, Size
<1>n. /\ op.cs \in Nat /\ op.ct \in Nat /\ op.n \in Nat /\ Size \in Nat
  BY <1>1, NumbersOf
<1>3. CASE n = 0 /\ Returns(0) /\ UNCHANGED reads
  <2>1. \A k \in 0 .. op.n - 1 : Same(k)
    <3>1. cs - op.cs = op.n
      BY <1>n, <1>2, <1>3 DEF Counting
    <3> QED
      BY <1>2, <3>1 DEF Agreed
  <2>2. Difference(0 .. op.n - 1) = 0
    BY <2>1, NoDifference
  <2>3. ret' = Result /\ mem' = mem /\ ret' # Running
    BY <1>2, <1>3, <2>2 DEF Returns, Running
  <2> QED
    BY <1>1, <1>2, <1>3, <2>3, Finishes
<1> DEFINE k == op.n - n
<1>4. ASSUME n > 0, Read({cs, ct})
      PROVE  /\ k \in Nat /\ k \in 0 .. op.n - 1 /\ cs = op.cs + k /\ ct = op.ct + k
             /\ cs <= Size /\ ct <= Size /\ reads' \subseteq reads \cup Operands
  <2>1. /\ k \in Nat /\ k \in 0 .. op.n - 1 /\ cs = op.cs + k /\ ct = op.ct + k
    BY <1>n, <1>2, <1>4 DEF Counting, Both
  <2> HIDE DEF k
  <2>2. /\ cs \in op.cs .. op.cs + op.n - 1 /\ cs <= Size
        /\ ct \in op.ct .. op.ct + op.n - 1 /\ ct <= Size
    BY <1>n, <1>l, <2>1
  <2> QED
    BY <1>2, <1>4, <2>1, <2>2 DEF Read
<1>a. \A j \in 0 .. k - 1 : Same(j)
  BY <1>n, <1>2 DEF Counting, Agreed
<1> HIDE DEF k
<1>5. CASE n > 0 /\ Read({cs, ct}) /\ mem[cs] # mem[ct] /\ Returns(mem[cs] - mem[ct])
  <2>1. /\ ~Same(k) /\ mem[cs] \in 0 .. 255 /\ mem[ct] \in 0 .. 255
        /\ mem[cs] = op.mem[op.cs + k] /\ mem[ct] = op.mem[op.ct + k]
    BY <1>1, <1>2, <1>4, <1>5, Compared
  <2>2. Difference(0 .. op.n - 1) = mem[cs] - mem[ct]
    <3>1. k \in 0 .. op.n - 1 /\ 0 .. op.n - 1 \in SUBSET Nat
      BY <1>4, <1>5
    <3> QED
      BY ZenonT(60), <1>a, <2>1, <3>1, DifferenceAt
  <2>3. ret' = Result /\ mem' = mem
    BY <1>2, <1>5, <2>2 DEF Returns
  <2>4. ret' # Running
    BY <1>5, <2>1, NoCode DEF Returns
  <2> QED
    BY <1>1, <1>2, <1>4, <1>5, <2>3, <2>4, Finishes
<1>6. CASE n > 0 /\ Read({cs, ct}) /\ mem[cs] = mem[ct] /\ Step(1, 1, -1) /\ UNCHANGED mem
  <2>1. cs' = cs + 1 /\ ct' = ct + 1 /\ n' = n - 1 /\ ret' = ret /\ mem' = mem
    BY <1>n, <1>2, <1>6 DEF Step, Counting
  <2>2. Same(k)
    BY <1>1, <1>2, <1>4, <1>6, Compared
  <2>3. Agreed'
    BY <1>n, <1>2, <1>4, <1>6, <2>1, <2>2, AgreeOn
  <2>4. Loop'
    BY <1>1, <1>2, <1>6, <2>1, <2>3, Counts DEF Loop
  <2> QED
    BY <1>1, <1>2, <1>4, <1>6, <2>1, <2>4, GoesOn, Untouched
<1> QED
  BY <1>3, <1>5, <1>6 DEF memcmp

\* A byte written where the loop stands is what the function promises there.
LEMMA WritesByte ==
  ASSUME op' = op, MemoryInv, Writes, NEW p \in 1 .. Size, NEW v,
         \A a \in 1 .. Size : a \in BytesDone' <=> a = p \/ a \in BytesDone,
         mem' = [mem EXCEPT ![p] = v], v = Written(p - op.cs)
  PROVE  MemoryInv'
BY SameCall DEF MemoryInv

\* The byte memcpy reads for place x is the one promised there, whether it is
\* before the loop, or behind it because the copy overlaps: words that overlap
\* are a word apart.
LEMMA CopySource ==
  ASSUME TheCall, op.fn = "memcpy", Loop, MemoryInv, NEW j \in Nat, j < n,
         j = 0 \/ (Aligned(op) /\ j < WordSize)
  PROVE  /\ ct + j \in 1 .. Size /\ ct + j \in Operands
         /\ mem[ct + j] = Written(cs + j - op.cs)
<1>1. /\ op.cs \in Nat /\ op.ct \in Nat /\ op.n \in Nat /\ Size \in Nat
      /\ op.cs >= 1 /\ op.ct >= 1
  BY NumbersOf
<1>2. Counting /\ Both /\ op.cs # op.ct /\ at # "backward" /\ Writes
  BY DEF Loop, Writes
<1>3. op.cs + op.n - 1 <= Size /\ op.ct + op.n - 1 <= Size
  BY DEF TheCall, Legal, Size
<1> DEFINE x == (op.n - n) + j
           s == ct + j
<1>4. /\ x \in Nat /\ x <= op.n - 1 /\ x >= j /\ s = op.ct + x /\ s \in Int
      /\ cs + j - op.cs = x /\ cs = op.cs + x - j
  BY <1>1, <1>2 DEF Counting, Both
<1> HIDE DEF x, s
<1>5. s \in 1 .. Size /\ s \in op.ct .. op.ct + op.n - 1
  BY <1>1, <1>3, <1>4
<1>6. BytesDone = op.cs .. cs - 1
  BY <1>2 DEF BytesDone
<1>7. /\ s \in BytesDone => mem[s] = Written(s - op.cs)
      /\ s \notin BytesDone => mem[s] = op.mem[s]
  BY <1>2, <1>5 DEF MemoryInv
<1>8. mem[s] = Written(x)
  <2>1. CASE op.cs < op.ct
    <3>1. s \notin BytesDone
      BY SMTT(60), <1>1, <1>4, <1>6, <2>1
    <3>2. Written(x) = op.mem[op.ct + x]
      <4>1. ~(op.cs > op.ct)
        BY <1>1, <2>1
      <4> QED
        BY <4>1 DEF Written
    <3> QED
      BY <1>4, <1>7, <3>1, <3>2
  <2>2. CASE op.cs > op.ct
    <3> DEFINE d == op.cs - op.ct
    <3>1. d \in Nat \ {0} /\ d \in Int /\ op.cs = op.ct + d
      BY <1>1, <2>2
    <3>2. j < d
      <4>1. CASE j = 0
        BY <3>1, <4>1
      <4>2. CASE Aligned(op) /\ j < WordSize
        <5>1. (op.cs - 1) % WordSize = 0 /\ (op.ct - 1) % WordSize = 0
          BY <4>2 DEF Aligned
        <5>2. op.cs - 1 \in Nat /\ op.ct - 1 \in Nat /\ op.cs - 1 > op.ct - 1
          BY <1>1, <2>2
        <5>3. (op.cs - 1) - (op.ct - 1) >= WordSize
          BY <5>1, <5>2, MultiplesApart, StringsAssumption
        <5> QED
          BY <1>1, <4>2, <5>3, StringsAssumption
      <4> QED
        BY <4>1, <4>2
    <3>3. \A y : Written(y) = op.mem[op.ct + (y % d)]
      BY <2>2 DEF Written
    <3> HIDE DEF d
    <3>4. CASE x < d
      <4>1. s \notin BytesDone
        BY <1>1, <1>4, <1>6, <3>1, <3>4
      <4>2. x % d = x
        BY <1>4, <3>1, <3>4
      <4>3. Written(x) = op.mem[s]
        BY <1>4, <3>3, <4>2
      <4> QED
        BY <1>7, <1>4, <4>1, <4>3
    <3>5. CASE x >= d
      <4>1. s \in BytesDone /\ s - op.cs = x - d
        <5>1. s >= op.cs /\ s <= cs - 1 /\ s - op.cs = x - d /\ cs \in Int
          BY <1>1, <1>4, <3>1, <3>2, <3>5
        <5> QED
          BY <1>1, <1>4, <1>6, <5>1
      <4>2. (x - d) % d = x % d
        BY <1>4, <3>1, <3>5, RemainderRepeats
      <4>3. Written(x - d) = Written(x)
        BY <3>3, <4>2
      <4> QED
        BY <1>7, <1>4, <4>1, <4>3
    <3> QED
      BY <1>4, <3>1, <3>4, <3>5
  <2> QED
    BY <1>1, <1>2, <2>1, <2>2
<1>10. Operands = op.ct .. op.ct + op.n - 1
  BY DEF Operands
<1> QED
  BY <1>4, <1>5, <1>8, <1>10 DEF s

LEMMA MemcpyKeeps ==
  ASSUME op' = op, StringsInv, memcpy
  PROVE  StringsInv'
<1>1. ret = Running /\ op.fn = "memcpy" /\ TheCall /\ Loop /\ MemoryInv
  BY DEF memcpy, In, StringsInv
<1>2. /\ Counting /\ Both /\ op.cs # op.ct /\ at \in {"words", "bytes"}
      /\ (at = "words" => Aligned(op)) /\ Writes /\ Result = op.cs
      /\ BytesDone = op.cs .. cs - 1 /\ at # "backward"
  BY <1>1 DEF Loop, Writes, Result, BytesDone
<1>3. /\ op.cs \in Nat /\ op.ct \in Nat /\ op.n \in Nat /\ Size \in Nat
      /\ op.cs >= 1 /\ n \in Int /\ cs = op.cs + (op.n - n) /\ n >= 0 /\ n <= op.n
  BY <1>1, <1>2, NumbersOf DEF Counting
<1>4. op.cs + op.n - 1 <= Size
  BY <1>1 DEF TheCall, Legal, Size
<1>5. CASE CopyWord
  <2>1. /\ at = "words" /\ n >= WordSize /\ WordSize \in Nat \ {0}
        /\ reads' = reads \cup (ct .. ct + WordSize - 1)
        /\ mem' = [a \in DOMAIN mem |-> IF a \in cs .. cs + WordSize - 1
                                        THEN mem[ct + (a - cs)] ELSE mem[a]]
        /\ cs' = cs + WordSize /\ ct' = ct + WordSize /\ n' = n + (-WordSize)
        /\ at' = at /\ ret' = ret
    BY <1>5, StringsAssumption DEF CopyWord, Step, Read
  <2>2. \A j \in 0 .. WordSize - 1 :
           /\ ct + j \in Operands
           /\ mem[ct + j] = Written(cs + j - op.cs)
    BY SMTT(60), <1>1, <1>2, <1>3, <2>1, CopySource
  <2>3. ct \in Int /\ cs \in Int
    BY <1>2, <1>3 DEF Both
  <2>4. reads' \subseteq reads \cup Operands
    <3>1. ASSUME NEW a \in ct .. ct + WordSize - 1 PROVE a \in Operands
      <4>1. a - ct \in 0 .. WordSize - 1 /\ ct + (a - ct) = a
        BY <2>1, <2>3
      <4> QED
        BY <2>2, <4>1
    <3> QED
      BY <2>1, <3>1
  <2>5. Counting' /\ Both'
    <3>1. n' \in Int /\ n' >= 0 /\ n' <= op.n /\ cs' = op.cs + (op.n - n')
      BY <1>3, <2>1
    <3>2. ct' = op.ct + (op.n - n')
      <4>1. ct = op.ct + (op.n - n)
        BY <1>2 DEF Both
      <4> QED
        BY <1>3, <2>1, <4>1
    <3> QED
      BY <1>3, <3>1, <3>2 DEF Counting, Both
  <2>6. BytesDone' = op.cs .. cs + WordSize - 1
    BY <1>2, <1>3, <2>1, <2>3 DEF BytesDone
  <2>7. MemoryInv'
    <3>1. DOMAIN mem' = 1 .. Size
      BY <1>1, <2>1 DEF MemoryInv
    <3>2. ASSUME NEW a \in 1 .. Size
          PROVE  mem'[a] = IF a \in BytesDone' THEN Written(a - op.cs) ELSE op.mem[a]
      <4>1. CASE a \in cs .. cs + WordSize - 1
        <5>1. a - cs \in 0 .. WordSize - 1 /\ cs + (a - cs) - op.cs = a - op.cs
          BY <1>3, <2>1, <2>3, <4>1
        <5>2. mem[ct + (a - cs)] = Written(a - op.cs)
          BY <2>2, <5>1
        <5>3. a \in op.cs .. cs + WordSize - 1
          BY <1>3, <2>1, <4>1
        <5>4. mem'[a] = mem[ct + (a - cs)]
          BY <1>1, <2>1, <4>1 DEF MemoryInv
        <5> QED
          BY <2>6, <5>2, <5>3, <5>4
      <4>2. CASE a \notin cs .. cs + WordSize - 1
        <5>1. a \in BytesDone' <=> a \in BytesDone
          BY SMTT(60), <1>2, <1>3, <2>1, <2>3, <2>6, <4>2
        <5>2. mem'[a] = mem[a]
          BY <1>1, <2>1, <4>2 DEF MemoryInv
        <5> QED
          BY <1>1, <1>2, <5>1, <5>2 DEF MemoryInv
      <4> QED
        BY <4>1, <4>2
    <3> QED
      BY <1>2, <3>1, <3>2, SameCall DEF MemoryInv
  <2>8. Loop'
    BY <1>1, <1>2, <2>1, <2>5 DEF Loop
  <2> QED
    BY <1>1, <2>1, <2>4, <2>7, <2>8, GoesOn
<1>6. CASE /\ at = "words" /\ n < WordSize /\ at' = "bytes"
           /\ UNCHANGED <<mem, cs, ct, n, last, ret, reads>>
  <2>1. Counting' /\ Both'
    BY <1>2, <1>6 DEF Counting, Both
  <2>2. Loop'
    BY <1>1, <1>2, <1>6, <2>1 DEF Loop
  <2>3. BytesDone' = BytesDone
    BY <1>2, <1>6 DEF BytesDone
  <2>4. MemoryInv'
    BY <1>1, <1>6, <2>3, SameCall DEF MemoryInv
  <2> QED
    BY <1>1, <1>6, <2>2, <2>4, GoesOn
<1>7. CASE at = "bytes" /\ CopyByte
  <2>1. /\ n > 0 /\ reads' = reads \cup {ct} /\ mem' = [mem EXCEPT ![cs] = mem[ct]]
        /\ cs' = cs + 1 /\ ct' = ct + 1 /\ n' = n - 1 /\ at' = at /\ ret' = ret
    BY <1>3, <1>7 DEF CopyByte, Step, Read
  <2>2. /\ ct \in Operands /\ mem[ct] = Written(cs - op.cs)
    <3>1. PICK j \in Nat : j = 0
      OBVIOUS
    <3>2. ct + j = ct /\ cs + j - op.cs = cs - op.cs
      BY <1>2, <1>3, <3>1 DEF Both
    <3>3. ct + j \in Operands /\ mem[ct + j] = Written(cs + j - op.cs)
      BY <1>1, <1>3, <2>1, <3>1, CopySource
    <3> QED
      BY <3>2, <3>3, Zenon
  <2>3. Counting' /\ Both' /\ cs \in 1 .. Size
    <3>1. cs \in 1 .. Size
      BY <1>3, <1>4, <2>1
    <3> QED
      BY <1>1, <1>2, <2>1, <3>1, Counts
  <2>4. Loop'
    BY <1>1, <1>2, <2>1, <2>3 DEF Loop
  <2>5. \A a \in 1 .. Size : a \in BytesDone' <=> a = cs \/ a \in BytesDone
    BY <1>2, <1>3, <2>1, <2>3 DEF BytesDone
  <2>6. MemoryInv'
    BY <1>1, <1>2, <2>1, <2>2, <2>3, <2>5, WritesByte
  <2> QED
    BY <1>1, <2>1, <2>2, <2>4, <2>6, GoesOn
<1>8. CASE at = "bytes" /\ n <= 0 /\ Returns(op.cs) /\ UNCHANGED reads
  <2>1. ret' = Result /\ ret' # Running /\ mem' = mem
    BY <1>2, <1>3, <1>8 DEF Returns, Running
  <2>2. BytesDone = op.cs .. op.cs + op.n - 1
    BY SMTT(60), <1>2, <1>3, <1>8
  <2> QED
    BY <1>1, <1>8, <2>1, <2>2, Finishes
<1> QED
  BY <1>5, <1>6, <1>7, <1>8 DEF memcpy

LEMMA MemmoveKeeps ==
  ASSUME op' = op, StringsInv, memmove
  PROVE  StringsInv'
<1>1. ret = Running /\ op.fn = "memmove" /\ TheCall /\ Loop /\ MemoryInv
  BY DEF memmove, In, StringsInv
<1>2. /\ Writes /\ Result = op.cs /\ \A k : Written(k) = op.mem[op.ct + k]
      /\ Operands = op.ct .. op.ct + op.n - 1
  BY <1>1 DEF Writes, Result, Written, Operands
<1>3. /\ op.cs \in Nat /\ op.ct \in Nat /\ op.n \in Nat /\ Size \in Nat
      /\ op.cs >= 1 /\ op.ct >= 1 /\ n \in Int /\ n >= 0 /\ n <= op.n
  BY <1>1, NumbersOf DEF Counting, Loop
<1>4. op.cs + op.n - 1 <= Size /\ op.ct + op.n - 1 <= Size
  BY <1>1 DEF TheCall, Legal, Size
<1>5. \/ /\ Counting /\ Both /\ op.cs < op.ct /\ at = "forward"
         /\ BytesDone = op.cs .. cs - 1 /\ cs = op.cs + (op.n - n)
         /\ ct = op.ct + (op.n - n)
      \/ /\ cs = op.cs + n /\ ct = op.ct + n /\ op.ct < op.cs
         /\ at = "backward" /\ BytesDone = cs .. op.cs + op.n - 1
  BY <1>1 DEF Loop, BytesDone, Counting, Both
<1>6. CASE at = "forward" /\ CopyByte
  <2>1. /\ n > 0 /\ reads' = reads \cup {ct} /\ mem' = [mem EXCEPT ![cs] = mem[ct]]
        /\ cs' = cs + 1 /\ ct' = ct + 1 /\ n' = n - 1 /\ at' = at /\ ret' = ret
    BY <1>3, <1>6 DEF CopyByte, Step, Read
  <2>2. ct \in 1 .. Size /\ ct \notin BytesDone /\ ct \in Operands
    <3>1. /\ ct = op.ct + (op.n - n) /\ cs = op.cs + (op.n - n) /\ op.cs < op.ct
          /\ BytesDone = op.cs .. cs - 1
      BY <1>5, <1>6
    <3>2. ct \in op.ct .. op.ct + op.n - 1 /\ ct <= Size /\ ct >= 1
      <4>1. n > 0 /\ ct = op.ct + (op.n - n)
        BY <2>1, <3>1
      <4> QED
        BY <1>3, <1>4, <4>1
    <3>3. ct \notin BytesDone
      <4>1. ct > cs - 1
        BY <1>3, <3>1
      <4> QED
        BY <3>1, <4>1
    <3> QED
      BY <1>2, <1>3, <3>2, <3>3
  <2>3. mem[ct] = Written(cs - op.cs)
    <3>1. ct = op.ct + (cs - op.cs)
      BY <1>3, <1>5, <1>6
    <3> QED
      BY <1>1, <1>2, <2>2, <3>1 DEF MemoryInv
  <2>4. Counting' /\ Both' /\ cs \in 1 .. Size
    <3>1. Counting /\ Both /\ cs = op.cs + (op.n - n)
      BY <1>5, <1>6
    <3>2. cs \in 1 .. Size
      BY <1>3, <1>4, <2>1, <3>1
    <3> QED
      BY <1>1, <2>1, <3>1, <3>2, Counts
  <2>5. Loop'
    BY <1>1, <1>5, <1>6, <2>1, <2>4 DEF Loop
  <2>6. \A a \in 1 .. Size : a \in BytesDone' <=> a = cs \/ a \in BytesDone
    BY <1>3, <1>5, <1>6, <2>1, <2>4 DEF BytesDone
  <2>7. MemoryInv'
    BY <1>1, <1>2, <2>1, <2>3, <2>4, <2>6, WritesByte
  <2> QED
    BY <1>1, <2>1, <2>2, <2>5, <2>7, GoesOn
<1>7. CASE /\ at = "backward" /\ n > 0 /\ Read({ct - 1})
           /\ mem' = [mem EXCEPT ![cs - 1] = mem[ct - 1]] /\ Step(-1, -1, -1)
  <2>1. /\ reads' = reads \cup {ct - 1}
        /\ cs' = cs - 1 /\ ct' = ct - 1 /\ n' = n - 1 /\ at' = at /\ ret' = ret
    BY <1>3, <1>5, <1>7 DEF Step, Read
  <2>2. ct - 1 \in 1 .. Size /\ ct - 1 \notin BytesDone /\ ct - 1 \in Operands
    <3>1. /\ n > 0 /\ cs = op.cs + n /\ ct = op.ct + n /\ op.ct < op.cs
          /\ BytesDone = cs .. op.cs + op.n - 1
      BY <1>5, <1>7
    <3>2. ct - 1 \in 1 .. Size /\ ct - 1 \in op.ct .. op.ct + op.n - 1
      <4>1. n > 0 /\ ct = op.ct + n
        BY <3>1
      <4>2. ct - 1 >= op.ct /\ ct - 1 <= op.ct + op.n - 1 /\ ct - 1 \in Int
        BY <1>3, <4>1
      <4> QED
        BY <1>3, <1>4, <4>2
    <3>3. cs \in Int /\ ct - 1 \in Int /\ ct - 1 < cs
      BY <1>3, <3>1
    <3>4. ct - 1 \notin cs .. op.cs + op.n - 1
      BY <3>3
    <3> QED
      BY <1>2, <3>1, <3>2, <3>4
  <2>3. mem[ct - 1] = Written(cs - 1 - op.cs)
    <3>1. ct - 1 = op.ct + (cs - 1 - op.cs)
      BY <1>3, <1>5, <1>7
    <3> QED
      BY <1>1, <1>2, <2>2, <3>1 DEF MemoryInv
  <2>4. cs - 1 \in 1 .. Size
    BY SMTT(60), <1>3, <1>4, <1>5, <1>7
  <2>5. Loop'
    BY SMTT(60), <1>1, <1>3, <1>5, <1>7, <2>1 DEF Loop
  <2>6. \A a \in 1 .. Size : a \in BytesDone' <=> a = cs - 1 \/ a \in BytesDone
    BY <1>3, <1>5, <1>7, <2>1, <2>4 DEF BytesDone
  <2>7. MemoryInv'
    BY <1>1, <1>2, <1>7, <2>3, <2>4, <2>6, WritesByte
  <2> QED
    BY <1>1, <2>1, <2>2, <2>5, <2>7, GoesOn
<1>8. CASE n = 0 /\ Returns(op.cs) /\ UNCHANGED reads
  <2>1. ret' = Result /\ ret' # Running /\ mem' = mem
    BY <1>2, <1>3, <1>8 DEF Returns, Running
  <2>2. BytesDone = op.cs .. op.cs + op.n - 1
    BY <1>3, <1>5, <1>8
  <2> QED
    BY <1>1, <1>8, <2>1, <2>2, Finishes
<1> QED
  BY <1>6, <1>7, <1>8 DEF memmove

------------------------------------------------------------------------------
(* The functions that look for a byte or for the end of a string. *)

\* A string that is an operand: where it ends, and that a place in it whose
\* byte is 0 is its end.
LEMMA OperandString ==
  ASSUME TheCall, NEW first \in {op.cs, op.ct}, IsString(op.mem, first)
  PROVE  /\ End(op.mem, first) \in Nat /\ End(op.mem, first) <= Size
         /\ first <= End(op.mem, first) /\ op.mem[End(op.mem, first)] = 0
         /\ \A p : InString(p, first) =>
               /\ p \in 1 .. Size /\ p \in Nat /\ p \in Upto(first)
               /\ op.mem[p] = 0 <=> p = End(op.mem, first)
               /\ op.mem[p] # 0 => InString(p + 1, first)
<1> DEFINE e == End(op.mem, first)
<1>1. first \in Nat /\ first >= 1 /\ Size \in Nat
  BY NumbersOf
<1>2. e \in first .. Size - 1 /\ op.mem[e] = 0 /\ \A k \in first .. e - 1 : op.mem[k] # 0
  BY <1>1, EndOfString DEF Size
<1>3. Upto(first) = first .. e /\ \A p : InString(p, first) <=> p \in first .. e
  BY DEF Upto, InString
<1> HIDE DEF e
<1>4. e \in Nat /\ e <= Size /\ first <= e
  BY <1>1, <1>2
<1>5. ASSUME NEW p \in first .. e
      PROVE  /\ p \in 1 .. Size /\ p \in Nat
             /\ op.mem[p] = 0 <=> p = e
             /\ op.mem[p] # 0 => p + 1 \in first .. e
  <2>1. p \in 1 .. Size /\ p \in Nat
    BY <1>1, <1>4
  <2>2. p = e \/ p \in first .. e - 1
    BY <1>1, <1>4
  <2>3. p = e \/ p + 1 \in first .. e
    BY <1>1, <1>4, <2>2
  <2> QED
    BY <1>2, <2>1, <2>2, <2>3
<1>6. ASSUME NEW p, InString(p, first)
      PROVE  /\ p \in 1 .. Size /\ p \in Nat /\ p \in Upto(first)
             /\ op.mem[p] = 0 <=> p = e
             /\ op.mem[p] # 0 => InString(p + 1, first)
  BY <1>3, <1>5, <1>6
<1> QED
  BY <1>2, <1>4, <1>6 DEF e

\* The first place with the byte looked for, and no such place.
LEMMA FirstAt ==
  ASSUME NEW S \in SUBSET Nat, NEW a \in S, op.mem[a] = Byte_(op.c),
         \A b \in S : b < a => op.mem[b] # Byte_(op.c)
  PROVE  First(Found(S)) = a
<1> DEFINE T == Found(S)
<1>1. T \subseteq S
  BY DEF Found
<1>2. T \subseteq Int
  <2>1. S \subseteq Int
    <3>1. Nat \subseteq Int
      OBVIOUS
    <3> QED
      BY <3>1, Zenon
  <2> QED
    BY <1>1, <2>1, Zenon
<1>3. a \in T /\ \A b \in T : ~(b < a)
  BY DEF Found
<1>4. \A b \in T : a <= b
  <2> HIDE DEF T
  <2> QED
    BY <1>2, <1>3
<1>5. Min(T) = a
  <2> HIDE DEF T
  <2> QED
    BY <1>2, <1>3, <1>4, LeastOf
<1> QED
  BY <1>3, <1>5 DEF First

LEMMA FirstNone ==
  ASSUME NEW S, Missing(S)
  PROVE  First(Found(S)) = NoPointer
BY DEF Missing, First, Found

\* One more place does not hold the byte.
LEMMA MissingOn ==
  ASSUME NEW p \in Int, NEW q \in Int, Missing(p .. q - 1),
         op.mem[q] # Byte_(op.c)
  PROVE  Missing(p .. q)
<1>1. \A a \in p .. q : a \in p .. q - 1 \/ a = q
  OBVIOUS
<1> QED
  BY <1>1 DEF Missing

LEMMA MemchrKeeps ==
  ASSUME op' = op, StringsInv, memchr
  PROVE  StringsInv'
<1>1. ret = Running /\ op.fn = "memchr" /\ TheCall /\ Loop /\ MemoryInv
  BY DEF memchr, In, StringsInv
<1>2. /\ Counting /\ Missing(op.cs .. cs - 1) /\ ~Writes
      /\ Result = First(Found(op.cs .. op.cs + op.n - 1))
      /\ Operands = op.cs .. op.cs + op.n - 1
  BY <1>1 DEF Loop, Writes, Result, Operands
<1>3. /\ op.cs \in Nat /\ op.n \in Nat /\ Size \in Nat /\ op.cs >= 1
      /\ n \in Int /\ n >= 0 /\ n <= op.n /\ cs = op.cs + (op.n - n) /\ cs \in Nat
  <2>1. op.cs \in Nat /\ op.n \in Nat /\ Size \in Nat /\ op.cs >= 1
    BY <1>1, NumbersOf
  <2>2. n \in 0 .. op.n /\ cs = op.cs + (op.n - n)
    BY <1>2 DEF Counting
  <2> QED
    BY <2>1, <2>2
<1>4. op.cs + op.n - 1 <= Size
  BY <1>1 DEF TheCall, Legal, Size
<1>5. CASE n = 0 /\ Returns(NoPointer) /\ UNCHANGED reads
  <2>1. cs - 1 = op.cs + op.n - 1
    BY <1>3, <1>5
  <2>2. ret' = Result /\ ret' # Running /\ mem' = mem
    BY <1>2, <1>5, <2>1, FirstNone DEF Returns, Running, NoPointer
  <2> QED
    BY <1>1, <1>2, <1>5, <2>2, Finishes
<1>6. ASSUME n > 0, Read({cs})
      PROVE  /\ cs \in 1 .. Size /\ cs \in op.cs .. op.cs + op.n - 1
             /\ mem[cs] = op.mem[cs] /\ reads' \subseteq reads \cup Operands
  <2>1. /\ cs \in 1 .. Size /\ cs \in op.cs .. op.cs + op.n - 1
    BY <1>3, <1>4, <1>6
  <2> QED
    BY <1>1, <1>2, <1>6, <2>1 DEF MemoryInv, Read
<1>7. CASE n > 0 /\ Read({cs}) /\ mem[cs] = Byte_(op.c) /\ Returns(cs)
  <2>1. \A b \in op.cs .. op.cs + op.n - 1 : b < cs => op.mem[b] # Byte_(op.c)
    BY SMTT(60), <1>2, <1>3 DEF Missing
  <2>2. op.cs .. op.cs + op.n - 1 \in SUBSET Nat
    BY <1>3
  <2>3. Result = cs
    BY <1>2, <1>6, <1>7, <2>1, <2>2, FirstAt
  <2>4. ret' = Result /\ ret' # Running /\ mem' = mem
    BY <1>3, <1>7, <2>3 DEF Returns, Running
  <2> QED
    BY <1>1, <1>2, <1>6, <1>7, <2>4, Finishes
<1>8. CASE n > 0 /\ Read({cs}) /\ mem[cs] # Byte_(op.c) /\ Step(1, 0, -1) /\ UNCHANGED mem
  <2>1. cs' = cs + 1 /\ n' = n - 1 /\ ret' = ret /\ mem' = mem
    BY <1>3, <1>8 DEF Step
  <2>3. Missing(op.cs .. cs - 1)'
    <3>1. cs' - 1 = cs
      BY <1>3, <2>1
    <3>2. Missing(op.cs .. cs)
      BY <1>2, <1>3, <1>6, <1>8, MissingOn
    <3> QED
      BY <3>1, <3>2 DEF Missing
  <2>4. Loop'
    BY <1>1, <1>2, <1>8, <2>1, <2>3, Counts DEF Loop
  <2> QED
    BY <1>1, <1>2, <1>6, <1>8, <2>1, <2>4, GoesOn, Untouched
<1> QED
  BY <1>5, <1>7, <1>8 DEF memchr

LEMMA StrlenKeeps ==
  ASSUME op' = op, StringsInv, strlen
  PROVE  StringsInv'
<1>1. ret = Running /\ op.fn = "strlen" /\ TheCall /\ Loop /\ MemoryInv
  BY DEF strlen, In, StringsInv
<1>2. /\ InString(cs, op.cs) /\ ~Writes /\ Operands = Upto(op.cs)
      /\ Result = End(op.mem, op.cs) - op.cs /\ IsString(op.mem, op.cs)
      /\ reads' = reads \cup {cs}
  BY <1>1 DEF Loop, Writes, Result, Operands, TheCall, Legal, strlen, Read
<1>3. /\ cs \in 1 .. Size /\ cs \in Nat /\ cs \in Upto(op.cs) /\ op.cs \in Nat
      /\ op.mem[cs] = 0 <=> cs = End(op.mem, op.cs)
      /\ op.mem[cs] # 0 => InString(cs + 1, op.cs)
      /\ op.cs <= End(op.mem, op.cs) /\ End(op.mem, op.cs) \in Nat
  BY <1>1, <1>2, OperandString, NumbersOf
<1>4. mem[cs] = op.mem[cs]
  BY <1>1, <1>2, <1>3 DEF MemoryInv
<1>5. CASE mem[cs] = 0 /\ Returns(cs - op.cs)
  <2>1. ret' = Result /\ ret' # Running /\ mem' = mem
    BY <1>2, <1>3, <1>4, <1>5 DEF Returns, Running
  <2> QED
    BY <1>1, <1>2, <1>3, <2>1, Finishes
<1>6. CASE mem[cs] # 0 /\ Step(1, 0, 0) /\ UNCHANGED mem
  <2>1. cs' = cs + 1 /\ ret' = ret /\ mem' = mem
    BY <1>6 DEF Step
  <2>2. Loop'
    BY <1>1, <1>3, <1>4, <1>6, <2>1 DEF Loop, InString
  <2> QED
    BY <1>1, <1>2, <1>3, <2>1, <2>2, GoesOn, Untouched
<1> QED
  BY <1>5, <1>6 DEF strlen

LEMMA StrchrKeeps ==
  ASSUME op' = op, StringsInv, strchr
  PROVE  StringsInv'
<1>1. ret = Running /\ op.fn = "strchr" /\ TheCall /\ Loop /\ MemoryInv
  BY DEF strchr, In, StringsInv
<1>2. /\ InString(cs, op.cs) /\ Missing(op.cs .. cs - 1) /\ ~Writes
      /\ Operands = Upto(op.cs) /\ Result = First(Found(Upto(op.cs)))
      /\ IsString(op.mem, op.cs) /\ reads' = reads \cup {cs}
  BY <1>1 DEF Loop, Writes, Result, Operands, TheCall, Legal, strchr, Read
<1>3. /\ cs \in 1 .. Size /\ cs \in Nat /\ cs \in Upto(op.cs) /\ op.cs \in Nat
      /\ op.mem[cs] = 0 <=> cs = End(op.mem, op.cs)
      /\ op.mem[cs] # 0 => InString(cs + 1, op.cs)
      /\ End(op.mem, op.cs) \in Nat
  BY <1>1, <1>2, OperandString, NumbersOf
<1>4. mem[cs] = op.mem[cs]
  BY <1>1, <1>2, <1>3 DEF MemoryInv
<1>5. Upto(op.cs) \in SUBSET Nat
  BY <1>3 DEF Upto
<1>6. CASE mem[cs] = Byte_(op.c) /\ Returns(cs)
  <2>1. \A b \in Upto(op.cs) : b < cs => op.mem[b] # Byte_(op.c)
    BY <1>2, <1>3 DEF Missing, Upto
  <2>2. Result = cs
    BY <1>2, <1>3, <1>4, <1>5, <1>6, <2>1, FirstAt
  <2>3. ret' = Result /\ ret' # Running /\ mem' = mem
    BY <1>3, <1>6, <2>2 DEF Returns, Running
  <2> QED
    BY <1>1, <1>2, <1>3, <2>3, Finishes
<1>7. ASSUME mem[cs] # Byte_(op.c) PROVE Missing(op.cs .. cs)
  BY <1>2, <1>3, <1>4, <1>7, MissingOn
<1>8. CASE mem[cs] # Byte_(op.c) /\ mem[cs] = 0 /\ Returns(NoPointer)
  <2>1. Missing(Upto(op.cs))
    BY <1>3, <1>4, <1>7, <1>8 DEF Upto
  <2>2. ret' = Result /\ ret' # Running /\ mem' = mem
    BY <1>2, <1>8, <2>1, FirstNone DEF Returns, Running, NoPointer
  <2> QED
    BY <1>1, <1>2, <1>3, <2>2, Finishes
<1>9. CASE /\ mem[cs] # Byte_(op.c) /\ mem[cs] # 0
           /\ Step(1, 0, 0) /\ UNCHANGED mem
  <2>1. cs' = cs + 1 /\ ret' = ret /\ mem' = mem
    BY <1>9 DEF Step
  <2>2. Missing(op.cs .. cs - 1)'
    <3>1. cs' - 1 = cs
      BY <1>3, <2>1
    <3> QED
      BY <1>7, <1>9, <3>1 DEF Missing
  <2>3. Loop'
    BY <1>1, <1>3, <1>4, <1>9, <2>1, <2>2 DEF Loop, InString
  <2> QED
    BY <1>1, <1>2, <1>3, <2>1, <2>3, GoesOn, Untouched
<1> QED
  BY <1>6, <1>8, <1>9 DEF strchr

LEMMA StrrchrKeeps ==
  ASSUME op' = op, StringsInv, strrchr
  PROVE  StringsInv'
<1>1. ret = Running /\ op.fn = "strrchr" /\ TheCall /\ Loop /\ MemoryInv
  BY DEF strrchr, In, StringsInv
<1> DEFINE S == Found(Upto(op.cs))
           found == IF mem[cs] = Byte_(op.c) THEN cs ELSE last
           \* p is the last place up to q with the byte looked for.
           End_(p, q) == \/ p = NoPointer /\ Missing(op.cs .. q)
                         \/ /\ p \in op.cs .. q /\ op.mem[p] = Byte_(op.c)
                            /\ Missing(p + 1 .. q)
<1>2. /\ InString(cs, op.cs) /\ ~Writes /\ End_(last, cs - 1)
      /\ Operands = Upto(op.cs)
      /\ Result = IF S = {} THEN NoPointer ELSE Max(S)
      /\ IsString(op.mem, op.cs) /\ reads' = reads \cup {cs}
  BY <1>1 DEF Loop, Writes, Result, Operands, TheCall, Legal, strrchr, Read
<1>3. /\ cs \in 1 .. Size /\ cs \in Nat /\ cs \in Upto(op.cs) /\ op.cs \in Nat
      /\ op.mem[cs] = 0 <=> cs = End(op.mem, op.cs)
      /\ op.mem[cs] # 0 => InString(cs + 1, op.cs)
      /\ End(op.mem, op.cs) \in Nat /\ op.cs >= 1 /\ op.cs <= cs
  <2>1. op.cs <= cs
    BY <1>1, <1>2, NumbersOf, OperandString DEF InString
  <2> QED
    BY <1>1, <1>2, <2>1, OperandString, NumbersOf
<1>4. mem[cs] = op.mem[cs]
  BY <1>1, <1>2, <1>3 DEF MemoryInv
<1>5. End_(found, cs)
  <2>1. CASE mem[cs] = Byte_(op.c)
    <3>1. found \in op.cs .. cs /\ Missing(found + 1 .. cs)
      BY <1>3, <2>1 DEF Missing
    <3> QED
      BY <1>4, <2>1, <3>1
  <2>2. CASE mem[cs] # Byte_(op.c)
    <3>1. found = last
      BY <2>2
    <3>2. CASE last = NoPointer /\ Missing(op.cs .. cs - 1)
      BY <1>3, <1>4, <2>2, <3>1, <3>2, MissingOn
    <3>3. CASE /\ last \in op.cs .. cs - 1 /\ op.mem[last] = Byte_(op.c)
               /\ Missing(last + 1 .. cs - 1)
      <4>1. last + 1 \in Int /\ last \in op.cs .. cs
        BY <1>3, <3>3
      <4>2. Missing(last + 1 .. cs)
        BY <1>3, <1>4, <2>2, <3>3, <4>1, MissingOn
      <4> QED
        BY <3>1, <3>3, <4>1, <4>2
    <3> QED
      BY <1>2, <3>2, <3>3
  <2> QED
    BY <2>1, <2>2
<1>6. CASE /\ mem[cs] # 0 /\ last' = found /\ cs' = cs + 1
           /\ UNCHANGED <<mem, ct, n, at, ret>>
  <2>1. End_(last', cs' - 1)
    <3>1. cs' - 1 = cs
      BY <1>3, <1>6
    <3> QED
      BY <1>5, <1>6, <3>1
  <2>2. Loop'
    BY <1>1, <1>3, <1>4, <1>6, <2>1 DEF Loop, InString, Missing
  <2> QED
    BY <1>1, <1>2, <1>3, <1>6, <2>2, GoesOn, Untouched
<1>7. CASE mem[cs] = 0 /\ Returns(found)
  <2>1. Upto(op.cs) = op.cs .. cs /\ End_(found, cs)
    BY <1>3, <1>4, <1>5, <1>7 DEF Upto
  <2>2. CASE found = NoPointer /\ Missing(op.cs .. cs)
    <3>1. S = {}
      BY <2>1, <2>2 DEF Found, Missing
    <3> QED
      BY <1>1, <1>2, <1>3, <1>7, <2>2, <3>1, Finishes
         DEF Returns, Running, NoPointer
  <2>3. CASE /\ found \in op.cs .. cs /\ op.mem[found] = Byte_(op.c)
             /\ Missing(found + 1 .. cs)
    <3> HIDE DEF found
    <3>1. found \in S /\ S \subseteq Int
      BY <1>3, <2>1, <2>3 DEF Found
    <3>2. \A k \in S : k <= found
      <4>1. ASSUME NEW k \in S, found < k PROVE FALSE
        <5>1. k \in op.cs .. cs /\ op.mem[k] = Byte_(op.c)
          BY <2>1, <4>1 DEF Found
        <5>2. k \in found + 1 .. cs
          BY <1>3, <2>3, <4>1, <5>1
        <5> QED
          BY <2>3, <5>1, <5>2 DEF Missing
      <4> QED
        BY <3>1, <4>1
    <3>3. Max(S) = found
      <4> HIDE DEF S
      <4> QED
        BY <3>1, <3>2, GreatestOf
    <3>4. ret' = Result /\ ret' # Running /\ mem' = mem
      BY <1>2, <1>3, <1>7, <2>3, <3>1, <3>3 DEF Returns, Running
    <3> QED
      BY <1>1, <1>2, <1>3, <3>4, Finishes
  <2> QED
    BY <2>1, <2>2, <2>3
<1> QED
  BY <1>1, <1>6, <1>7 DEF strrchr

LEMMA StrncpyKeeps ==
  ASSUME op' = op, StringsInv, strncpy
  PROVE  StringsInv'
<1>1. ret = Running /\ op.fn = "strncpy" /\ TheCall /\ Loop /\ MemoryInv
  BY DEF strncpy, In, StringsInv
<1> DEFINE e == End(op.mem, op.ct)
<1>2. /\ Counting /\ InString(ct, op.ct) /\ at = "none" /\ Writes
      /\ (IF op.n - n <= e - op.ct THEN Both ELSE ct = e)
      /\ Operands = (op.ct .. op.ct + op.n - 1) \cap Upto(op.ct)
      /\ Result = op.cs /\ IsString(op.mem, op.ct) /\ Upto(op.ct) = op.ct .. e
      /\ \A k : Written(k) = IF op.ct + k \in Upto(op.ct)
                             THEN op.mem[op.ct + k] ELSE 0
  BY <1>1 DEF Loop, Writes, Result, Operands, Written, Upto, TheCall, Legal
<1>3. op.ct > op.cs + op.n - 1 \/ e < op.cs
  BY <1>1 DEF TheCall, Legal
<1>4. /\ op.cs \in Nat /\ op.ct \in Nat /\ op.n \in Nat /\ Size \in Nat /\ op.cs >= 1
      /\ n \in Int /\ n >= 0 /\ n <= op.n /\ cs = op.cs + (op.n - n)
      /\ op.cs + op.n - 1 <= Size /\ op.ct + 0 = op.ct
  <2>1. op.cs + op.n - 1 <= Size
    BY <1>1 DEF TheCall, Legal, Size
  <2> QED
    BY <1>1, <1>2, <2>1, NumbersOf DEF Counting
<1>5. /\ ct \in 1 .. Size /\ ct \in Nat /\ ct \in op.ct .. e /\ e \in Nat
      /\ op.mem[ct] = 0 <=> ct = e
      /\ op.mem[ct] # 0 => InString(ct + 1, op.ct)
      /\ op.mem[e] = 0
  BY <1>1, <1>2, OperandString
<1> HIDE DEF e
<1>6. CASE n = 0 /\ Returns(op.cs) /\ UNCHANGED reads
  <2>1. ret' = Result /\ ret' # Running /\ mem' = mem
    BY <1>2, <1>4, <1>6 DEF Returns, Running
  <2>2. BytesDone = op.cs .. op.cs + op.n - 1
    <3>1. cs - 1 = op.cs + op.n - 1
      BY <1>4, <1>6
    <3> QED
      BY <1>2, <3>1 DEF BytesDone
  <2> QED
    BY <1>1, <1>6, <2>1, <2>2, Finishes
<1>7. CASE /\ n > 0 /\ Read({ct}) /\ mem' = [mem EXCEPT ![cs] = mem[ct]]
           /\ Step(1, IF mem[ct] # 0 THEN 1 ELSE 0, -1)
  <2>1. /\ reads' = reads \cup {ct} /\ cs' = cs + 1 /\ n' = n - 1
        /\ at' = at /\ ret' = ret
        /\ ct' = ct + (IF mem[ct] # 0 THEN 1 ELSE 0)
    BY <1>4, <1>7 DEF Step, Read
  <2>2. /\ Counting' /\ (Both /\ ct' = ct + 1 => Both') /\ cs \in 1 .. Size
    <3>1. cs \in 1 .. Size
      BY <1>4, <1>7
    <3> QED
      BY <1>1, <1>2, <1>7, <2>1, <3>1, Counts
  <2>3. mem[ct] = op.mem[ct]
    <3>1. ct \notin op.cs .. cs - 1
      BY <1>3, <1>4, <1>5
    <3> QED
      BY <1>1, <1>2, <1>5, <3>1 DEF MemoryInv, BytesDone
  <2> DEFINE k == op.n - n
  <2>4. k \in Nat /\ k <= op.n - 1 /\ k = cs - op.cs /\ op.n - n' = k + 1
    BY <1>4, <1>7, <2>1
  <2>5. (k <= e - op.ct /\ ct = op.ct + k) \/ (k > e - op.ct /\ ct = e)
    BY SMTT(60), <1>2, <1>4, <1>5, <2>4 DEF Both
  <2> HIDE DEF k
  <2>6. mem[ct] = Written(cs - op.cs)
    <3>1. CASE k <= e - op.ct /\ ct = op.ct + k
      <4>1. op.ct + k \in Upto(op.ct)
        BY <1>2, <1>5, <3>1
      <4> QED
        BY <1>2, <2>3, <2>4, <3>1, <4>1
    <3>2. CASE k > e - op.ct /\ ct = e
      <4>1. op.ct + k \notin Upto(op.ct)
        BY <1>2, <1>4, <1>5, <2>4, <3>2
      <4> QED
        BY <1>2, <1>5, <2>3, <2>4, <3>2, <4>1
    <3> QED
      BY <2>5, <3>1, <3>2
  <2>7. ct \in Operands
    <3>1. ct <= op.ct + op.n - 1
      BY <1>4, <1>5, <2>4, <2>5
    <3>2. ct \in op.ct .. op.ct + op.n - 1 /\ ct \in Upto(op.ct)
      BY <1>2, <1>4, <1>5, <3>1
    <3> QED
      BY <1>2, <3>2
  <2>8. InString(ct', op.ct)
    BY <1>2, <1>5, <2>1, <2>3
  <2>9. IF k + 1 <= e - op.ct THEN ct' = op.ct + (k + 1) ELSE ct' = e
    <3>1. CASE mem[ct] = 0
      <4>1. ct = e /\ ct' = e
        BY <1>5, <2>1, <2>3, <3>1
      <4> QED
        BY <1>4, <1>5, <2>4, <2>5, <4>1
    <3>2. CASE mem[ct] # 0
      <4>1. ct # e /\ ct' = ct + 1 /\ ct < e
        BY <1>5, <2>1, <2>3, <3>2
      <4>2. k <= e - op.ct /\ ct = op.ct + k
        BY <2>5, <4>1
      <4>3. k + 1 <= e - op.ct /\ ct' = op.ct + (k + 1)
        BY <1>4, <1>5, <2>4, <4>1, <4>2
      <4> QED
        BY <4>3
    <3> QED
      BY <3>1, <3>2
  <2>10. Loop'
    <3>1. InString(ct, op.ct)'
      BY <2>8 DEF InString
    <3>2. IF op.n - n' <= e - op.ct THEN ct' = op.ct + (op.n - n') ELSE ct' = e
      BY <2>4, <2>9
    <3> QED
      BY <1>1, <1>2, <2>1, <2>2, <3>1, <3>2 DEF Loop, Both, e
  <2>11. \A a \in 1 .. Size : a \in BytesDone' <=> a = cs \/ a \in BytesDone
    <3>1. op.cs \in Nat /\ cs \in Int /\ op.cs <= cs
      BY <1>4
    <3> QED
      BY <1>2, <2>1, <3>1, OneMoreDone
  <2>12. MemoryInv'
    BY <1>1, <1>2, <1>7, <2>2, <2>6, <2>11, WritesByte
  <2> QED
    BY <1>1, <2>1, <2>7, <2>10, <2>12, GoesOn
<1> QED
  BY <1>6, <1>7 DEF strncpy

\* The lesser of two numbers.
LEMMA LesserOf ==
  ASSUME NEW a \in Nat, NEW b \in Nat
  PROVE  /\ Min({a, b}) \in Nat /\ Min({a, b}) <= a /\ Min({a, b}) <= b
         /\ Min({a, b}) \in {a, b}
<1>1. CASE a <= b
  <2>1. Min({a, b}) = a
    BY <1>1, LeastOf
  <2> QED
    BY <1>1, <2>1
<1>2. CASE b <= a
  <2>1. Min({a, b}) = b
    BY <1>2, LeastOf
  <2> QED
    BY <1>2, <2>1
<1> QED
  BY <1>1, <1>2

\* Where two strings are compared: what is read there, and that both go on
\* unless the strings end there.
LEMMA ComparedStrings ==
  ASSUME TheCall, MemoryInv, ~Writes, NEW k, k = cs - op.cs,
         IsString(op.mem, op.cs), IsString(op.mem, op.ct),
         InString(cs, op.cs), InString(ct, op.ct), ct = op.ct + (cs - op.cs)
  PROVE  /\ k \in Nat /\ k \in Common /\ Common \in SUBSET Nat
         /\ cs = op.cs + k /\ ct = op.ct + k
         /\ cs <= Size /\ ct <= Size /\ cs \in Upto(op.cs) /\ ct \in Upto(op.ct)
         /\ mem[cs] = 0 /\ mem[ct] = 0 => Common = 0 .. k
         /\ mem[cs] # 0 => InString(cs + 1, op.cs)
         /\ mem[ct] # 0 => InString(ct + 1, op.ct)
<1> DEFINE e == End(op.mem, op.cs)
           f == End(op.mem, op.ct)
           m == Min({e - op.cs, f - op.ct})
<1>1. op.cs \in Nat /\ op.ct \in Nat
  BY NumbersOf
<1>2. /\ e \in Nat /\ cs \in op.cs .. e /\ cs \in 1 .. Size /\ cs \in Upto(op.cs)
      /\ op.mem[cs] = 0 <=> cs = e
      /\ op.mem[cs] # 0 => InString(cs + 1, op.cs)
  BY OperandString DEF InString
<1>3. /\ f \in Nat /\ ct \in op.ct .. f /\ ct \in 1 .. Size /\ ct \in Upto(op.ct)
      /\ op.mem[ct] = 0 <=> ct = f
      /\ op.mem[ct] # 0 => InString(ct + 1, op.ct)
  BY OperandString DEF InString
<1>4. mem[cs] = op.mem[cs] /\ mem[ct] = op.mem[ct]
  BY <1>2, <1>3 DEF MemoryInv
<1>5. Common = 0 .. m
  BY DEF Common
<1> HIDE DEF e, f
<1>6. e - op.cs \in Nat /\ f - op.ct \in Nat
  BY <1>1, <1>2, <1>3
<1>7. m \in Nat /\ m <= e - op.cs /\ m <= f - op.ct /\ m \in {e - op.cs, f - op.ct}
  BY <1>6, LesserOf
<1> HIDE DEF m
<1>8. /\ k \in Nat /\ cs = op.cs + k /\ ct = op.ct + k
      /\ k <= e - op.cs /\ k <= f - op.ct /\ cs <= Size /\ ct <= Size
  <2>1. Size \in Nat
    BY NumbersOf
  <2> QED
    BY <1>1, <1>2, <1>3, <2>1
<1>9. k \in 0 .. m /\ 0 .. m \in SUBSET Nat
  <2>1. k <= m
    BY <1>7, <1>8
  <2> QED
    BY <1>7, <1>8, <2>1
<1>10. ASSUME mem[cs] = 0, mem[ct] = 0 PROVE Common = 0 .. k
  <2>1. k = e - op.cs /\ k = f - op.ct
    BY <1>1, <1>2, <1>3, <1>4, <1>8, <1>10
  <2>2. m = k
    BY <1>7, <2>1
  <2> QED
    BY <1>5, <2>2
<1> QED
  BY <1>2, <1>3, <1>4, <1>5, <1>8, <1>9, <1>10

LEMMA StrcmpKeeps ==
  ASSUME op' = op, StringsInv, strcmp
  PROVE  StringsInv'
<1>1. ret = Running /\ op.fn = "strcmp" /\ TheCall /\ Loop /\ MemoryInv
  BY DEF strcmp, In, StringsInv
<1>2. /\ InString(cs, op.cs) /\ InString(ct, op.ct) /\ ct = op.ct + (cs - op.cs)
      /\ Agreed /\ ~Writes /\ Result = Difference(Common)
      /\ IsString(op.mem, op.cs) /\ IsString(op.mem, op.ct)
      /\ Operands = Upto(op.cs) \cup Upto(op.ct) /\ reads' = reads \cup {cs, ct}
  BY <1>1 DEF Loop, Writes, Result, Operands, TheCall, Legal, strcmp, Read
<1>3. PICK k : k = cs - op.cs
  OBVIOUS
<1>4. /\ k \in Nat /\ k \in Common /\ Common \in SUBSET Nat
      /\ cs = op.cs + k /\ ct = op.ct + k
      /\ cs <= Size /\ ct <= Size /\ cs \in Upto(op.cs) /\ ct \in Upto(op.ct)
      /\ mem[cs] = 0 /\ mem[ct] = 0 => Common = 0 .. k
      /\ mem[cs] # 0 => InString(cs + 1, op.cs)
      /\ mem[ct] # 0 => InString(ct + 1, op.ct)
  BY SMTT(60), <1>1, <1>2, <1>3, ComparedStrings
<1>5. /\ mem[cs] = op.mem[op.cs + k] /\ mem[ct] = op.mem[op.ct + k]
      /\ mem[cs] = mem[ct] <=> Same(k)
      /\ mem[cs] \in 0 .. 255 /\ mem[ct] \in 0 .. 255
  BY <1>1, <1>2, <1>4, Compared
<1>6. \A j \in 0 .. k - 1 : Same(j)
  BY <1>2, <1>3 DEF Agreed
<1>7. reads' \subseteq reads \cup Operands /\ op.cs \in Int /\ op.cs \in Nat
  BY <1>1, <1>2, <1>4, NumbersOf
<1>8. CASE mem[cs] # mem[ct] /\ Returns(mem[cs] - mem[ct])
  <2>1. Difference(Common) = mem[cs] - mem[ct]
    BY SMTT(60), <1>4, <1>5, <1>6, <1>8, DifferenceAt
  <2>2. ret' = Result /\ ret' # Running /\ mem' = mem
    BY <1>2, <1>5, <1>8, <2>1, NoCode DEF Returns
  <2> QED
    BY SMTT(60), <1>1, <1>2, <1>7, <2>2, Finishes
<1>9. CASE mem[cs] = mem[ct] /\ mem[cs] = 0 /\ Returns(0)
  <2>1. \A j \in 0 .. k : j \in 0 .. k - 1 \/ j = k
    BY <1>4
  <2>2. \A j \in Common : Same(j)
    BY <1>4, <1>5, <1>6, <1>9, <2>1
  <2>3. Difference(Common) = 0
    BY <2>2, NoDifference
  <2>4. ret' = Result /\ ret' # Running /\ mem' = mem
    BY <1>2, <1>9, <2>3 DEF Returns, Running
  <2> QED
    BY <1>1, <1>2, <1>7, <2>4, Finishes
<1>10. CASE mem[cs] = mem[ct] /\ mem[cs] # 0 /\ Step(1, 1, 0) /\ UNCHANGED mem
  <2>1. cs' = cs + 1 /\ ct' = ct + 1 /\ ret' = ret /\ mem' = mem
    BY SMTT(60), <1>10 DEF Step
  <2>2. Agreed'
    BY <1>2, <1>4, <1>5, <1>7, <1>10, <2>1, AgreeOn
  <2>3. InString(cs, op.cs)' /\ InString(ct, op.ct)'
    BY <1>4, <1>10, <2>1 DEF InString
  <2>4. ct' = op.ct + (cs' - op.cs)
    <3>1. op.ct \in Nat /\ op.cs \in Nat
      BY <1>1, NumbersOf
    <3>2. k \in Nat /\ cs = op.cs + k /\ ct = op.ct + k
      BY <1>4
    <3> QED
      BY <2>1, <3>1, <3>2
  <2>5. Loop'
    BY <1>1, <2>2, <2>3, <2>4 DEF Loop
  <2> QED
    BY <1>1, <1>2, <1>7, <2>1, <2>5, GoesOn, Untouched
<1> QED
  BY <1>8, <1>9, <1>10 DEF strcmp

LEMMA StrncmpKeeps ==
  ASSUME op' = op, StringsInv, strncmp
  PROVE  StringsInv'
<1>1. ret = Running /\ op.fn = "strncmp" /\ TheCall /\ Loop /\ MemoryInv
  BY DEF strncmp, In, StringsInv
<1> DEFINE places == Common \cap 0 .. op.n - 1
<1>2. /\ InString(cs, op.cs) /\ InString(ct, op.ct) /\ Counting /\ Both
      /\ Agreed /\ ~Writes /\ Result = Difference(places)
      /\ IsString(op.mem, op.cs) /\ IsString(op.mem, op.ct)
      /\ Operands = ((op.cs .. op.cs + op.n - 1) \cap Upto(op.cs))
                    \cup ((op.ct .. op.ct + op.n - 1) \cap Upto(op.ct))
  BY <1>1 DEF Loop, Writes, Result, Operands, TheCall, Legal
<1>3. PICK k : k = cs - op.cs
  OBVIOUS
<1>n. /\ op.cs \in Nat /\ op.ct \in Nat /\ op.n \in Nat /\ n \in Int
      /\ n >= 0 /\ n <= op.n /\ cs = op.cs + (op.n - n) /\ k = op.n - n
      /\ ct = op.ct + (op.n - n) /\ ct = op.ct + (cs - op.cs)
  BY <1>1, <1>2, <1>3, NumbersOf DEF Counting, Both
<1>4. /\ k \in Nat /\ k \in Common /\ Common \in SUBSET Nat
      /\ cs = op.cs + k /\ ct = op.ct + k
      /\ cs <= Size /\ ct <= Size /\ cs \in Upto(op.cs) /\ ct \in Upto(op.ct)
      /\ mem[cs] = 0 /\ mem[ct] = 0 => Common = 0 .. k
      /\ mem[cs] # 0 => InString(cs + 1, op.cs)
      /\ mem[ct] # 0 => InString(ct + 1, op.ct)
  BY SMTT(60), <1>1, <1>2, <1>3, <1>n, ComparedStrings
<1>5. /\ mem[cs] = op.mem[op.cs + k] /\ mem[ct] = op.mem[op.ct + k]
      /\ mem[cs] = mem[ct] <=> Same(k)
      /\ mem[cs] \in 0 .. 255 /\ mem[ct] \in 0 .. 255
  BY <1>1, <1>2, <1>4, Compared
<1>6. \A j \in 0 .. k - 1 : Same(j)
  BY <1>2, <1>3 DEF Agreed
<1>7. CASE n = 0 /\ Returns(0) /\ UNCHANGED reads
  <2>1. \A j \in places : Same(j)
    BY <1>6, <1>7, <1>n
  <2>2. Difference(places) = 0
    <3> HIDE DEF places
    <3> QED
      BY <2>1, NoDifference
  <2>3. ret' = Result /\ ret' # Running /\ mem' = mem
    BY <1>2, <1>7, <2>2 DEF Returns, Running
  <2> QED
    BY <1>1, <1>2, <1>7, <2>3, Finishes
<1>8. ASSUME n > 0, Read({cs, ct})
      PROVE  /\ reads' \subseteq reads \cup Operands
             /\ k \in places /\ places \in SUBSET Nat
  <2>1. /\ k \in 0 .. op.n - 1 /\ cs \in op.cs .. op.cs + op.n - 1
        /\ ct \in op.ct .. op.ct + op.n - 1
    BY <1>n, <1>8
  <2>2. cs \in Operands /\ ct \in Operands
    BY <1>2, <1>4, <2>1
  <2> QED
    BY <1>4, <1>8, <2>1, <2>2 DEF Read
<1>9. CASE /\ n > 0 /\ Read({cs, ct}) /\ mem[cs] # mem[ct]
           /\ Returns(mem[cs] - mem[ct])
  <2>1. Difference(places) = mem[cs] - mem[ct]
    <3>1. k \in places /\ places \in SUBSET Nat
      BY SMTT(60), <1>8, <1>9
    <3> HIDE DEF places
    <3> QED
      BY <1>5, <1>6, <1>9, <3>1, DifferenceAt
  <2>2. ret' = Result /\ ret' # Running /\ mem' = mem
    BY <1>2, <1>5, <1>9, <2>1, NoCode DEF Returns
  <2> QED
    BY SMTT(60), <1>1, <1>2, <1>8, <1>9, <2>2, Finishes
<1>10. CASE /\ n > 0 /\ Read({cs, ct}) /\ mem[cs] = mem[ct] /\ mem[cs] = 0
            /\ Returns(0)
  <2>1. \A j \in 0 .. k : j \in 0 .. k - 1 \/ j = k
    BY <1>4
  <2>2. \A j \in places : Same(j)
    BY <1>4, <1>5, <1>6, <1>10, <2>1
  <2>3. Difference(places) = 0
    <3> HIDE DEF places
    <3> QED
      BY <2>2, NoDifference
  <2>4. ret' = Result /\ ret' # Running /\ mem' = mem
    BY <1>2, <1>10, <2>3 DEF Returns, Running
  <2> QED
    BY <1>1, <1>2, <1>8, <1>10, <2>4, Finishes
<1>11. CASE /\ n > 0 /\ Read({cs, ct}) /\ mem[cs] = mem[ct] /\ mem[cs] # 0
            /\ Step(1, 1, -1) /\ UNCHANGED mem
  <2>1. cs' = cs + 1 /\ ct' = ct + 1 /\ n' = n - 1 /\ ret' = ret /\ mem' = mem
    BY SMTT(60), <1>n, <1>11 DEF Step
  <2>2. Agreed'
    <3>1. op.cs \in Int
      BY <1>n
    <3> QED
      BY <1>2, <1>4, <1>5, <1>11, <2>1, <3>1, AgreeOn
  <2>3. InString(cs, op.cs)' /\ InString(ct, op.ct)'
    BY <1>4, <1>11, <2>1 DEF InString
  <2>4. Counting' /\ Both'
    BY <1>1, <1>2, <1>11, <2>1, Counts
  <2>5. Loop'
    BY <1>1, <2>2, <2>3, <2>4 DEF Loop
  <2> QED
    BY <1>1, <1>2, <1>8, <1>11, <2>1, <2>5, GoesOn, Untouched
<1> QED
  BY <1>7, <1>9, <1>10, <1>11 DEF strncmp

------------------------------------------------------------------------------

\* Every step of a function keeps the invariant.
LEMMA StepKeeps ==
  ASSUME StringsInv, StringsNext
  PROVE  StringsInv'
BY MemsetKeeps, MemcmpKeeps, MemcpyKeeps, MemmoveKeeps, MemchrKeeps,
   StrlenKeeps, StrncpyKeeps, StrcmpKeeps, StrncmpKeeps, StrchrKeeps,
   StrrchrKeeps DEF StringsNext

\* The loops begin with nothing behind them.
LEMMA StartHolds ==
  ASSUME StringsInit
  PROVE  StringsInv
<1>0. PICK fn \in Functions_, m \in Memories :
         \E p, q \in DOMAIN m, c \in Chars, k \in 0 .. Len(m) :
            LET o == [fn |-> fn, cs |-> p, ct |-> q, c |-> c, n |-> k, mem |-> m]
            IN  Legal(o) /\ Start(o)
  BY DEF StringsInit
<1>1. PICK p \in DOMAIN m, q \in DOMAIN m, c \in Chars, k \in 0 .. Len(m) :
         LET o == [fn |-> fn, cs |-> p, ct |-> q, c |-> c, n |-> k, mem |-> m]
         IN  Legal(o) /\ Start(o)
  BY <1>0
<1> DEFINE o == [fn |-> fn, cs |-> p, ct |-> q, c |-> c, n |-> k, mem |-> m]
<1>2. /\ op = o /\ Legal(op) /\ mem = m /\ n = k /\ at = Part(op)
      /\ cs = p + (IF Part(op) = "backward" THEN k ELSE 0)
      /\ ct = q + (IF Part(op) = "backward" THEN k ELSE 0)
      /\ ret = (IF fn \in {"memcpy", "memmove"} /\ p = q THEN p ELSE Running)
      /\ reads = {} /\ last = NoPointer
  BY <1>1 DEF Start
<1>3. /\ op.fn = fn /\ op.cs = p /\ op.ct = q /\ op.c = c /\ op.n = k /\ op.mem = m
  BY <1>2
<1>4. /\ m \in [1 .. Len(m) -> 0 .. 255] /\ Len(m) \in Nat /\ DOMAIN m = 1 .. Len(m)
      /\ c \in Int
  <2>1. m \in Seq(0 .. 255) /\ c \in Int
    BY StringsAssumption, Zenon
  <2>2. Len(m) \in Nat /\ DOMAIN m = 1 .. Len(m)
    BY <2>1
  <2>3. m \in [1 .. Len(m) -> 0 .. 255]
    BY <2>1, LenProperties
  <2> QED
    BY <2>1, <2>2, <2>3
<1>5. TheCall
  BY <1>2, <1>3, <1>4 DEF TheCall, Size
<1>6. /\ p \in Nat /\ q \in Nat /\ k \in Nat /\ k + 0 = k /\ p + 0 = p /\ q + 0 = q
      /\ p >= 1 /\ q >= 1
  BY <1>4
<1>7. CASE ret # Running
  <2>1. /\ fn \in {"memcpy", "memmove"} /\ ret = p /\ p = q
    BY <1>2, <1>7
  <2>2. Writes /\ Result = op.cs
    BY <1>3, <2>1 DEF Writes, Result
  <2>3. \A x \in Int : Written(x) = op.mem[op.ct + x]
    <3>1. ~(op.cs > op.ct)
      BY <1>3, <1>6, <2>1
    <3> QED
      BY <1>3, <2>1, <3>1 DEF Written
  <2>4. ASSUME NEW a \in DOMAIN mem PROVE Written(a - op.cs) = op.mem[a]
    <3>1. a \in Int /\ a - op.cs \in Int /\ op.ct + (a - op.cs) = a
      BY <1>2, <1>3, <1>4, <1>6, <2>1
    <3> QED
      BY <2>3, <3>1
  <2>5. FunctionsAsC
    BY <1>2, <1>3, <2>1, <2>2, <2>4 DEF FunctionsAsC
  <2> QED
    BY <1>2, <1>7, <2>5 DEF StringsInv, ReadsOperands
<1>8. CASE ret = Running
  <2>1. ~(fn \in {"memcpy", "memmove"} /\ p = q)
    BY <1>2, <1>6, <1>8 DEF Running
  <2> DEFINE skip == IF at = "backward" THEN k ELSE 0
  <2>2. cs = p + skip /\ ct = q + skip /\ skip \in {0, k}
    BY <1>2
  <2>3. \A a : a \notin BytesDone
    <3>1. CASE at = "backward"
      BY <1>3, <1>6, <2>2, <3>1 DEF BytesDone
    <3>2. CASE at # "backward"
      BY <1>3, <1>6, <2>2, <3>2 DEF BytesDone
    <3> QED
      BY <3>1, <3>2
  <2>4. MemoryInv
    BY <1>2, <1>3, <1>4, <2>3 DEF MemoryInv, Size
  <2>5. at # "backward" => /\ cs = op.cs /\ ct = op.ct /\ Counting /\ Both /\ Agreed
                           /\ Missing(op.cs .. cs - 1)
    <3>1. CASE at # "backward"
      <4>1. cs = op.cs /\ ct = op.ct /\ op.cs - 1 < op.cs
        BY <1>3, <1>6, <2>2, <3>1
      <4>2. Counting /\ Both
        BY <1>2, <1>3, <1>6, <4>1 DEF Counting, Both
      <4>3. Agreed /\ Missing(op.cs .. cs - 1)
        BY <1>3, <1>6, <4>1 DEF Agreed, Missing
      <4> QED
        BY <4>1, <4>2, <4>3
    <3> QED
      BY <3>1
  <2>6. at = IF fn = "memcpy" THEN IF Aligned(op) THEN "words" ELSE "bytes"
             ELSE IF fn = "memmove" THEN IF p < q THEN "forward" ELSE "backward"
             ELSE "none"
    BY <1>2, <1>3 DEF Part
  <2>7. ASSUME NEW first \in {op.cs, op.ct}, IsString(op.mem, first)
        PROVE  InString(first, first) /\ op.mem[End(op.mem, first)] = 0
               /\ End(op.mem, first) - first \in Nat
    <3>1. first \in Nat /\ End(op.mem, first) \in Nat /\ first <= End(op.mem, first)
          /\ op.mem[End(op.mem, first)] = 0
      BY <1>3, <1>5, <1>6, <2>7, OperandString
    <3> QED
      BY <3>1 DEF InString
  <2>8. /\ fn \in {"strlen", "strcmp", "strncmp", "strchr", "strrchr"}
             => InString(op.cs, op.cs)
        /\ fn \in {"strcmp", "strncmp", "strncpy"}
             => InString(op.ct, op.ct) /\ End(op.mem, op.ct) - op.ct \in Nat
    BY <1>2, <1>3, <2>7 DEF Legal
  <2>9. Loop
    <3>1. CASE fn = "memmove"
      <4>1. CASE p < q
        BY <1>3, <1>6, <2>5, <2>6, <3>1, <4>1 DEF Loop
      <4>2. CASE q < p
        <5>1. at = "backward" /\ cs = op.cs + n /\ ct = op.ct + n /\ n \in 0 .. op.n
          BY <1>2, <1>3, <1>6, <2>2, <2>6, <3>1, <4>2
        <5> QED
          BY <1>3, <1>6, <3>1, <4>2, <5>1 DEF Loop
      <4> QED
        BY <1>6, <2>1, <3>1, <4>1, <4>2
    <3>2. CASE fn = "memcpy"
      BY <1>3, <2>1, <2>5, <2>6, <3>2 DEF Loop
    <3>3. CASE fn = "strncpy"
      <4>1. at = "none" /\ cs = op.cs /\ ct = op.ct /\ Counting /\ Both
        BY <2>5, <2>6, <3>3
      <4>2. op.n - n = 0
        BY <1>2, <1>3, <1>6
      <4> QED
        BY <1>3, <2>8, <3>3, <4>1, <4>2 DEF Loop
    <3>4. CASE fn \in {"strcmp", "strncmp"}
      <4>1. ct = op.ct + (cs - op.cs)
        BY <1>3, <1>6, <2>5, <2>6, <3>4
      <4> QED
        BY <1>3, <2>5, <2>6, <2>8, <3>4, <4>1 DEF Loop
    <3>5. CASE fn \in {"memset", "memcmp", "memchr", "strlen", "strchr", "strrchr"}
      BY <1>2, <1>3, <2>5, <2>6, <2>8, <3>5 DEF Loop
    <3> QED
      BY <3>1, <3>2, <3>3, <3>4, <3>5 DEF Functions_
  <2> QED
    BY <1>2, <1>5, <1>8, <2>4, <2>9 DEF StringsInv, FunctionsAsC, ReadsOperands
<1> QED
  BY <1>7, <1>8

\* A call of one of string.c's functions, for every memory and every operand,
\* returns what the C library says, leaves memory as it says, and reads nothing
\* but its operands (string.c:16-165).
THEOREM StringFunctionsAsC == LibSpec => []StringsAsC
<1>1. LibInit => StringsInv
  <2>1. ASSUME op = [fn |-> "memset", cs |-> 1, ct |-> 1, c |-> 0, n |-> 0,
                     mem |-> <<>>],
               mem = <<>>, ret = 1, reads = {}
        PROVE  StringsInv
    <3>1. Result = 1 /\ DOMAIN mem = {} /\ ret # Running
      BY <2>1 DEF Result, Running
    <3> QED
      BY <2>1, <3>1 DEF StringsInv, FunctionsAsC, ReadsOperands
  <2> QED
    BY <2>1, StartHolds DEF LibInit
<1>2. StringsInv /\ [LibNext]_<<vars, strings>> => StringsInv'
  <2> SUFFICES ASSUME StringsInv, [LibNext]_<<vars, strings>> PROVE StringsInv'
    OBVIOUS
  <2>1. CASE StringsNext
    BY <2>1, StepKeeps
  <2>2. CASE UNCHANGED strings
    <3>1. /\ op' = op /\ mem' = mem /\ cs' = cs /\ ct' = ct /\ n' = n
          /\ at' = at /\ last' = last /\ ret' = ret /\ reads' = reads
      BY <2>2 DEF strings
    <3>2. Loop => Loop'
      BY <3>1, SameCall DEF Loop, Counting, Both, Agreed, InString
    <3>3. MemoryInv => MemoryInv'
      BY <3>1, SameCall DEF MemoryInv, BytesDone
    <3>4. FunctionsAsC'
      BY <3>1, SameCall DEF StringsInv, FunctionsAsC
    <3> QED
      BY <3>1, <3>2, <3>3, <3>4, SameCall DEF StringsInv, ReadsOperands
  <2> QED
    BY <2>1, <2>2 DEF LibNext, strings
<1>3. StringsInv => StringsAsC
  BY DEF StringsInv, StringsAsC
<1> QED
  BY <1>1, <1>2, <1>3, PTL DEF LibSpec

------------------------------------------------------------------------------
(* The formatter.  The loop is somewhere in the format: what it has put is   *)
(* what the directives and characters so far mean, the arguments left are    *)
(* those of the directives to come, and %n has stored the lengths on the way. *)

\* What stands before a directive, or behind the last one.
Lit(k) == IF k < Len(call.items) THEN call.items[k + 1].before ELSE call.tail

\* What the first k directives mean, take and store.
Meaning(k)  == Joined(SubSeq(call.items, 1, k), Meant)
PassedBy(k) == Joined(SubSeq(call.items, 1, k), Passed)
StoredBy(k) == FlattenSeq([i \in 1 .. k |-> Stored(i)])
Passing     == Joined(call.items, Passed)

\* A text cut off at the end of the buffer.
Cut(text, room) == SubSeq(text, 1, Min({room, Len(text)}))

\* The loop is j characters behind the kth directive.
At(k, j) ==
    /\ cur = Behind(k) + 1 + j
    /\ args = SubSeq(Passing, Len(PassedBy(k)) + 1, Len(Passing))
    /\ LET text == Meaning(k) \o SubSeq(Lit(k), 1, j)
       IN  out = [dst |-> Cut(text, Room), n |-> Len(text)]
    /\ stored = StoredBy(k)

Ended ==
    /\ cur = Len(format) + 1 /\ out.n = Len(Whole)
    /\ out.dst = IF Room = 0 THEN <<>> ELSE Append(Cut(Whole, Room - 1), NUL)
    /\ stored = StoredBy(Len(call.items))

FormatInv ==
    /\ Formed(call) /\ done \in BOOLEAN
    /\ IF done THEN Ended
       ELSE \E k \in 0 .. Len(call.items) : \E j \in 0 .. Len(Lit(k)) : At(k, j)

------------------------------------------------------------------------------
(* Powers. *)

\* The powers of two, counted as sets of numbers.
LEMMA TwoTo ==
  ASSUME NEW N \in Nat
  PROVE  2^N \in Nat /\ 2^N > 0 /\ 2^0 = 1 /\ 2^(N + 1) = 2 * 2^N
<1> DEFINE S == 1 .. N
           T == 1 .. N + 1
           A == SUBSET S
           B == (SUBSET T) \ A
           f == [X \in A |-> X \cup {N + 1}]
<1>1. /\ IsFiniteSet(1 .. N) /\ Cardinality(1 .. N) = N
      /\ IsFiniteSet(1 .. N + 1) /\ Cardinality(1 .. N + 1) = N + 1
  BY FS_Interval
<1>2. /\ IsFiniteSet(A) /\ Cardinality(A) = 2^N
      /\ IsFiniteSet(SUBSET T) /\ Cardinality(SUBSET T) = 2^(N + 1)
  BY <1>1, FS_SUBSET
<1>3. Cardinality(A) \in Nat /\ Cardinality(A) # 0
  BY <1>2, FS_CardinalityType, FS_EmptySet
<1>4. 2^0 = 1
  <2>1. IsFiniteSet({}) /\ Cardinality({}) = 0
    BY FS_EmptySet
  <2>2. Cardinality(SUBSET {}) = 2^0
    BY <2>1, FS_SUBSET
  <2>3. SUBSET {} = {{}}
    OBVIOUS
  <2>4. Cardinality({{}}) = 1
    BY FS_Singleton
  <2> QED
    BY <2>2, <2>3, <2>4
<1>5. f \in Bijection(A, B)
  <2>1. \A X \in A : N + 1 \notin X
    OBVIOUS
  <2>2. \A X \in A : X \cup {N + 1} \in B
    <3>1. S \subseteq T /\ N + 1 \in T /\ N + 1 \notin S
      OBVIOUS
    <3> QED
      BY <3>1
  <2>3. ASSUME NEW Y \in B PROVE \E X \in A : Y = X \cup {N + 1}
    <3>1. T = S \cup {N + 1}
      OBVIOUS
    <3>2. N + 1 \in Y /\ Y \ {N + 1} \in A
      BY <3>1
    <3> QED
      BY <3>2
  <2>4. \A X, Y \in A : X \cup {N + 1} = Y \cup {N + 1} => X = Y
    BY <2>1
  <2> HIDE DEF A, B
  <2>5. f \in [A -> B] /\ \A X \in A : f[X] = X \cup {N + 1}
    BY <2>2
  <2> HIDE DEF f
  <2>6. f \in Injection(A, B)
    BY <2>4, <2>5 DEF Injection, IsInjective
  <2>7. f \in Surjection(A, B)
    BY <2>3, <2>5 DEF Surjection
  <2> QED
    BY <2>6, <2>7 DEF Bijection
<1>6. IsFiniteSet(B) /\ Cardinality(B) = Cardinality(A)
  <2>1. ExistsBijection(A, B)
    BY <1>5 DEF ExistsBijection
  <2> HIDE DEF A, B
  <2> QED
    BY <2>1, <1>2, FS_Bijection
<1>7. SUBSET T = A \cup B /\ A \cap B = {}
  OBVIOUS
<1>8. Cardinality(SUBSET T) = Cardinality(A) + Cardinality(B)
  <2>1. Cardinality(A \cap B) = 0
    BY <1>7, FS_EmptySet
  <2> HIDE DEF A, B
  <2>2. Cardinality(A \cup B)
        = Cardinality(A) + Cardinality(B) - Cardinality(A \cap B)
    BY <1>2, <1>6, FS_Union
  <2>3. /\ Cardinality(SUBSET T) = Cardinality(A \cup B)
        /\ Cardinality(B) = Cardinality(A)
    BY <1>6, <1>7, Zenon
  <2> HIDE DEF T
  <2> QED
    BY <1>3, <2>1, <2>2, <2>3
<1> HIDE DEF A, B, T
<1> QED
  BY <1>2, <1>3, <1>4, <1>6, <1>8

\* A function that is defined by recursion over the numbers up to n.
Recurs(f, N, x, h) ==
    f = [k \in 0 .. N |-> IF k = 0 THEN x ELSE h[k][f[k - 1]]]

\* There is one.
LEMMA RecursionExists ==
  ASSUME NEW X, NEW x \in X, NEW h \in [Nat -> [X -> X]], NEW N \in Nat
  PROVE  \E f \in [0 .. N -> X] : Recurs(f, N, x, h)
<1> DEFINE P == {m \in Nat : \E f \in [0 .. m -> X] : Recurs(f, m, x, h)}
<1>1. 0 \in P
  <2> DEFINE f == [k \in 0 .. 0 |-> x]
  <2>1. f \in [0 .. 0 -> X] /\ Recurs(f, 0, x, h)
    BY DEF Recurs
  <2> QED
    BY <2>1
<1>2. ASSUME NEW m \in Nat, m \in P PROVE m + 1 \in P
  <2>1. PICK f \in [0 .. m -> X] : Recurs(f, m, x, h)
    BY <1>2
  <2> DEFINE g == [k \in 0 .. m + 1 |->
                      IF k <= m THEN f[k] ELSE h[m + 1][f[m]]]
  <2>2. h[m + 1] \in [X -> X] /\ f[m] \in X
    OBVIOUS
  <2>3. g \in [0 .. m + 1 -> X]
    BY <2>2
  <2>4. \A k \in 0 .. m : f[k] = IF k = 0 THEN x ELSE h[k][f[k - 1]]
    BY <2>1 DEF Recurs
  <2>5. \A k \in 0 .. m + 1 : g[k] = IF k = 0 THEN x ELSE h[k][g[k - 1]]
    <3> SUFFICES ASSUME NEW k \in 0 .. m + 1
                 PROVE  g[k] = IF k = 0 THEN x ELSE h[k][g[k - 1]]
      OBVIOUS
    <3>1. CASE k <= m
      <4>1. g[k] = f[k] /\ (k # 0 => g[k - 1] = f[k - 1])
        BY <3>1
      <4> QED
        BY <4>1, <3>1, <2>4
    <3>2. CASE k = m + 1
      BY <3>2
    <3> QED
      BY <3>1, <3>2
  <2> HIDE DEF g
  <2>6. Recurs(g, m + 1, x, h)
    BY <2>3, <2>5 DEF Recurs
  <2> QED
    BY <2>3, <2>6
<1> HIDE DEF P
<1>3. N \in P
  BY <1>1, <1>2, SetInduction
<1> QED
  BY <1>3 DEF P

\* The chosen one is one of those, and goes on as any longer one does.
LEMMA RecursionIs ==
  ASSUME NEW X, NEW x \in X, NEW h \in [Nat -> [X -> X]], NEW N \in Nat,
         NEW f, Recurs(f, N, x, h)
  PROVE  /\ f \in [0 .. N -> X] /\ f[0] = x
         /\ \A k \in 0 .. N - 1 : f[k + 1] = h[k + 1][f[k]]
         /\ \A m \in 0 .. N : \A g :
                Recurs(g, m, x, h) => \A k \in 0 .. m : g[k] = f[k]
<1>1. /\ f[0] = x
      /\ \A k \in 0 .. N - 1 : f[k + 1] = h[k + 1][f[k]]
  <2>1. \A k \in 0 .. N : f[k] = IF k = 0 THEN x ELSE h[k][f[k - 1]]
    BY DEF Recurs
  <2>2. ASSUME NEW k \in 0 .. N - 1 PROVE f[k + 1] = h[k + 1][f[k]]
    <3>1. k + 1 \in 0 .. N /\ k + 1 # 0 /\ (k + 1) - 1 = k
      OBVIOUS
    <3>2. f[k + 1] = h[k + 1][f[(k + 1) - 1]]
      BY <2>1, <3>1
    <3> QED
      BY <3>1, <3>2
  <2> QED
    BY <2>1, <2>2
<1> DEFINE P == {k \in Nat : k <= N => f[k] \in X}
<1>2. 0 \in P
  BY <1>1
<1>3. ASSUME NEW k \in Nat, k \in P PROVE k + 1 \in P
  <2> SUFFICES ASSUME k + 1 <= N PROVE f[k + 1] \in X
    OBVIOUS
  <2>1. f[k] \in X /\ f[k + 1] = h[k + 1][f[k]]
    BY <1>1, <1>3
  <2>2. h[k + 1] \in [X -> X]
    OBVIOUS
  <2> QED
    BY <2>1, <2>2
<1>4. \A k \in 0 .. N : f[k] \in X
  <2> HIDE DEF P
  <2>1. Nat \subseteq P
    BY <1>2, <1>3, SetInduction
  <2> QED
    BY <2>1 DEF P
<1>5. f \in [0 .. N -> X]
  <2>1. DOMAIN f = 0 .. N /\ f = [k \in 0 .. N |-> f[k]]
    BY DEF Recurs
  <2> QED
    BY <2>1, <1>4
<1>6. ASSUME NEW m \in 0 .. N, NEW g, Recurs(g, m, x, h)
      PROVE  \A k \in 0 .. m : g[k] = f[k]
  <2> DEFINE Q == {k \in Nat : k <= m => g[k] = f[k]}
  <2>1. \A k \in 0 .. m : g[k] = IF k = 0 THEN x ELSE h[k][g[k - 1]]
    BY <1>6 DEF Recurs
  <2>2. 0 \in Q
    BY <1>1, <2>1
  <2>3. ASSUME NEW k \in Nat, k \in Q PROVE k + 1 \in Q
    <3> SUFFICES ASSUME k + 1 <= m PROVE g[k + 1] = f[k + 1]
      OBVIOUS
    <3>1. k + 1 \in 0 .. m /\ k + 1 # 0 /\ (k + 1) - 1 = k
      OBVIOUS
    <3>2. g[k + 1] = h[k + 1][g[(k + 1) - 1]]
      BY <2>1, <3>1
    <3>3. f[k + 1] = h[k + 1][f[k]] /\ g[k] = f[k]
      BY <1>1, <2>3
    <3> QED
      BY <3>1, <3>2, <3>3
  <2> HIDE DEF Q
  <2>4. Nat \subseteq Q
    BY <2>2, <2>3, SetInduction
  <2> QED
    BY <2>4 DEF Q
<1> QED
  BY <1>1, <1>5, <1>6

\* Powers as they are computed (Power in Format).
LEMMA PowerIs ==
  ASSUME NEW b \in Nat, b > 0, NEW N \in Nat
  PROVE  /\ Power(b, N) \in Nat /\ Power(b, N) > 0 /\ Power(b, 0) = 1
         /\ Power(b, N + 1) = b * Power(b, N)
<1> DEFINE X == Nat \ {0}
           h == [k \in Nat |-> [y \in X |-> b * y]]
           R(m, f) == [k \in 0 .. m |-> IF k = 0 THEN 1 ELSE b * f[k - 1]]
           Pw(m) == CHOOSE f : f = R(m, f)
<1>1. h \in [Nat -> [X -> X]] /\ 1 \in X
  <2>1. \A y \in X : b * y \in X
    OBVIOUS
  <2> QED
    BY <2>1
<1>2. ASSUME NEW m \in Nat
      PROVE  Recurs(Pw(m), m, 1, h) /\ Power(b, m) = Pw(m)[m]
  <2>1. \E f \in [0 .. m -> X] : Recurs(f, m, 1, h)
    <3> HIDE DEF h, X
    <3> QED
      BY <1>1, RecursionExists
  <2>2. ASSUME NEW f, Recurs(f, m, 1, h)
        PROVE  f = R(m, f)
    <3>1. f \in [0 .. m -> X]
      <4> HIDE DEF h, X
      <4> QED
        BY <1>1, <2>2, RecursionIs
    <3>2. \A k \in 0 .. m : k # 0 => h[k][f[k - 1]] = b * f[k - 1]
      BY <3>1
    <3>3. \A k \in 0 .. m : f[k] = IF k = 0 THEN 1 ELSE h[k][f[k - 1]]
      <4> HIDE DEF h
      <4> QED
        BY <2>2 DEF Recurs
    <3>4. f = [k \in 0 .. m |-> f[k]]
      BY <3>1
    <3> HIDE DEF h, X
    <3> QED
      BY <3>2, <3>3, <3>4
  <2>3. Pw(m) = R(m, Pw(m))
    <3>1. \E f : f = R(m, f)
      BY <2>1, <2>2
    <3> HIDE DEF R
    <3> QED
      BY <3>1
  <2>4. ASSUME NEW f, f = R(m, f)
        PROVE  Recurs(f, m, 1, h)
    <3> DEFINE Q == {k \in Nat : k <= m => f[k] \in X}
    <3>1. \A k \in 0 .. m : f[k] = IF k = 0 THEN 1 ELSE b * f[k - 1]
      BY <2>4
    <3>2. 0 \in Q /\ \A k \in Nat : k \in Q => k + 1 \in Q
      <4>1. 0 \in Q
        BY <3>1
      <4>2. ASSUME NEW k \in Nat, k \in Q PROVE k + 1 \in Q
        <5> SUFFICES ASSUME k + 1 <= m PROVE f[k + 1] \in X
          OBVIOUS
        <5>1. f[k + 1] = b * f[k] /\ f[k] \in X
          BY <3>1, <4>2
        <5> QED
          BY <5>1
      <4> QED
        BY <4>1, <4>2
    <3>3. \A k \in 0 .. m : f[k] \in X
      <4> HIDE DEF Q
      <4>1. Nat \subseteq Q
        BY <3>2, SetInduction
      <4> QED
        BY <4>1 DEF Q
    <3>4. \A k \in 0 .. m : k # 0 => h[k][f[k - 1]] = b * f[k - 1]
      BY <3>3
    <3> HIDE DEF h
    <3> QED
      BY <2>4, <3>1, <3>4 DEF Recurs
  <2>5. Power(b, m) = Pw(m)[m]
    BY Zenon DEF Power
  <2> QED
    BY <2>3, <2>4, <2>5
<1> HIDE DEF Pw, h, X, R
<1>3. /\ Pw(N) \in [0 .. N -> X] /\ Pw(0)[0] = 1
      /\ \A k \in 0 .. N : Pw(N)[k] = Pw(N + 1)[k]
      /\ Pw(N + 1)[N + 1] = h[N + 1][Pw(N + 1)[N]]
  <2>1. /\ Pw(N) \in [0 .. N -> X] /\ Pw(0)[0] = 1
    BY <1>1, <1>2, RecursionIs
  <2>2. /\ \A k \in 0 .. (N + 1) - 1 : Pw(N + 1)[k + 1] = h[k + 1][Pw(N + 1)[k]]
        /\ \A m \in 0 .. N + 1 : \A g :
                Recurs(g, m, 1, h) => \A k \in 0 .. m : g[k] = Pw(N + 1)[k]
    <3> DEFINE N1 == N + 1
               f == Pw(N + 1)
    <3>1. N1 \in Nat /\ Recurs(f, N1, 1, h)
      BY <1>2
    <3> HIDE DEF N1, f
    <3>2. /\ \A k \in 0 .. N1 - 1 : f[k + 1] = h[k + 1][f[k]]
          /\ \A m \in 0 .. N1 : \A g :
                Recurs(g, m, 1, h) => \A k \in 0 .. m : g[k] = f[k]
      BY <1>1, <3>1, RecursionIs
    <3> QED
      BY <3>2 DEF N1, f
  <2>3. Recurs(Pw(N), N, 1, h) /\ N \in 0 .. N + 1 /\ N \in 0 .. (N + 1) - 1
    BY <1>2
  <2>4. \A k \in 0 .. N : Pw(N)[k] = Pw(N + 1)[k]
    BY <2>2, <2>3
  <2>5. Pw(N + 1)[N + 1] = h[N + 1][Pw(N + 1)[N]]
    BY <2>2, <2>3
  <2> QED
    BY <2>1, <2>4, <2>5
<1>4. Pw(N)[N] \in X /\ Pw(N + 1)[N] = Pw(N)[N]
  BY <1>3
<1>5. Pw(N + 1)[N + 1] = b * Pw(N)[N]
  BY <1>3, <1>4 DEF h
<1> QED
  BY <1>2, <1>3, <1>4, <1>5 DEF X

------------------------------------------------------------------------------
(* Texts put behind each other. *)

\* A function that joins the first texts.
Joins(f, ss) ==
    /\ f[0] = <<>>
    /\ \A k \in 0 .. Len(ss) - 1 : f[k + 1] = f[k] \o ss[k + 1]

\* How FlattenSeq goes on.
Flattens(ss, f) == [i \in 1 .. Len(ss) |-> IF i = 1 THEN ss[i] ELSE f[i - 1] \o ss[i]]

\* FlattenSeq joins them all.
LEMMA FlattenJoins ==
  ASSUME NEW T, NEW ss \in Seq(Seq(T))
  PROVE  \E f \in [0 .. Len(ss) -> Seq(T)] :
            Joins(f, ss) /\ FlattenSeq(ss) = f[Len(ss)]
<1> DEFINE N == Len(ss)
           X == Seq(T)
           h == [k \in Nat |-> [y \in X |-> IF k \in 1 .. N THEN y \o ss[k] ELSE y]]
           g == CHOOSE f : f = Flattens(ss, f)
<1>1. N \in Nat /\ <<>> \in X /\ \A k \in 1 .. N : ss[k] \in X
  OBVIOUS
<1>2. h \in [Nat -> [X -> X]]
  <2>1. ASSUME NEW k \in Nat, NEW y \in X
        PROVE  (IF k \in 1 .. N THEN y \o ss[k] ELSE y) \in X
    <3>1. CASE k \in 1 .. N
      <4>1. ss[k] \in Seq(T)
        BY <3>1, <1>1
      <4> HIDE DEF N
      <4> QED
        BY <3>1, <4>1, ConcatProperties
    <3> QED
      BY <3>1
  <2> HIDE DEF X, N
  <2> QED
    BY <2>1
<1>3. PICK f \in [0 .. N -> X] : Recurs(f, N, <<>>, h)
  <2> HIDE DEF h, X, N
  <2> QED
    BY <1>1, <1>2, RecursionExists
<1>4. f[0] = <<>> /\ \A k \in 0 .. N - 1 : f[k + 1] = h[k + 1][f[k]]
  <2> HIDE DEF h, X, N
  <2>1. \A k \in 0 .. N : f[k] = IF k = 0 THEN <<>> ELSE h[k][f[k - 1]]
    BY <1>3 DEF Recurs
  <2>2. ASSUME NEW k \in 0 .. N - 1 PROVE f[k + 1] = h[k + 1][f[k]]
    <3>1. k + 1 \in 0 .. N /\ k + 1 # 0 /\ (k + 1) - 1 = k
      BY <1>1
    <3>2. f[k + 1] = h[k + 1][f[(k + 1) - 1]]
      BY <2>1, <3>1
    <3> QED
      BY <3>1, <3>2
  <2> QED
    BY <1>1, <2>1, <2>2
<1>5. \A k \in 0 .. N - 1 : f[k + 1] = f[k] \o ss[k + 1]
  <2> SUFFICES ASSUME NEW k \in 0 .. N - 1 PROVE f[k + 1] = f[k] \o ss[k + 1]
    OBVIOUS
  <2>1. f[k] \in X /\ k + 1 \in 1 .. N /\ k + 1 \in Nat
    <3> HIDE DEF N, X
    <3> QED
      BY <1>1
  <2>2. h[k + 1][f[k]] = f[k] \o ss[k + 1]
    <3>1. \A i \in Nat : \A y \in X :
              h[i][y] = IF i \in 1 .. N THEN y \o ss[i] ELSE y
      <4> HIDE DEF N, X
      <4> QED
        BY Zenon
    <3> HIDE DEF N, X, h
    <3> QED
      BY <2>1, <3>1, Zenon
  <2> HIDE DEF h, N, X
  <2> QED
    BY <1>4, <2>2
<1>6. Joins(f, ss)
  BY <1>4, <1>5 DEF Joins
<1> HIDE DEF h
<1>7. CASE N = 0
  <2>1. ss = <<>>
    BY <1>7
  <2>2. FlattenSeq(ss) = ss
    BY <1>7, Zenon DEF FlattenSeq
  <2> HIDE DEF N, X
  <2>3. f[N] = <<>> /\ f \in [0 .. N -> X]
    BY <1>3, <1>4, <1>7
  <2> QED
    BY <1>6, <2>1, <2>2, <2>3 DEF N, X
<1>8. CASE N > 0
  <2> DEFINE e == [i \in 1 .. N |-> f[i]]
  <2>1. e = Flattens(ss, e)
    <3>1. \A i \in 1 .. N : e[i] = IF i = 1 THEN ss[i] ELSE e[i - 1] \o ss[i]
      <4> SUFFICES ASSUME NEW i \in 1 .. N
                   PROVE  e[i] = IF i = 1 THEN ss[i] ELSE e[i - 1] \o ss[i]
        OBVIOUS
      <4> HIDE DEF N, X
      <4>1. f[i] = f[i - 1] \o ss[i]
        <5>1. i - 1 \in 0 .. N - 1 /\ (i - 1) + 1 = i
          BY <1>1
        <5>2. f[(i - 1) + 1] = f[i - 1] \o ss[(i - 1) + 1]
          BY <1>5, <5>1
        <5> QED
          BY <5>1, <5>2
      <4>2. e[i] = f[i]
        OBVIOUS
      <4>3. CASE i = 1
        <5>1. ss[i] \in Seq(T)
          BY <1>1, Zenon DEF X
        <5>2. <<>> \o ss[i] = ss[i]
          BY <5>1, ConcatEmptySeq, Zenon
        <5>3. i - 1 = 0
          BY <4>3
        <5>4. f[i - 1] = <<>>
          BY <5>3, <1>4, Zenon
        <5> HIDE DEF e
        <5> QED
          BY <4>3, <5>2, <5>4, <4>1, <4>2, Zenon
      <4>4. CASE i # 1
        <5>1. i - 1 \in 1 .. N
          BY <4>4, <1>1
        <5>2. e[i - 1] = f[i - 1]
          BY <5>1
        <5> HIDE DEF e
        <5> QED
          BY <4>1, <4>2, <4>4, <5>2, Zenon
      <4> QED
        BY <4>3, <4>4
    <3> DEFINE r == [i \in 1 .. N |-> IF i = 1 THEN ss[i] ELSE e[i - 1] \o ss[i]]
    <3>2. r = Flattens(ss, e)
      BY Zenon DEF Flattens
    <3>3. e = [i \in 1 .. N |-> e[i]]
      <4> HIDE DEF N
      <4> QED
        OBVIOUS
    <3>4. e = r
      <4> HIDE DEF e, N
      <4> QED
        BY <3>1, <3>3
    <3> QED
      BY <3>2, <3>4
  <2>2. g = Flattens(ss, g)
    <3> HIDE DEF e
    <3> QED
      BY <2>1, Zenon
  <2>3. \A i \in 1 .. N : g[i] = IF i = 1 THEN ss[i] ELSE g[i - 1] \o ss[i]
    <3> HIDE DEF g
    <3> QED
      BY <2>2 DEF Flattens
  <2> HIDE DEF g
  <2> DEFINE P == {i \in Nat : i + 1 <= N => g[i + 1] = f[i + 1]}
  <2>4. 0 \in P
    <3>1. f[1] = <<>> \o ss[1]
      <4>1. 0 \in 0 .. N - 1 /\ 0 + 1 = 1
        BY <1>8, <1>1
      <4>2. f[0 + 1] = f[0] \o ss[0 + 1]
        BY <1>5, <4>1
      <4> QED
        BY <4>1, <4>2, <1>4
    <3>2. <<>> \o ss[1] = ss[1]
      <4>1. ss[1] \in Seq(T)
        BY <1>1, <1>8
      <4> QED
        BY <4>1, ConcatEmptySeq, Zenon
    <3>3. g[1] = ss[1]
      <4>1. 1 \in 1 .. N
        BY <1>8, <1>1
      <4> QED
        BY <4>1, <2>3
    <3>4. g[0 + 1] = f[0 + 1]
      BY <3>1, <3>2, <3>3
    <3> QED
      BY <3>4
  <2>5. ASSUME NEW i \in Nat, i \in P PROVE i + 1 \in P
    <3> SUFFICES ASSUME (i + 1) + 1 <= N PROVE g[(i + 1) + 1] = f[(i + 1) + 1]
      OBVIOUS
    <3>1. g[(i + 1) + 1] = g[i + 1] \o ss[(i + 1) + 1]
      <4>1. (i + 1) + 1 \in 1 .. N /\ (i + 1) + 1 # 1 /\ ((i + 1) + 1) - 1 = i + 1
        BY <1>1
      <4> DEFINE j == (i + 1) + 1
      <4>2. g[j] = g[j - 1] \o ss[j]
        <5> HIDE DEF j, N
        <5> QED
          BY <2>3, <4>1 DEF j
      <4> QED
        BY <4>1, <4>2
    <3>2. f[(i + 1) + 1] = f[i + 1] \o ss[(i + 1) + 1]
      <4>1. i + 1 \in 0 .. N - 1
        BY <1>1
      <4> QED
        BY <1>5, <4>1
    <3>3. g[i + 1] = f[i + 1]
      <4>1. i + 1 <= N
        BY <1>1
      <4> QED
        BY <2>5, <4>1
    <3> QED
      BY <3>1, <3>2, <3>3, Zenon
  <2>6. g[N] = f[N]
    <3> HIDE DEF P
    <3>0. N - 1 \in Nat /\ (N - 1) + 1 = N
      BY <1>1, <1>8
    <3>1. N - 1 \in P
      BY <3>0, <2>4, <2>5, SetInduction
    <3> QED
      BY <3>1, <3>0 DEF P
  <2>7. FlattenSeq(ss) = g[N]
    <3>1. ~(Len(ss) = 0)
      BY <1>8
    <3> QED
      BY <3>1, Zenon DEF FlattenSeq, g, Flattens
  <2> HIDE DEF N
  <2> QED
    BY <1>3, <1>6, <2>6, <2>7, Zenon DEF N, X
<1> HIDE DEF N
<1> QED
  BY <1>1, <1>7, <1>8

\* Two that join the same m texts.
BothJoin(f, ss, g, tt, m) ==
    /\ Joins(f, ss) /\ Joins(g, tt)
    /\ Len(ss) \in Nat /\ Len(tt) \in Nat /\ m \in Nat
    /\ m <= Len(ss) /\ m <= Len(tt) /\ \A i \in 1 .. m : ss[i] = tt[i]

\* There is one such function.
LEMMA JoinsOnce ==
  ASSUME NEW f, NEW g, NEW ss, NEW tt, NEW m, BothJoin(f, ss, g, tt, m)
  PROVE  f[m] = g[m]
<1> USE DEF BothJoin
<1> DEFINE P == {k \in Nat : k <= m => f[k] = g[k]}
<1>1. 0 \in P
  BY DEF Joins
<1>2. ASSUME NEW k \in Nat, k \in P PROVE k + 1 \in P
  <2> SUFFICES ASSUME k + 1 <= m PROVE f[k + 1] = g[k + 1]
    OBVIOUS
  <2>0. k \in 0 .. Len(ss) - 1 /\ k \in 0 .. Len(tt) - 1 /\ k + 1 \in 1 .. m
    OBVIOUS
  <2>1. f[k + 1] = f[k] \o ss[k + 1] /\ g[k + 1] = g[k] \o tt[k + 1]
    BY <2>0 DEF Joins
  <2>2. f[k] = g[k] /\ ss[k + 1] = tt[k + 1]
    BY <1>2, <2>0
  <2> QED
    BY <2>1, <2>2, Zenon
<1> HIDE DEF P
<1>3. m \in P
  BY <1>1, <1>2, SetInduction
<1> QED
  BY <1>3 DEF P

\* The first texts are joined one after the other.
LEMMA FlattenSteps ==
  ASSUME NEW T, NEW ss \in Seq(Seq(T))
  PROVE  /\ \A k \in 0 .. Len(ss) : FlattenSeq(SubSeq(ss, 1, k)) \in Seq(T)
         /\ FlattenSeq(SubSeq(ss, 1, 0)) = <<>>
         /\ FlattenSeq(SubSeq(ss, 1, Len(ss))) = FlattenSeq(ss)
         /\ \A k \in 0 .. Len(ss) - 1 :
                FlattenSeq(SubSeq(ss, 1, k + 1))
                = FlattenSeq(SubSeq(ss, 1, k)) \o ss[k + 1]
<1> DEFINE N == Len(ss)
<1>1. PICK f \in [0 .. N -> Seq(T)] : Joins(f, ss) /\ FlattenSeq(ss) = f[N]
  BY FlattenJoins
<1>2. ASSUME NEW k \in 0 .. N
      PROVE  FlattenSeq(SubSeq(ss, 1, k)) = f[k]
  <2> DEFINE tt == SubSeq(ss, 1, k)
  <2>1. /\ tt \in Seq(Seq(T)) /\ Len(tt) = k /\ N \in Nat
        /\ \A i \in 1 .. k : tt[i] = ss[i]
    <3>1. \A i \in 1 .. k : ss[i] \in Seq(T)
      OBVIOUS
    <3> QED
      BY <3>1
  <2> HIDE DEF tt
  <2>2. PICK g \in [0 .. Len(tt) -> Seq(T)] :
            Joins(g, tt) /\ FlattenSeq(tt) = g[Len(tt)]
    BY <2>1, FlattenJoins
  <2>3. BothJoin(g, tt, f, ss, k)
    BY <1>1, <2>1, <2>2 DEF BothJoin
  <2>4. g[k] = f[k]
    BY SMTT(60), <2>3, JoinsOnce
  <2> QED
    BY <2>1, <2>2, <2>4 DEF tt
<1>3. N \in Nat
  OBVIOUS
<1>4. \A k \in 0 .. N - 1 : f[k + 1] = f[k] \o ss[k + 1]
  BY <1>1 DEF Joins
<1>5. f[0] = <<>>
  BY <1>1 DEF Joins
<1> HIDE DEF N
<1>6. \A k \in 0 .. N - 1 : FlattenSeq(SubSeq(ss, 1, k + 1))
                            = FlattenSeq(SubSeq(ss, 1, k)) \o ss[k + 1]
  <2> SUFFICES ASSUME NEW k \in 0 .. N - 1
               PROVE  FlattenSeq(SubSeq(ss, 1, k + 1))
                      = FlattenSeq(SubSeq(ss, 1, k)) \o ss[k + 1]
    OBVIOUS
  <2>1. k + 1 \in 0 .. N /\ k \in 0 .. N
    BY <1>3
  <2>2. /\ FlattenSeq(SubSeq(ss, 1, k + 1)) = f[k + 1]
        /\ FlattenSeq(SubSeq(ss, 1, k)) = f[k]
    BY <1>2, <2>1
  <2> QED
    BY <1>4, <2>2, Zenon
<1>7. 0 \in 0 .. N /\ N \in 0 .. N
  BY <1>3
<1>8. FlattenSeq(SubSeq(ss, 1, 0)) = <<>> /\ FlattenSeq(SubSeq(ss, 1, N)) = f[N]
  BY <1>2, <1>5, <1>7
<1>9. \A k \in 0 .. N : FlattenSeq(SubSeq(ss, 1, k)) \in Seq(T)
  BY <1>1, <1>2
<1> QED
  BY <1>1, <1>6, <1>8, <1>9 DEF N

------------------------------------------------------------------------------
(* The parser: what stands where in a format. *)

Letters == Character \cup {"*", ".", "h", "l"}

\* The text s stands at index p of f.
Stands(f, p, s) == /\ p + Len(s) <= Len(f) + 1
                   /\ \A i \in 1 .. Len(s) : f[p + i - 1] = s[i]

\* Two texts behind each other stand where they stand.
LEMMA StandsJoined ==
  ASSUME NEW S, NEW f \in Seq(S), NEW s \in Seq(S), NEW t \in Seq(S),
         NEW p \in Nat, p > 0, Stands(f, p, s \o t)
  PROVE  Stands(f, p, s) /\ Stands(f, p + Len(s), t)
<1>1. /\ Len(s) \in Nat /\ Len(t) \in Nat /\ Len(f) \in Nat
      /\ Len(s \o t) = Len(s) + Len(t)
      /\ \A i \in 1 .. Len(s) : (s \o t)[i] = s[i]
      /\ \A i \in 1 .. Len(t) : (s \o t)[Len(s) + i] = t[i]
  OBVIOUS
<1>2. ASSUME NEW i \in 1 .. Len(s) PROVE f[p + i - 1] = s[i]
  BY <1>1 DEF Stands
<1>3. ASSUME NEW i \in 1 .. Len(t) PROVE f[p + Len(s) + i - 1] = t[i]
  <2>1. Len(s) + i \in 1 .. Len(s \o t)
    BY <1>1
  <2>2. f[p + (Len(s) + i) - 1] = t[i]
    BY <1>1, <2>1 DEF Stands
  <2> QED
    BY <1>1, <2>2
<1> QED
  BY <1>1, <1>2, <1>3 DEF Stands

\* Past is the one place where the run ends.
LEMMA PastIs ==
  ASSUME NEW f \in Seq(Letters), NEW i \in Nat, i > 0, NEW S,
         NEW j \in i .. Len(f) + 1, Char(f, j) \notin S,
         \A k \in i .. j - 1 : Char(f, k) \in S
  PROVE  Past(f, i, S) = j
<1> DEFINE P(m) == /\ Char(f, m) \notin S
                   /\ \A k \in i .. m - 1 : Char(f, k) \in S
<1>1. j \in i .. Len(f) + 1 /\ P(j)
  OBVIOUS
<1>2. ASSUME NEW m \in i .. Len(f) + 1, P(m) PROVE m = j
  BY <1>2
<1>3. Past(f, i, S) = CHOOSE m \in i .. Len(f) + 1 : P(m)
  BY Zenon DEF Past
<1> HIDE DEF P
<1> QED
  BY <1>1, <1>2, <1>3, Zenon

\* The ten digits.
LEMMA DecimalIs ==
  /\ Decimal = {"0", "1", "2", "3", "4", "5", "6", "7", "8", "9"}
  /\ \A d \in 0 .. 9 : Digits[d + 1] \in Decimal
  /\ \A d \in 1 .. 9 : Digits[d + 1] # "0"
  /\ \A d, e \in 0 .. 9 : Digits[d + 1] = Digits[e + 1] => d = e
<1> DEFINE D == SubSeq(Digits, 1, 10)
<1>1. /\ Len(D) = 10 /\ DOMAIN D = 1 .. 10
      /\ \A i \in 1 .. 10 : D[i] = Digits[i]
  BY DEF Digits
<1>2. /\ Digits[1] = "0" /\ Digits[2] = "1" /\ Digits[3] = "2" /\ Digits[4] = "3"
      /\ Digits[5] = "4" /\ Digits[6] = "5" /\ Digits[7] = "6" /\ Digits[8] = "7"
      /\ Digits[9] = "8" /\ Digits[10] = "9"
  BY DEF Digits
<1>3. Decimal = {D[i] : i \in 1 .. 10}
  BY <1>1, Zenon DEF Decimal, ToSet
<1> HIDE DEF D
<1>4. Decimal = {"0", "1", "2", "3", "4", "5", "6", "7", "8", "9"}
  BY <1>1, <1>2, <1>3
<1> QED
  BY <1>2, <1>4

\* A digit has its value, and a number of one or two digits has its own.
LEMMA NumberIs ==
  /\ Number(<<>>) = 0
  /\ \A N \in 0 .. 99 : Number(DecimalText(N)) = N
<1> DEFINE Val(c) == CHOOSE d \in 0 .. 9 : Digits[d + 1] = c
           F(s, v) == [k \in 0 .. Len(s) |->
                          IF k = 0 THEN 0 ELSE 10 * v[k - 1] + Val(s[k])]
           V(s) == CHOOSE v : v = F(s, v)
<1>1. \A d \in 0 .. 9 : Val(Digits[d + 1]) = d
  <2> SUFFICES ASSUME NEW d \in 0 .. 9 PROVE Val(Digits[d + 1]) = d
    OBVIOUS
  <2>1. \A e \in 0 .. 9 : Digits[e + 1] = Digits[d + 1] => e = d
    BY DecimalIs
  <2> QED
    BY <2>1, Zenon
<1>2. ASSUME NEW s PROVE Number(s) = V(s)[Len(s)]
  BY Zenon DEF Number
<1> HIDE DEF Val
<1>3. Number(<<>>) = 0
  <2> DEFINE v == [k \in 0 .. 0 |-> 0]
             s == <<>>
  <2>1. v = F(s, v)
    OBVIOUS
  <2>2. V(s) = F(s, V(s))
    <3> HIDE DEF F, v
    <3> QED
      BY <2>1, Zenon
  <2> HIDE DEF V
  <2>3. V(s)[0] = 0
    BY <2>2
  <2> QED
    BY <1>2, <2>3
<1>4. ASSUME NEW N \in 0 .. 9 PROVE Number(<<Digits[N + 1]>>) = N
  <2> DEFINE v == [k \in 0 .. 1 |-> IF k = 0 THEN 0 ELSE N]
             s == <<Digits[N + 1]>>
  <2>0. Len(s) = 1 /\ s[1] = Digits[N + 1]
    OBVIOUS
  <2> HIDE DEF s
  <2>1. v = F(s, v)
    <3>1. \A k \in 0 .. 1 : v[k] = IF k = 0 THEN 0 ELSE 10 * v[k - 1] + Val(s[k])
      BY <1>1, <2>0
    <3> QED
      BY <2>0, <3>1
  <2>2. V(s) = F(s, V(s))
    <3> HIDE DEF F, v
    <3> QED
      BY <2>1, Zenon
  <2> HIDE DEF V
  <2>3. V(s)[0] = 0 /\ V(s)[1] = 10 * V(s)[0] + Val(s[1])
    BY <2>0, <2>2
  <2>4. V(s)[1] = N
    BY <2>3, <2>0, <1>1
  <2> QED
    BY <1>2, <2>0, <2>4 DEF s
<1>5. ASSUME NEW N \in 0 .. 9, NEW m \in 0 .. 9
      PROVE  Number(<<Digits[N + 1], Digits[m + 1]>>) = 10 * N + m
  <2> DEFINE v == [k \in 0 .. 2 |-> IF k = 0 THEN 0 ELSE IF k = 1 THEN N
                                    ELSE 10 * N + m]
             s == <<Digits[N + 1], Digits[m + 1]>>
  <2>0. Len(s) = 2 /\ s[1] = Digits[N + 1] /\ s[2] = Digits[m + 1]
    OBVIOUS
  <2> HIDE DEF s
  <2>1. v = F(s, v)
    <3>1. \A k \in 0 .. 2 : v[k] = IF k = 0 THEN 0 ELSE 10 * v[k - 1] + Val(s[k])
      BY <1>1, <2>0
    <3> QED
      BY <2>0, <3>1
  <2>2. V(s) = F(s, V(s))
    <3> HIDE DEF F, v
    <3> QED
      BY <2>1, Zenon
  <2> HIDE DEF V
  <2>3. /\ V(s)[0] = 0 /\ V(s)[1] = 10 * V(s)[0] + Val(s[1])
        /\ V(s)[2] = 10 * V(s)[1] + Val(s[2])
    BY <2>0, <2>2
  <2>4. V(s)[2] = 10 * N + m
    BY <2>3, <2>0, <1>1
  <2> QED
    BY <1>2, <2>0, <2>4 DEF s
<1>6. ASSUME NEW N \in 0 .. 99 PROVE Number(DecimalText(N)) = N
  <2> DEFINE q == N \div 10
             r == N % 10
  <2>1. q \in 0 .. 9 /\ r \in 0 .. 9 /\ N = 10 * q + r
    <3>1. q \in Int /\ r \in 0 .. 9 /\ N = 10 * q + r
      BY SMT, Division
    <3> QED
      BY <3>1
  <2>2. CASE N < 10
    <3>1. DecimalText(N) = <<Digits[N + 1]>> /\ N \in 0 .. 9
      BY <2>2 DEF DecimalText
    <3> QED
      BY <3>1, <1>4
  <2>3. CASE ~(N < 10)
    <3>1. DecimalText(N) = <<Digits[q + 1], Digits[r + 1]>>
      BY <2>3, Zenon DEF DecimalText
    <3> HIDE DEF q, r
    <3>2. Number(<<Digits[q + 1], Digits[r + 1]>>) = 10 * q + r
      BY <2>1, <1>5, Zenon
    <3>3. 10 * q + r = N
      BY <2>1
    <3> QED
      BY <3>1, <3>2, <3>3, Zenon
  <2> QED
    BY <2>2, <2>3
<1> QED
  BY <1>3, <1>6

\* The text of a number is made of digits, and of one at least.
LEMMA DecimalTextIs ==
  ASSUME NEW N \in 0 .. 99
  PROVE  /\ DecimalText(N) \in Seq(Decimal) /\ Len(DecimalText(N)) \in 1 .. 2
         /\ N > 0 => DecimalText(N)[1] # "0"
<1> DEFINE q == N \div 10
           r == N % 10
<1>1. q \in 0 .. 9 /\ r \in 0 .. 9 /\ N = 10 * q + r
  <2>1. q \in Int /\ r \in 0 .. 9 /\ N = 10 * q + r
    BY SMT, Division
  <2> QED
    BY <2>1
<1>2. CASE N < 10
  <2>1. DecimalText(N) = <<Digits[N + 1]>> /\ N \in 0 .. 9
    BY <1>2 DEF DecimalText
  <2> QED
    BY <2>1, DecimalIs
<1>3. CASE ~(N < 10)
  <2>1. DecimalText(N) = <<Digits[q + 1], Digits[r + 1]>>
    BY <1>3, Zenon DEF DecimalText
  <2>2. q \in 1 .. 9
    BY <1>1, <1>3
  <2> HIDE DEF q, r
  <2>3. /\ Digits[q + 1] \in Decimal /\ Digits[r + 1] \in Decimal
        /\ Digits[q + 1] # "0"
    BY <1>1, <2>2, DecimalIs
  <2> QED
    BY <2>1, <2>3
<1> QED
  BY <1>2, <1>3

\* What is found of an amount.
OptOf(amount)  == CASE amount.kind = "star"    -> "STAR"
                    [] amount.kind = "literal" -> "LITERAL"
                    [] OTHER                   -> "NONE"
Told(amount) == IF amount.kind = "literal" THEN amount.n ELSE 0

\* What a field width or a precision is written with.
LEMMA AmountTextIs ==
  ASSUME NEW a \in Amount_
  PROVE  /\ AmountText(a) \in Seq(Letters)
         /\ a.kind = "star" => AmountText(a) = <<"*">>
         /\ a.kind = "literal" => AmountText(a) = DecimalText(a.n) /\ a.n \in 0 .. 99
         /\ a.kind = "none" => AmountText(a) = <<>> /\ a.n = 0
         /\ a.kind \in {"star", "literal", "none"} /\ a.n \in Int
<1>1. /\ a.kind \in {"star", "literal", "none"} /\ a.n \in Int
      /\ a.kind = "literal" => a.n \in 0 .. 99
      /\ a.kind = "none" => a.n = 0
  BY DEF Amount_
<1>2. Decimal \subseteq Letters
  <2>1. ToSet(Digits) \subseteq Character
    BY CharacterAssumption
  <2>2. \A i \in 1 .. 16 : Digits[i] \in ToSet(Digits)
    BY DEF Digits, ToSet
  <2>3. Decimal \subseteq ToSet(Digits)
    BY <2>2, DecimalIs DEF Digits
  <2> QED
    BY <2>1, <2>3 DEF Letters
<1>3. CASE a.kind = "star"
  <2>1. AmountText(a) = <<"*">>
    BY <1>3 DEF AmountText
  <2>2. "*" \in Letters
    BY DEF Letters
  <2> QED
    BY <1>1, <1>3, <2>1, <2>2
<1>4. CASE a.kind = "literal"
  <2>1. AmountText(a) = DecimalText(a.n)
    BY <1>4 DEF AmountText
  <2>2. DecimalText(a.n) \in Seq(Decimal)
    BY <1>1, <1>4, DecimalTextIs
  <2> QED
    BY <1>1, <1>2, <1>4, <2>1, <2>2
<1>5. CASE a.kind = "none"
  BY <1>1, <1>5 DEF AmountText
<1> QED
  BY <1>1, <1>3, <1>4, <1>5

\* An amount is read as it was written.
LEMMA AmountIs ==
  ASSUME NEW f \in Seq(Letters), NEW i \in Nat, i > 0, NEW a \in Amount_,
         Stands(f, i, AmountText(a)), NEW j, j = i + Len(AmountText(a)),
         j <= Len(f), Char(f, j) \notin Decimal, Char(f, j) # "*"
  PROVE  Amount(f, i) = [next |-> j, opt |-> OptOf(a), n |-> Told(a)]
<1>1. /\ AmountText(a) \in Seq(Letters) /\ Len(f) \in Nat
      /\ Len(AmountText(a)) \in Nat /\ j \in Nat
      /\ a.kind \in {"star", "literal", "none"}
  BY AmountTextIs
<1>2. CASE a.kind = "star"
  <2>1. AmountText(a) = <<"*">>
    BY <1>2, AmountTextIs
  <2>2. j = i + 1 /\ Char(f, i) = "*"
    BY <1>1, <2>1 DEF Stands, Char
  <2>3. OptOf(a) = "STAR" /\ Told(a) = 0
    BY <1>2 DEF OptOf, Told
  <2> QED
    BY <2>2, <2>3 DEF Amount
<1>3. CASE a.kind = "literal"
  <2> DEFINE s == DecimalText(a.n)
  <2>1. AmountText(a) = s /\ a.n \in 0 .. 99
    BY <1>3, AmountTextIs
  <2>2. s \in Seq(Decimal) /\ Len(s) \in 1 .. 2 /\ Number(s) = a.n
    BY <2>1, DecimalTextIs, NumberIs
  <2> HIDE DEF s
  <2>3. \A k \in i .. j - 1 : Char(f, k) = s[k - i + 1] /\ f[k] = s[k - i + 1]
    <3> SUFFICES ASSUME NEW k \in i .. j - 1
                 PROVE  Char(f, k) = s[k - i + 1] /\ f[k] = s[k - i + 1]
      OBVIOUS
    <3>1. k - i + 1 \in 1 .. Len(s) /\ i + (k - i + 1) - 1 = k /\ k <= Len(f)
      BY <1>1, <2>1, <2>2
    <3>2. f[i + (k - i + 1) - 1] = s[k - i + 1]
      BY <3>1, <2>1 DEF Stands
    <3> QED
      BY <3>1, <3>2 DEF Char
  <2>4. \A k \in i .. j - 1 : Char(f, k) \in Decimal
    <3> SUFFICES ASSUME NEW k \in i .. j - 1 PROVE Char(f, k) \in Decimal
      OBVIOUS
    <3>1. k - i + 1 \in 1 .. Len(s)
      BY <1>1, <2>1, <2>2
    <3> QED
      BY <3>1, <2>2, <2>3
  <2>5. j \in i .. Len(f) + 1 /\ j # i
    <3> DEFINE l == Len(s)
    <3>1. j = i + l
      BY <2>1
    <3>2. l \in 1 .. 2
      BY <2>2
    <3> HIDE DEF l
    <3> QED
      BY <1>1, <3>1, <3>2
  <2>6. Past(f, i, Decimal) = j
    BY <2>4, <2>5, PastIs
  <2>7. SubSeq(f, i, j - 1) = s
    <3>1. /\ SubSeq(f, i, j - 1) \in Seq(Letters)
          /\ Len(SubSeq(f, i, j - 1)) = Len(s)
          /\ \A k \in 1 .. Len(s) : SubSeq(f, i, j - 1)[k] = f[i + k - 1]
      BY <1>1, <2>1, <2>2, <2>5
    <3>2. \A k \in 1 .. Len(s) : SubSeq(f, i, j - 1)[k] = s[k]
      BY <3>1, <2>1 DEF Stands
    <3>3. s \in Seq(Letters)
      BY <1>1, <2>1
    <3> QED
      BY <3>1, <3>2, <3>3, SeqEqual
  <2>8. Char(f, i) # "*"
    <3>1. Char(f, i) \in Decimal
      BY <2>4, <2>5
    <3> QED
      BY <3>1, DecimalIs
  <2>9. OptOf(a) = "LITERAL" /\ Told(a) = a.n
    BY <1>3 DEF OptOf, Told
  <2> QED
    BY <2>2, <2>5, <2>6, <2>7, <2>8, <2>9, Zenon DEF Amount
<1>4. CASE a.kind = "none"
  <2>1. AmountText(a) = <<>>
    BY <1>4, AmountTextIs
  <2>2. j = i
    BY <2>1
  <2>3. Past(f, i, Decimal) = i
    BY <1>1, <2>2, PastIs
  <2>4. SubSeq(f, i, i - 1) = <<>>
    BY SubSeqEmpty
  <2>5. OptOf(a) = "NONE" /\ Told(a) = 0
    BY <1>4 DEF OptOf, Told
  <2> QED
    BY <2>2, <2>3, <2>4, <2>5, NumberIs, Zenon DEF Amount
<1> QED
  BY <1>1, <1>2, <1>3, <1>4

\* A precision is read as it was written.
LEMMA PrecisionIs ==
  ASSUME NEW f \in Seq(Letters), NEW i \in Nat, i > 0, NEW a \in Amount_,
         Stands(f, i, Dot(a)), Stands(f, i + Len(Dot(a)), AmountText(a)),
         NEW j, j = i + Len(Dot(a)) + Len(AmountText(a)),
         j <= Len(f), Char(f, j) \notin Decimal, Char(f, j) # "*",
         Char(f, j) # "."
  PROVE  Precision(f, i) = [next |-> j, opt |-> OptOf(a), n |-> Told(a)]
<1>1. /\ AmountText(a) \in Seq(Letters) /\ Len(f) \in Nat
      /\ Len(AmountText(a)) \in Nat
      /\ a.kind \in {"star", "literal", "none"}
  BY AmountTextIs
<1>2. CASE a.kind = "none"
  <2>1. AmountText(a) = <<>> /\ Dot(a) = <<>>
    BY <1>2, AmountTextIs DEF Dot
  <2>2. j = i
    BY <2>1
  <2>3. OptOf(a) = "NONE" /\ Told(a) = 0
    BY <1>2 DEF OptOf, Told
  <2> QED
    BY <2>2, <2>3, Zenon DEF Precision
<1>3. CASE a.kind # "none"
  <2>1. Dot(a) = <<".">>
    BY <1>3 DEF Dot
  <2> DEFINE k == i + 1
  <2>2. /\ Char(f, i) = "." /\ Stands(f, k, AmountText(a))
        /\ j = k + Len(AmountText(a)) /\ k \in Nat /\ k > 0
    <3>1. Len(Dot(a)) = 1 /\ Dot(a)[1] = "."
      BY <2>1
    <3>2. i + 1 <= Len(f) + 1 /\ f[i + 1 - 1] = "."
      BY <3>1 DEF Stands
    <3> QED
      BY <1>1, <3>1, <3>2 DEF Char
  <2> HIDE DEF k
  <2>3. Amount(f, k) = [next |-> j, opt |-> OptOf(a), n |-> Told(a)]
    BY <2>2, AmountIs
  <2>4. Char(f, k) # "-"
    <3>1. CASE a.kind = "star"
      <4>1. AmountText(a) = <<"*">>
        BY <3>1, AmountTextIs
      <4>2. f[k + 1 - 1] = "*" /\ k <= Len(f)
        BY <4>1, <2>2 DEF Stands
      <4> QED
        BY <4>2, <2>2 DEF Char
    <3>2. CASE a.kind = "literal"
      <4> DEFINE s == DecimalText(a.n)
      <4>1. AmountText(a) = s /\ a.n \in 0 .. 99
        BY <3>2, AmountTextIs
      <4>2. s \in Seq(Decimal) /\ Len(s) \in 1 .. 2
        BY <4>1, DecimalTextIs
      <4> HIDE DEF s
      <4>3. s[1] \in Decimal /\ 1 \in 1 .. Len(s)
        BY <4>2
      <4>4. f[k + 1 - 1] = s[1] /\ k <= Len(f)
        BY <4>1, <4>3, <2>2, <1>1 DEF Stands
      <4>5. Char(f, k) = s[1]
        BY <4>4, <2>2 DEF Char
      <4> QED
        BY <4>3, <4>5, DecimalIs
    <3> QED
      BY <1>1, <1>3, <3>1, <3>2
  <2>5. OptOf(a) \in {"STAR", "LITERAL"}
    BY <1>1, <1>3 DEF OptOf
  <2>6. Precision(f, i)
        = [Amount(f, k) EXCEPT !.opt = IF @ = "STAR" THEN @ ELSE "LITERAL"]
    BY <2>2, <2>4, Zenon DEF Precision, k
  <2> QED
    BY <2>3, <2>5, <2>6
<1> QED
  BY <1>2, <1>3

\* So is a length modifier.
LEMMA LengthIs ==
  ASSUME NEW f \in Seq(Letters), NEW i \in Nat, i > 0,
         NEW len \in {<<>>, <<"l">>, <<"h">>, <<"h", "h">>},
         Stands(f, i, len), NEW j, j = i + Len(len), j <= Len(f),
         Char(f, j) # "h", Char(f, j) # "l"
  PROVE  /\ LengthModifier(f, i) = len
         /\ len = <<>> \/ Char(f, i) \in {"l", "h"}
<1>1. Len(f) \in Nat
  OBVIOUS
<1>2. CASE len = <<>>
  <2>1. j = i
    BY <1>2
  <2> QED
    BY <2>1, <1>2 DEF LengthModifier
<1>3. CASE len = <<"l">>
  <2>1. f[i + 1 - 1] = "l" /\ i + 1 <= Len(f) + 1
    BY <1>3 DEF Stands
  <2>2. Char(f, i) = "l"
    BY <1>1, <2>1 DEF Char
  <2> QED
    BY <2>2, <1>3 DEF LengthModifier
<1>4. CASE len = <<"h">>
  <2>1. f[i + 1 - 1] = "h" /\ i + 1 <= Len(f) + 1
    BY <1>4 DEF Stands
  <2>2. Char(f, i) = "h" /\ j = i + 1
    BY <1>1, <1>4, <2>1 DEF Char
  <2> QED
    BY <2>2, <1>4 DEF LengthModifier
<1>5. CASE len = <<"h", "h">>
  <2>1. f[i + 1 - 1] = "h" /\ f[i + 2 - 1] = "h" /\ i + 2 <= Len(f) + 1
    BY <1>5 DEF Stands
  <2>2. Char(f, i) = "h" /\ Char(f, i + 1) = "h"
    BY <1>1, <2>1 DEF Char
  <2> QED
    BY <2>2, <1>5 DEF LengthModifier
<1> QED
  BY <1>2, <1>3, <1>4, <1>5

\* What the parser finds of a directive that is written in front of next.
Parsed(item, next) ==
    [ok |-> TRUE, next |-> next,
     left_justified |-> Has(item, "-"), leading_zero_pad |-> Has(item, "0"),
     prepend |-> Prepend(item.flags), alt_form |-> Has(item, "#"),
     field_width |-> Told(item.width), field_width_opt |-> OptOf(item.width),
     prec |-> Told(item.prec), prec_opt |-> OptOf(item.prec),
     length_modifier |-> item.len,
     conv_spec |-> IF item.conv = "i" THEN "d" ELSE item.conv]

\* The characters a directive is written with.
LEMMA SpelledTyped ==
  ASSUME NEW item, Directive(item)
  PROVE  /\ item.flags \in Seq(Letters) /\ AmountText(item.width) \in Seq(Letters)
         /\ Dot(item.prec) \in Seq(Letters) /\ AmountText(item.prec) \in Seq(Letters)
         /\ item.len \in Seq(Letters) /\ <<item.conv>> \in Seq(Letters)
         /\ item.conv \in Conversions /\ item.before \in Seq(Letters)
         /\ item.width \in Amount_ /\ item.prec \in Amount_
         /\ <<"%">> \in Seq(Letters)
<1>1. /\ FlagChars \subseteq Letters /\ Conversions \subseteq Letters
      /\ {"*", ".", "h", "l"} \subseteq Letters /\ Character \subseteq Letters
      /\ "%" \in Conversions
  <2>1. FlagChars \subseteq Character /\ Conversions \subseteq Character
    BY CharacterAssumption
  <2>2. "%" \in Conversions
    BY DEF Conversions
  <2>3. Character \subseteq Letters /\ {"*", ".", "h", "l"} \subseteq Letters
    BY DEF Letters
  <2> QED
    BY <2>1, <2>2, <2>3, Zenon
<1>2. /\ item.width \in Amount_ /\ item.prec \in Amount_
      /\ item.flags \in Seq(FlagChars) /\ item.conv \in Conversions
      /\ item.len \in {<<>>, <<"l">>, <<"h">>, <<"h", "h">>}
      /\ item.before \in Seq(Character)
  BY Zenon DEF Directive
<1>3. item.flags \in Seq(Letters) /\ item.before \in Seq(Letters)
  BY <1>1, <1>2
<1>4. item.len \in Seq(Letters)
  <2>1. "l" \in Letters /\ "h" \in Letters
    BY DEF Letters
  <2>2. /\ <<>> \in Seq(Letters) /\ <<"l">> \in Seq(Letters)
        /\ <<"h">> \in Seq(Letters) /\ <<"h", "h">> \in Seq(Letters)
    BY <2>1
  <2> QED
    BY <1>2, <2>2, Zenon
<1>5. Dot(item.prec) \in Seq(Letters)
  BY <1>1 DEF Dot
<1>6. <<item.conv>> \in Seq(Letters) /\ <<"%">> \in Seq(Letters)
  BY <1>1, <1>2
<1> QED
  BY <1>2, <1>3, <1>4, <1>5, <1>6, AmountTextIs

\* A directive is understood as it was written.
LEMMA ParsedIs ==
  ASSUME NEW f \in Seq(Letters), NEW p \in Nat, p > 0,
         NEW item, Directive(item), Stands(f, p, Spelled(item))
  PROVE  npf_parse_format_spec(f, p) = Parsed(item, p + Len(Spelled(item)))
<1> DEFINE w  == AmountText(item.width)
           d  == Dot(item.prec)
           q  == AmountText(item.prec)
           h  == <<"%">>
           l1 == Len(item.flags)
           l2 == Len(w)
           l3 == Len(d)
           l4 == Len(q)
           l5 == Len(item.len)
           t6 == item.len \o <<item.conv>>
           t5 == q \o t6
           t4 == d \o t5
           t3 == w \o t4
           t2 == item.flags \o t3
           p1 == p + 1
           p2 == p1 + l1
           p3 == p2 + l2
           p4 == p3 + l3
           p5 == p4 + l4
           p6 == p5 + l5
<1>1. /\ item.flags \in Seq(Letters) /\ w \in Seq(Letters)
      /\ d \in Seq(Letters) /\ q \in Seq(Letters)
      /\ item.len \in Seq(Letters) /\ <<item.conv>> \in Seq(Letters)
      /\ h \in Seq(Letters)
      /\ item.conv \in Conversions
      /\ item.width \in Amount_ /\ item.prec \in Amount_
  BY SpelledTyped
<1>2. Spelled(item) = h \o t2 /\ Len(h) = 1
  <2>1. Len(h) = 1
    OBVIOUS
  <2> QED
    BY <2>1, Zenon DEF Spelled
<1> HIDE DEF w, d, q, h
<1>3. /\ t6 \in Seq(Letters) /\ Len(t6) = Len(item.len) + 1
  <2>1. Len(<<item.conv>>) = 1
    OBVIOUS
  <2> QED
    BY <1>1, <2>1, ConcatProperties
<1> HIDE DEF t6
<1>4. t5 \in Seq(Letters) /\ Len(t5) = Len(q) + Len(t6)
  BY <1>1, <1>3, ConcatProperties
<1> HIDE DEF t5
<1>5. t4 \in Seq(Letters) /\ Len(t4) = Len(d) + Len(t5)
  BY <1>1, <1>4, ConcatProperties
<1> HIDE DEF t4
<1>6. t3 \in Seq(Letters) /\ Len(t3) = Len(w) + Len(t4)
  BY <1>1, <1>5, ConcatProperties
<1> HIDE DEF t3
<1>7. t2 \in Seq(Letters) /\ Len(t2) = Len(item.flags) + Len(t3)
  BY <1>1, <1>6, ConcatProperties
<1> HIDE DEF t2
<1>8. Len(Spelled(item)) = 1 + Len(t2)
  <2>1. Len(h \o t2) = Len(h) + Len(t2)
    BY ZenonT(60), <1>1, <1>7, ConcatProperties
  <2> QED
    BY <1>2, <2>1
<1>9. /\ l1 \in Nat /\ l2 \in Nat /\ l3 \in Nat
      /\ l4 \in Nat /\ l5 \in Nat /\ Len(f) \in Nat
  BY <1>1
<1>12. p + Len(Spelled(item)) = p6 + 1
  <2> DEFINE m6 == Len(t6)
             m5 == Len(t5)
             m4 == Len(t4)
             m3 == Len(t3)
             m2 == Len(t2)
             m1 == Len(Spelled(item))
  <2>1. /\ m6 = l5 + 1 /\ m5 = l4 + m6 /\ m4 = l3 + m5 /\ m3 = l2 + m4
        /\ m2 = l1 + m3 /\ m1 = 1 + m2
    BY <1>3, <1>4, <1>5, <1>6, <1>7, <1>8
  <2> HIDE DEF m1, m2, m3, m4, m5, m6, l1, l2, l3, l4, l5
  <2>2. p + m1 = p6 + 1
    BY <1>9, <2>1
  <2> QED
    BY <2>2 DEF m1
<1>10. /\ p1 \in Nat /\ p1 > 0 /\ p2 \in Nat /\ p2 > 0 /\ p3 \in Nat /\ p3 > 0
       /\ p4 \in Nat /\ p4 > 0 /\ p5 \in Nat /\ p5 > 0 /\ p6 \in Nat /\ p6 > 0
       /\ p1 <= p2 /\ p2 <= p3 /\ p3 <= p4 /\ p4 <= p5 /\ p5 <= p6
  <2> HIDE DEF l1, l2, l3, l4, l5
  <2> QED
    BY <1>9
<1>11. Stands(f, p1, t2)
  <2>1. Stands(f, p, h) /\ Stands(f, p + Len(h), t2)
    BY <1>1, <1>2, <1>7, StandsJoined
  <2> QED
    BY <1>2, <2>1
<1> HIDE DEF p1
<1>13. Stands(f, p1, item.flags) /\ Stands(f, p2, t3)
  BY <1>1, <1>6, <1>10, <1>11, StandsJoined DEF t2
<1> HIDE DEF p2
<1>14. Stands(f, p2, w) /\ Stands(f, p3, t4)
  BY <1>1, <1>5, <1>10, <1>13, StandsJoined DEF t3
<1> HIDE DEF p3
<1>15. Stands(f, p3, d) /\ Stands(f, p4, t5)
  BY <1>1, <1>4, <1>10, <1>14, StandsJoined DEF t4
<1> HIDE DEF p4
<1>16. Stands(f, p4, q) /\ Stands(f, p5, t6)
  BY <1>1, <1>3, <1>10, <1>15, StandsJoined DEF t5
<1> HIDE DEF p5
<1>17. Stands(f, p5, item.len) /\ Stands(f, p6, <<item.conv>>)
  BY <1>1, <1>10, <1>16, StandsJoined DEF t6
<1> HIDE DEF p6
<1>18. p6 <= Len(f) /\ Char(f, p6) = item.conv
  <2>1. p6 + 1 <= Len(f) + 1 /\ f[p6 + 1 - 1] = item.conv
    BY <1>17 DEF Stands
  <2> QED
    BY <1>9, <1>10, <2>1 DEF Char
<1>19. /\ LengthModifier(f, p5) = item.len
       /\ Char(f, p5) \in {"l", "h"} \cup Conversions
  <2>1. item.len \in {<<>>, <<"l">>, <<"h">>, <<"h", "h">>}
    BY Zenon DEF Directive
  <2>2. Char(f, p6) # "h" /\ Char(f, p6) # "l"
    BY <1>1, <1>18 DEF Conversions
  <2>3. /\ LengthModifier(f, p5) = item.len
        /\ item.len = <<>> \/ Char(f, p5) \in {"l", "h"}
    BY <1>10, <1>17, <1>18, <2>1, <2>2, LengthIs DEF p6
  <2>4. item.len = <<>> => p6 = p5
    BY <1>9, <1>10 DEF p6
  <2> QED
    BY <1>1, <1>18, <2>3, <2>4
<1>20. /\ Precision(f, p3) = [next |-> p5, opt |-> OptOf(item.prec),
                              n |-> Told(item.prec)]
       /\ Char(f, p3) \in {"l", "h", "."} \cup Conversions
  <2>1. /\ Char(f, p5) \notin Decimal /\ Char(f, p5) # "*" /\ Char(f, p5) # "."
    BY <1>19, DecimalIs DEF Conversions
  <2>2. p5 = p3 + Len(Dot(item.prec)) + Len(AmountText(item.prec)) /\ p5 <= Len(f)
    BY <1>9, <1>10, <1>18 DEF p5, p4, d, q
  <2>3. Precision(f, p3) = [next |-> p5, opt |-> OptOf(item.prec),
                            n |-> Told(item.prec)]
    BY <1>1, <1>10, <1>15, <1>16, <2>1, <2>2, PrecisionIs DEF d, q, p4
  <2>4. CASE item.prec.kind = "none"
    <3>1. d = <<>> /\ q = <<>>
      BY <1>1, <2>4, AmountTextIs DEF d, q, Dot
    <3>2. p3 = p5
      BY <3>1, <1>10 DEF p5, p4
    <3> QED
      BY <2>3, <3>2, <1>19
  <2>5. CASE item.prec.kind # "none"
    <3>1. d = <<".">>
      BY <2>5 DEF d, Dot
    <3>2. p3 + 1 <= Len(f) + 1 /\ f[p3 + 1 - 1] = "."
      BY <3>1, <1>15 DEF Stands
    <3>3. Char(f, p3) = "."
      BY <1>9, <1>10, <3>2 DEF Char
    <3> QED
      BY <2>3, <3>3
  <2> QED
    BY <2>4, <2>5
<1>21. /\ Amount(f, p2) = [next |-> p3, opt |-> OptOf(item.width),
                           n |-> Told(item.width)]
       /\ Char(f, p2) \notin FlagChars
  <2>1. Char(f, p3) \notin Decimal /\ Char(f, p3) # "*"
    BY <1>20, DecimalIs DEF Conversions
  <2>2. p3 = p2 + Len(AmountText(item.width)) /\ p3 <= Len(f)
    BY <1>10, <1>18 DEF p3, w
  <2>3. Amount(f, p2) = [next |-> p3, opt |-> OptOf(item.width),
                         n |-> Told(item.width)]
    BY <1>1, <1>10, <1>14, <2>1, <2>2, AmountIs DEF w
  <2>4. CASE item.width.kind = "none"
    <3>1. w = <<>>
      BY <1>1, <2>4, AmountTextIs DEF w
    <3>2. p2 = p3
      BY <3>1, <1>10 DEF p3
    <3> QED
      BY <2>3, <3>2, <1>20 DEF Conversions, FlagChars
  <2>5. CASE item.width.kind = "star"
    <3>1. w = <<"*">>
      BY <1>1, <2>5, AmountTextIs DEF w
    <3>2. p2 + 1 <= Len(f) + 1 /\ f[p2 + 1 - 1] = "*"
      BY <3>1, <1>14 DEF Stands
    <3>3. Char(f, p2) = "*"
      BY <1>9, <1>10, <3>2 DEF Char
    <3> QED
      BY <2>3, <3>3 DEF FlagChars
  <2>6. CASE item.width.kind = "literal"
    <3> DEFINE s == DecimalText(item.width.n)
    <3>0. item.width.kind = "literal" => item.width.n > 0
      BY Zenon DEF Directive
    <3>1. w = s /\ item.width.n \in 0 .. 99 /\ item.width.n > 0
      BY <1>1, <2>6, <3>0, AmountTextIs DEF w
    <3>2. s \in Seq(Decimal) /\ Len(s) \in 1 .. 2 /\ s[1] # "0"
      BY <3>1, DecimalTextIs
    <3> HIDE DEF s
    <3>3. s[1] \in Decimal /\ 1 \in 1 .. Len(s)
      BY <3>2
    <3>4. f[p2 + 1 - 1] = s[1] /\ p2 <= Len(f)
      BY <3>1, <3>3, <1>14, <1>9, <1>10 DEF Stands
    <3>5. Char(f, p2) = s[1]
      BY <3>4, <1>10 DEF Char
    <3> QED
      BY <2>3, <3>2, <3>3, <3>5, DecimalIs DEF FlagChars
  <2> QED
    BY <1>1, <2>4, <2>5, <2>6, AmountTextIs
<1>22. Past(f, p1, FlagChars) = p2 /\ SubSeq(f, p1, p2 - 1) = item.flags
  <2>1. item.flags \in Seq(FlagChars)
    BY Zenon DEF Directive
  <2>2. p2 \in p1 .. Len(f) + 1
    BY <1>9, <1>10, <1>18
  <2>3. \A i \in 1 .. Len(item.flags) : f[p1 + i - 1] = item.flags[i]
    BY <1>13 DEF Stands
  <2>4. \A k \in p1 .. p2 - 1 : Char(f, k) \in FlagChars
    <3> SUFFICES ASSUME NEW k \in p1 .. p2 - 1 PROVE Char(f, k) \in FlagChars
      OBVIOUS
    <3> DEFINE i == k - p1 + 1
    <3>1. i \in 1 .. Len(item.flags) /\ p1 + i - 1 = k /\ k <= Len(f)
      BY <1>9, <1>10, <1>18 DEF p2
    <3> HIDE DEF i
    <3>2. f[k] = item.flags[i] /\ item.flags[i] \in FlagChars
      BY <2>1, <2>3, <3>1
    <3> QED
      BY <3>1, <3>2 DEF Char
  <2>5. Past(f, p1, FlagChars) = p2
    BY <1>10, <1>21, <2>2, <2>4, PastIs
  <2>6. SubSeq(f, p1, p2 - 1) = item.flags
    <3> DEFINE s == SubSeq(f, p1, p2 - 1)
    <3>1. /\ s \in Seq(Letters) /\ Len(s) = Len(item.flags)
          /\ \A k \in 1 .. Len(item.flags) : s[k] = f[p1 + k - 1]
      <4> DEFINE l == Len(item.flags)
                 u == p2 - 1
      <4>1. p1 \in Nat /\ l \in Nat /\ u = p1 + l - 1 /\ u <= Len(f) /\ p1 > 0
        BY <1>9, <1>10, <1>18 DEF p2
      <4> HIDE DEF l, u
      <4>2. \A k \in p1 .. u : f[k] \in Letters
        BY <4>1
      <4>3. /\ SubSeq(f, p1, u) \in Seq(Letters) /\ Len(SubSeq(f, p1, u)) = l
            /\ \A k \in 1 .. l : SubSeq(f, p1, u)[k] = f[p1 + k - 1]
        BY <4>1, <4>2
      <4> QED
        BY <4>3, Zenon DEF l, u
    <3> HIDE DEF s
    <3>2. \A k \in 1 .. Len(s) : s[k] = item.flags[k]
      BY <2>3, <3>1
    <3>3. s = item.flags
      BY <1>1, <3>1, <3>2, SeqEqual
    <3> QED
      BY <3>3 DEF s
  <2> QED
    BY <2>5, <2>6, Zenon
<1>23. p1 = p + 1 /\ p6 = p5 + Len(item.len)
  BY DEF p1, p6
<1>24. Past(f, p + 1, FlagChars) = p2 /\ SubSeq(f, p + 1, p2 - 1) = item.flags
  BY <1>22, <1>23
<1> DEFINE width == [next |-> p3, opt |-> OptOf(item.width), n |-> Told(item.width)]
           prec  == [next |-> p5, opt |-> OptOf(item.prec), n |-> Told(item.prec)]
<1>25. width.next = p3 /\ prec.next = p5
  OBVIOUS
<1>26. /\ width.n = Told(item.width) /\ width.opt = OptOf(item.width)
       /\ prec.n = Told(item.prec) /\ prec.opt = OptOf(item.prec)
  OBVIOUS
<1> HIDE DEF width, prec
<1>27. npf_parse_format_spec(f, p) =
       [ok |-> item.conv \in Conversions, next |-> p6 + 1,
         left_justified |-> Contains(item.flags, "-"),
         leading_zero_pad |-> Contains(item.flags, "0"),
         prepend |-> Prepend(item.flags), alt_form |-> Contains(item.flags, "#"),
         field_width |-> width.n, field_width_opt |-> width.opt,
         prec |-> prec.n, prec_opt |-> prec.opt, length_modifier |-> item.len,
         conv_spec |-> IF item.conv = "i" THEN "d" ELSE item.conv]
  BY <1>18, <1>19, <1>20, <1>21, <1>23, <1>24, <1>25, ZenonT(60) DEF npf_parse_format_spec, width, prec
<1>28. (item.conv \in Conversions) = TRUE
  BY <1>1
<1> QED
  BY <1>12, <1>26, <1>27, <1>28, Zenon DEF Parsed, Has

\* A '%' that begins no directive is not understood as one.
LEMMA LoneIs ==
  ASSUME NEW f \in Seq(Letters), NEW p \in 1 .. Len(f),
         Char(f, p + 1) \notin FlagChars \cup Decimal \cup Conversions
                                   \cup {"*", ".", "h", "l"}
  PROVE  ~npf_parse_format_spec(f, p).ok
<1> DEFINE i == p + 1
           c == Char(f, i)
           w == [next |-> i, opt |-> "NONE", n |-> 0]
<1>1. /\ c \notin FlagChars /\ c \notin Decimal /\ c \notin Conversions
      /\ c # "*" /\ c # "." /\ c # "h" /\ c # "l"
  OBVIOUS
<1>2. i \in Nat /\ i > 0 /\ i \in i .. Len(f) + 1 /\ Len(f) \in Nat
  OBVIOUS
<1> HIDE DEF i
<1>3. Past(f, i, FlagChars) = i /\ Past(f, i, Decimal) = i
  BY <1>1, <1>2, PastIs
<1>4. SubSeq(f, i, i - 1) = <<>>
  BY <1>2, SubSeqEmpty
<1> HIDE DEF c
<1>5. Amount(f, i) = w
  BY <1>1, <1>3, <1>4, NumberIs, Zenon DEF Amount, c
<1>6. Precision(f, i) = w
  BY <1>1, Zenon DEF Precision, c
<1>7. LengthModifier(f, i) = <<>>
  BY <1>1, Zenon DEF LengthModifier, c
<1>8. w.next = i /\ i + Len(<<>>) = i
  BY <1>2
<1> HIDE DEF w
<1>9. npf_parse_format_spec(f, p).ok = (Char(f, i + Len(<<>>)) \in Conversions)
  <2>1. i = p + 1
    BY DEF i
  <2> QED
    BY <1>3, <1>5, <1>6, <1>7, <1>8, <2>1 DEF npf_parse_format_spec
<1> QED
  BY <1>1, <1>8, <1>9 DEF c

\* What stands in a text stands there when more is put behind it, and what is
\* put behind it stands at its end.
LEMMA StandsAppended ==
  ASSUME NEW S, NEW s \in Seq(S), NEW t \in Seq(S), NEW u \in Seq(S),
         NEW p \in Nat, p > 0
  PROVE  /\ Stands(s, p, t) => Stands(s \o u, p, t)
         /\ Stands(s \o u, Len(s) + 1, u)
<1>1. /\ Len(s) \in Nat /\ Len(t) \in Nat /\ Len(u) \in Nat
      /\ Len(s \o u) = Len(s) + Len(u)
      /\ \A i \in 1 .. Len(s) : (s \o u)[i] = s[i]
      /\ \A i \in 1 .. Len(u) : (s \o u)[Len(s) + i] = u[i]
  OBVIOUS
<1>2. ASSUME Stands(s, p, t) PROVE Stands(s \o u, p, t)
  <2>1. \A i \in 1 .. Len(t) : p + i - 1 \in 1 .. Len(s)
    BY <1>1, <1>2 DEF Stands
  <2> QED
    BY SMTT(60), <1>1, <1>2, <2>1 DEF Stands
<1>3. Stands(s \o u, Len(s) + 1, u)
  <2>1. \A i \in 1 .. Len(u) : Len(s) + 1 + i - 1 = Len(s) + i
    BY <1>1
  <2> QED
    BY SMTT(60), <1>1, <2>1 DEF Stands
<1> QED
  BY <1>2, <1>3

\* Every one of the texts stands behind those before it.
LEMMA Placed ==
  ASSUME NEW T, NEW ss \in Seq(Seq(T)), NEW k \in 0 .. Len(ss) - 1
  PROVE  Stands(FlattenSeq(ss), Len(FlattenSeq(SubSeq(ss, 1, k))) + 1, ss[k + 1])
<1> DEFINE F(m) == FlattenSeq(SubSeq(ss, 1, m))
           N == Len(ss)
           p == Len(F(k)) + 1
           P == {m \in Nat : k + 1 + m <= N => Stands(F(k + 1 + m), p, ss[k + 1])}
<1>1. N \in Nat /\ \A m \in 1 .. N : ss[m] \in Seq(T)
  OBVIOUS
<1>2. /\ \A m \in 0 .. N : F(m) \in Seq(T)
      /\ F(N) = FlattenSeq(ss)
      /\ \A m \in 0 .. N - 1 : F(m + 1) = F(m) \o ss[m + 1]
  BY FlattenSteps
<1> HIDE DEF N, F
<1>3. p \in Nat /\ p > 0
  <2>1. F(k) \in Seq(T)
    BY <1>1, <1>2 DEF N
  <2> QED
    BY <2>1
<1>4. k \in 0 .. N - 1 /\ k + 1 \in 1 .. N /\ k \in 0 .. N
  BY <1>1 DEF N
<1> HIDE DEF p
<1>5. 0 \in P
  <2>1. Stands(F(k) \o ss[k + 1], p, ss[k + 1])
    BY <1>1, <1>2, <1>3, <1>4, StandsAppended DEF p
  <2>2. k + 1 + 0 = k + 1 /\ F(k + 1) = F(k) \o ss[k + 1]
    BY <1>2, <1>4
  <2> QED
    BY <2>1, <2>2
<1>6. ASSUME NEW m \in Nat, m \in P PROVE m + 1 \in P
  <2> SUFFICES ASSUME k + 1 + (m + 1) <= N
               PROVE  Stands(F(k + 1 + (m + 1)), p, ss[k + 1])
    OBVIOUS
  <2> DEFINE j == k + 1 + m
  <2>1. j \in 0 .. N - 1 /\ j \in 0 .. N /\ j + 1 \in 1 .. N
        /\ k + 1 + (m + 1) = j + 1 /\ j <= N
    BY <1>1, <1>4
  <2>2. Stands(F(j), p, ss[k + 1])
    BY <1>6, <2>1
  <2> HIDE DEF j, P
  <2>3. Stands(F(j) \o ss[j + 1], p, ss[k + 1])
    BY <1>1, <1>2, <1>3, <1>4, <2>1, <2>2, StandsAppended
  <2> QED
    BY <1>2, <2>1, <2>3
<1> HIDE DEF P
<1>7. N - (k + 1) \in P
  <2>1. N - (k + 1) \in Nat
    BY <1>1, <1>4
  <2> QED
    BY <1>5, <1>6, <2>1, SetInduction
<1>8. Stands(F(N), p, ss[k + 1])
  <2>1. k + 1 + (N - (k + 1)) = N
    BY <1>1, <1>4
  <2> QED
    BY <1>1, <1>7, <2>1 DEF P
<1> QED
  BY <1>2, <1>8 DEF p, F

------------------------------------------------------------------------------
(* The digits of a number. *)

\* There is one quotient.
LEMMA OneQuotient ==
  ASSUME NEW d \in Nat \ {0}, NEW q \in Int, NEW r \in 0 .. d - 1,
         NEW x \in Int, x = d * q + r
  PROVE  x \div d = q /\ x % d = r
<1> DEFINE p == x \div d
           s == x % d
<1>1. p \in Int /\ s \in 0 .. d - 1 /\ x = d * p + s
  BY Division
<1> HIDE DEF p, s
<1>2. d * q + r = d * p + s
  BY <1>1
<1>3. r = s
  BY <1>1, <1>2, OneRemainder
<1>4. d * (q - p) = 0
  BY <1>1, <1>2, <1>3
<1>5. q = p
  <2>1. CASE q - p >= 1
    BY <2>1, <1>1, <1>4
  <2>2. CASE q - p <= -1
    BY <2>2, <1>1, <1>4
  <2> QED
    BY <1>1, <2>1, <2>2
<1> QED
  BY <1>3, <1>5 DEF p, s

\* Dividing twice is dividing by the product.
LEMMA DividedTwice ==
  ASSUME NEW a \in Nat, NEW b \in Nat \ {0}, NEW c \in Nat \ {0}
  PROVE  (a \div b) \div c = a \div (b * c) /\ a \div b \in Nat
<1> DEFINE q == a \div b
           r == a % b
           p == q \div c
           s == q % c
           m == b * c
<1>1. q \in Int /\ r \in 0 .. b - 1 /\ a = b * q + r
  BY Division
<1>2. q \in Nat
  <2> HIDE DEF q, r
  <2>1. CASE q <= -1
    <3>1. b * q <= -b
      BY <1>1, <2>1
    <3> QED
      BY <1>1, <3>1
  <2> QED
    BY <1>1, <2>1
<1> HIDE DEF q, r
<1>3. p \in Int /\ s \in 0 .. c - 1 /\ q = c * p + s
  BY <1>2, Division
<1> HIDE DEF p, s
<1>4. m \in Nat \ {0}
  OBVIOUS
<1>5. a = m * p + (b * s + r)
  <2>1. b * q = b * (c * p) + b * s
    BY <1>3
  <2>2. b * (c * p) = (b * c) * p
    BY <1>3
  <2>3. b * s \in Int /\ (b * c) * p \in Int
    BY <1>3
  <2> QED
    BY <1>1, <2>1, <2>2, <2>3
<1>6. b * s + r \in 0 .. m - 1
  <2>1. b * s <= b * (c - 1) /\ b * s >= 0 /\ b * s \in Int
    BY <1>3
  <2>2. b * (c - 1) = b * c - b
    OBVIOUS
  <2> QED
    BY <1>1, <2>1, <2>2
<1> DEFINE t == b * s + r
<1> HIDE DEF m, t
<1>7. a \div m = p
  <2>1. t \in 0 .. m - 1 /\ a = m * p + t
    BY <1>5, <1>6 DEF t
  <2> QED
    BY <1>3, <1>4, <2>1, OneQuotient
<1> QED
  BY <1>2, <1>7 DEF m, p, q

\* How npf_utoa_rev goes on.
Reverses(f, val, base, upper) ==
    f = [v \in 0 .. val |->
            <<IF upper THEN UpperDigits[(v % base) + 1] ELSE Digits[(v % base) + 1]>>
            \o IF v < base THEN <<>> ELSE f[v \div base]]

Table(upper) == IF upper THEN UpperDigits ELSE Digits

\* The tables hold the digits of every base.
LEMMA TableIs ==
  ASSUME NEW upper \in BOOLEAN
  PROVE  /\ \A i \in 1 .. 16 : /\ Table(upper)[i] \in Character
                               /\ i > 1 => Table(upper)[i] # "0"
         /\ Table(upper)[1] = "0"
<1>1. /\ ToSet(Digits) \subseteq Character /\ ToSet(UpperDigits) \subseteq Character
  BY CharacterAssumption
<1>2. /\ \A i \in 1 .. 16 : Digits[i] \in ToSet(Digits) /\ (i > 1 => Digits[i] # "0")
      /\ Digits[1] = "0"
  BY DEF Digits, ToSet
<1>3. /\ \A i \in 1 .. 16 : /\ UpperDigits[i] \in ToSet(UpperDigits)
                            /\ (i > 1 => UpperDigits[i] # "0")
      /\ UpperDigits[1] = "0"
  <2> DEFINE D == SubSeq(Digits, 1, 10)
             E == <<"A", "B", "C", "D", "E", "F">>
             S == {Digits[i] : i \in 1 .. 10} \cup {"A", "B", "C", "D", "E", "F"}
  <2>1. /\ D \in Seq(S) /\ Len(D) = 10 /\ \A i \in 1 .. 10 : D[i] = Digits[i]
    <3>1. Len(D) = 10 /\ \A i \in 1 .. 10 : D[i] = Digits[i]
      BY DEF Digits
    <3>2. \A i \in 1 .. 10 : Digits[i] \in S
      OBVIOUS
    <3> HIDE DEF S
    <3>3. D \in Seq(S)
      BY <3>2, SubSeqProperties
    <3> QED
      BY <3>1, <3>3
  <2>2. /\ E \in Seq(S) /\ Len(E) = 6
        /\ \A i \in 1 .. 6 : E[i] # "0"
    OBVIOUS
  <2>3. UpperDigits = D \o E
    BY Zenon DEF UpperDigits
  <2> HIDE DEF D, E, S
  <2>4. /\ Len(UpperDigits) = 16 /\ UpperDigits \in Seq(S)
        /\ \A i \in 1 .. 16 : UpperDigits[i] = IF i <= 10 THEN D[i] ELSE E[i - 10]
    <3>1. /\ D \o E \in Seq(S) /\ Len(D \o E) = Len(D) + Len(E)
          /\ \A i \in 1 .. Len(D) + Len(E) :
                 (D \o E)[i] = IF i <= Len(D) THEN D[i] ELSE E[i - Len(D)]
      BY ZenonT(60), <2>1, <2>2, ConcatProperties
    <3>2. Len(D) = 10 /\ Len(E) = 6 /\ Len(D) + Len(E) = 16
      BY <2>1, <2>2
    <3>3. \A i \in 1 .. 16 : (D \o E)[i] = IF i <= 10 THEN D[i] ELSE E[i - 10]
      BY <3>1, <3>2, Zenon
    <3> QED
      BY <2>3, <3>1, <3>2, <3>3, Zenon
  <2>5. \A i \in 1 .. 16 : i > 1 => UpperDigits[i] # "0"
    <3> SUFFICES ASSUME NEW i \in 1 .. 16, i > 1 PROVE UpperDigits[i] # "0"
      OBVIOUS
    <3>1. CASE i <= 10
      BY SMTT(60), <3>1, <1>2, <2>1, <2>4
    <3>2. CASE i > 10
      <4>1. i - 10 \in 1 .. 6
        BY <3>2
      <4> QED
        BY SMTT(60), <3>2, <4>1, <2>2, <2>4
    <3> QED
      BY <3>1, <3>2
  <2>6. \A i \in 1 .. 16 : UpperDigits[i] \in ToSet(UpperDigits)
    <3>1. DOMAIN UpperDigits = 1 .. 16
      BY <2>4, LenProperties, Zenon
    <3> QED
      BY <3>1, Zenon DEF ToSet
  <2>7. UpperDigits[1] = "0"
    BY <1>2, <2>1, <2>4
  <2> QED
    BY <2>5, <2>6, <2>7
<1>4. CASE upper = TRUE
  <2>1. Table(upper) = UpperDigits
    BY <1>4 DEF Table
  <2> QED
    BY <1>1, <1>3, <2>1
<1>5. CASE upper = FALSE
  <2>1. Table(upper) = Digits
    BY <1>5 DEF Table
  <2> QED
    BY <1>1, <1>2, <2>1
<1> QED
  BY <1>4, <1>5

\* There is a function that does.
LEMMA RevExists ==
  ASSUME NEW base \in Nat, base > 1, NEW upper \in BOOLEAN, NEW val \in Nat
  PROVE  \E f : Reverses(f, val, base, upper)
<1> DEFINE D(v) == <<IF upper THEN UpperDigits[(v % base) + 1]
                     ELSE Digits[(v % base) + 1]>>
           P == {m \in Nat : \E f : Reverses(f, m, base, upper)}
<1>1. 0 \in P
  <2> DEFINE f == [v \in 0 .. 0 |-> D(v) \o <<>>]
  <2>1. \A v \in 0 .. 0 : v < base
    OBVIOUS
  <2>2. f = [v \in 0 .. 0 |-> D(v) \o IF v < base THEN <<>> ELSE f[v \div base]]
    <3> HIDE DEF D
    <3> QED
      BY <2>1
  <2>3. Reverses(f, 0, base, upper)
    <3> HIDE DEF f
    <3> QED
      BY <2>2, Zenon DEF Reverses
  <2> QED
    BY <2>3
<1>2. ASSUME NEW m \in Nat, m \in P PROVE m + 1 \in P
  <2>1. PICK f : Reverses(f, m, base, upper)
    BY <1>2
  <2>2. f = [v \in 0 .. m |-> D(v) \o IF v < base THEN <<>> ELSE f[v \div base]]
    BY <2>1, Zenon DEF Reverses
  <2> HIDE DEF D
  <2>3. \A v \in 0 .. m : f[v] = D(v) \o IF v < base THEN <<>> ELSE f[v \div base]
    BY <2>2
  <2>4. ASSUME NEW v \in 0 .. m + 1, ~(v < base)
        PROVE  v \div base \in 0 .. m /\ v \div base < v
    <3> DEFINE q == v \div base
               r == v % base
    <3>1. q \in Int /\ r \in 0 .. base - 1 /\ v = base * q + r
      BY Division
    <3> HIDE DEF q, r
    <3>2. q > 0
      <4>1. CASE q <= 0
        <5>1. base * q <= 0
          BY <3>1, <4>1
        <5> QED
          BY <2>4, <3>1, <5>1
      <4> QED
        BY <3>1, <4>1
    <3>3. base * q >= 2 * q
      BY <3>1, <3>2
    <3> QED
      BY <3>1, <3>2, <3>3 DEF q
  <2> DEFINE e == D(m + 1) \o IF m + 1 < base THEN <<>> ELSE f[(m + 1) \div base]
             g == [v \in 0 .. m + 1 |-> IF v <= m THEN f[v] ELSE e]
  <2> HIDE DEF e
  <2>5. \A v \in 0 .. m + 1 :
            g[v] = D(v) \o IF v < base THEN <<>> ELSE g[v \div base]
    <3> SUFFICES ASSUME NEW v \in 0 .. m + 1
                 PROVE g[v] = D(v) \o IF v < base THEN <<>> ELSE g[v \div base]
      OBVIOUS
    <3>1. ~(v < base) => g[v \div base] = f[v \div base]
      <4> SUFFICES ASSUME ~(v < base) PROVE g[v \div base] = f[v \div base]
        OBVIOUS
      <4> DEFINE q == v \div base
      <4>1. q \in 0 .. m
        BY <2>4
      <4> HIDE DEF q
      <4>2. g[q] = f[q]
        BY <4>1
      <4> QED
        BY <4>2 DEF q
    <3>2. CASE v <= m
      <4>1. v \in 0 .. m /\ g[v] = f[v]
        BY <3>2
      <4> HIDE DEF g
      <4> QED
        BY <2>3, <3>1, <4>1, Zenon
    <3>3. CASE v = m + 1
      <4>1. g[v] = e
        BY <3>3
      <4> HIDE DEF g
      <4> QED
        BY <3>1, <3>3, <4>1, Zenon DEF e
    <3> QED
      BY SMTT(60), <3>2, <3>3
  <2>6. g = [v \in 0 .. m + 1 |-> g[v]]
    OBVIOUS
  <2> HIDE DEF g
  <2>7. g = [v \in 0 .. m + 1 |-> D(v) \o IF v < base THEN <<>> ELSE g[v \div base]]
    BY <2>5, <2>6
  <2>8. Reverses(g, m + 1, base, upper)
    BY <2>7, Zenon DEF Reverses, D
  <2> QED
    BY <2>8
<1> HIDE DEF P
<1>3. val \in P
  BY <1>1, <1>2, SetInduction
<1> QED
  BY <1>3 DEF P

\* The digits of x, the last one first.
DigitsAre(s, x, base, upper) ==
    /\ s \in Seq(Character) /\ Len(s) >= 1
    /\ \A i \in 1 .. Len(s) :
           s[i] = Table(upper)[((x \div Power(base, i - 1)) % base) + 1]
    /\ x < Power(base, Len(s))
    /\ Len(s) > 1 => Power(base, Len(s) - 1) <= x

\* The last digit of a number, and the whole of one that has but one.
LEMMA LastDigit ==
  ASSUME NEW base \in 2 .. 16, NEW upper \in BOOLEAN, NEW x \in Nat
  PROVE  /\ Table(upper)[(x % base) + 1] \in Character
         /\ x \div Power(base, 0) = x
         /\ x < base => DigitsAre(<<Table(upper)[(x % base) + 1]>>, x, base, upper)
<1>1. x % base \in 0 .. base - 1
  BY Division
<1>2. (x % base) + 1 \in 1 .. 16
  BY <1>1
<1> DEFINE d == Table(upper)[(x % base) + 1]
<1>3. d \in Character
  <2> DEFINE i == (x % base) + 1
  <2>1. i \in 1 .. 16
    BY <1>2
  <2> HIDE DEF i
  <2>2. Table(upper)[i] \in Character
    BY <2>1, TableIs
  <2> QED
    BY <2>2 DEF i
<1>4. Power(base, 0) = 1 /\ Power(base, 0 + 1) = base * Power(base, 0)
  <2>1. base \in Nat /\ base > 0 /\ 0 \in Nat
    OBVIOUS
  <2> QED
    BY <2>1, PowerIs
<1>5. x \div Power(base, 0) = x
  BY <1>4
<1>6. Power(base, 1) = base
  BY <1>4
<1> DEFINE s == <<d>>
<1>7. s \in Seq(Character) /\ Len(s) = 1 /\ s[1] = d
  <2> HIDE DEF d
  <2> QED
    BY <1>3
<1>8. \A i \in 1 .. 1 : s[i] = Table(upper)[((x \div Power(base, i - 1)) % base) + 1]
  <2> SUFFICES ASSUME NEW i \in 1 .. 1
               PROVE  s[i] = Table(upper)[((x \div Power(base, i - 1)) % base) + 1]
    OBVIOUS
  <2>1. i = 1 /\ i - 1 = 0
    OBVIOUS
  <2> HIDE DEF s
  <2> QED
    BY <1>5, <1>7, <2>1, Zenon
<1> HIDE DEF s, d
<1>9. x < base => DigitsAre(s, x, base, upper)
  BY <1>6, <1>7, <1>8 DEF DigitsAre
<1> QED
  BY <1>3, <1>5, <1>9 DEF s, d
\* One more digit.
LEMMA MoreDigits ==
  ASSUME NEW base \in 2 .. 16, NEW upper \in BOOLEAN, NEW x \in Nat, x >= base,
         NEW s, DigitsAre(s, x \div base, base, upper)
  PROVE  DigitsAre(<<Table(upper)[(x % base) + 1]>> \o s, x, base, upper)
<1> DEFINE y == x \div base
           r == x % base
           d == Table(upper)[r + 1]
           h == <<d>>
           N == Len(s)
           t == h \o s
<1>1. y \in Int /\ r \in 0 .. base - 1 /\ x = base * y + r
  BY Division
<1>2. y \in Nat /\ y >= 1
  <2> HIDE DEF y, r
  <2>1. CASE y <= 0
    <3>1. base * y <= 0
      BY <1>1, <2>1
    <3> QED
      BY <1>1, <3>1
  <2> QED
    BY <1>1, <2>1
<1>3. d \in Character /\ x \div Power(base, 0) = x
  BY LastDigit
<1>4. /\ s \in Seq(Character) /\ N >= 1 /\ y < Power(base, N)
      /\ \A i \in 1 .. N :
             s[i] = Table(upper)[((y \div Power(base, i - 1)) % base) + 1]
      /\ N > 1 => Power(base, N - 1) <= y
  BY DEF DigitsAre
<1> HIDE DEF y, r
<1>5. h \in Seq(Character) /\ Len(h) = 1 /\ h[1] = d
  <2> HIDE DEF d
  <2> QED
    BY <1>3
<1>6. /\ t \in Seq(Character) /\ Len(t) = N + 1 /\ t[1] = d /\ N \in Nat
      /\ \A i \in 2 .. N + 1 : t[i] = s[i - 1]
  <2> HIDE DEF h, d
  <2>1. /\ t \in Seq(Character) /\ Len(t) = Len(h) + Len(s)
        /\ \A i \in 1 .. Len(h) + Len(s) :
               t[i] = IF i <= Len(h) THEN h[i] ELSE s[i - Len(h)]
    BY ZenonT(60), <1>4, <1>5, ConcatProperties
  <2>2. N \in Nat
    BY <1>4
  <2> HIDE DEF t, N
  <2>3. Len(t) = 1 + N /\ \A i \in 1 .. 1 + N : t[i] = IF i <= 1 THEN h[i] ELSE s[i - 1]
    BY <1>5, <2>1 DEF N
  <2> QED
    BY <1>5, <2>1, <2>2, <2>3
<1>7. \A k \in Nat : /\ Power(base, k) \in Nat /\ Power(base, k) > 0
                     /\ Power(base, k + 1) = base * Power(base, k)
                     /\ Power(base, 0) = 1
  <2>1. base \in Nat /\ base > 0
    OBVIOUS
  <2> QED
    BY <2>1, PowerIs
<1> HIDE DEF t, N, h, d
<1>8. ASSUME NEW i \in 1 .. N + 1
      PROVE  t[i] = Table(upper)[((x \div Power(base, i - 1)) % base) + 1]
  <2>1. CASE i = 1
    <3>1. i - 1 = 0 /\ t[i] = d
      BY <2>1, <1>6
    <3> QED
      BY <3>1, <1>3, Zenon DEF d, r
  <2>2. CASE i # 1
    <3> DEFINE k == i - 2
               c == Power(base, k)
    <3>1. k \in Nat /\ i - 1 = k + 1 /\ i - 1 \in 1 .. N /\ (i - 1) - 1 = k
          /\ i \in 2 .. N + 1
      BY <2>2, <1>6
    <3>2. t[i] = Table(upper)[((y \div c) % base) + 1]
      <4>1. t[i] = s[i - 1]
        BY <3>1, <1>6
      <4>2. s[i - 1] = Table(upper)[((y \div Power(base, (i - 1) - 1)) % base) + 1]
        BY <3>1, <1>4
      <4> QED
        BY <3>1, <4>1, <4>2
    <3>3. y \div c = x \div (base * c)
      <4>1. c \in Nat \ {0} /\ base \in Nat \ {0}
        BY <3>1, <1>7
      <4> HIDE DEF c
      <4> QED
        BY <4>1, DividedTwice DEF y
    <3>4. base * c = Power(base, i - 1)
      BY <3>1, <1>7
    <3> QED
      BY <3>2, <3>3, <3>4
  <2> QED
    BY <2>1, <2>2
<1>9. x < Power(base, N + 1)
  <2> DEFINE c == Power(base, N)
  <2>1. c \in Nat /\ y + 1 <= c /\ Power(base, N + 1) = base * c
    BY SMTT(60), <1>2, <1>4, <1>6, <1>7
  <2> HIDE DEF c
  <2>2. base * (y + 1) <= base * c
    BY <1>2, <2>1
  <2>3. base * (y + 1) = base * y + base
    BY <1>2
  <2>4. base * y \in Int /\ base * c \in Int
    BY <1>2, <2>1
  <2> QED
    BY <1>1, <2>1, <2>2, <2>3, <2>4
<1>10. Power(base, N) <= x
  <2> DEFINE c == Power(base, N - 1)
  <2>0. N - 1 \in Nat /\ (N - 1) + 1 = N
    <3>1. N \in Nat /\ N >= 1
      BY <1>4, <1>6, Zenon
    <3> QED
      BY <3>1
  <2>1. c \in Nat /\ Power(base, N) = base * c
    <3>1. Power(base, (N - 1) + 1) = base * c
      BY <2>0, <1>7
    <3> QED
      BY <2>0, <1>7, <3>1
  <2>2. c <= y
    <3>1. CASE N > 1
      BY <3>1, <1>4
    <3>2. CASE N = 1
      <4>1. c = 1
        <5>1. N - 1 = 0
          BY <3>2
        <5> QED
          BY <5>1, <1>7
      <4> QED
        BY <4>1, <1>2
    <3> QED
      BY <1>4, <1>6, <3>1, <3>2
  <2> HIDE DEF c
  <2>3. base * c <= base * y
    BY <1>2, <2>1, <2>2
  <2>4. base * y \in Int /\ base * c \in Int
    BY <1>2, <2>1
  <2> QED
    BY <1>1, <2>1, <2>3, <2>4
<1>11. Len(t) = N + 1 /\ Len(t) >= 1 /\ Len(t) - 1 = N
  BY <1>6
<1>12. DigitsAre(t, x, base, upper)
  BY <1>6, <1>8, <1>9, <1>10, <1>11 DEF DigitsAre
<1> QED
  BY <1>12 DEF t, h, d, r

\* npf_utoa_rev finds the digits.
LEMMA RevIs ==
  ASSUME NEW base \in 2 .. 16, NEW upper \in BOOLEAN, NEW val \in Nat
  PROVE  DigitsAre(npf_utoa_rev(val, base, upper), val, base, upper)
<1> DEFINE g == CHOOSE f : Reverses(f, val, base, upper)
           P == {m \in Nat : \A x \in 0 .. m : x <= val => DigitsAre(g[x], x, base, upper)}
<1>0. base \in Nat /\ base > 1
  OBVIOUS
<1>1. Reverses(g, val, base, upper)
  <2>1. \E f : Reverses(f, val, base, upper)
    BY <1>0, RevExists
  <2> QED
    BY <2>1, Zenon
<1>2. npf_utoa_rev(val, base, upper) = g[val]
  BY Zenon DEF npf_utoa_rev, Reverses
<1> HIDE DEF g
<1>3. \A v \in 0 .. val :
          g[v] = <<Table(upper)[(v % base) + 1]>>
                 \o IF v < base THEN <<>> ELSE g[v \div base]
  <2> DEFINE D(v) == <<IF upper THEN UpperDigits[(v % base) + 1]
                       ELSE Digits[(v % base) + 1]>>
  <2>1. g = [v \in 0 .. val |-> D(v) \o IF v < base THEN <<>> ELSE g[v \div base]]
    BY <1>1, Zenon DEF Reverses
  <2>2. ASSUME NEW v PROVE D(v) = <<Table(upper)[(v % base) + 1]>>
    BY DEF Table
  <2> HIDE DEF D
  <2> QED
    BY <2>1, <2>2
<1>4. ASSUME NEW x \in 0 .. val, x < base
      PROVE  DigitsAre(g[x], x, base, upper)
  <2> DEFINE h == <<Table(upper)[(x % base) + 1]>>
  <2>1. g[x] = h \o <<>>
    BY <1>3, <1>4, Zenon
  <2>2. DigitsAre(h, x, base, upper)
    BY <1>4, LastDigit
  <2>3. h \in Seq(Character)
    BY <2>2, Zenon DEF DigitsAre
  <2> HIDE DEF h
  <2>4. h \o <<>> = h
    BY <2>3, ConcatEmptySeq
  <2> QED
    BY <2>1, <2>2, <2>4
<1>5. ASSUME NEW x \in 0 .. val, ~(x < base),
             DigitsAre(g[x \div base], x \div base, base, upper)
      PROVE  DigitsAre(g[x], x, base, upper)
  <2> DEFINE h == <<Table(upper)[(x % base) + 1]>>
  <2>1. g[x] = h \o g[x \div base]
    BY <1>3, <1>5, Zenon
  <2>2. x >= base
    BY <1>5
  <2>3. DigitsAre(h \o g[x \div base], x, base, upper)
    <3> DEFINE s == g[x \div base]
    <3>1. x \in Nat /\ DigitsAre(s, x \div base, base, upper)
      BY <1>5
    <3> HIDE DEF s
    <3> QED
      BY <2>2, <3>1, MoreDigits, Zenon DEF s
  <2> QED
    BY <2>1, <2>3
<1>6. 0 \in P
  <2>1. 0 < base /\ 0 \in 0 .. val
    <3> HIDE DEF P
    <3> QED
      BY <1>0
  <2>2. DigitsAre(g[0], 0, base, upper)
    BY <1>4, <2>1
  <2>3. \A x \in 0 .. 0 : x = 0
    OBVIOUS
  <2>4. \A x \in 0 .. 0 : DigitsAre(g[x], x, base, upper)
    BY <2>2, <2>3, Zenon
  <2> QED
    BY <2>4
<1>7. ASSUME NEW m \in Nat, m \in P PROVE m + 1 \in P
  <2> SUFFICES ASSUME NEW x \in 0 .. m + 1, x <= val
               PROVE  DigitsAre(g[x], x, base, upper)
    OBVIOUS
  <2>1. CASE x < base
    BY <2>1, <1>4
  <2>2. CASE ~(x < base)
    <3> DEFINE q == x \div base
               r == x % base
    <3>1. q \in Int /\ r \in 0 .. base - 1 /\ x = base * q + r
      BY Division
    <3> HIDE DEF q, r
    <3>2. q > 0
      <4>1. CASE q <= 0
        <5>1. base * q <= 0
          BY <3>1, <4>1
        <5> QED
          BY <2>2, <3>1, <5>1
      <4> QED
        BY <3>1, <4>1
    <3>3. base * q >= 2 * q
      BY <3>1, <3>2
    <3>4. q \in 0 .. m /\ q <= val
      BY <3>1, <3>2, <3>3
    <3>5. DigitsAre(g[q], q, base, upper)
      BY <1>7, <3>4
    <3> QED
      BY <2>2, <3>5, <1>5 DEF q
  <2> QED
    BY <2>1, <2>2
<1> HIDE DEF P
<1>8. val \in P
  BY <1>6, <1>7, SetInduction
<1> QED
  BY <1>2, <1>8 DEF P

\* A greater exponent makes a greater power, and so does a greater base; the
\* powers of two are the ones a width is made of.
LEMMA PowersGrow ==
  ASSUME NEW b \in Nat, b > 1
  PROVE  /\ \A m, N \in Nat : m <= N => Power(b, m) <= Power(b, N)
         /\ \A N \in Nat : 2^N <= Power(b, N)
<1>1. \A k \in Nat : /\ Power(b, k) \in Nat /\ Power(b, k) > 0
                     /\ Power(b, k + 1) = b * Power(b, k) /\ Power(b, 0) = 1
  <2>1. b > 0
    OBVIOUS
  <2> QED
    BY <2>1, PowerIs
<1>2. ASSUME NEW m \in Nat, NEW N \in Nat, m <= N
      PROVE  Power(b, m) <= Power(b, N)
  <2> DEFINE P == {k \in Nat : Power(b, m) <= Power(b, m + k)}
  <2>1. 0 \in P
    <3>1. m + 0 = m /\ Power(b, m) \in Nat
      BY <1>1
    <3> QED
      BY <3>1
  <2>2. ASSUME NEW k \in Nat, k \in P PROVE k + 1 \in P
    <3> DEFINE c == Power(b, m + k)
               a == Power(b, m)
    <3>1. m + k \in Nat /\ m + (k + 1) = (m + k) + 1
      OBVIOUS
    <3>2. c \in Nat /\ a \in Nat /\ a <= c /\ Power(b, m + (k + 1)) = b * c
      BY <1>1, <2>2, <3>1
    <3> HIDE DEF a, c
    <3>3. c <= b * c /\ b * c \in Nat
      BY <3>2
    <3>4. a <= Power(b, m + (k + 1))
      BY <3>2, <3>3
    <3> QED
      BY <3>4 DEF a
  <2> HIDE DEF P
  <2>3. N - m \in Nat /\ m + (N - m) = N
    BY <1>2
  <2>4. N - m \in P
    BY <2>1, <2>2, <2>3, SetInduction
  <2> QED
    BY <2>3, <2>4 DEF P
<1>3. \A N \in Nat : 2^N <= Power(b, N)
  <2> DEFINE P == {k \in Nat : 2^k <= Power(b, k)}
  <2>1. 0 \in P
    <3>1. 2^0 = 1 /\ Power(b, 0) = 1
      BY <1>1, TwoTo
    <3> QED
      BY <3>1
  <2>2. ASSUME NEW k \in Nat, k \in P PROVE k + 1 \in P
    <3> DEFINE c == Power(b, k)
               a == 2^k
    <3>1. c \in Nat /\ Power(b, k + 1) = b * c /\ a \in Nat /\ 2^(k + 1) = 2 * a
          /\ a <= c
      BY <1>1, <2>2, TwoTo
    <3> HIDE DEF a, c
    <3>2. 2 * c <= b * c
      BY <3>1
    <3>3. b * c \in Nat
      BY <3>1
    <3>4. 2^(k + 1) <= Power(b, k + 1)
      BY <3>1, <3>2, <3>3
    <3> QED
      BY <3>4
  <2> HIDE DEF P
  <2>3. Nat \subseteq P
    BY <2>1, <2>2, SetInduction
  <2> QED
    BY <2>3 DEF P
<1> QED
  BY <1>2, <1>3

\* The powers of two grow.
LEMMA TwosGrow ==
  ASSUME NEW m \in Nat, NEW N \in Nat, m <= N
  PROVE  2^m <= 2^N
<1> DEFINE P == {k \in Nat : 2^m <= 2^(m + k)}
<1>1. 0 \in P
  <2>1. m + 0 = m /\ 2^m \in Nat
    BY TwoTo
  <2> QED
    BY <2>1
<1>2. ASSUME NEW k \in Nat, k \in P PROVE k + 1 \in P
  <2> DEFINE j == m + k
             a == 2^m
             c == 2^j
  <2>1. j \in Nat /\ m + (k + 1) = j + 1
    OBVIOUS
  <2>2. a <= c
    BY <1>2
  <2> HIDE DEF j
  <2>3. a \in Nat /\ c \in Nat /\ 2^(j + 1) = 2 * c
    BY <2>1, TwoTo
  <2>4. a <= 2^(j + 1)
    <3> HIDE DEF a, c
    <3> QED
      BY <2>2, <2>3
  <2>5. 2^m <= 2^(m + (k + 1))
    BY <2>1, <2>4
  <2> QED
    BY <2>5
<1> HIDE DEF P
<1>3. N - m \in Nat /\ m + (N - m) = N
  OBVIOUS
<1>4. N - m \in P
  BY <1>1, <1>2, <1>3, SetInduction
<1> QED
  BY <1>3, <1>4 DEF P

\* The widths are in the order the code relies on.
LEMMA BitsIs ==
  ASSUME NEW len
  PROVE  Bits(len) \in Nat /\ 0 < Bits(len) /\ Bits(len) <= IntBits
<1>1. Bits(len) \in {CharBits, ShortBits, IntBits}
  BY DEF Bits
<1> QED
  BY <1>1, WidthsAssumption

\* A number fits in an int, and so does its magnitude.
LEMMA NumberFits ==
  ASSUME NEW x \in Int, NEW bits \in Nat, bits > 0, bits <= IntBits
  PROVE  /\ Unsigned(x, bits) \in 0 .. 2^IntBits - 1
         /\ Signed(x, bits) \in Int
         /\ Magnitude(Signed(x, bits)) \in 0 .. 2^IntBits - 1
         /\ Signed(x, bits) < 0 => Unsigned(-Signed(x, bits), IntBits) = -Signed(x, bits)
<1> DEFINE m == 2^bits
           h == 2^(bits - 1)
           w == 2^IntBits
           r == x % m
           s == Signed(x, bits)
<1>1. m \in Nat /\ m > 0 /\ h \in Nat /\ h > 0 /\ m = 2 * h /\ w \in Nat /\ m <= w
  <2>1. IntBits \in Nat /\ bits - 1 \in Nat /\ (bits - 1) + 1 = bits
    BY WidthsAssumption
  <2>2. 2^((bits - 1) + 1) = 2 * 2^(bits - 1)
    BY <2>1, TwoTo
  <2> QED
    BY <2>1, <2>2, TwoTo, TwosGrow
<1>2. r \in 0 .. m - 1
  <2>1. m \in Nat \ {0} /\ x \in Int
    BY <1>1
  <2> HIDE DEF m
  <2> QED
    BY <2>1, Division
<1>3. Unsigned(x, bits) = r
  BY DEF Unsigned
<1>4. s = IF r < h THEN r ELSE r - m
  BY Zenon DEF Signed
<1> HIDE DEF m, h, w, r, s
<1>5. /\ s \in Int /\ Magnitude(s) \in 0 .. w - 1
      /\ s < 0 => -s \in 0 .. w - 1
  BY <1>1, <1>2, <1>4 DEF Magnitude
<1>6. s < 0 => (-s) % w = -s
  <2> SUFFICES ASSUME s < 0 PROVE (-s) % w = -s
    OBVIOUS
  <2> DEFINE t == -s
  <2>1. t \in 0 .. w - 1 /\ w \in Nat \ {0} /\ t = w * 0 + t /\ t \in Int /\ 0 \in Int
    BY <1>1, <1>5
  <2> HIDE DEF t
  <2>2. t % w = t
    BY <2>1, OneQuotient
  <2> QED
    BY <2>2 DEF t
<1>7. s < 0 => Unsigned(-s, IntBits) = -s
  BY <1>6 DEF Unsigned, w
<1> QED
  BY <1>1, <1>2, <1>3, <1>5, <1>7 DEF s, w

\* The powers that are not above a number are as many as its digits.
LEMMA OwnIs ==
  ASSUME NEW base \in 2 .. 16, NEW upper, NEW v \in 0 .. 2^IntBits - 1,
         NEW s, DigitsAre(s, v, base, upper)
  PROVE  /\ Cardinality({N \in 0 .. IntBits - 1 : Power(base, N) <= v})
            = IF v = 0 THEN 0 ELSE Len(s)
         /\ v = 0 => Len(s) = 1
<1> DEFINE S == {N \in 0 .. IntBits - 1 : Power(base, N) <= v}
           l == Len(s)
<1>0. base \in Nat /\ base > 1 /\ base > 0 /\ IntBits \in Nat
  BY WidthsAssumption
<1>1. /\ \A k \in Nat : Power(base, k) \in Nat /\ Power(base, k) > 0
      /\ Power(base, 0) = 1
      /\ \A m, N \in Nat : m <= N => Power(base, m) <= Power(base, N)
      /\ \A N \in Nat : 2^N <= Power(base, N)
  BY <1>0, PowerIs, PowersGrow
<1>2. /\ l \in Nat /\ l >= 1 /\ v < Power(base, l) /\ v \in Nat
      /\ l > 1 => Power(base, l - 1) <= v
  <2>1. s \in Seq(Character)
    BY DEF DigitsAre
  <2>2. 2^IntBits \in Nat
    BY <1>0, TwoTo
  <2> QED
    BY <2>1, <2>2 DEF DigitsAre
<1> HIDE DEF l
<1>3. CASE v = 0
  <2>1. \A N \in 0 .. IntBits - 1 : ~(Power(base, N) <= v)
    BY <1>1, <1>3
  <2>2. S = {}
    BY <2>1
  <2>3. Cardinality(S) = 0
    BY <2>2, FS_EmptySet
  <2>4. l = 1
    <3>1. CASE l > 1
      <4>1. l - 1 \in Nat /\ Power(base, l - 1) > 0 /\ Power(base, l - 1) <= v
        BY <1>1, <1>2, <3>1
      <4> QED
        BY <4>1, <1>1, <1>3
    <3> QED
      BY <1>2, <3>1
  <2> QED
    BY <1>3, <2>3, <2>4 DEF l
<1>4. CASE v > 0
  <2>1. Power(base, l - 1) <= v
    <3>1. l = 1 => Power(base, l - 1) = 1
      BY <1>1
    <3> QED
      BY <1>2, <1>4, <3>1
  <2>2. l <= IntBits
    <3> SUFFICES ASSUME l > IntBits PROVE FALSE
      BY <1>0, <1>2
    <3> DEFINE a == 2^IntBits
               b == Power(base, IntBits)
               c == Power(base, l - 1)
    <3>1. l - 1 \in Nat /\ IntBits <= l - 1
      BY <1>0, <1>2
    <3>2. a <= b /\ b <= c /\ c <= v /\ v < a
      <4>1. v < a
        BY <1>0, TwoTo
      <4> QED
        BY <1>0, <1>1, <2>1, <3>1, <4>1
    <3>3. a \in Nat /\ b \in Nat /\ c \in Nat
      BY <1>0, <1>1, <3>1, TwoTo
    <3> HIDE DEF a, b, c
    <3> QED
      BY <1>2, <3>2, <3>3
  <2>3. S = 0 .. l - 1
    <3>1. ASSUME NEW N \in S PROVE N \in 0 .. l - 1
      <4>1. N \in Nat /\ Power(base, N) <= v
        OBVIOUS
      <4>2. CASE N >= l
        <5>1. Power(base, l) <= Power(base, N) /\ Power(base, l) \in Nat
              /\ Power(base, N) \in Nat
          BY <1>1, <1>2, <4>1, <4>2
        <5> QED
          BY <1>2, <4>1, <5>1
      <4> QED
        BY <1>2, <4>1, <4>2
    <3>2. ASSUME NEW N \in 0 .. l - 1 PROVE N \in S
      <4>1. N \in Nat /\ l - 1 \in Nat /\ N <= l - 1 /\ N \in 0 .. IntBits - 1
        BY <1>0, <1>2, <2>2
      <4>2. /\ Power(base, N) <= Power(base, l - 1)
            /\ Power(base, N) \in Nat /\ Power(base, l - 1) \in Nat
        BY <1>1, <4>1
      <4>3. Power(base, N) <= v
        BY <1>2, <2>1, <4>2
      <4> QED
        BY <4>1, <4>3
    <3> HIDE DEF S
    <3> QED
      BY <3>1, <3>2
  <2>4. Cardinality(0 .. l - 1) = l
    <3>1. 0 \in Int /\ l - 1 \in Int
      BY <1>2
    <3>2. Cardinality(0 .. l - 1) = IF 0 > l - 1 THEN 0 ELSE (l - 1) - 0 + 1
      BY <3>1, FS_Interval
    <3> QED
      BY <1>2, <3>2
  <2> HIDE DEF S
  <2>5. Cardinality(S) = l
    BY <2>3, <2>4
  <2>6. v # 0
    BY <1>4
  <2> QED
    BY <2>5, <2>6, Zenon DEF l, S
<1> QED
  BY <1>2, <1>3, <1>4

\* The last c digits of v, the first one first.
LastDigits(v, base, upper, c) ==
    [i \in 1 .. c |-> Table(upper)[((v \div Power(base, c - i)) % base) + 1]]

\* The digits of v are no more than c.
RoomFor(c, s, v, base, upper) ==
    /\ base \in 2 .. 16 /\ upper \in BOOLEAN /\ v \in Nat
    /\ DigitsAre(s, v, base, upper) /\ c \in Nat /\ c >= Len(s)

\* The digits from the first one on, with as many zeros in front as asked for.
LEMMA DigitsPadded ==
  ASSUME NEW s, NEW v, NEW base, NEW upper, NEW c, RoomFor(c, s, v, base, upper)
  PROVE  /\ LastDigits(v, base, upper, c) = Times(c - Len(s), "0") \o Reverse(s)
         /\ \A i \in 1 .. Len(s) : s[i] \in Character
         /\ v > 0 => s[Len(s)] # "0"
<1> USE DEF RoomFor
<1> DEFINE l == Len(s)
           T(i) == Table(upper)[((v \div Power(base, i)) % base) + 1]
           z == Times(c - l, "0")
           r == Reverse(s)
           S == Character \cup {"0"}
<1>0. base \in Nat /\ base > 1 /\ base > 0
  OBVIOUS
<1>1. /\ \A k \in Nat : Power(base, k) \in Nat /\ Power(base, k) > 0
      /\ \A m, N \in Nat : m <= N => Power(base, m) <= Power(base, N)
  BY <1>0, PowerIs, PowersGrow
<1>2. /\ s \in Seq(Character) /\ l \in Nat /\ l >= 1 /\ l <= c /\ v < Power(base, l)
      /\ \A i \in 1 .. l : s[i] = T(i - 1)
      /\ l > 1 => Power(base, l - 1) <= v
  <2>1. s \in Seq(Character)
    BY DEF DigitsAre
  <2> QED
    BY <2>1 DEF DigitsAre
<1>3. \A i \in 1 .. l : s[i] \in Character
  BY <1>2
<1>4. ASSUME NEW i \in 1 .. c, i <= c - l PROVE T(c - i) = "0"
  <2> DEFINE p == Power(base, c - i)
  <2>1. c - i \in Nat /\ l <= c - i
    BY <1>2, <1>4
  <2>2. p \in Nat \ {0} /\ v < p
    <3>1. p \in Nat /\ p > 0 /\ Power(base, l) <= p /\ Power(base, l) \in Nat
      BY <1>1, <1>2, <2>1
    <3> HIDE DEF p
    <3> QED
      BY <1>2, <3>1
  <2>3. v \div p = 0
    <3> DEFINE q == 0
    <3> HIDE DEF p
    <3>1. v \in 0 .. p - 1 /\ v = p * q + v /\ q \in Int /\ v \in Int
      BY <2>2
    <3> HIDE DEF q
    <3>2. v \div p = q
      BY <2>2, <3>1, OneQuotient, Zenon
    <3> QED
      BY <3>2 DEF q
  <2>4. (v \div p) % base = 0
    <3> HIDE DEF p
    <3> QED
      BY <2>3
  <2>5. Table(upper)[1] = "0"
    BY TableIs
  <2>6. ((v \div p) % base) + 1 = 1
    <3> DEFINE a == (v \div p) % base
    <3>1. a = 0
      BY <2>4
    <3> HIDE DEF a
    <3>2. a + 1 = 1
      BY <3>1
    <3> QED
      BY <3>2, Zenon DEF a
  <2> QED
    BY <2>5, <2>6, Zenon
<1>5. /\ z \in Seq(S) /\ Len(z) = c - l /\ \A i \in 1 .. c - l : z[i] = "0"
  <2>1. c - l \in Nat
    BY <1>2
  <2> QED
    BY <2>1 DEF Times
<1>6. /\ r \in Seq(S) /\ Len(r) = l
      /\ \A i \in 1 .. l : r[i] = s[(l - i) + 1]
  <2>1. \A i \in 1 .. l : (l - i) + 1 \in 1 .. l
    BY <1>2
  <2>2. \A i \in 1 .. l : s[(l - i) + 1] \in S
    BY <1>3, <2>1
  <2>3. r = [i \in 1 .. l |-> s[(l - i) + 1]]
    BY DEF Reverse
  <2> HIDE DEF r, S, l
  <2> QED
    BY <1>2, <2>2, <2>3
<1>7. /\ Len(z \o r) = c
      /\ \A i \in 1 .. c : (z \o r)[i] = IF i <= c - l THEN z[i] ELSE r[i - (c - l)]
      /\ z \o r = [i \in 1 .. c |-> (z \o r)[i]]
  <2> HIDE DEF z, r, S, l
  <2>1. /\ z \o r \in Seq(S) /\ Len(z \o r) = Len(z) + Len(r)
        /\ \A i \in 1 .. Len(z) + Len(r) :
               (z \o r)[i] = IF i <= Len(z) THEN z[i] ELSE r[i - Len(z)]
    BY <1>5, <1>6, ConcatProperties
  <2>2. Len(z) + Len(r) = c
    BY <1>2, <1>5, <1>6
  <2>3. \A i \in 1 .. c : (z \o r)[i] = IF i <= c - l THEN z[i] ELSE r[i - (c - l)]
    BY <2>1, <2>2, <1>5, Zenon
  <2> DEFINE t == z \o r
  <2>4. t \in Seq(S) /\ Len(t) = c
    BY <2>1, <2>2
  <2> HIDE DEF t
  <2>5. t = [i \in 1 .. c |-> t[i]]
    BY <2>4
  <2> QED
    BY <2>3, <2>4, <2>5 DEF t
<1>8. ASSUME NEW i \in 1 .. c PROVE (z \o r)[i] = T(c - i)
  <2> HIDE DEF z, r, l, T
  <2>1. CASE i <= c - l
    BY <2>1, <1>2, <1>4, <1>5, <1>7
  <2>2. CASE ~(i <= c - l)
    <3> DEFINE j == i - (c - l)
               k == (l - j) + 1
    <3>1. j \in 1 .. l /\ k \in 1 .. l /\ k - 1 = c - i
      BY <1>2, <2>2
    <3>2. (z \o r)[i] = r[j]
      BY <1>7, <2>2, Zenon
    <3>3. r[j] = s[k]
      BY <1>6, <3>1, Zenon
    <3> HIDE DEF j, k
    <3>4. s[k] = T(k - 1)
      BY <1>2, <3>1, Zenon
    <3> QED
      BY <3>1, <3>2, <3>3, <3>4, Zenon
  <2> QED
    BY <2>1, <2>2
<1>9. z \o r = [i \in 1 .. c |-> T(c - i)]
  <2> HIDE DEF z, r, T
  <2> DEFINE t == z \o r
  <2>1. t = [i \in 1 .. c |-> t[i]] /\ \A i \in 1 .. c : t[i] = T(c - i)
    BY <1>7, <1>8
  <2> HIDE DEF t
  <2> QED
    BY <2>1 DEF t
<1>10. ASSUME v > 0 PROVE s[l] # "0"
  <2> DEFINE p == Power(base, l - 1)
             q == v \div p
             d == q % base
  <2>1. l - 1 \in Nat /\ p \in Nat \ {0} /\ Power(base, l) = base * p
    <3>1. l - 1 \in Nat /\ (l - 1) + 1 = l
      BY <1>2
    <3>2. Power(base, (l - 1) + 1) = base * Power(base, l - 1)
      BY <1>0, <3>1, PowerIs
    <3> QED
      BY <1>1, <3>1, <3>2
  <2>2. p <= v
    <3>1. CASE l = 1
      <4>1. l - 1 = 0
        BY <3>1
      <4>2. p = 1
        BY <1>0, <4>1, PowerIs
      <4> QED
        BY <1>10, <4>2
    <3>2. CASE l > 1
      BY <1>2, <3>2, Zenon
    <3>3. l = 1 \/ l > 1
      <4>1. l \in Nat /\ l >= 1
        BY <1>2, Zenon
      <4> HIDE DEF l
      <4> QED
        BY <4>1
    <3> HIDE DEF l, p
    <3> QED
      BY <3>1, <3>2, <3>3, Zenon
  <2> HIDE DEF p
  <2>3. q \in Int /\ \E e \in 0 .. p - 1 : v = p * q + e
    <3>1. p \in Nat \ {0} /\ v \in Int
      BY <2>1
    <3>2. v \div p \in Int /\ v % p \in 0 .. p - 1 /\ v = p * (v \div p) + (v % p)
      BY <3>1, Division
    <3> QED
      BY <3>2, Zenon
  <2>4. PICK e \in 0 .. p - 1 : v = p * q + e
    BY <2>3
  <2> HIDE DEF q
  <2>5. q >= 1
    <3>1. CASE q <= 0
      <4>1. p * q <= 0 /\ p * q \in Int
        BY <2>1, <2>3, <3>1
      <4> QED
        BY <2>1, <2>2, <2>4, <4>1
    <3> QED
      BY <2>3, <3>1
  <2>6. q < base
    <3>1. CASE q >= base
      <4>1. p * q >= p * base
        BY <2>1, <2>3, <3>1
      <4>2. p * base = base * p /\ p * base \in Int /\ p * q \in Int
        BY <2>1, <2>3
      <4>3. v < p * base
        BY <1>2, <2>1, <4>2
      <4> QED
        BY <2>1, <2>4, <4>1, <4>2, <4>3
    <3> QED
      BY <2>3, <3>1
  <2>7. d = q
    <3>1. base \in Nat \ {0} /\ 0 \in Int /\ q \in 0 .. base - 1 /\ q = base * 0 + q
      BY <2>3, <2>5, <2>6
    <3> QED
      BY <2>3, <3>1, OneQuotient
  <2>8. s[l] = Table(upper)[d + 1]
    <3>1. l \in 1 .. l
      BY <1>2
    <3> QED
      BY <1>2, <3>1, Zenon DEF p, q
  <2>9. d + 1 \in 1 .. 16 /\ d + 1 > 1
    BY <2>3, <2>5, <2>6, <2>7
  <2> DEFINE m == d + 1
  <2> HIDE DEF d, m
  <2>10. Table(upper)[m] # "0"
    BY <2>9, TableIs DEF m
  <2> QED
    BY <2>8, <2>10 DEF m
<1> QED
  BY <1>3, <1>9, <1>10 DEF LastDigits

------------------------------------------------------------------------------
(* The conversion of one argument. *)

\* The greater and the smaller of two numbers.
LEMMA MaxMin ==
  ASSUME NEW a \in Int, NEW b \in Int
  PROVE  /\ Max({a, b}) = IF a >= b THEN a ELSE b
         /\ Min({a, b}) = IF a <= b THEN a ELSE b
<1>1. PICK x \in {a, b} : \A y \in {a, b} : x >= y
  OBVIOUS
<1>2. PICK z \in {a, b} : \A y \in {a, b} : z <= y
  OBVIOUS
<1>3. Max({a, b}) \in {a, b} /\ \A y \in {a, b} : Max({a, b}) >= y
  BY <1>1 DEF Max
<1>4. Min({a, b}) \in {a, b} /\ \A y \in {a, b} : Min({a, b}) <= y
  BY <1>2 DEF Min
<1> QED
  BY <1>3, <1>4

\* A character so many times.
LEMMA TimesIs ==
  ASSUME NEW S, NEW c \in S, NEW N \in Nat
  PROVE  /\ Times(N, c) \in Seq(S) /\ Len(Times(N, c)) = N
         /\ \A i \in 1 .. N : Times(N, c)[i] = c
         /\ Times(0, c) = <<>>
         /\ Times(N + 1, c) = Times(N, c) \o <<c>>
<1>1. \A m \in Nat : /\ Times(m, c) \in Seq(S) /\ Len(Times(m, c)) = m
                     /\ \A i \in 1 .. m : Times(m, c)[i] = c
  BY DEF Times
<1>2. Times(0, c) = <<>>
  BY DEF Times
<1>3. Times(N + 1, c) = Times(N, c) \o <<c>>
  <2> DEFINE a == Times(N + 1, c)
             b == Times(N, c)
  <2>1. a \in Seq(S) /\ Len(a) = N + 1 /\ \A i \in 1 .. N + 1 : a[i] = c
    BY <1>1
  <2>2. b \in Seq(S) /\ Len(b) = N /\ \A i \in 1 .. N : b[i] = c
    BY <1>1
  <2> HIDE DEF a, b
  <2>3. a = b \o <<c>>
    BY <2>1, <2>2
  <2> QED
    BY <2>3 DEF a, b
<1> QED
  BY <1>1, <1>2, <1>3

\* A text turned round.
LEMMA ReverseIs ==
  ASSUME NEW S, NEW s \in Seq(S), NEW c \in S
  PROVE  /\ Reverse(s) \in Seq(S) /\ Len(Reverse(s)) = Len(s)
         /\ \A i \in 1 .. Len(s) : Reverse(s)[i] = s[(Len(s) - i) + 1]
         /\ Reverse(s \o <<c>>) = <<c>> \o Reverse(s)
         /\ Reverse(<<>>) = <<>>
<1>1. \A t \in Seq(S) : /\ Reverse(t) \in Seq(S) /\ Len(Reverse(t)) = Len(t)
                        /\ \A i \in 1 .. Len(t) : Reverse(t)[i] = t[(Len(t) - i) + 1]
  BY DEF Reverse
<1>2. Reverse(s \o <<c>>) = <<c>> \o Reverse(s)
  <2> DEFINE t == s \o <<c>>
             a == Reverse(t)
             b == Reverse(s)
             N == Len(s)
             d == <<c>> \o b
  <2>1. t \in Seq(S) /\ Len(t) = N + 1 /\ N \in Nat /\ t[N + 1] = c
        /\ \A i \in 1 .. N : t[i] = s[i]
    OBVIOUS
  <2>2. b \in Seq(S) /\ Len(b) = N /\ \A i \in 1 .. N : b[i] = s[(N - i) + 1]
    BY <1>1
  <2> HIDE DEF t, b, N
  <2>3. a \in Seq(S) /\ Len(a) = N + 1
        /\ \A i \in 1 .. N + 1 : a[i] = t[((N + 1) - i) + 1]
    <3>1. t \in Seq(S) /\ Len(t) = N + 1
      BY <2>1
    <3>2. /\ Reverse(t) \in Seq(S) /\ Len(Reverse(t)) = Len(t)
          /\ \A i \in 1 .. Len(t) : Reverse(t)[i] = t[(Len(t) - i) + 1]
      BY <1>1, <3>1
    <3> QED
      BY <3>1, <3>2, Zenon
  <2>4. d \in Seq(S) /\ Len(d) = N + 1 /\ d[1] = c /\ \A i \in 1 .. N : d[i + 1] = b[i]
    BY <2>1, <2>2
  <2> HIDE DEF a, d
  <2>5. ASSUME NEW i \in 1 .. N + 1 PROVE a[i] = d[i]
    <3>1. CASE i = 1
      BY <2>1, <2>3, <2>4, <3>1
    <3>2. CASE i > 1
      <4> DEFINE j == i - 1
      <4>1. j \in 1 .. N /\ j + 1 = i /\ ((N + 1) - i) + 1 = (N - j) + 1
            /\ (N - j) + 1 \in 1 .. N
        BY <2>1, <3>2
      <4> HIDE DEF j
      <4>2. a[i] = t[(N - j) + 1] /\ t[(N - j) + 1] = s[(N - j) + 1]
        BY <2>1, <2>3, <4>1
      <4> QED
        BY <2>2, <2>4, <4>1, <4>2
    <3> QED
      BY <2>1, <3>1, <3>2
  <2>6. a = d
    BY <2>1, <2>3, <2>4, <2>5
  <2> QED
    BY <2>6 DEF a, b, d, t
<1>3. Reverse(<<>>) = <<>>
  BY DEF Reverse
<1> QED
  BY <1>1, <1>2, <1>3

\* The number of a directive, its digits the other way round, how many there
\* have to be, and whether it has none.
Val(item)   == Magnitude(Number_(item))
Rev(item)   == npf_utoa_rev(Val(item), BaseOf(item), item.conv \in {"X", "B"})
Least(item) == IF Given(item.prec) THEN item.prec.n
               ELSE IF item.conv = "p" THEN IntBits \div 4 ELSE 1
Bare(item)  == Val(item) = 0 /\ Given(item.prec) /\ item.prec.n = 0

\* The numbers of a directive.
LEMMA AmountTyped ==
  ASSUME NEW item, Directive(item)
  PROVE  /\ item.width.n \in Int /\ item.prec.n \in Int
         /\ item.width.kind \in {"none", "literal", "star"}
         /\ item.prec.kind \in {"none", "literal", "star"}
         /\ item.width.kind = "none" => item.width.n = 0
         /\ item.prec.kind = "none" => item.prec.n = 0
         /\ item.width.kind = "literal" => item.width.n \in 1 .. 99
         /\ item.prec.kind = "literal" => item.prec.n \in 0 .. 99
<1>1. item.width \in Amount_ /\ item.prec \in Amount_
      /\ (item.width.kind = "literal" => item.width.n > 0)
  BY Zenon DEF Directive
<1>2. \A a \in Amount_ : /\ a.n \in Int /\ a.kind \in {"none", "literal", "star"}
                         /\ a.kind = "none" => a.n = 0
                         /\ a.kind = "literal" => a.n \in 0 .. 99
  <2> TAKE a \in Amount_
  <2>1. \/ a \in [kind : {"none"}, n : {0}]
        \/ a \in [kind : {"literal"}, n : 0 .. 99]
        \/ a \in [kind : {"star"}, n : Int]
    BY Zenon DEF Amount_
  <2>2. CASE a \in [kind : {"none"}, n : {0}]
    BY <2>2
  <2>3. CASE a \in [kind : {"literal"}, n : 0 .. 99]
    BY <2>3
  <2>4. CASE a \in [kind : {"star"}, n : Int]
    BY <2>4
  <2> QED
    BY <2>1, <2>2, <2>3, <2>4
<1> QED
  BY <1>1, <1>2

\* The number a directive converts fits in an int, and where its digits begin.
LEMMA ValIs ==
  ASSUME NEW item, Directive(item), Numeric(item)
  PROVE  /\ Number_(item) \in Int /\ Val(item) \in 0 .. 2^IntBits - 1 /\ Val(item) \in Nat
         /\ Val(item) = 0 <=> Number_(item) = 0
         /\ Val(item) = IF Number_(item) < 0 THEN Unsigned(-Number_(item), IntBits)
                        ELSE Number_(item)
         /\ BaseOf(item) \in 2 .. 16 /\ Least(item) \in Nat
         /\ ~Bare(item) /\ Val(item) = 0 => Least(item) >= 1
<1> DEFINE x == item.arg[1].num
           b == Bits(item.len)
           m == Number_(item)
           w == 2^IntBits
<1>1. x \in Int
  <2>1. item.arg \in Seq(NumArg) /\ Len(item.arg) = 1
    BY DEF Directive, Numeric
  <2>2. item.arg[1] \in NumArg
    BY <2>1
  <2> QED
    BY <2>2 DEF NumArg
<1>2. b \in Nat /\ 0 < b /\ b <= IntBits
  BY BitsIs
<1> HIDE DEF x, b
<1>3. /\ Unsigned(x, b) \in 0 .. w - 1
      /\ Signed(x, b) \in Int
      /\ Magnitude(Signed(x, b)) \in 0 .. w - 1
      /\ Signed(x, b) < 0 => Unsigned(-Signed(x, b), IntBits) = -Signed(x, b)
  BY <1>1, <1>2, NumberFits
<1>4. m = IF SignedNum(item) THEN Signed(x, b) ELSE Unsigned(x, b)
  BY DEF Number_, x, b
<1>5. w \in Nat
  BY TwoTo, WidthsAssumption
<1> HIDE DEF m, w
<1>6. /\ m \in Int /\ Magnitude(m) \in 0 .. w - 1
      /\ m < 0 => Unsigned(-m, IntBits) = -m
  <2>1. CASE SignedNum(item)
    BY <1>3, <1>4, <2>1
  <2>2. CASE ~SignedNum(item)
    <3>1. m = Unsigned(x, b)
      BY <1>4, <2>2
    <3> QED
      BY <1>3, <1>5, <3>1 DEF Magnitude
  <2> QED
    BY <2>1, <2>2
<1>7. BaseOf(item) \in 2 .. 16
  BY DEF BaseOf
<1>8. Least(item) \in Nat /\ (~Bare(item) /\ Val(item) = 0 => Least(item) >= 1)
  <2>1. IntBits \div 4 \in Nat /\ IntBits \div 4 >= 1
    BY WidthsAssumption
  <2> QED
    BY <2>1, AmountTyped DEF Least, Given, Bare
<1>9. /\ m \in Int /\ Val(item) \in 0 .. w - 1 /\ Val(item) \in Nat
      /\ Val(item) = 0 <=> m = 0
      /\ Val(item) = IF m < 0 THEN Unsigned(-m, IntBits) ELSE m
  <2>1. Val(item) = Magnitude(m)
    BY DEF Val, m
  <2> QED
    BY <1>5, <1>6, <2>1 DEF Magnitude
<1> QED
  BY <1>7, <1>8, <1>9 DEF m, w

\* The digits of a directive's number, the other way round, how many there
\* are and have to be, and how they are written with that many.
DigitsAsAsked(item, s, l, c, text) ==
    /\ s = Rev(item) /\ l = Len(s) /\ c = Max({l, Least(item)})
    /\ text = Times(c - l, "0") \o Reverse(s)

\* The digits of a number are those npf_utoa_rev finds, behind the zeros the
\* precision asks for.
LEMMA DigitsOfIs ==
  ASSUME NEW item, Directive(item), Numeric(item),
         NEW s, NEW l, NEW c, NEW text, DigitsAsAsked(item, s, l, c, text)
  PROVE  /\ s \in Seq(Character) /\ l \in Nat /\ l >= 1 /\ c \in Nat /\ c >= l
         /\ Val(item) > 0 => s[l] # "0"
         /\ Val(item) = 0 => l = 1 /\ s[1] = "0"
         /\ Bare(item) =>
                DigitsOf(item) = IF item.conv = "o" /\ Has(item, "#") THEN <<"0">>
                                 ELSE <<>>
         /\ ~Bare(item) =>
                DigitsOf(item) = IF item.conv = "o" /\ Has(item, "#") /\ text[1] # "0"
                                 THEN <<"0">> \o text ELSE text
<1> DEFINE v == Val(item)
           base == BaseOf(item)
           upper == item.conv \in {"X", "B"}
           own == Cardinality({N \in 0 .. IntBits - 1 : Power(base, N) <= v})
           count == Max({own, Least(item)})
           T == IF item.conv = "X" THEN UpperDigits ELSE Digits
           D(k) == [i \in 1 .. k |-> T[((v \div Power(base, k - i)) % base) + 1]]
<1>1. /\ v \in Nat /\ v \in 0 .. 2^IntBits - 1 /\ base \in 2 .. 16 /\ Least(item) \in Nat
      /\ ~Bare(item) /\ v = 0 => Least(item) >= 1
      /\ upper \in BOOLEAN
  BY ValIs
<1>2. DigitsOf(item) =
          IF item.conv = "o" /\ Has(item, "#") /\ (D(count) = <<>> \/ D(count)[1] # "0")
          THEN <<"0">> \o D(count) ELSE D(count)
  BY Zenon DEF DigitsOf, Val, Least
<1> HIDE DEF v, base, upper
<1>3. DigitsAre(s, v, base, upper)
  BY <1>1, RevIs DEF Rev, v, base, upper, DigitsAsAsked
<1>0. l = Len(s) /\ c = Max({l, Least(item)}) /\ text = Times(c - l, "0") \o Reverse(s)
  BY DEF DigitsAsAsked
<1>4. s \in Seq(Character) /\ l \in Nat /\ l >= 1
  BY <1>3, <1>0 DEF DigitsAre
<1>5. own = (IF v = 0 THEN 0 ELSE l) /\ (v = 0 => l = 1)
  <2>1. base \in 2 .. 16 /\ v \in 0 .. 2^IntBits - 1
    BY <1>1, Zenon
  <2>2. /\ own = IF v = 0 THEN 0 ELSE Len(s)
        /\ v = 0 => Len(s) = 1
    BY <1>3, <2>1, OwnIs, Zenon
  <2> HIDE DEF own
  <2> QED
    BY <1>0, <2>2, Zenon
<1>6. c \in Nat /\ c >= l /\ c >= Least(item) /\ c \in {l, Least(item)}
  BY <1>1, <1>4, <1>0, MaxMin
<1>7. v = 0 => l = 1 /\ s[1] = "0"
  <2> SUFFICES ASSUME v = 0 PROVE l = 1 /\ s[1] = "0"
    OBVIOUS
  <2>1. Power(base, 0) = 1
    <3>1. base \in Nat /\ base > 0
      BY <1>1
    <3> QED
      BY <3>1, PowerIs
  <2>2. s[1] = Table(upper)[((v \div Power(base, 1 - 1)) % base) + 1]
    BY <1>3, <1>4, <1>5, <1>0 DEF DigitsAre
  <2>3. ((v \div Power(base, 1 - 1)) % base) + 1 = 1
    <3>1. Power(base, 1 - 1) = 1
      BY <2>1
    <3>2. v \div 1 = 0
      OBVIOUS
    <3>3. 0 % base = 0
      BY <1>1
    <3> QED
      BY <3>1, <3>2, <3>3
  <2> QED
    BY <1>1, <1>5, <2>2, <2>3, TableIs
<1>8. /\ D(c) = Times(c - l, "0") \o Reverse(s) /\ (v > 0 => s[l] # "0")
  <2> DEFINE E == LastDigits(v, base, upper, c)
  <2>1. E = Times(c - l, "0") \o Reverse(s) /\ (v > 0 => s[l] # "0")
    <3>1. /\ base \in 2 .. 16 /\ upper \in BOOLEAN /\ v \in Nat
          /\ c \in Nat /\ c >= Len(s)
      BY <1>1, <1>6, <1>0
    <3>2. /\ E = Times(c - Len(s), "0") \o Reverse(s)
          /\ v > 0 => s[Len(s)] # "0"
      <4>1. RoomFor(c, s, v, base, upper)
        BY <3>1, <1>3, Zenon DEF RoomFor
      <4> QED
        BY <4>1, DigitsPadded, Zenon
    <3> HIDE DEF E
    <3> QED
      BY <3>2, <1>0, Zenon
  <2>2. D(c) = E
    <3> USE DEF LastDigits
    <3>1. CASE item.conv # "B"
      <4>1. T = Table(upper)
        BY <3>1 DEF Table, upper
      <4> HIDE DEF T
      <4> QED
        BY <4>1, Zenon
    <3>2. CASE item.conv = "B"
      <4>1. base = 2 /\ T = Digits /\ Table(upper) = UpperDigits
        BY <3>2 DEF Table, upper, base, BaseOf
      <4>2. Digits[1] = UpperDigits[1] /\ Digits[2] = UpperDigits[2]
        BY DEF Digits, UpperDigits
      <4>3. \A q \in Int : (q % 2) + 1 \in {1, 2}
        OBVIOUS
      <4>4. ASSUME NEW i \in 1 .. c PROVE v \div Power(base, c - i) \in Int
        <5>1. c - i \in Nat /\ base \in Nat /\ base > 0
          BY <1>1, <1>6
        <5> DEFINE p == Power(base, c - i)
        <5>2. p \in Nat /\ p > 0
          BY <5>1, PowerIs
        <5> HIDE DEF p
        <5>3. p \in Nat \ {0} /\ v \in Int
          BY <1>1, <5>2
        <5>4. v \div p \in Int
          BY <5>3, Division, Zenon
        <5> QED
          BY <5>4 DEF p
      <4> DEFINE Q(i) == v \div Power(base, c - i)
      <4>5. ASSUME NEW i \in 1 .. c PROVE T[(Q(i) % base) + 1] = Table(upper)[(Q(i) % base) + 1]
        <5> DEFINE z == (Q(i) % base) + 1
        <5>1. z \in {1, 2}
          BY <4>1, <4>3, <4>4
        <5> HIDE DEF z, T
        <5>2. T[z] = Table(upper)[z]
          BY <4>1, <4>2, <5>1
        <5> QED
          BY <5>2 DEF z
      <4> HIDE DEF Q, T
      <4>6. \A i \in 1 .. c : T[(Q(i) % base) + 1] = Table(upper)[(Q(i) % base) + 1]
        BY <4>5
      <4>7. [i \in 1 .. c |-> T[(Q(i) % base) + 1]]
            = [i \in 1 .. c |-> Table(upper)[(Q(i) % base) + 1]]
        BY <4>6, Zenon
      <4> QED
        BY <4>7, Zenon DEF Q
    <3> QED
      BY <3>1, <3>2
  <2> QED
    BY <2>1, <2>2
<1>9. Bare(item) => DigitsOf(item) = IF item.conv = "o" /\ Has(item, "#") THEN <<"0">>
                                     ELSE <<>>
  <2> SUFFICES ASSUME Bare(item)
               PROVE  DigitsOf(item) = IF item.conv = "o" /\ Has(item, "#") THEN <<"0">>
                                       ELSE <<>>
    OBVIOUS
  <2>1. v = 0 /\ Least(item) = 0
    BY DEF Bare, Least, v
  <2> HIDE DEF own
  <2>2. count = 0
    <3>1. own = 0 /\ 0 \in Int
      BY <1>5, <2>1
    <3>2. Max({0, 0}) = 0
      BY MaxMin
    <3> QED
      BY <2>1, <3>1, <3>2, Zenon
  <2> HIDE DEF count, T
  <2>3. D(count) = <<>>
    BY <2>2
  <2>4. <<"0">> \o <<>> = <<"0">>
    OBVIOUS
  <2> QED
    BY <1>2, <2>3, <2>4, Zenon
<1>10. ~Bare(item) => DigitsOf(item) = IF item.conv = "o" /\ Has(item, "#") /\ text[1] # "0"
                                       THEN <<"0">> \o text ELSE text
  <2> SUFFICES ASSUME ~Bare(item)
               PROVE  DigitsOf(item) = IF item.conv = "o" /\ Has(item, "#") /\ text[1] # "0"
                                       THEN <<"0">> \o text ELSE text
    OBVIOUS
  <2> HIDE DEF own
  <2>1. count = c
    <3>1. CASE v = 0
      <4>1. own = 0 /\ l = 1 /\ Least(item) >= 1
        BY <1>1, <1>5, <3>1
      <4>2. count = Least(item) /\ c = Least(item)
        <5>1. Max({0, Least(item)}) = Least(item) /\ Max({1, Least(item)}) = Least(item)
          BY <1>1, <4>1, MaxMin
        <5> QED
          BY <4>1, <5>1, <1>0, Zenon
      <4> QED
        BY <4>2
    <3>2. CASE v # 0
      <4>1. own = l
        BY <1>5, <3>2
      <4> QED
        BY <4>1, <1>0, Zenon
    <3> QED
      BY <3>1, <3>2
  <2> HIDE DEF count, D
  <2>2. D(count) = text
    BY <1>8, <1>0, <2>1, Zenon
  <2>3. text # <<>>
    <3>1. "0" \in Character
      BY CharacterAssumption DEF FlagChars
    <3>2. /\ Times(c - l, "0") \in Seq(Character) /\ Len(Times(c - l, "0")) = c - l
      <4>1. c - l \in Nat
        BY <1>4, <1>6
      <4> QED
        BY <3>1, <4>1, TimesIs
    <3>3. Reverse(s) \in Seq(Character) /\ Len(Reverse(s)) = l
      BY <1>4, <1>0, <3>1, ReverseIs
    <3>4. Len(text) = (c - l) + l
      <4> DEFINE a == Times(c - l, "0")
                 b == Reverse(s)
      <4>1. text = a \o b
        BY <1>0
      <4>2. a \in Seq(Character) /\ b \in Seq(Character) /\ Len(a) = c - l /\ Len(b) = l
        BY <3>2, <3>3
      <4> HIDE DEF a, b
      <4>3. Len(a \o b) = Len(a) + Len(b)
        BY <4>2, ConcatProperties
      <4> QED
        BY <4>1, <4>2, <4>3, Zenon
    <3> QED
      BY <1>4, <1>6, <3>4
  <2> QED
    BY <1>2, <2>2, <2>3, Zenon
<1> QED
  BY <1>4, <1>6, <1>7, <1>8, <1>9, <1>10 DEF v

\* The conversions a precision takes the '0' flag from.
Sized == {"d", "i", "o", "x", "X", "u"}

\* The directive as the conversion takes it, its stars looked up.
Means(fs, item) ==
    /\ fs.conv_spec = IF item.conv = "i" THEN "d" ELSE item.conv
    /\ fs.length_modifier = item.len
    /\ fs.alt_form = Has(item, "#") /\ fs.prepend = Prepend(item.flags)
    /\ fs.left_justified = Left(item)
    /\ fs.leading_zero_pad = (Has(item, "0") /\ ~(Given(item.prec) /\ item.conv \in Sized))
    /\ fs.field_width = Magnitude(item.width.n)
    /\ fs.field_width_opt = "NONE" <=> item.width.kind = "none"
    /\ fs.prec = IF Given(item.prec) THEN item.prec.n
                 ELSE IF item.conv = "p" THEN (IntBits + 3) \div 4 ELSE 0
    /\ fs.prec_opt = "NONE" <=> ~Given(item.prec)

\* What the conversion of a number looks at.
LEMMA NumberSeen ==
  ASSUME NEW item, Directive(item), Numeric(item), NEW fs, Means(fs, item),
         NEW arg, arg = item.arg[1]
  PROVE  /\ IsNumber(fs) /\ fs.conv_spec \notin {"%", "c", "s", "n"}
         /\ Value(fs, arg) = Number_(item)
         /\ Base(fs) = BaseOf(item) /\ Upper(fs) = (item.conv \in {"X", "B"})
         /\ Nothing(fs, Value(fs, arg)) <=> Bare(item)
         /\ fs.prec \in Nat
         /\ Bare(item) => fs.prec = 0 /\ Number_(item) = 0 /\ Given(item.prec)
         /\ \A l \in Nat : ~Bare(item) /\ l >= 1 =>
                Max({0, fs.prec - l}) = Max({l, Least(item)}) - l
<1>1. item.conv \in {"i", "d", "o", "u", "x", "X", "p", "b", "B"}
  <2>1. item.conv \in Conversions
    BY Zenon DEF Directive
  <2> QED
    BY <2>1, Zenon DEF Conversions, Numeric
<1>2. fs.conv_spec = IF item.conv = "i" THEN "d" ELSE item.conv
  BY Zenon DEF Means
<1>3. IsNumber(fs) /\ fs.conv_spec \notin {"%", "c", "s", "n"}
  BY <1>1, <1>2 DEF IsNumber
<1>4. fs.conv_spec = "d" <=> SignedNum(item)
  BY <1>1, <1>2 DEF SignedNum
<1>5. Value(fs, arg) = Number_(item)
  <2>1. fs.length_modifier = item.len
    BY Zenon DEF Means
  <2>2. Width(fs) = Bits(item.len)
    <3>1. fs.conv_spec = "p" <=> item.conv = "p"
      BY <1>1, <1>2
    <3>2. CASE item.conv = "p"
      <4>1. item.len = <<>> /\ Width(fs) = IntBits
        BY <3>1, <3>2, Zenon DEF Directive, Width
      <4>2. Bits(<<>>) = IntBits
        BY DEF Bits
      <4> QED
        BY <4>1, <4>2
    <3>3. CASE item.conv # "p"
      BY <2>1, <3>1, <3>3, Zenon DEF Width
    <3> QED
      BY <3>2, <3>3
  <2> QED
    BY <1>4, <2>2, Zenon DEF Value, Number_
<1>6. Base(fs) = BaseOf(item) /\ Upper(fs) = (item.conv \in {"X", "B"})
  <2>1. Base(fs) = BaseOf(item)
    BY <1>1, <1>2 DEF Base, BaseOf
  <2>2. Upper(fs) <=> (item.conv \in {"X", "B"})
    BY <1>1, <1>2 DEF Upper
  <2>3. Upper(fs) \in BOOLEAN
    BY DEF Upper
  <2> QED
    BY <2>1, <2>2, <2>3
<1>7. /\ fs.prec = IF Given(item.prec) THEN item.prec.n
                   ELSE IF item.conv = "p" THEN (IntBits + 3) \div 4 ELSE 0
      /\ fs.prec_opt = "NONE" <=> ~Given(item.prec)
  BY Zenon DEF Means
<1>8. (IntBits + 3) \div 4 = IntBits \div 4 /\ IntBits \div 4 \in Nat /\ IntBits \div 4 >= 1
  BY WidthsAssumption
<1>9. item.prec.n \in Int /\ (Given(item.prec) => item.prec.n >= 0)
  BY AmountTyped DEF Given
<1>10. fs.prec \in Nat
  BY <1>7, <1>8, <1>9
<1>11. Number_(item) \in Int /\ (Val(item) = 0 <=> Number_(item) = 0)
  BY ValIs
<1>12. Nothing(fs, Value(fs, arg)) <=> Bare(item)
  <2>1. Nothing(fs, Value(fs, arg))
        <=> Number_(item) = 0 /\ fs.prec_opt # "NONE" /\ fs.prec = 0
    BY <1>5, Zenon DEF Nothing
  <2>2. Bare(item) <=> Number_(item) = 0 /\ Given(item.prec) /\ item.prec.n = 0
    BY <1>11, Zenon DEF Bare
  <2>3. Given(item.prec) => fs.prec = item.prec.n
    BY <1>7
  <2> QED
    BY <1>7, <2>1, <2>2, <2>3, Zenon
<1>13. Bare(item) => fs.prec = 0 /\ Number_(item) = 0 /\ Given(item.prec)
  BY <1>7, <1>11 DEF Bare
<1>14. ASSUME NEW l \in Nat, ~Bare(item), l >= 1
       PROVE  Max({0, fs.prec - l}) = Max({l, Least(item)}) - l
  <2> DEFINE p == fs.prec
             m == Least(item)
  <2>1. m \in Nat /\ (m = p \/ (m = 1 /\ p = 0))
    <3>1. CASE Given(item.prec)
      BY <1>7, <1>9, <3>1 DEF Least
    <3>2. CASE ~Given(item.prec)
      BY <1>7, <1>8, <3>2 DEF Least
    <3> QED
      BY <3>1, <3>2
  <2>2. p \in Nat
    BY <1>10
  <2> HIDE DEF p, m
  <2>3. /\ Max({0, p - l}) = IF 0 >= p - l THEN 0 ELSE p - l
        /\ Max({l, m}) = IF l >= m THEN l ELSE m
    BY <2>1, <2>2, MaxMin
  <2>4. Max({0, p - l}) = Max({l, m}) - l
    BY <2>1, <2>2, <2>3, <1>14
  <2> QED
    BY <2>4 DEF p, m
<1> QED
  BY <1>3, <1>5, <1>6, <1>10, <1>12, <1>13, <1>14

\* The digits that are written are those the directive asks for.
LEMMA PayloadIs ==
  ASSUME NEW item, Directive(item), Numeric(item), NEW fs, Means(fs, item),
         NEW arg, arg = item.arg[1]
  PROVE  /\ Times(prec_pad(fs, arg), "0") \o Reverse(cbuf(fs, arg)) = DigitsOf(item)
         /\ prec_pad(fs, arg) \in Nat /\ cbuf(fs, arg) \in Seq(Character)
         /\ DigitsOf(item) \in Seq(Character)
         /\ Len(DigitsOf(item)) = prec_pad(fs, arg) + Len(cbuf(fs, arg))
<1> DEFINE s == Rev(item)
           l == Len(s)
           c == Max({l, Least(item)})
           text == Times(c - l, "0") \o Reverse(s)
           oct == item.conv = "o" /\ Has(item, "#")
           b == cbuf(fs, arg)
           p == prec_pad(fs, arg)
           N == Number_(item)
<1>0. DigitsAsAsked(item, s, l, c, text)
  BY Zenon DEF DigitsAsAsked
<1>1. /\ IsNumber(fs) /\ fs.conv_spec \notin {"%", "c", "s", "n"}
      /\ Value(fs, arg) = N
      /\ Base(fs) = BaseOf(item) /\ Upper(fs) = (item.conv \in {"X", "B"})
      /\ Nothing(fs, N) <=> Bare(item)
      /\ fs.prec \in Nat
      /\ Bare(item) => fs.prec = 0 /\ N = 0 /\ Given(item.prec)
      /\ \A k \in Nat : ~Bare(item) /\ k >= 1 =>
                Max({0, fs.prec - k}) = Max({k, Least(item)}) - k
  BY NumberSeen
<1>2. /\ fs.conv_spec = "o" <=> item.conv = "o"
      /\ fs.alt_form = Has(item, "#")
  BY DEF Means
<1> HIDE DEF s, l, c, text, N
<1>3. /\ s \in Seq(Character) /\ l \in Nat /\ l >= 1 /\ c \in Nat /\ c >= l
      /\ Val(item) > 0 => s[l] # "0"
      /\ Val(item) = 0 => l = 1 /\ s[1] = "0"
      /\ Bare(item) => DigitsOf(item) = IF oct THEN <<"0">> ELSE <<>>
      /\ ~Bare(item) =>
             DigitsOf(item) = IF oct /\ text[1] # "0" THEN <<"0">> \o text ELSE text
  BY <1>0, DigitsOfIs
<1>4. /\ N \in Int /\ Val(item) \in Nat /\ (Val(item) = 0 <=> N = 0)
      /\ Val(item) = IF N < 0 THEN Unsigned(-N, IntBits) ELSE N
  BY ValIs DEF N
<1>5. b = IF Bare(item) THEN <<>>
          ELSE s \o IF N # 0 /\ fs.alt_form /\ fs.conv_spec = "o" THEN <<"0">> ELSE <<>>
  <2>1. b = IF Nothing(fs, Value(fs, arg)) THEN <<>>
            ELSE npf_utoa_rev(IF Value(fs, arg) < 0 THEN Unsigned(-Value(fs, arg), IntBits)
                              ELSE Value(fs, arg), Base(fs), Upper(fs))
                 \o IF Value(fs, arg) # 0 /\ fs.alt_form /\ fs.conv_spec = "o"
                    THEN <<"0">> ELSE <<>>
    BY <1>1 DEF cbuf
  <2>2. s = npf_utoa_rev(IF N < 0 THEN Unsigned(-N, IntBits) ELSE N, Base(fs), Upper(fs))
    BY <1>1, <1>4, Zenon DEF s, Rev
  <2> QED
    BY <1>1, <2>1, <2>2, Zenon
<1>6. p = Max({0, (IF fs.conv_spec = "o" /\ fs.alt_form /\ Bare(item) THEN 1 ELSE fs.prec)
                  - Len(b)})
  BY <1>1, Zenon DEF prec_pad
<1>7. "0" \in Character
  BY CharacterAssumption DEF FlagChars
<1> HIDE DEF b, p
<1>8. /\ \A k \in Nat : /\ Times(k, "0") \in Seq(Character) /\ Len(Times(k, "0")) = k
                        /\ k >= 1 => Times(k, "0")[1] = "0"
                        /\ Times(k + 1, "0") = Times(k, "0") \o <<"0">>
      /\ Times(0, "0") = <<>>
  <2>1. ASSUME NEW k \in Nat
        PROVE  /\ Times(k, "0") \in Seq(Character) /\ Len(Times(k, "0")) = k
               /\ \A i \in 1 .. k : Times(k, "0")[i] = "0"
               /\ Times(0, "0") = <<>>
               /\ Times(k + 1, "0") = Times(k, "0") \o <<"0">>
    BY <1>7, TimesIs
  <2>2. \A k \in Nat : k >= 1 => 1 \in 1 .. k
    OBVIOUS
  <2> QED
    BY <2>1, <2>2
<1>9. /\ Reverse(s) \in Seq(Character) /\ Len(Reverse(s)) = l
      /\ Reverse(s)[1] = s[l]
      /\ Reverse(s \o <<"0">>) = <<"0">> \o Reverse(s)
      /\ Reverse(<<>>) = <<>>
  <2>1. /\ Reverse(s) \in Seq(Character) /\ Len(Reverse(s)) = Len(s)
        /\ \A i \in 1 .. Len(s) : Reverse(s)[i] = s[(Len(s) - i) + 1]
        /\ Reverse(s \o <<"0">>) = <<"0">> \o Reverse(s)
        /\ Reverse(<<>>) = <<>>
    BY <1>3, <1>7, ReverseIs
  <2>2. l = Len(s)
    BY DEF l
  <2>3. (l - 1) + 1 = l /\ 1 \in 1 .. l
    BY <1>3
  <2> QED
    BY <2>1, <2>2, <2>3
<1>10. CASE Bare(item)
  <2>1. b = <<>> /\ fs.prec = 0
    BY <1>1, <1>5, <1>10
  <2>2. p = IF oct THEN 1 ELSE 0
    <3>1. Max({0, 1 - 0}) = 1 /\ Max({0, 0 - 0}) = 0
      BY MaxMin
    <3>2. Len(b) = 0
      BY <2>1
    <3> QED
      BY <1>2, <1>6, <1>10, <2>1, <3>1, <3>2, Zenon
  <2>3. Times(1, "0") = <<"0">>
    BY DEF Times
  <2>4. /\ <<"0">> \o <<>> = <<"0">> /\ <<>> \o <<>> = <<>>
        /\ <<"0">> \in Seq(Character) /\ <<>> \in Seq(Character)
        /\ Len(<<"0">>) = 1 /\ Len(<<>>) = 0
    BY <1>7
  <2>5. DigitsOf(item) = IF oct THEN <<"0">> ELSE <<>>
    BY <1>3, <1>10
  <2>6. Times(p, "0") \o Reverse(b) = DigitsOf(item)
    BY <2>1, <2>2, <2>3, <2>4, <2>5, <1>8, <1>9, Zenon
  <2>7. p \in Nat /\ b \in Seq(Character) /\ DigitsOf(item) \in Seq(Character)
        /\ Len(DigitsOf(item)) = p + Len(b)
    BY <2>1, <2>2, <2>4, <2>5
  <2> QED
    BY <2>6, <2>7 DEF p, b
<1>11. CASE ~Bare(item) /\ ~(oct /\ N # 0)
  <2>1. b = s
    BY <1>2, <1>3, <1>5, <1>11
  <2>2. p = c - l
    <3>1. p = Max({0, fs.prec - Len(b)})
      BY <1>6, <1>11, Zenon
    <3>2. Max({0, fs.prec - l}) = c - l
      BY <1>1, <1>3, <1>11 DEF c
    <3> QED
      BY <2>1, <3>1, <3>2 DEF l
  <2>3. DigitsOf(item) = text
    <3>1. CASE ~oct
      BY <1>3, <1>11, <3>1
    <3>2. CASE oct
      <4>1. N = 0 /\ Val(item) = 0 /\ l = 1 /\ s[1] = "0"
        BY <1>3, <1>4, <1>11, <3>2
      <4>2. text[1] = "0"
        <5> DEFINE a == Times(c - l, "0")
                   d == Reverse(s)
        <5>1. c - l \in Nat
          BY <1>3
        <5>2. /\ a \in Seq(Character) /\ Len(a) = c - l
              /\ c - l >= 1 => a[1] = "0"
          BY <1>8, <5>1
        <5>3. d \in Seq(Character) /\ Len(d) = 1 /\ d[1] = "0"
          BY <1>9, <4>1
        <5>4. text = a \o d
          BY DEF text
        <5> HIDE DEF a, d
        <5>5. /\ Len(a) = 0 => (a \o d)[1] = d[1]
              /\ Len(a) >= 1 => (a \o d)[1] = a[1]
          <6>1. \A i \in 1 .. Len(a) + Len(d) :
                    (a \o d)[i] = IF i <= Len(a) THEN a[i] ELSE d[i - Len(a)]
            BY <5>2, <5>3, ConcatProperties
          <6>2. Len(a) \in Nat /\ Len(d) = 1
            BY <5>2, <5>3
          <6> QED
            BY <6>1, <6>2
        <5>6. Len(a) = 0 \/ Len(a) >= 1
          BY <5>1, <5>2
        <5> QED
          BY <5>2, <5>3, <5>4, <5>5, <5>6
      <4> QED
        BY <1>3, <1>11, <4>2
    <3> QED
      BY <3>1, <3>2
  <2>4. Times(p, "0") \o Reverse(b) = text
    BY <2>1, <2>2, Zenon DEF text
  <2>5. p \in Nat /\ b \in Seq(Character) /\ text \in Seq(Character)
        /\ Len(text) = p + Len(b)
    <3> DEFINE a == Times(p, "0")
               d == Reverse(b)
    <3>1. p \in Nat /\ Len(b) = l
      BY <1>3, <2>1, <2>2 DEF l
    <3>2. a \in Seq(Character) /\ Len(a) = p /\ d \in Seq(Character) /\ Len(d) = Len(b)
      BY <1>8, <1>9, <2>1, <3>1
    <3> HIDE DEF a, d
    <3>3. a \o d \in Seq(Character) /\ Len(a \o d) = Len(a) + Len(d)
      BY <3>2, ConcatProperties
    <3>4. text = a \o d
      BY <2>4 DEF a, d
    <3> QED
      BY <1>3, <2>1, <3>1, <3>2, <3>3, <3>4
  <2> QED
    BY <2>3, <2>4, <2>5 DEF p, b
<1>12. CASE ~Bare(item) /\ oct /\ N # 0
  <2>1. b = s \o <<"0">> /\ Len(b) = l + 1 /\ b \in Seq(Character)
    <3>1. b = s \o <<"0">>
      BY <1>2, <1>5, <1>12
    <3> QED
      BY <1>3, <1>7, <3>1 DEF l
  <2>2. Val(item) > 0 /\ s[l] # "0"
    BY <1>3, <1>4, <1>12
  <2> DEFINE k == c - l
             d == Reverse(s)
             z(i) == Times(i, "0")
  <2>3. k \in Nat /\ Max({0, fs.prec - l}) = k
    BY <1>1, <1>3, <1>12 DEF c
  <2>4. p = IF k = 0 THEN 0 ELSE k - 1
    <3>1. p = Max({0, fs.prec - (l + 1)})
      BY <1>6, <1>12, <2>1, Zenon
    <3>2. /\ Max({0, fs.prec - (l + 1)})
             = IF 0 >= fs.prec - (l + 1) THEN 0 ELSE fs.prec - (l + 1)
          /\ Max({0, fs.prec - l}) = IF 0 >= fs.prec - l THEN 0 ELSE fs.prec - l
      BY <1>1, <1>3, MaxMin
    <3> HIDE DEF k
    <3> QED
      BY <1>1, <1>3, <2>3, <3>1, <3>2
  <2>5. /\ d \in Seq(Character) /\ Len(d) = l /\ d[1] # "0"
        /\ Reverse(b) = <<"0">> \o d
    BY <1>9, <2>1, <2>2
  <2>6. text = z(k) \o d
    BY DEF text
  <2>7. z(0) = <<>>
    BY <1>8
  <2>8. \A i \in Nat : /\ z(i) \in Seq(Character) /\ Len(z(i)) = i
                       /\ i >= 1 => z(i)[1] = "0"
                       /\ z(i + 1) = z(i) \o <<"0">>
    BY <1>8
  <2> HIDE DEF k, d, z
  <2>9. DigitsOf(item) = IF text[1] # "0" THEN <<"0">> \o text ELSE text
    BY <1>3, <1>12
  <2>10. DigitsOf(item) = z(p) \o Reverse(b)
    <3>1. CASE k = 0
      <4>1. p = 0 /\ text = d
        BY <2>4, <2>5, <2>6, <2>7, <3>1
      <4>2. z(p) \o Reverse(b) = <<"0">> \o d
        BY SMTT(60), <1>7, <2>5, <2>7, <4>1
      <4> QED
        BY <2>5, <2>9, <4>1, <4>2
    <3>2. CASE k # 0
      <4>1. p = k - 1 /\ p \in Nat /\ p + 1 = k
        BY <2>3, <2>4, <3>2
      <4>2. z(k) = z(p) \o <<"0">>
        BY <2>8, <4>1
      <4>3. text = z(p) \o (<<"0">> \o d)
        <5>1. z(p) \in Seq(Character) /\ <<"0">> \in Seq(Character)
          BY <1>7, <2>8, <4>1
        <5> DEFINE x == z(p)
                   y == <<"0">>
        <5>2. text = (x \o y) \o d
          BY <2>6, <4>2
        <5>3. x \in Seq(Character) /\ y \in Seq(Character)
          BY <5>1
        <5> HIDE DEF x, y
        <5>4. (x \o y) \o d = x \o (y \o d)
          <6>1. d \in Seq(Character)
            BY <2>5
          <6> QED
            BY <5>3, <6>1
        <5> QED
          BY <5>2, <5>4, Zenon DEF x, y
      <4>4. text[1] = "0"
        <5>1. k >= 1 /\ z(k) \in Seq(Character) /\ Len(z(k)) = k /\ z(k)[1] = "0"
          BY <2>3, <2>8, <3>2
        <5> DEFINE x == z(k)
        <5> HIDE DEF x
        <5>2. x \in Seq(Character) /\ Len(x) >= 1 /\ x[1] = "0"
          BY <5>1 DEF x
        <5>3. (x \o d)[1] = x[1]
          BY <2>5, <5>2
        <5> QED
          BY <2>6, <5>2, <5>3 DEF x
      <4> QED
        BY <2>5, <2>9, <4>3, <4>4
    <3> QED
      BY <3>1, <3>2
  <2>11. p \in Nat
    BY <2>3, <2>4
  <2>12. /\ z(p) \o Reverse(b) \in Seq(Character)
         /\ Len(z(p) \o Reverse(b)) = p + Len(b)
    <3> DEFINE x == z(p)
               y == Reverse(b)
    <3>1. x \in Seq(Character) /\ Len(x) = p /\ y \in Seq(Character) /\ Len(y) = l + 1
      <4>1. Reverse(b) \in Seq(Character) /\ Len(Reverse(b)) = Len(b)
        BY <1>7, <2>1, ReverseIs
      <4> QED
        BY <2>1, <2>8, <2>11, <4>1
    <3> HIDE DEF x, y
    <3>2. x \o y \in Seq(Character) /\ Len(x \o y) = Len(x) + Len(y)
      BY <3>1, ConcatProperties
    <3> QED
      BY <2>1, <3>1, <3>2 DEF x, y
  <2> QED
    BY <2>1, <2>10, <2>11, <2>12 DEF z, p, b
<1> QED
  BY <1>10, <1>11, <1>12

Argument == [num : Int, str : Seq(Character) \cup {NULL}]

\* What is passed for a directive.
LEMMA PassedIs ==
  ASSUME NEW item, Directive(item)
  PROVE  /\ item.arg \in Seq(Argument) /\ Passed(item) \in Seq(Argument)
         /\ item.conv \in {"%", "n"} => item.arg = <<>>
         /\ item.conv \notin {"%", "n"} => Len(item.arg) = 1
         /\ StarPassed(item.width) \in Seq(Argument)
         /\ StarPassed(item.prec) \in Seq(Argument)
<1>1. NumArg \subseteq Argument /\ TextArg \subseteq Argument
  <2> DEFINE T == Seq(Character) \cup {NULL}
  <2>1. <<>> \in Seq(Character)
    OBVIOUS
  <2>2. {<<>>} \subseteq T /\ {0} \subseteq Int
    BY <2>1
  <2> HIDE DEF T
  <2>3. [num : Int, str : {<<>>}] \subseteq [num : Int, str : T]
    BY <2>2
  <2>4. [num : {0}, str : T] \subseteq [num : Int, str : T]
    BY <2>2
  <2> QED
    BY <2>3, <2>4 DEF NumArg, TextArg, Argument, T
<1>2. /\ item.conv \in {"%", "n"} => item.arg = <<>>
      /\ item.conv \in {"c", "s"} => item.arg \in Seq(TextArg) /\ Len(item.arg) = 1
      /\ item.conv \notin {"%", "n", "c", "s"} =>
             item.arg \in Seq(NumArg) /\ Len(item.arg) = 1
  BY Zenon DEF Directive
<1>3. <<>> \in Seq(Argument)
  OBVIOUS
<1>4. Seq(NumArg) \subseteq Seq(Argument) /\ Seq(TextArg) \subseteq Seq(Argument)
  BY <1>1
<1>5. item.arg \in Seq(Argument)
  BY <1>2, <1>3, <1>4, Zenon
<1>6. \A a : a.n \in Int => StarPassed(a) \in Seq(Argument)
  <2> TAKE a
  <2>1. a.n \in Int => Num(a.n) \in Argument
    BY DEF Num, Argument
  <2> QED
    BY <2>1, <1>3 DEF StarPassed
<1>7. /\ StarPassed(item.width) \in Seq(Argument)
      /\ StarPassed(item.prec) \in Seq(Argument)
  BY <1>6, AmountTyped
<1>8. Passed(item) \in Seq(Argument)
  BY <1>5, <1>7 DEF Passed
<1>9. item.conv \notin {"%", "n"} => Len(item.arg) = 1
  BY <1>2, Zenon
<1> QED
  BY <1>2, <1>5, <1>7, <1>8, <1>9

\* A directive as it is read, on its way through the stars.
Fields == {"ok", "next", "left_justified", "leading_zero_pad", "prepend", "alt_form",
           "field_width", "field_width_opt", "prec", "prec_opt", "length_modifier",
           "conv_spec"}
Reads(f, item, left, zero, width, prec, opt) ==
    /\ DOMAIN f = Fields /\ f = [x \in Fields |-> f[x]]
    /\ f.conv_spec = IF item.conv = "i" THEN "d" ELSE item.conv
    /\ f.length_modifier = item.len
    /\ f.alt_form = Has(item, "#") /\ f.prepend = Prepend(item.flags)
    /\ f.left_justified = left /\ f.leading_zero_pad = zero
    /\ f.field_width = width /\ f.field_width_opt = OptOf(item.width)
    /\ f.prec = prec /\ f.prec_opt = opt

\* What the parser finds reads as it was written.
LEMMA ReadFirst ==
  ASSUME NEW item, NEW next
  PROVE  Reads(Parsed(item, next), item, Has(item, "-"), Has(item, "0"),
              Told(item.width), Told(item.prec), OptOf(item.prec))
<1> DEFINE f == Parsed(item, next)
<1>1. DOMAIN f = Fields /\ f = [x \in Fields |-> f[x]]
  BY DEF Parsed, Fields
<1>2. /\ f.conv_spec = IF item.conv = "i" THEN "d" ELSE item.conv
      /\ f.length_modifier = item.len
      /\ f.alt_form = Has(item, "#") /\ f.prepend = Prepend(item.flags)
      /\ f.left_justified = Has(item, "-") /\ f.leading_zero_pad = Has(item, "0")
      /\ f.field_width = Told(item.width) /\ f.field_width_opt = OptOf(item.width)
      /\ f.prec = Told(item.prec) /\ f.prec_opt = OptOf(item.prec)
  BY DEF Parsed
<1> HIDE DEF f
<1> QED
  BY <1>1, <1>2, Zenon DEF Reads, f

\* What is looked up afterwards changes one thing of it.
LEMMA ReadOn ==
  ASSUME NEW f, NEW item, NEW left, NEW zero, NEW width, NEW prec, NEW opt,
         Reads(f, item, left, zero, width, prec, opt), NEW a, NEW b
  PROVE  /\ Reads([f EXCEPT !.field_width = a, !.left_justified = b],
                 item, b, zero, a, prec, opt)
         /\ Reads([f EXCEPT !.prec = a, !.prec_opt = b], item, left, zero, width, a, b)
         /\ Reads([f EXCEPT !.prec = a], item, left, zero, width, a, opt)
         /\ Reads([f EXCEPT !.leading_zero_pad = a], item, left, a, width, prec, opt)
<1> DEFINE pr == Prepend(item.flags)
           al == Has(item, "#")
           wo == OptOf(item.width)
           le == item.len
           cv == IF item.conv = "i" THEN "d" ELSE item.conv
           P(g, l, z, w, p, o) ==
               /\ DOMAIN g = Fields /\ g = [x \in Fields |-> g[x]]
               /\ g.conv_spec = cv /\ g.length_modifier = le
               /\ g.alt_form = al /\ g.prepend = pr
               /\ g.left_justified = l /\ g.leading_zero_pad = z
               /\ g.field_width = w /\ g.field_width_opt = wo
               /\ g.prec = p /\ g.prec_opt = o
<1>1. P(f, left, zero, width, prec, opt)
  BY Zenon DEF Reads
<1> HIDE DEF pr, al, wo, le, cv
<1>2. Reads([f EXCEPT !.field_width = a, !.left_justified = b], item, b, zero, a, prec, opt)
  <2> DEFINE g == [f EXCEPT !.field_width = a, !.left_justified = b]
  <2>1. P(g, b, zero, a, prec, opt)
    BY <1>1 DEF Fields
  <2> HIDE DEF g
  <2>2. Reads(g, item, b, zero, a, prec, opt)
    BY <2>1, Zenon DEF Reads, pr, al, wo, le, cv
  <2> QED
    BY <2>2 DEF g
<1>3. Reads([f EXCEPT !.prec = a, !.prec_opt = b], item, left, zero, width, a, b)
  <2> DEFINE g == [f EXCEPT !.prec = a, !.prec_opt = b]
  <2>1. P(g, left, zero, width, a, b)
    BY <1>1 DEF Fields
  <2> HIDE DEF g
  <2>2. Reads(g, item, left, zero, width, a, b)
    BY <2>1, Zenon DEF Reads, pr, al, wo, le, cv
  <2> QED
    BY <2>2 DEF g
<1>4. Reads([f EXCEPT !.prec = a], item, left, zero, width, a, opt)
  <2> DEFINE g == [f EXCEPT !.prec = a]
  <2>1. P(g, left, zero, width, a, opt)
    BY <1>1 DEF Fields
  <2> HIDE DEF g
  <2>2. Reads(g, item, left, zero, width, a, opt)
    BY <2>1, Zenon DEF Reads, pr, al, wo, le, cv
  <2> QED
    BY <2>2 DEF g
<1>5. Reads([f EXCEPT !.leading_zero_pad = a], item, left, a, width, prec, opt)
  <2> DEFINE g == [f EXCEPT !.leading_zero_pad = a]
  <2>1. P(g, left, a, width, prec, opt)
    BY <1>1 DEF Fields
  <2> HIDE DEF g
  <2>2. Reads(g, item, left, a, width, prec, opt)
    BY <2>1, Zenon DEF Reads, pr, al, wo, le, cv
  <2> QED
    BY <2>2 DEF g
<1> QED
  BY <1>2, <1>3, <1>4, <1>5, Zenon

\* The first of some arguments, and the others.
LEMMA FirstOf ==
  ASSUME NEW S, NEW x \in S, NEW t \in Seq(S)
  PROVE  Head(<<x>> \o t) = x /\ Tail(<<x>> \o t) = t
<1> DEFINE s == <<x>> \o t
           N == Len(t)
           u == Tail(s)
<1>1. s \in Seq(S) /\ Len(s) = N + 1 /\ s[1] = x /\ N \in Nat
      /\ \A i \in 1 .. N : s[i + 1] = t[i]
  OBVIOUS
<1> HIDE DEF s, N
<1>2. Head(s) = x /\ u \in Seq(S) /\ Len(u) = N /\ \A i \in 1 .. N : u[i] = s[i + 1]
  BY <1>1
<1> HIDE DEF u
<1>3. u = t
  BY <1>1, <1>2 DEF N
<1> QED
  BY <1>2, <1>3 DEF s, u

\* An amount that is not a star is told as it is.
LEMMA PlainAmounts ==
  ASSUME NEW item, Directive(item)
  PROVE  /\ item.width.kind # "star" =>
                ~(item.width.n < 0) /\ Told(item.width) = Magnitude(item.width.n)
         /\ item.prec.kind # "star" =>
                /\ Told(item.prec) = IF Given(item.prec) THEN item.prec.n ELSE 0
                /\ OptOf(item.prec) = IF Given(item.prec) THEN OptOf(item.prec)
                                       ELSE "NONE"
<1> DEFINE w == item.width
           p == item.prec
           m == w.n
           N == p.n
<1>1. /\ m \in Int /\ N \in Int
      /\ w.kind \in {"none", "literal", "star"} /\ p.kind \in {"none", "literal", "star"}
      /\ w.kind = "none" => m = 0
      /\ w.kind = "literal" => m \in 1 .. 99
      /\ p.kind = "literal" => N \in 0 .. 99
  BY AmountTyped
<1>2. /\ Told(w) = IF w.kind = "literal" THEN m ELSE 0
      /\ Told(p) = IF p.kind = "literal" THEN N ELSE 0
      /\ Given(p) <=> p.kind # "none" /\ N >= 0
      /\ Magnitude(m) = IF m < 0 THEN -m ELSE m
  BY DEF Told, Given, Magnitude
<1>3. p.kind = "none" => OptOf(p) = "NONE"
  BY DEF OptOf
<1> HIDE DEF w, p, m, N
<1>4. w.kind # "star" => ~(m < 0) /\ Told(w) = Magnitude(m)
  BY <1>1, <1>2
<1>5. p.kind # "star" => /\ Told(p) = IF Given(p) THEN N ELSE 0
                         /\ OptOf(p) = IF Given(p) THEN OptOf(p) ELSE "NONE"
  BY <1>1, <1>2, <1>3
<1> QED
  BY <1>4, <1>5 DEF w, p, m, N

\* Behind the stars a directive is what it means, and what is left of the
\* arguments is its own and those behind it.
LEMMA StarsLookedUp ==
  ASSUME NEW item, Directive(item), NEW next, NEW rest \in Seq(Argument),
         NEW r, r = Completed(StarPrecision(StarWidth(
                        [fs |-> Parsed(item, next), args |-> Passed(item) \o rest])))
  PROVE  Means(r.fs, item) /\ r.args = item.arg \o rest
<1> DEFINE f0 == Parsed(item, next)
           w == item.width
           p == item.prec
           t2 == item.arg \o rest
           t1 == StarPassed(p) \o t2
           t0 == Passed(item) \o rest
           r1 == StarWidth([fs |-> f0, args |-> t0])
           r2 == StarPrecision(r1)
           left == Left(item)
           zero == Has(item, "0")
           width == Magnitude(w.n)
           prec == IF Given(p) THEN p.n ELSE 0
           opt == IF Given(p) THEN OptOf(p) ELSE "NONE"
<1>1. /\ w.n \in Int /\ p.n \in Int
      /\ w.kind \in {"none", "literal", "star"} /\ p.kind \in {"none", "literal", "star"}
      /\ w.kind = "none" => w.n = 0
      /\ w.kind = "literal" => w.n \in 1 .. 99
      /\ p.kind = "literal" => p.n \in 0 .. 99
  BY AmountTyped
<1>2. /\ item.arg \in Seq(Argument) /\ Num(w.n) \in Argument /\ Num(p.n) \in Argument
      /\ Num(w.n).num = w.n /\ Num(p.n).num = p.n
      /\ StarPassed(w) \in Seq(Argument) /\ StarPassed(p) \in Seq(Argument)
  <2>1. \A x \in Int : Num(x) \in Argument /\ Num(x).num = x
    BY DEF Num, Argument
  <2> QED
    BY <1>1, <2>1, PassedIs
<1>3. t0 = StarPassed(w) \o t1 /\ t1 \in Seq(Argument) /\ t2 \in Seq(Argument)
  <2> DEFINE a == StarPassed(w)
             b == StarPassed(p)
             c == item.arg
  <2>1. a \in Seq(Argument) /\ b \in Seq(Argument) /\ c \in Seq(Argument)
    BY <1>2
  <2>2. t0 = (a \o b \o c) \o rest
    BY DEF Passed
  <2> HIDE DEF a, b, c
  <2>3. (a \o b \o c) \o rest = a \o (b \o (c \o rest))
    <3> DEFINE d == b \o c
    <3>1. d \in Seq(Argument) /\ (a \o b) \o c = a \o d
      BY <2>1
    <3>2. d \o rest = b \o (c \o rest)
      BY SMTT(60), <2>1
    <3> HIDE DEF d
    <3>3. (a \o d) \o rest = a \o (d \o rest)
      BY SMTT(60), <2>1, <3>1
    <3> QED
      BY <3>1, <3>2, <3>3, Zenon
  <2>4. b \o (c \o rest) \in Seq(Argument) /\ c \o rest \in Seq(Argument)
    BY <2>1
  <2> QED
    BY <2>2, <2>3, <2>4 DEF a, b, c
<1>4. /\ OptOf(w) = "STAR" <=> w.kind = "star"
      /\ OptOf(p) = "STAR" <=> p.kind = "star"
      /\ OptOf(w) = "NONE" <=> w.kind = "none"
      /\ OptOf(p) = "NONE" <=> p.kind = "none"
  BY <1>1 DEF OptOf
<1>5. Reads(f0, item, Has(item, "-"), zero, Told(w), Told(p), OptOf(p))
  BY ReadFirst
<1>6. f0.field_width_opt = OptOf(w) /\ f0.left_justified = Has(item, "-")
  BY <1>5, Zenon DEF Reads
<1> HIDE DEF f0, t0, t1, t2
<1>7. r1.args = t1 /\ Reads(r1.fs, item, left, zero, width, Told(p), OptOf(p))
  <2>1. CASE w.kind = "star"
    <3>1. r1 = [args |-> Tail(t0),
                fs |-> [f0 EXCEPT !.field_width = IF Head(t0).num < 0 THEN -Head(t0).num
                                                  ELSE Head(t0).num,
                                  !.left_justified = f0.left_justified \/ Head(t0).num < 0]]
      BY <1>4, <1>6, <2>1 DEF StarWidth
    <3>2. Head(t0).num = w.n /\ Tail(t0) = t1
      <4>1. t0 = <<Num(w.n)>> \o t1
        BY <1>3, <2>1 DEF StarPassed
      <4> QED
        BY <1>2, <1>3, <4>1, FirstOf
    <3>3. r1 = [args |-> t1, fs |-> [f0 EXCEPT !.field_width = width,
                                               !.left_justified = left]]
      BY <1>6, <3>1, <3>2, ZenonT(60) DEF Left, Magnitude
    <3>4. Reads([f0 EXCEPT !.field_width = width, !.left_justified = left],
               item, left, zero, width, Told(p), OptOf(p))
      BY <1>5, ReadOn
    <3> QED
      BY <3>3, <3>4
  <2>2. CASE w.kind # "star"
    <3>1. r1 = [fs |-> f0, args |-> t0]
      BY <1>4, <1>6, <2>2 DEF StarWidth
    <3>2. t0 = t1
      BY <1>3, <2>2 DEF StarPassed
    <3>3. Has(item, "-") = left /\ Told(w) = width
      <4>1. Has(item, "-") \in BOOLEAN /\ Left(item) \in BOOLEAN
        BY DEF Has, Left, Contains
      <4>2. ~(w.n < 0) /\ Told(w) = Magnitude(w.n)
        BY <2>2, PlainAmounts
      <4>3. Has(item, "-") <=> Left(item)
        BY <4>2, Zenon DEF Left
      <4> QED
        BY <4>1, <4>2, <4>3
    <3> QED
      BY <1>5, <3>1, <3>2, <3>3
  <2> QED
    BY <2>1, <2>2
<1>8. r1.fs.prec_opt = OptOf(p)
  BY <1>7, Zenon DEF Reads
<1>9. r2.args = t2 /\ Reads(r2.fs, item, left, zero, width, prec, opt)
  <2> DEFINE f1 == r1.fs
  <2> HIDE DEF f1, left, zero, width
  <2>0. r1.args = t1 /\ f1.prec_opt = OptOf(p)
        /\ Reads(f1, item, left, zero, width, Told(p), OptOf(p))
    BY <1>7, <1>8 DEF f1
  <2>1. CASE p.kind = "star"
    <3>1. r2 = [args |-> Tail(t1),
                fs |-> [f1 EXCEPT !.prec = IF Head(t1).num < 0 THEN 0 ELSE Head(t1).num,
                                  !.prec_opt = IF Head(t1).num < 0 THEN "NONE"
                                               ELSE f1.prec_opt]]
      BY <1>4, <2>0, <2>1 DEF StarPrecision, f1
    <3>2. Head(t1).num = p.n /\ Tail(t1) = t2
      <4>1. t1 = <<Num(p.n)>> \o t2
        BY <2>1 DEF StarPassed, t1
      <4> QED
        BY <1>2, <1>3, <4>1, FirstOf
    <3>3. Given(p) <=> ~(p.n < 0)
      BY <1>1, <2>1 DEF Given
    <3>4. r2 = [args |-> t2, fs |-> [f1 EXCEPT !.prec = prec, !.prec_opt = opt]]
      BY <2>0, <3>1, <3>2, <3>3
    <3> HIDE DEF prec, opt
    <3>5. Reads([f1 EXCEPT !.prec = prec, !.prec_opt = opt],
               item, left, zero, width, prec, opt)
      BY <2>0, ReadOn
    <3> QED
      BY <3>4, <3>5
  <2>2. CASE p.kind # "star"
    <3>1. r2 = r1
      BY <1>4, <1>8, <2>2 DEF StarPrecision
    <3>2. t1 = t2
      BY <1>3, <2>2 DEF StarPassed, t1
    <3>3. Told(p) = prec /\ OptOf(p) = opt
      BY <2>2, PlainAmounts
    <3> HIDE DEF prec, opt, r1, r2
    <3> QED
      BY <2>0, <3>1, <3>2, <3>3 DEF f1
  <2> QED
    BY <2>1, <2>2
<1>10. r = [r2 EXCEPT !.fs = IgnoreZeroFlag(DefaultPrecision(r2.fs))]
  BY Zenon DEF Completed, t0, f0
<1>11. r.fs = IgnoreZeroFlag(DefaultPrecision(r2.fs)) /\ r.args = t2
  <2>1. r2 = [fs |-> r2.fs, args |-> r2.args]
    <3>1. r1 = [fs |-> r1.fs, args |-> r1.args]
      BY DEF StarWidth
    <3> HIDE DEF r1
    <3> QED
      BY <3>1 DEF StarPrecision
  <2> DEFINE a == r2.fs
             b == r2.args
  <2>2. r2 = [fs |-> a, args |-> b] /\ r = [r2 EXCEPT !.fs = IgnoreZeroFlag(DefaultPrecision(a))]
    BY <1>10, <2>1
  <2>3. b = t2
    BY <1>9
  <2> HIDE DEF a, b, r2
  <2>4. r.fs = IgnoreZeroFlag(DefaultPrecision(a)) /\ r.args = b
    BY <2>2
  <2> QED
    BY <2>3, <2>4 DEF a
<1>12. Means(r.fs, item)
  <2> DEFINE f2 == r2.fs
             d == item.conv = "p" /\ ~Given(p)
             f3 == DefaultPrecision(f2)
             prec3 == IF d THEN (IntBits + 3) \div 4 ELSE prec
             z == Given(p) /\ item.conv \in Sized
             f4 == IgnoreZeroFlag(f3)
  <2>1. Reads(f2, item, left, zero, width, prec, opt)
    BY <1>9
  <2> HIDE DEF f2, left, zero, width
  <2>2. opt = "NONE" <=> ~Given(p)
    <3>1. Given(p) => p.kind # "none"
      BY DEF Given
    <3> QED
      BY <1>4, <3>1
  <2> HIDE DEF opt
  <2>3. item.conv \in Conversions
    BY Zenon DEF Directive
  <2>4. f2.prec_opt = opt /\ f2.conv_spec = IF item.conv = "i" THEN "d" ELSE item.conv
    BY <2>1, Zenon DEF Reads
  <2>5. Reads(f3, item, left, zero, width, prec3, opt)
    <3>1. f2.conv_spec = "p" <=> item.conv = "p"
      BY <2>4
    <3>2. f3 = IF d THEN [f2 EXCEPT !.prec = (IntBits + 3) \div 4] ELSE f2
      BY <2>2, <2>4, <3>1, Zenon DEF DefaultPrecision
    <3>3. CASE d
      <4> DEFINE x == (IntBits + 3) \div 4
      <4>1. f3 = [f2 EXCEPT !.prec = x] /\ prec3 = x
        BY <3>2, <3>3, ZenonT(60)
      <4> HIDE DEF x, f3, prec3
      <4>2. Reads([f2 EXCEPT !.prec = x], item, left, zero, width, x, opt)
        BY <2>1, ReadOn
      <4> QED
        BY <4>1, <4>2, Zenon
    <3>4. CASE ~d
      <4>1. f3 = f2 /\ prec3 = prec
        BY <3>2, <3>4, Zenon
      <4> HIDE DEF f3, prec3
      <4> QED
        BY <2>1, <4>1, Zenon
    <3> QED
      BY <3>3, <3>4
  <2> HIDE DEF f3, prec3
  <2>6. f3.prec_opt = opt /\ f3.conv_spec = IF item.conv = "i" THEN "d" ELSE item.conv
    BY <2>5, Zenon DEF Reads
  <2>7. Reads(f4, item, left, zero /\ ~z, width, prec3, opt)
    <3>1. f3.conv_spec \in {"d", "o", "x", "X", "u"} <=> item.conv \in Sized
      BY <2>3, <2>6 DEF Conversions, Sized
    <3>2. f4 = IF z THEN [f3 EXCEPT !.leading_zero_pad = FALSE] ELSE f3
      BY <2>2, <2>6, <3>1, Zenon DEF IgnoreZeroFlag
    <3>3. zero \in BOOLEAN
      BY DEF zero, Has, Contains
    <3>4. CASE z
      <4>1. f4 = [f3 EXCEPT !.leading_zero_pad = FALSE] /\ FALSE = (zero /\ ~z)
        BY SMTT(60), <3>2, <3>4
      <4>2. Reads([f3 EXCEPT !.leading_zero_pad = FALSE], item, left, FALSE, width,
                 prec3, opt)
        BY <2>5, ReadOn
      <4> HIDE DEF f4, z
      <4> QED
        BY <4>1, <4>2, Zenon
    <3>5. CASE ~z
      <4>1. f4 = f3 /\ zero = (zero /\ ~z)
        BY <3>2, <3>3, <3>5
      <4> HIDE DEF f4, z
      <4> QED
        BY <2>5, <4>1, Zenon
    <3> QED
      BY <3>4, <3>5
  <2>8. r.fs = f4
    BY <1>11 DEF f2, f3
  <2> HIDE DEF f4
  <2>9. Means(f4, item)
    <3>1. /\ f4.conv_spec = IF item.conv = "i" THEN "d" ELSE item.conv
          /\ f4.length_modifier = item.len
          /\ f4.alt_form = Has(item, "#") /\ f4.prepend = Prepend(item.flags)
          /\ f4.left_justified = left /\ f4.leading_zero_pad = (zero /\ ~z)
          /\ f4.field_width = width /\ f4.field_width_opt = OptOf(item.width)
          /\ f4.prec = prec3 /\ f4.prec_opt = opt
      BY <2>7, Zenon DEF Reads
    <3>2. f4.prec = IF Given(item.prec) THEN item.prec.n
                    ELSE IF item.conv = "p" THEN (IntBits + 3) \div 4 ELSE 0
      BY <3>1, Zenon DEF prec3
    <3>3. /\ f4.field_width_opt = "NONE" <=> item.width.kind = "none"
          /\ f4.prec_opt = "NONE" <=> ~Given(item.prec)
      BY <1>4, <2>2, <3>1, Zenon
    <3> QED
      BY <3>1, <3>2, <3>3, Zenon DEF Means, left, zero, width
  <2> QED
    BY <2>8, <2>9
<1> QED
  BY <1>11, <1>12 DEF t2

\* The characters the conversions write are those of texts.
LEMMA CharactersAre ==
  /\ {"%", "-", "+", " ", "0", "x", "X", "b", "B"} \subseteq Character
  /\ NUL \notin Character
<1>1. FlagChars \cup Conversions \subseteq Character /\ NUL \notin Character
  BY CharacterAssumption, Zenon
<1>2. /\ {"-", "+", " ", "0"} \subseteq FlagChars
      /\ {"%", "x", "X", "b", "B"} \subseteq Conversions
  BY DEF FlagChars, Conversions
<1> QED
  BY <1>1, <1>2

\* The sign and the "0x" in front of a number.
LEMMA PrefixIs ==
  ASSUME NEW item, Directive(item), Numeric(item), NEW fs, Means(fs, item),
         NEW arg, arg = item.arg[1]
  PROVE  /\ sign_c(fs, arg) \o need_0x(fs, arg) = Prefix(item)
         /\ sign_c(fs, arg) \in Seq(Character) /\ need_0x(fs, arg) \in Seq(Character)
<1> DEFINE N == Number_(item)
           c == item.conv
           d == fs.conv_spec
           alt == Has(item, "#")
           sg == sign_c(fs, arg)
           ox == need_0x(fs, arg)
<1>1. IsNumber(fs) /\ Value(fs, arg) = N
  BY NumberSeen
<1>2. /\ d = IF c = "i" THEN "d" ELSE c
      /\ fs.alt_form = alt /\ fs.prepend = Prepend(item.flags)
  BY Zenon DEF Means
<1>3. c \in {"i", "d", "o", "u", "x", "X", "p", "b", "B"}
  <2>1. c \in Conversions
    BY Zenon DEF Directive
  <2> QED
    BY <2>1, Zenon DEF Conversions, Numeric
<1>4. N \in Int
  BY ValIs
<1>5. Prepend(item.flags) = IF Has(item, "+") THEN "+" ELSE IF Has(item, " ") THEN " "
                            ELSE NUL
  BY Zenon DEF Prepend, Has
<1>6. sg = IF d # "d" THEN <<>>
           ELSE IF N < 0 THEN <<"-">>
           ELSE IF fs.prepend = NUL THEN <<>> ELSE <<fs.prepend>>
  BY <1>1, Zenon DEF sign_c
<1>7. ox = IF ~(alt /\ N # 0) THEN <<>>
           ELSE CASE d \in {"x", "p"} -> <<"0", "x">>
                  [] d \in {"X", "b", "B"} -> <<"0", d>>
                  [] OTHER -> <<>>
  BY <1>1, <1>2, Zenon DEF need_0x
<1>8. SignedNum(item) <=> d = "d"
  BY <1>2, <1>3 DEF SignedNum
<1> HIDE DEF N, sg, ox, alt
<1>9. /\ <<>> \in Seq(Character) /\ <<"-">> \in Seq(Character) /\ <<"+">> \in Seq(Character)
      /\ <<" ">> \in Seq(Character)
      /\ <<"0", "x">> \in Seq(Character) /\ <<"0", "X">> \in Seq(Character)
      /\ <<"0", "b">> \in Seq(Character) /\ <<"0", "B">> \in Seq(Character)
  <2>1. /\ \A x \in Character : <<x>> \in Seq(Character)
        /\ \A x, y \in Character : <<x, y>> \in Seq(Character)
        /\ <<>> \in Seq(Character)
    OBVIOUS
  <2>2. /\ "-" \in Character /\ "+" \in Character /\ " " \in Character
        /\ "0" \in Character /\ "x" \in Character /\ "X" \in Character
        /\ "b" \in Character /\ "B" \in Character
    BY CharactersAre, Zenon
  <2> QED
    BY <2>1, <2>2, Zenon
<1>10. \A s \in Seq(Character) : s \o <<>> = s /\ <<>> \o s = s
  BY ConcatEmptySeq
<1>11. NUL # "+" /\ NUL # " "
  BY DEF NUL
<1>12. CASE SignedNum(item)
  <2>1. d = "d"
    BY <1>8, <1>12
  <2>2. ox = <<>>
    <3>1. d \notin {"x", "p"} /\ d \notin {"X", "b", "B"}
      BY <2>1
    <3> QED
      BY <1>7, <3>1
  <2>3. Prefix(item) = IF N < 0 THEN <<"-">>
                       ELSE IF Has(item, "+") THEN <<"+">>
                       ELSE IF Has(item, " ") THEN <<" ">> ELSE <<>>
    BY <1>12, Zenon DEF Prefix, N
  <2>4. sg = Prefix(item)
    BY <1>2, <1>5, <1>6, <1>11, <2>1, <2>3, Zenon
  <2>5. sg \in Seq(Character)
    BY <1>9, <2>3, <2>4, Zenon
  <2> QED
    BY <1>9, <1>10, <2>2, <2>4, <2>5, Zenon DEF sg, ox
<1>13. CASE ~SignedNum(item)
  <2>1. sg = <<>> /\ d = c /\ c \in {"o", "u", "x", "X", "p", "b", "B"}
    <3>1. d # "d" /\ c # "i"
      BY <1>2, <1>8, <1>13
    <3> QED
      BY <1>2, <1>3, <1>6, <3>1, Zenon
  <2>2. Prefix(item) = IF ~alt \/ N = 0 \/ c \in {"o", "u"} THEN <<>>
                       ELSE <<"0", IF c = "p" THEN "x" ELSE c>>
    BY <1>13, Zenon DEF Prefix, N, alt
  <2>3. ox = Prefix(item) /\ ox \in Seq(Character)
    <3>1. CASE ~(alt /\ N # 0)
      <4>1. ox = <<>> /\ Prefix(item) = <<>>
        BY <1>7, <2>2, <3>1, Zenon
      <4> QED
        BY <1>9, <4>1
    <3>2. CASE alt /\ N # 0 /\ c \in {"o", "u"}
      <4>1. d \notin {"x", "p"} /\ d \notin {"X", "b", "B"}
        BY <2>1, <3>2
      <4>2. ox = <<>> /\ Prefix(item) = <<>>
        BY <1>7, <2>2, <3>2, <4>1
      <4> QED
        BY <1>9, <4>2
    <3>3. CASE alt /\ N # 0 /\ c \in {"x", "p"}
      <4>1. ox = <<"0", "x">>
        BY <1>7, <2>1, <3>3
      <4>2. Prefix(item) = <<"0", "x">>
        <5>1. c \notin {"o", "u"} /\ (IF c = "p" THEN "x" ELSE c) = "x"
          BY <3>3
        <5> QED
          BY <2>2, <3>3, <5>1, Zenon
      <4> QED
        BY <1>9, <4>1, <4>2
    <3>4. CASE alt /\ N # 0 /\ c \in {"X", "b", "B"}
      <4>1. d \notin {"x", "p"} /\ d \in {"X", "b", "B"}
        BY <2>1, <3>4
      <4>2. ox = <<"0", c>>
        BY <1>7, <2>1, <3>4, <4>1
      <4>3. Prefix(item) = <<"0", c>>
        <5>1. c \notin {"o", "u"} /\ (IF c = "p" THEN "x" ELSE c) = c
          BY <3>4
        <5> QED
          BY <2>2, <3>4, <5>1, Zenon
      <4>4. <<"0", c>> \in Seq(Character)
        BY <1>9, <3>4, Zenon
      <4> QED
        BY <4>2, <4>3, <4>4
    <3> QED
      BY <2>1, <3>1, <3>2, <3>3, <3>4, Zenon
  <2> QED
    BY <1>9, <1>10, <2>1, <2>3, Zenon DEF sg, ox
<1> QED
  BY <1>12, <1>13

\* The argument as text, the first character first.
Payload(fs, arg) == Times(prec_pad(fs, arg), "0")
                    \o IF IsNumber(fs) THEN Reverse(cbuf(fs, arg)) ELSE cbuf(fs, arg)

\* The digits or the text of a directive, with the zeros of its precision.
LEMMA BodyIs ==
  ASSUME NEW item, Directive(item), NEW fs, Means(fs, item), NEW arg,
         item.conv \notin {"%", "n"} => arg = item.arg[1]
  PROVE  /\ Payload(fs, arg) = Body(item) /\ Body(item) \in Seq(Character)
         /\ prec_pad(fs, arg) \in Nat /\ cbuf(fs, arg) \in Seq(Character)
         /\ Len(Body(item)) = prec_pad(fs, arg) + Len(cbuf(fs, arg))
<1>1. CASE Numeric(item)
  <2>1. arg = item.arg[1] /\ IsNumber(fs)
    <3>1. arg = item.arg[1]
      BY <1>1, Zenon DEF Numeric
    <3> QED
      BY <1>1, <3>1, NumberSeen
  <2>2. Body(item) = DigitsOf(item)
    BY <1>1 DEF Body, Numeric
  <2>3. Payload(fs, arg) = Times(prec_pad(fs, arg), "0") \o Reverse(cbuf(fs, arg))
    BY <2>1, Zenon DEF Payload
  <2>4. /\ Times(prec_pad(fs, arg), "0") \o Reverse(cbuf(fs, arg)) = DigitsOf(item)
        /\ prec_pad(fs, arg) \in Nat /\ cbuf(fs, arg) \in Seq(Character)
        /\ DigitsOf(item) \in Seq(Character)
        /\ Len(DigitsOf(item)) = prec_pad(fs, arg) + Len(cbuf(fs, arg))
    BY <1>1, <2>1, PayloadIs
  <2> QED
    BY <2>2, <2>3, <2>4, Zenon
<1>2. CASE ~Numeric(item)
  <2> DEFINE b == cbuf(fs, arg)
             p == prec_pad(fs, arg)
             c == item.conv
             str == item.arg[1].str
  <2>1. c \in {"%", "c", "s", "n"}
    BY <1>2 DEF Numeric
  <2>2. fs.conv_spec = c
    <3>1. fs.conv_spec = IF c = "i" THEN "d" ELSE c
      BY Zenon DEF Means
    <3> QED
      BY <2>1, <3>1
  <2>3. ~IsNumber(fs)
    BY <2>1, <2>2 DEF IsNumber
  <2>4. /\ fs.prec = IF Given(item.prec) THEN item.prec.n
                     ELSE IF c = "p" THEN (IntBits + 3) \div 4 ELSE 0
        /\ fs.prec_opt = "NONE" <=> ~Given(item.prec)
    BY Zenon DEF Means
  <2>5. c # "s" => fs.prec = 0
    <3> SUFFICES ASSUME c # "s" PROVE fs.prec = 0
      OBVIOUS
    <3>1. c \in {"%", "n", "c", "p", "b", "B"}
      BY <2>1
    <3>2. item.prec.kind = "none"
      BY <3>1, Zenon DEF Directive
    <3>3. ~Given(item.prec)
      BY <3>2 DEF Given
    <3> QED
      BY <2>1, <2>4, <3>3
  <2>6. c # "s" => p = Max({0, 0 - Len(b)})
    <3>1. fs.conv_spec # "o"
      BY <2>1, <2>2
    <3> QED
      BY <2>2, <2>5, <3>1, Zenon DEF prec_pad
  <2>7. c = "s" => p = 0
    BY <2>2, Zenon DEF prec_pad
  <2>8. <<"%">> \in Seq(Character) /\ <<>> \in Seq(Character)
    <3>1. "%" \in Character
      BY CharactersAre, Zenon
    <3> QED
      BY <3>1
  <2>9. c \in {"c", "s"} => str \in Seq(Character) \cup {NULL} /\ arg.str = str
    <3> SUFFICES ASSUME c \in {"c", "s"}
                 PROVE  str \in Seq(Character) \cup {NULL} /\ arg.str = str
      OBVIOUS
    <3>1. item.arg \in Seq(TextArg) /\ Len(item.arg) = 1
      BY Zenon DEF Directive
    <3>2. item.arg[1] \in TextArg
      BY <3>1
    <3>3. c \notin {"%", "n"}
      OBVIOUS
    <3>4. arg = item.arg[1]
      BY <3>3, Zenon
    <3>5. str \in Seq(Character) \cup {NULL}
      BY <3>2 DEF TextArg
    <3> QED
      BY <3>4, <3>5, Zenon
  <2>10. c = "c" => str # NULL
    BY Zenon DEF Directive
  <2>11. b = Body(item) /\ b \in Seq(Character)
    <3> DEFINE d == fs.conv_spec
               cut == IF arg.str = NULL THEN <<>>
                      ELSE IF fs.prec_opt = "NONE" THEN arg.str
                      ELSE SubSeq(arg.str, 1, Min({fs.prec, Len(arg.str)}))
               bcut == IF str = NULL THEN <<>>
                       ELSE IF Given(item.prec)
                       THEN SubSeq(str, 1, Min({item.prec.n, Len(str)}))
                       ELSE str
               num == IF Nothing(fs, Value(fs, arg)) THEN <<>>
                      ELSE npf_utoa_rev(IF Value(fs, arg) < 0
                                        THEN Unsigned(-Value(fs, arg), IntBits)
                                        ELSE Value(fs, arg), Base(fs), Upper(fs))
                           \o IF Value(fs, arg) # 0 /\ fs.alt_form /\ fs.conv_spec = "o"
                              THEN <<"0">> ELSE <<>>
               isnum == IsNumber(fs)
               dig == DigitsOf(item)
               astr == arg.str
               bd == Body(item)
    <3>0. /\ b = CASE d = "%" -> <<"%">> [] d = "c" -> astr [] d = "s" -> cut
                   [] d = "n" -> <<>> [] isnum -> num
          /\ bd = CASE c = "%" -> <<"%">> [] c = "c" -> str [] c = "n" -> <<>>
                    [] c = "s" -> bcut [] OTHER -> dig
          /\ d = c /\ ~isnum
      BY <2>2, <2>3, Zenon DEF cbuf, Body
    <3> HIDE DEF b, d, cut, bcut, num, isnum, dig, astr, bd, str
    <3>1. CASE c = "%"
      <4>1. b = <<"%">> /\ bd = <<"%">>
        BY <3>0, <3>1
      <4> QED
        BY <2>8, <4>1 DEF bd
    <3>2. CASE c = "n"
      <4>1. b = <<>> /\ bd = <<>>
        BY <3>0, <3>2
      <4> QED
        BY <2>8, <4>1 DEF bd
    <3>3. CASE c = "c"
      <4>1. b = astr /\ bd = str
        BY <3>0, <3>3
      <4> QED
        BY <2>9, <2>10, <3>3, <4>1 DEF bd, astr
    <3>4. CASE c = "s"
      <4>0. b = cut /\ bd = bcut
        BY <3>0, <3>4
      <4>1. /\ b = IF arg.str = NULL THEN <<>>
                   ELSE IF fs.prec_opt = "NONE" THEN arg.str
                   ELSE SubSeq(arg.str, 1, Min({fs.prec, Len(arg.str)}))
            /\ Body(item) = IF str = NULL THEN <<>>
                            ELSE IF Given(item.prec)
                            THEN SubSeq(str, 1, Min({item.prec.n, Len(str)}))
                            ELSE str
        BY <4>0, Zenon DEF cut, bcut, bd
      <4>2. arg.str = str /\ str \in Seq(Character) \cup {NULL}
        BY <2>9, <3>4
      <4>3. b = Body(item)
        BY <2>4, <4>1, <4>2, Zenon
      <4>4. str # NULL /\ Given(item.prec) =>
                SubSeq(str, 1, Min({item.prec.n, Len(str)})) \in Seq(Character)
        <5> DEFINE m == Min({item.prec.n, Len(str)})
        <5> SUFFICES ASSUME str # NULL, Given(item.prec)
                     PROVE  SubSeq(str, 1, m) \in Seq(Character)
          OBVIOUS
        <5>1. str \in Seq(Character) /\ Len(str) \in Nat
          BY <4>2
        <5>2. item.prec.n \in Int /\ item.prec.n >= 0
          BY AmountTyped DEF Given
        <5> DEFINE x == item.prec.n
                   l == Len(str)
        <5>3. m \in 0 .. Len(str)
          <6>1. x \in Int /\ x >= 0 /\ l \in Nat
            BY <5>1, <5>2
          <6> HIDE DEF x, l
          <6>2. Min({x, l}) = IF x <= l THEN x ELSE l
            BY <6>1, MaxMin
          <6>3. Min({x, l}) \in 0 .. l
            BY <6>1, <6>2
          <6> QED
            BY <6>3 DEF x, l
        <5> HIDE DEF m
        <5> QED
          BY <5>1, <5>3
      <4> QED
        BY <2>8, <4>1, <4>2, <4>3, <4>4
    <3> QED
      BY <2>1, <3>1, <3>2, <3>3, <3>4
  <2>12. p = 0
    <3>1. CASE c = "s"
      BY <2>7, <3>1
    <3>2. CASE c # "s"
      <4>1. Len(b) \in Nat
        BY <2>11
      <4> DEFINE m == Len(b)
      <4> HIDE DEF m
      <4>2. m \in Nat
        BY <4>1 DEF m
      <4>3. Max({0, 0 - m}) = 0
        BY <4>2, MaxMin
      <4> QED
        BY <2>6, <3>2, <4>3 DEF m
    <3> QED
      BY <3>1, <3>2
  <2>13. Payload(fs, arg) = <<>> \o b
    <3>1. Times(0, "0") = <<>>
      BY DEF Times
    <3> QED
      BY <2>3, <2>12, <3>1, Zenon DEF Payload
  <2> HIDE DEF b, p
  <2>14. <<>> \o b = b
    BY <2>11, ConcatEmptySeq
  <2> QED
    BY <2>11, <2>12, <2>13, <2>14 DEF b, p
<1> QED
  BY <1>1, <1>2

\* An argument is written as the directive says.
LEMMA FieldIs ==
  ASSUME NEW item, Directive(item), NEW fs, Means(fs, item), NEW arg,
         item.conv \notin {"%", "n"} => arg = item.arg[1]
  PROVE  Converted(fs, arg) = Field(item) /\ Field(item) \in Seq(Character)
<1> DEFINE sg == sign_c(fs, arg)
           ox == need_0x(fs, arg)
           prefix == sg \o ox
           b == cbuf(fs, arg)
           p == prec_pad(fs, arg)
           w == Magnitude(item.width.n)
           body == Body(item)
           zeros == Has(item, "0") /\ Numeric(item) /\ ~Given(item.prec)
           pad == Max({0, w - Len(prefix) - Len(body)})
           c == pad_c(fs, arg)
           spaces == Times(pad, " ")
           noughts == Times(pad, "0")
<1>1. /\ Payload(fs, arg) = body /\ body \in Seq(Character)
      /\ p \in Nat /\ b \in Seq(Character) /\ Len(body) = p + Len(b)
  BY BodyIs
<1>2. /\ prefix = (IF Numeric(item) THEN Prefix(item) ELSE <<>>)
      /\ sg \in Seq(Character) /\ ox \in Seq(Character)
  <2>1. CASE Numeric(item)
    <3>1. arg = item.arg[1]
      BY <2>1, Zenon DEF Numeric
    <3> QED
      BY <2>1, <3>1, PrefixIs, Zenon
  <2>2. CASE ~Numeric(item)
    <3>1. item.conv \in {"%", "c", "s", "n"}
      BY <2>2 DEF Numeric
    <3>2. fs.conv_spec = IF item.conv = "i" THEN "d" ELSE item.conv
      BY Zenon DEF Means
    <3>3. fs.conv_spec # "d" /\ ~IsNumber(fs)
      BY <3>1, <3>2 DEF IsNumber
    <3>4. sg = <<>> /\ ox = <<>>
      BY <3>3, Zenon DEF sign_c, need_0x
    <3>5. <<>> \o <<>> = <<>> /\ <<>> \in Seq(Character)
      OBVIOUS
    <3> HIDE DEF sg, ox
    <3> QED
      BY <2>2, <3>4, <3>5, Zenon
  <2> QED
    BY <2>1, <2>2
<1>3. /\ fs.left_justified = Left(item)
      /\ fs.leading_zero_pad = (Has(item, "0") /\ ~(Given(item.prec) /\ item.conv \in Sized))
      /\ fs.field_width = w
      /\ fs.field_width_opt = "NONE" <=> item.width.kind = "none"
  BY Zenon DEF Means
<1>4. c = IF zeros /\ ~Left(item) THEN "0" ELSE " "
  <2>1. CASE Numeric(item)
    <3>1. arg = item.arg[1]
      BY <2>1, Zenon DEF Numeric
    <3>2. /\ IsNumber(fs) /\ (Nothing(fs, Value(fs, arg)) <=> Bare(item))
      BY <2>1, <3>1, NumberSeen
    <3>3. c = IF fs.leading_zero_pad /\ ~fs.left_justified /\ ~Bare(item)
              THEN "0" ELSE " "
      BY <3>2, Zenon DEF pad_c
    <3>4. Bare(item) => Given(item.prec)
      BY Zenon DEF Bare
    <3>5. Given(item.prec) => item.conv \in Sized
      <4> SUFFICES ASSUME item.conv \notin Sized PROVE ~Given(item.prec)
        OBVIOUS
      <4>1. item.conv \in Conversions
        BY Zenon DEF Directive
      <4>2. item.conv \in {"%", "n", "c", "p", "b", "B"}
        <5>1. item.conv \notin {"%", "c", "s", "n"}
          BY <2>1 DEF Numeric
        <5> QED
          BY <4>1, <5>1 DEF Conversions, Sized
      <4>3. item.prec.kind = "none"
        BY <4>2, Zenon DEF Directive
      <4> QED
        BY <4>3 DEF Given
    <3>6. fs.leading_zero_pad <=> Has(item, "0") /\ ~Given(item.prec)
      BY <1>3, <3>5
    <3>7. zeros <=> Has(item, "0") /\ ~Given(item.prec)
      BY <2>1
    <3> HIDE DEF zeros, c
    <3> QED
      BY <1>3, <3>3, <3>4, <3>6, <3>7
  <2>2. CASE ~Numeric(item)
    <3>1. item.conv \in {"%", "n"} \/ item.conv \in {"c", "s"}
      BY <2>2 DEF Numeric
    <3>2. ~Has(item, "0")
      <4>1. item.flags \in Seq({"-"})
        <5>1. CASE item.conv \in {"%", "n"}
          <6>1. item.flags = <<>>
            BY <5>1, Zenon DEF Directive
          <6> QED
            BY <6>1
        <5>2. CASE item.conv \in {"c", "s"}
          BY <5>2, Zenon DEF Directive
        <5> QED
          BY <3>1, <5>1, <5>2
      <4>2. \A i \in 1 .. Len(item.flags) : item.flags[i] = "-"
        BY <4>1
      <4> QED
        BY <4>2 DEF Has, Contains
    <3>3. ~fs.leading_zero_pad
      BY <1>3, <3>2
    <3>4. c = " "
      BY <3>3, Zenon DEF pad_c
    <3> HIDE DEF c
    <3> QED
      BY <2>2, <3>4
  <2> QED
    BY <2>1, <2>2
<1>5. item.width.n \in Int /\ (item.width.kind = "none" => item.width.n = 0)
  BY AmountTyped
<1>6. w \in Nat /\ (item.width.kind = "none" => w = 0)
  BY <1>5 DEF Magnitude
<1>7. Len(prefix) = Len(sg) + Len(ox) /\ Len(sg) \in Nat /\ Len(ox) \in Nat /\ Len(b) \in Nat
      /\ prefix \in Seq(Character)
  <2>1. sg \in Seq(Character) /\ ox \in Seq(Character) /\ b \in Seq(Character)
    BY <1>1, <1>2
  <2> HIDE DEF sg, ox, b
  <2>2. sg \o ox \in Seq(Character) /\ Len(sg \o ox) = Len(sg) + Len(ox)
    BY <2>1, ConcatProperties
  <2>3. Len(sg) \in Nat /\ Len(ox) \in Nat /\ Len(b) \in Nat
    BY <2>1
  <2> QED
    BY <2>2, <2>3
<1>8. field_pad(fs, arg) = pad /\ pad \in Nat
  <2> DEFINE x == Len(prefix)
             y == Len(body)
             s1 == Len(sg)
             s2 == Len(ox)
             l == Len(b)
  <2>1. field_pad(fs, arg) = IF item.width.kind = "none" THEN 0
                             ELSE Max({0, w - l - s1 - s2 - p})
    BY <1>3, Zenon DEF field_pad
  <2>2. pad = Max({0, w - x - y})
    OBVIOUS
  <2>3. x = s1 + s2 /\ y = p + l /\ s1 \in Nat /\ s2 \in Nat /\ l \in Nat /\ p \in Nat
    BY <1>1, <1>7
  <2> HIDE DEF x, y, s1, s2, l, p, w, pad
  <2>4. w - l - s1 - s2 - p = w - x - y /\ w - x - y \in Int
    BY <1>6, <2>3
  <2> DEFINE z == w - x - y
  <2>5. Max({0, z}) = IF 0 >= z THEN 0 ELSE z
    <3>1. z \in Int
      BY <2>4
    <3> HIDE DEF z
    <3> QED
      BY <3>1, MaxMin
  <2>6. pad = IF 0 >= z THEN 0 ELSE z
    BY <2>2, <2>5
  <2>7. item.width.kind = "none" => 0 >= z
    BY <1>6, <2>3
  <2> QED
    BY <2>1, <2>2, <2>4, <2>6, <2>7
<1>9. Field(item) = IF Left(item) THEN prefix \o body \o spaces
                    ELSE IF zeros THEN prefix \o noughts \o body
                    ELSE spaces \o prefix \o body
  BY <1>2, Zenon DEF Field
<1>10. Converted(fs, arg) = LET q == Times(pad, c)
                            IN  IF Left(item) THEN prefix \o body \o q
                                ELSE IF c = "0" THEN prefix \o q \o body
                                ELSE q \o prefix \o body
  BY <1>1, <1>3, <1>8, Zenon DEF Converted, Payload
<1>11. spaces \in Seq(Character) /\ noughts \in Seq(Character)
  <2>1. " " \in Character /\ "0" \in Character
    BY CharactersAre, Zenon
  <2> HIDE DEF pad
  <2> QED
    BY <1>8, <2>1, TimesIs
<1>12. "0" # " "
  OBVIOUS
<1> HIDE DEF prefix, body, pad, c, zeros
<1>13. Converted(fs, arg) = Field(item)
  <2>1. CASE zeros /\ ~Left(item)
    BY <1>4, <1>9, <1>10, <2>1, Zenon
  <2>2. CASE ~(zeros /\ ~Left(item))
    <3>1. c = " "
      BY <1>4, <2>2, Zenon
    <3> QED
      BY <1>9, <1>10, <1>12, <2>2, <3>1, Zenon
  <2> QED
    BY <2>1, <2>2
<1>14. Field(item) \in Seq(Character)
  <2> HIDE DEF spaces, noughts
  <2>1. /\ prefix \o body \o spaces \in Seq(Character)
        /\ prefix \o noughts \o body \in Seq(Character)
        /\ spaces \o prefix \o body \in Seq(Character)
    BY <1>1, <1>7, <1>11
  <2> QED
    BY <1>9, <2>1
<1> QED
  BY <1>13, <1>14

------------------------------------------------------------------------------
(* The directives one after the other. *)

\* The directives of a call.
LEMMA ItemsAre ==
  ASSUME Formed(call)
  PROVE  /\ call.items \in Seq({call.items[i] : i \in DOMAIN call.items})
         /\ DOMAIN call.items = 1 .. Len(call.items) /\ Len(call.items) \in Nat
         /\ \A i \in 1 .. Len(call.items) : Directive(call.items[i])
         /\ call.tail \in Seq(Character)
<1> DEFINE s == call.items
<1>1. /\ s \in Seq({s[i] : i \in DOMAIN s}) /\ call.tail \in Seq(Character)
      /\ \A i \in DOMAIN s : Directive(s[i])
  BY Zenon DEF Formed
<1>2. DOMAIN s = 1 .. Len(s) /\ Len(s) \in Nat
  <2> DEFINE X == {s[i] : i \in DOMAIN s}
             t == s
  <2>1. t \in Seq(X)
    BY <1>1
  <2> HIDE DEF X, t
  <2>2. DOMAIN t = 1 .. Len(t) /\ Len(t) \in Nat
    BY <2>1
  <2> QED
    BY <2>2 DEF t
<1> QED
  BY <1>1, <1>2, Zenon

\* A directive is written with letters, and means characters.
TextTyped(item) == /\ Text(item) \in Seq(Letters) /\ Spelled(item) \in Seq(Letters)
                   /\ item.before \in Seq(Letters)

\* What is written of a directive is made of letters.
LEMMA TextIs ==
  ASSUME NEW item, Directive(item)
  PROVE  TextTyped(item)
<1> DEFINE a == AmountText(item.width)
           b == Dot(item.prec)
           c == AmountText(item.prec)
           d == item.len
           e == <<item.conv>>
           f == item.flags
           p == <<"%">>
           g == item.before
<1>1. /\ f \in Seq(Letters) /\ a \in Seq(Letters) /\ b \in Seq(Letters)
      /\ c \in Seq(Letters) /\ d \in Seq(Letters) /\ e \in Seq(Letters)
      /\ g \in Seq(Letters) /\ p \in Seq(Letters)
  BY SpelledTyped
<1>2. Spelled(item) = p \o (f \o (a \o (b \o (c \o (d \o e)))))
  BY DEF Spelled
<1>3. Text(item) = g \o Spelled(item)
  BY DEF Text
<1> HIDE DEF a, b, c, d, e, f, g, p
<1>4. \A s, t \in Seq(Letters) : s \o t \in Seq(Letters)
  OBVIOUS
<1>5. Spelled(item) \in Seq(Letters)
  BY <1>1, <1>2, <1>4
<1>6. Text(item) \in Seq(Letters)
  BY <1>1, <1>3, <1>4, <1>5
<1> QED
  BY <1>1, <1>5, <1>6, Zenon DEF TextTyped, g

\* The arguments of a directive, as the conversion takes them.
LEMMA MeantIs ==
  ASSUME NEW item, Directive(item)
  PROVE  /\ Meant(item) \in Seq(Character) /\ Field(item) \in Seq(Character)
         /\ item.before \in Seq(Character)
<1> DEFINE r == Completed(StarPrecision(StarWidth(
                    [fs |-> Parsed(item, 0), args |-> Passed(item) \o <<>>])))
           arg == item.arg[1]
<1>1. <<>> \in Seq(Argument)
  OBVIOUS
<1>2. Means(r.fs, item)
  BY <1>1, StarsLookedUp
<1> HIDE DEF r
<1>3. Field(item) \in Seq(Character)
  BY <1>2, FieldIs, Zenon
<1>4. item.before \in Seq(Character)
  BY Zenon DEF Directive
<1>5. \A s, t \in Seq(Character) : s \o t \in Seq(Character)
  OBVIOUS
<1> QED
  BY <1>3, <1>4, <1>5, Zenon DEF Meant

\* The first k of some texts.
LEMMA FirstTexts ==
  ASSUME NEW X, NEW s \in Seq(X), NEW k \in 0 .. Len(s)
  PROVE  /\ SubSeq(s, 1, k) \in Seq(X) /\ Len(SubSeq(s, 1, k)) = k
         /\ DOMAIN SubSeq(s, 1, k) = 1 .. k
         /\ \A i \in 1 .. k : SubSeq(s, 1, k)[i] = s[i]
         /\ SubSeq(s, 1, k) = [i \in 1 .. k |-> s[i]]
         /\ SubSeq(s, 1, Len(s)) = s
<1>1. /\ SubSeq(s, 1, k) \in Seq(X) /\ Len(SubSeq(s, 1, k)) = k
      /\ DOMAIN SubSeq(s, 1, k) = 1 .. k
      /\ \A i \in 1 .. k : SubSeq(s, 1, k)[i] = s[i]
  <2>1. \A i \in 1 .. k : s[i] \in X
    OBVIOUS
  <2> QED
    BY <2>1
<1>2. SubSeq(s, 1, k) = [i \in 1 .. k |-> s[i]]
  <2> DEFINE t == SubSeq(s, 1, k)
  <2>1. t \in Seq(X) /\ Len(t) = k /\ \A i \in 1 .. k : t[i] = s[i]
    BY <1>1
  <2> HIDE DEF t
  <2>2. t = [i \in 1 .. k |-> s[i]]
    BY <2>1
  <2> QED
    BY <2>2 DEF t
<1>3. SubSeq(s, 1, Len(s)) = s
  OBVIOUS
<1> QED
  BY <1>1, <1>2, <1>3

\* The directives as they are written.
Texts == [i \in 1 .. Len(call.items) |-> Text(call.items[i])]

\* The format, written as one text behind the other.
LEMMA TextsJoin ==
  ASSUME Formed(call)
  PROVE  /\ Texts \in Seq(Seq(Letters)) /\ Len(Texts) = Len(call.items)
         /\ Joined(call.items, Text) = FlattenSeq(Texts)
         /\ \A k \in 0 .. Len(call.items) :
                Joined(SubSeq(call.items, 1, k), Text)
                = FlattenSeq(SubSeq(Texts, 1, k))
<1> DEFINE s == call.items
           X == {s[i] : i \in DOMAIN s}
           N == Len(s)
<1>1. s \in Seq(X) /\ N \in Nat /\ DOMAIN s = 1 .. N /\ \A i \in 1 .. N : Directive(s[i])
  BY ItemsAre
<1>2. \A i \in 1 .. N : Text(s[i]) \in Seq(Letters)
  <2> TAKE i \in 1 .. N
  <2>1. Directive(s[i])
    BY <1>1
  <2>2. TextTyped(s[i])
    BY <2>1, TextIs
  <2> QED
    BY <2>2 DEF TextTyped
<1>3. Texts \in Seq(Seq(Letters)) /\ Len(Texts) = N
      /\ \A i \in 1 .. N : Texts[i] = Text(s[i])
  <2> DEFINE t == [i \in 1 .. N |-> Text(s[i])]
  <2>1. t = Texts
    BY DEF Texts
  <2> HIDE DEF s, N
  <2>2. t \in Seq(Seq(Letters)) /\ Len(t) = N /\ \A i \in 1 .. N : t[i] = Text(s[i])
    BY <1>1, <1>2
  <2> HIDE DEF t
  <2> QED
    BY <2>1, <2>2 DEF s, N
<1>4. Joined(s, Text) = FlattenSeq(Texts)
  BY <1>1, Zenon DEF Joined, Texts
<1>5. ASSUME NEW k \in 0 .. N
      PROVE  Joined(SubSeq(s, 1, k), Text) = FlattenSeq(SubSeq(Texts, 1, k))
  <2> DEFINE a == SubSeq(s, 1, k)
             b == SubSeq(Texts, 1, k)
  <2>1. DOMAIN a = 1 .. k /\ \A i \in 1 .. k : a[i] = s[i]
    <3> HIDE DEF s, X
    <3> QED
      BY <1>1, FirstTexts
  <2>2. b = [i \in 1 .. k |-> Texts[i]]
    <3>1. k \in 0 .. Len(Texts)
      BY <1>3
    <3> QED
      BY <1>3, <3>1, FirstTexts
  <2> HIDE DEF a, b, s, N
  <2>3. \A i \in 1 .. k : i \in 1 .. N
    BY <1>1
  <2>4. \A i \in 1 .. k : Texts[i] = Text(a[i])
    BY <1>3, <2>1, <2>3
  <2>5. [i \in DOMAIN a |-> Text(a[i])] = b
    BY <2>1, <2>2, <2>4
  <2> QED
    BY <2>5, Zenon DEF Joined, a, b
<1> QED
  BY <1>3, <1>4, <1>5

\* What is passed for them.
Passeds == [i \in 1 .. Len(call.items) |-> Passed(call.items[i])]

\* The arguments, written as one list behind the other.
LEMMA PassedsJoin ==
  ASSUME Formed(call)
  PROVE  /\ Passeds \in Seq(Seq(Argument)) /\ Len(Passeds) = Len(call.items)
         /\ Joined(call.items, Passed) = FlattenSeq(Passeds)
         /\ \A k \in 0 .. Len(call.items) :
                Joined(SubSeq(call.items, 1, k), Passed)
                = FlattenSeq(SubSeq(Passeds, 1, k))
<1> DEFINE s == call.items
           X == {s[i] : i \in DOMAIN s}
           N == Len(s)
<1>1. s \in Seq(X) /\ N \in Nat /\ DOMAIN s = 1 .. N /\ \A i \in 1 .. N : Directive(s[i])
  BY ItemsAre
<1>2. \A i \in 1 .. N : Passed(s[i]) \in Seq(Argument)
  <2> TAKE i \in 1 .. N
  <2>1. Directive(s[i])
    BY <1>1
  <2> QED
    BY <2>1, PassedIs, Zenon
<1>3. Passeds \in Seq(Seq(Argument)) /\ Len(Passeds) = N
      /\ \A i \in 1 .. N : Passeds[i] = Passed(s[i])
  <2> DEFINE t == [i \in 1 .. N |-> Passed(s[i])]
  <2>1. t = Passeds
    BY DEF Passeds
  <2> HIDE DEF s, N
  <2>2. t \in Seq(Seq(Argument)) /\ Len(t) = N /\ \A i \in 1 .. N : t[i] = Passed(s[i])
    BY <1>1, <1>2
  <2> HIDE DEF t
  <2> QED
    BY <2>1, <2>2 DEF s, N
<1>4. Joined(s, Passed) = FlattenSeq(Passeds)
  BY <1>1, Zenon DEF Joined, Passeds
<1>5. ASSUME NEW k \in 0 .. N
      PROVE  Joined(SubSeq(s, 1, k), Passed) = FlattenSeq(SubSeq(Passeds, 1, k))
  <2> DEFINE a == SubSeq(s, 1, k)
             b == SubSeq(Passeds, 1, k)
  <2>1. DOMAIN a = 1 .. k /\ \A i \in 1 .. k : a[i] = s[i]
    <3> HIDE DEF s, X
    <3> QED
      BY <1>1, FirstTexts
  <2>2. b = [i \in 1 .. k |-> Passeds[i]]
    <3>1. k \in 0 .. Len(Passeds)
      BY <1>3
    <3> QED
      BY <1>3, <3>1, FirstTexts
  <2> HIDE DEF a, b, s, N
  <2>3. \A i \in 1 .. k : i \in 1 .. N
    BY <1>1
  <2>4. \A i \in 1 .. k : Passeds[i] = Passed(a[i])
    BY <1>3, <2>1, <2>3
  <2>5. [i \in DOMAIN a |-> Passed(a[i])] = b
    BY <2>1, <2>2, <2>4
  <2> QED
    BY <2>5, Zenon DEF Joined, a, b
<1> QED
  BY <1>3, <1>4, <1>5

\* What they mean.
Meants == [i \in 1 .. Len(call.items) |-> Meant(call.items[i])]

\* The meaning, written as one text behind the other.
LEMMA MeantsJoin ==
  ASSUME Formed(call)
  PROVE  /\ Meants \in Seq(Seq(Character)) /\ Len(Meants) = Len(call.items)
         /\ Joined(call.items, Meant) = FlattenSeq(Meants)
         /\ \A k \in 0 .. Len(call.items) :
                Joined(SubSeq(call.items, 1, k), Meant)
                = FlattenSeq(SubSeq(Meants, 1, k))
<1> DEFINE s == call.items
           X == {s[i] : i \in DOMAIN s}
           N == Len(s)
<1>1. s \in Seq(X) /\ N \in Nat /\ DOMAIN s = 1 .. N /\ \A i \in 1 .. N : Directive(s[i])
  BY ItemsAre
<1>2. \A i \in 1 .. N : Meant(s[i]) \in Seq(Character)
  <2> TAKE i \in 1 .. N
  <2>1. Directive(s[i])
    BY <1>1
  <2> QED
    BY <2>1, MeantIs, Zenon
<1>3. Meants \in Seq(Seq(Character)) /\ Len(Meants) = N
      /\ \A i \in 1 .. N : Meants[i] = Meant(s[i])
  <2> DEFINE t == [i \in 1 .. N |-> Meant(s[i])]
  <2>1. t = Meants
    BY DEF Meants
  <2> HIDE DEF s, N
  <2>2. t \in Seq(Seq(Character)) /\ Len(t) = N /\ \A i \in 1 .. N : t[i] = Meant(s[i])
    BY <1>1, <1>2
  <2> HIDE DEF t
  <2> QED
    BY <2>1, <2>2 DEF s, N
<1>4. Joined(s, Meant) = FlattenSeq(Meants)
  BY <1>1, Zenon DEF Joined, Meants
<1>5. ASSUME NEW k \in 0 .. N
      PROVE  Joined(SubSeq(s, 1, k), Meant) = FlattenSeq(SubSeq(Meants, 1, k))
  <2> DEFINE a == SubSeq(s, 1, k)
             b == SubSeq(Meants, 1, k)
  <2>1. DOMAIN a = 1 .. k /\ \A i \in 1 .. k : a[i] = s[i]
    <3> HIDE DEF s, X
    <3> QED
      BY <1>1, FirstTexts
  <2>2. b = [i \in 1 .. k |-> Meants[i]]
    <3>1. k \in 0 .. Len(Meants)
      BY <1>3
    <3> QED
      BY <1>3, <3>1, FirstTexts
  <2> HIDE DEF a, b, s, N
  <2>3. \A i \in 1 .. k : i \in 1 .. N
    BY <1>1
  <2>4. \A i \in 1 .. k : Meants[i] = Meant(a[i])
    BY <1>3, <2>1, <2>3
  <2>5. [i \in DOMAIN a |-> Meant(a[i])] = b
    BY <2>1, <2>2, <2>4
  <2> QED
    BY <2>5, Zenon DEF Joined, a, b
<1> QED
  BY <1>3, <1>4, <1>5

\* What stands between directives holds no directive.
LEMMA LitIs ==
  ASSUME Formed(call), NEW k \in 0 .. Len(call.items)
  PROVE  /\ Lit(k) \in Seq(Character) /\ Lit(k) \in Seq(Letters) /\ Len(Lit(k)) \in Nat
         /\ \A i \in 1 .. Len(Lit(k)) : Lit(k)[i] = "%" =>
                /\ Lone(Lit(k), i)
                /\ k < Len(call.items) => i < Len(Lit(k))
<1>1. /\ Len(call.items) \in Nat /\ call.tail \in Seq(Character)
      /\ \A i \in 1 .. Len(call.items) : Directive(call.items[i])
      /\ \A i \in 1 .. Len(call.tail) : call.tail[i] = "%" => Lone(call.tail, i)
  <2>1. \A i \in 1 .. Len(call.tail) : call.tail[i] = "%" => Lone(call.tail, i)
    BY Zenon DEF Formed
  <2> QED
    BY <2>1, ItemsAre
<1>2. Character \subseteq Letters
  BY DEF Letters
<1>3. \A s \in Seq(Character) : s \in Seq(Letters) /\ Len(s) \in Nat
  BY <1>2
<1>4. CASE k < Len(call.items)
  <2> DEFINE item == call.items[k + 1]
  <2>1. Directive(item)
    BY <1>1, <1>4
  <2> HIDE DEF item
  <2>2. /\ item.before \in Seq(Character)
        /\ \A i \in 1 .. Len(item.before) :
               item.before[i] = "%" => i < Len(item.before) /\ Lone(item.before, i)
    BY <2>1, Zenon DEF Directive
  <2>3. Lit(k) = item.before
    BY <1>4, Zenon DEF Lit, item
  <2> QED
    BY <1>3, <2>2, <2>3, Zenon
<1>5. CASE ~(k < Len(call.items))
  <2>1. Lit(k) = call.tail
    BY <1>5, Zenon DEF Lit
  <2> QED
    BY <1>1, <1>3, <1>5, <2>1, Zenon
<1> QED
  BY <1>4, <1>5

\* Where the directives are in the format, and what stands between them.
LEMMA Places ==
  ASSUME Formed(call)
  PROVE  /\ format \in Seq(Letters) /\ Len(format) \in Nat
         /\ \A k \in 0 .. Len(call.items) : Behind(k) \in Nat
         /\ Behind(0) = 0
         /\ \A k \in 0 .. Len(call.items) - 1 :
                Behind(k + 1) = Behind(k) + Len(Lit(k)) + Len(Spelled(call.items[k + 1]))
         /\ Behind(Len(call.items)) + Len(call.tail) = Len(format)
         /\ \A k \in 0 .. Len(call.items) : Stands(format, Behind(k) + 1, Lit(k))
         /\ \A k \in 0 .. Len(call.items) - 1 :
                Stands(format, Behind(k) + 1 + Len(Lit(k)), Spelled(call.items[k + 1]))
<1> DEFINE s == call.items
           N == Len(s)
           ss == Texts
           F(k) == FlattenSeq(SubSeq(ss, 1, k))
           whole == FlattenSeq(ss)
           tail == call.tail
<1>1. /\ N \in Nat /\ \A i \in 1 .. N : Directive(s[i])
  BY ItemsAre
<1>2. /\ ss \in Seq(Seq(Letters)) /\ Len(ss) = N
      /\ Joined(s, Text) = whole
      /\ \A k \in 0 .. N : Joined(SubSeq(s, 1, k), Text) = F(k)
  BY TextsJoin
<1>3. \A i \in 1 .. N : ss[i] = Text(s[i])
  BY DEF Texts
<1>4. \A k \in 0 .. N : Behind(k) = Len(F(k))
  BY <1>2, Zenon DEF Behind
<1> HIDE DEF ss, s, N
<1>5. /\ \A k \in 0 .. N : F(k) \in Seq(Letters)
      /\ F(0) = <<>> /\ F(N) = whole
      /\ \A k \in 0 .. N - 1 : F(k + 1) = F(k) \o ss[k + 1]
      /\ \A k \in 0 .. N - 1 : Stands(whole, Len(F(k)) + 1, ss[k + 1])
  <2>1. /\ \A k \in 0 .. Len(ss) : F(k) \in Seq(Letters)
        /\ F(0) = <<>> /\ F(Len(ss)) = whole
        /\ \A k \in 0 .. Len(ss) - 1 : F(k + 1) = F(k) \o ss[k + 1]
    BY <1>2, FlattenSteps
  <2>2. \A k \in 0 .. Len(ss) - 1 : Stands(whole, Len(F(k)) + 1, ss[k + 1])
    BY <1>2, Placed
  <2> HIDE DEF F, whole
  <2> QED
    BY <1>2, <2>1, <2>2
<1> HIDE DEF F
<1>6. whole \in Seq(Letters) /\ tail \in Seq(Letters)
  <2>1. N \in 0 .. N
    BY <1>1
  <2>2. tail \in Seq(Character) /\ Character \subseteq Letters
    BY ItemsAre DEF Letters
  <2> QED
    BY <1>5, <2>1, <2>2
<1>7. format = whole \o tail
  BY <1>2, Zenon DEF format, s
<1> HIDE DEF whole, tail
<1>8. format \in Seq(Letters) /\ Len(format) = Len(whole) + Len(tail)
  BY <1>6, <1>7, ConcatProperties
<1>9. \A k \in 0 .. N : Behind(k) \in Nat
  BY <1>4, <1>5
<1>10. Behind(0) = 0
  BY <1>1, <1>4, <1>5
<1>11. Behind(N) + Len(tail) = Len(format)
  <2>1. Behind(N) = Len(whole)
    <3>1. N \in 0 .. N
      BY <1>1
    <3> QED
      BY <1>4, <1>5, <3>1, Zenon
  <2> QED
    BY <1>8, <2>1
<1>12. ASSUME NEW k \in 0 .. N - 1
       PROVE  /\ Behind(k + 1) = Behind(k) + Len(Lit(k)) + Len(Spelled(s[k + 1]))
              /\ Stands(format, Behind(k) + 1, Lit(k))
              /\ Stands(format, Behind(k) + 1 + Len(Lit(k)), Spelled(s[k + 1]))
  <2> DEFINE item == s[k + 1]
             a == item.before
             b == Spelled(item)
             p == Behind(k) + 1
  <2>1. k + 1 \in 1 .. N /\ k \in 0 .. N /\ k + 1 \in 0 .. N /\ k < N
    BY <1>1
  <2>2. Directive(item)
    BY <1>1, <2>1
  <2>3. Lit(k) = a
    BY <2>1, Zenon DEF Lit, s, N
  <2>4. ss[k + 1] = a \o b
    BY <1>3, <2>1, Zenon DEF Text
  <2>5. a \in Seq(Letters) /\ b \in Seq(Letters)
    BY <2>2, TextIs DEF TextTyped
  <2>6. Stands(whole, p, a \o b) /\ p \in Nat /\ p > 0
    <3>1. Stands(whole, Len(F(k)) + 1, ss[k + 1])
      BY <1>5
    <3>2. Behind(k) = Len(F(k)) /\ Behind(k) \in Nat
      BY <1>4, <1>9, <2>1
    <3> QED
      BY <2>4, <3>1, <3>2
  <2>7. F(k + 1) = F(k) \o ss[k + 1]
    BY <1>5
  <2> HIDE DEF item, p, a, b
  <2>8. Stands(format, p, a \o b)
    <3>1. a \o b \in Seq(Letters)
      BY <2>5
    <3> QED
      BY <1>6, <1>7, <2>6, <3>1, StandsAppended
  <2>9. Stands(format, p, a) /\ Stands(format, p + Len(a), b)
    BY <1>8, <2>5, <2>6, <2>8, StandsJoined
  <2>10. Behind(k + 1) = Behind(k) + Len(a) + Len(b)
    <3>1. Behind(k + 1) = Len(F(k + 1)) /\ Behind(k) = Len(F(k))
      BY <1>4, <2>1
    <3>2. F(k) \in Seq(Letters) /\ F(k + 1) = F(k) \o (a \o b)
      BY <1>5, <2>1, <2>4, <2>7
    <3> DEFINE f == F(k)
               c == a \o b
    <3>3. c \in Seq(Letters) /\ Len(c) = Len(a) + Len(b)
      BY <2>5, ConcatProperties
    <3> HIDE DEF f, c
    <3>4. f \in Seq(Letters)
      BY <3>2 DEF f
    <3>5. Len(f \o c) = Len(f) + Len(c)
      BY <3>3, <3>4, ConcatProperties
    <3>6. Behind(k + 1) = Len(f \o c) /\ Behind(k) = Len(f)
      BY <3>1, <3>2 DEF f, c
    <3>7. Len(f) \in Nat /\ Len(a) \in Nat /\ Len(b) \in Nat
      BY <3>4, <2>5
    <3> QED
      BY <3>3, <3>5, <3>6, <3>7
  <2> QED
    BY <2>3, <2>9, <2>10 DEF p, b, item
<1>13. Stands(format, Behind(N) + 1, Lit(N))
  <2>1. Lit(N) = tail
    <3>1. ~(N < N)
      BY <1>1
    <3> QED
      BY <3>1, Zenon DEF Lit, N, s, tail
  <2>2. Behind(N) = Len(whole)
    <3>1. N \in 0 .. N
      BY <1>1
    <3> QED
      BY <1>4, <1>5, <3>1, Zenon
  <2>3. Stands(whole \o tail, Len(whole) + 1, tail)
    <3>1. 1 \in Nat /\ 1 > 0
      OBVIOUS
    <3> QED
      BY <1>6, <3>1, StandsAppended
  <2> QED
    BY <1>7, <2>1, <2>2, <2>3
<1>14. \A k \in 0 .. N : k \in 0 .. N - 1 \/ k = N
  BY <1>1
<1>15. Len(format) \in Nat
  BY <1>8
<1> QED
  BY <1>8, <1>9, <1>10, <1>11, <1>12, <1>13, <1>14, <1>15 DEF N, s, tail

------------------------------------------------------------------------------
(* The loop. *)

\* The arguments that the directives behind the kth take.
Rest(k) == SubSeq(Passing, Len(PassedBy(k)) + 1, Len(Passing))

\* What stands somewhere and what is behind it is what there is from there on.
LEMMA Remaining ==
  ASSUME NEW S, NEW f \in Seq(S), NEW s \in Seq(S), NEW p \in Nat, p > 0,
         Stands(f, p, s)
  PROVE  /\ SubSeq(f, p, Len(f)) = s \o SubSeq(f, p + Len(s), Len(f))
         /\ SubSeq(f, p + Len(s), Len(f)) \in Seq(S)
<1> DEFINE N == Len(f)
           m == Len(s)
           a == SubSeq(f, p, N)
           b == SubSeq(f, p + m, N)
<1>1. /\ N \in Nat /\ m \in Nat /\ p + m <= N + 1
      /\ \A i \in 1 .. m : f[p + i - 1] = s[i]
  BY DEF Stands
<1>2. a \in Seq(S) /\ Len(a) = N + 1 - p /\ \A i \in 1 .. N + 1 - p : a[i] = f[p + i - 1]
  <2>1. \A i \in p .. N : f[i] \in S
    OBVIOUS
  <2> HIDE DEF N, m
  <2> QED
    BY <1>1, <2>1
<1>3. /\ b \in Seq(S) /\ Len(b) = N + 1 - p - m
      /\ \A i \in 1 .. N + 1 - p - m : b[i] = f[p + m + i - 1]
  <2>1. \A i \in p + m .. N : f[i] \in S
    OBVIOUS
  <2> HIDE DEF N, m
  <2> QED
    BY <1>1, <2>1
<1> HIDE DEF a, b, N
<1>4. /\ s \o b \in Seq(S) /\ Len(s \o b) = N + 1 - p
      /\ \A i \in 1 .. m : (s \o b)[i] = s[i]
      /\ \A i \in m + 1 .. N + 1 - p : (s \o b)[i] = b[i - m]
  BY <1>1, <1>3
<1>5. ASSUME NEW i \in 1 .. N + 1 - p PROVE a[i] = (s \o b)[i]
  <2>1. CASE i \in 1 .. m
    BY <1>1, <1>2, <1>4, <2>1
  <2>2. CASE i \in m + 1 .. N + 1 - p
    <3>1. i - m \in 1 .. N + 1 - p - m /\ p + m + (i - m) - 1 = p + i - 1
      BY <1>1, <2>2
    <3>2. b[i - m] = f[p + m + (i - m) - 1]
      BY <1>3, <3>1
    <3> QED
      BY <1>2, <1>4, <2>2, <3>1, <3>2
  <2>3. m \in Nat /\ N \in Nat
    BY <1>1
  <2> HIDE DEF m
  <2>4. i \in 1 .. m \/ i \in m + 1 .. N + 1 - p
    BY <2>3
  <2> QED
    BY <2>1, <2>2, <2>4
<1> HIDE DEF m
<1> DEFINE c == s \o b
<1>6. /\ a \in Seq(S) /\ c \in Seq(S) /\ Len(c) = Len(a)
      /\ \A i \in 1 .. Len(a) : a[i] = c[i]
  BY <1>1, <1>2, <1>4, <1>5
<1> HIDE DEF c
<1>7. a = c
  BY <1>6
<1> QED
  BY <1>3, <1>7 DEF a, b, c, N, m

\* What the directives mean, one after the other.
LEMMA Meanings ==
  ASSUME Formed(call)
  PROVE  /\ \A k \in 0 .. Len(call.items) : Meaning(k) \in Seq(Character)
         /\ Meaning(0) = <<>>
         /\ \A k \in 0 .. Len(call.items) - 1 :
                /\ Field(call.items[k + 1]) \in Seq(Character)
                /\ Meaning(k + 1) = (Meaning(k) \o Lit(k)) \o Field(call.items[k + 1])
         /\ Whole = Meaning(Len(call.items)) \o Lit(Len(call.items))
         /\ Whole \in Seq(Character)
<1> DEFINE s == call.items
           N == Len(s)
           ss == Meants
           F(k) == FlattenSeq(SubSeq(ss, 1, k))
           whole == FlattenSeq(ss)
<1>1. /\ N \in Nat /\ call.tail \in Seq(Character)
      /\ \A i \in 1 .. N : Directive(s[i])
  BY ItemsAre
<1>2. /\ ss \in Seq(Seq(Character)) /\ Len(ss) = N
      /\ Joined(s, Meant) = whole
      /\ \A k \in 0 .. N : Joined(SubSeq(s, 1, k), Meant) = F(k)
  BY MeantsJoin
<1>3. \A i \in 1 .. N : ss[i] = Meant(s[i])
  BY DEF Meants
<1>4. \A k \in 0 .. N : Meaning(k) = F(k)
  BY <1>2, Zenon DEF Meaning
<1>5. Whole = whole \o call.tail
  BY <1>2, Zenon DEF Whole
<1> HIDE DEF ss, s, N
<1>6. /\ \A k \in 0 .. N : F(k) \in Seq(Character)
      /\ F(0) = <<>> /\ F(N) = whole
      /\ \A k \in 0 .. N - 1 : F(k + 1) = F(k) \o ss[k + 1]
  <2>1. /\ \A k \in 0 .. Len(ss) : F(k) \in Seq(Character)
        /\ F(0) = <<>> /\ F(Len(ss)) = whole
        /\ \A k \in 0 .. Len(ss) - 1 : F(k + 1) = F(k) \o ss[k + 1]
    BY <1>2, FlattenSteps
  <2> HIDE DEF F, whole
  <2> QED
    BY <1>2, <2>1
<1> HIDE DEF F, whole
<1>7. ASSUME NEW k \in 0 .. N - 1
      PROVE  /\ Field(s[k + 1]) \in Seq(Character)
             /\ Meaning(k + 1) = (Meaning(k) \o Lit(k)) \o Field(s[k + 1])
  <2> DEFINE item == s[k + 1]
             a == item.before
             b == Field(item)
             w == Meaning(k)
  <2>1. k + 1 \in 1 .. N /\ k \in 0 .. N /\ k + 1 \in 0 .. N /\ k < N
    BY <1>1
  <2>2. Directive(item)
    BY <1>1, <2>1
  <2>3. Lit(k) = a
    BY <2>1, Zenon DEF Lit, s, N
  <2>4. ss[k + 1] = a \o b
    BY <1>3, <2>1, Zenon DEF Meant
  <2> HIDE DEF item
  <2>5. a \in Seq(Character) /\ b \in Seq(Character)
    BY <2>2, MeantIs
  <2>6. w \in Seq(Character) /\ Meaning(k + 1) = w \o (a \o b)
    BY <1>4, <1>6, <2>1, <2>4
  <2> HIDE DEF a, b, w
  <2>7. w \o (a \o b) = (w \o a) \o b
    BY <2>5, <2>6
  <2> QED
    BY <2>3, <2>5, <2>6, <2>7, Zenon DEF a, b, w, item
<1>8. Lit(N) = call.tail
  <2>1. ~(N < N)
    BY <1>1
  <2> QED
    BY <2>1, Zenon DEF Lit, N, s
<1>9. N \in 0 .. N /\ 0 \in 0 .. N
  BY <1>1
<1>10. Meaning(N) = whole /\ Meaning(0) = <<>> /\ whole \in Seq(Character)
  BY <1>4, <1>6, <1>9
<1>11. whole \o call.tail \in Seq(Character)
  BY <1>1, <1>10
<1> QED
  BY <1>4, <1>5, <1>6, <1>7, <1>8, <1>10, <1>11 DEF N, s

\* What is left of the arguments, one directive after the other.
LEMMA Passings ==
  ASSUME Formed(call)
  PROVE  /\ Rest(0) = Passing
         /\ \A k \in 0 .. Len(call.items) - 1 :
                /\ Rest(k + 1) \in Seq(Argument)
                /\ Rest(k) = Passed(call.items[k + 1]) \o Rest(k + 1)
<1> DEFINE s == call.items
           N == Len(s)
           ss == Passeds
           F(k) == FlattenSeq(SubSeq(ss, 1, k))
           whole == FlattenSeq(ss)
<1>1. N \in Nat
  BY ItemsAre
<1>2. /\ ss \in Seq(Seq(Argument)) /\ Len(ss) = N
      /\ Joined(s, Passed) = whole
      /\ \A k \in 0 .. N : Joined(SubSeq(s, 1, k), Passed) = F(k)
  BY PassedsJoin
<1>3. \A i \in 1 .. N : ss[i] = Passed(s[i])
  BY DEF Passeds
<1>4. \A k \in 0 .. N : PassedBy(k) = F(k)
  BY <1>2, Zenon DEF PassedBy
<1>5. Passing = whole
  BY <1>2, Zenon DEF Passing
<1> HIDE DEF ss, s, N
<1>6. /\ \A k \in 0 .. N : F(k) \in Seq(Argument)
      /\ F(0) = <<>> /\ F(N) = whole
      /\ \A k \in 0 .. N - 1 : F(k + 1) = F(k) \o ss[k + 1]
      /\ \A k \in 0 .. N - 1 : Stands(whole, Len(F(k)) + 1, ss[k + 1])
  <2>1. /\ \A k \in 0 .. Len(ss) : F(k) \in Seq(Argument)
        /\ F(0) = <<>> /\ F(Len(ss)) = whole
        /\ \A k \in 0 .. Len(ss) - 1 : F(k + 1) = F(k) \o ss[k + 1]
    BY <1>2, FlattenSteps
  <2>2. \A k \in 0 .. Len(ss) - 1 : Stands(whole, Len(F(k)) + 1, ss[k + 1])
    BY <1>2, Placed
  <2> HIDE DEF F, whole
  <2> QED
    BY <1>2, <2>1, <2>2
<1> HIDE DEF F, whole
<1>7. whole \in Seq(Argument) /\ \A k \in 0 .. N - 1 : ss[k + 1] \in Seq(Argument)
  <2>1. N \in 0 .. N /\ \A k \in 0 .. N - 1 : k + 1 \in 1 .. N
    BY <1>1
  <2>2. \A i \in 1 .. N : ss[i] \in Seq(Argument)
    BY <1>2
  <2> QED
    BY <1>6, <2>1, <2>2
<1>8. Rest(0) = Passing
  <2>1. PassedBy(0) = <<>>
    <3>1. 0 \in 0 .. N
      BY <1>1
    <3> QED
      BY <1>4, <1>6, <3>1, Zenon
  <2>2. SubSeq(whole, 1, Len(whole)) = whole
    BY <1>7
  <2>3. Len(PassedBy(0)) + 1 = 1
    BY <2>1
  <2> QED
    BY <1>5, <2>2, <2>3, Zenon DEF Rest
<1>9. ASSUME NEW k \in 0 .. N - 1
      PROVE  /\ Rest(k + 1) \in Seq(Argument)
             /\ Rest(k) = Passed(s[k + 1]) \o Rest(k + 1)
  <2> DEFINE a == ss[k + 1]
             p == Len(F(k)) + 1
  <2>1. k \in 0 .. N /\ k + 1 \in 0 .. N /\ k + 1 \in 1 .. N
    BY <1>1
  <2>2. a = Passed(s[k + 1]) /\ a \in Seq(Argument)
    BY <1>3, <1>7, <2>1
  <2>3. Len(F(k + 1)) = Len(F(k)) + Len(a) /\ Len(F(k)) \in Nat /\ Len(a) \in Nat
    <3> DEFINE f == F(k)
    <3>1. f \in Seq(Argument) /\ F(k + 1) = f \o a
      BY <1>6, <2>1
    <3> HIDE DEF f, a
    <3>2. Len(f \o a) = Len(f) + Len(a) /\ Len(f) \in Nat /\ Len(a) \in Nat
      BY <2>2, <3>1
    <3> QED
      BY <3>1, <3>2 DEF f
  <2>4. p \in Nat /\ p > 0 /\ Len(F(k + 1)) + 1 = p + Len(a)
    <3> DEFINE x == Len(F(k))
               y == Len(F(k + 1))
               z == Len(a)
    <3>1. y = x + z /\ x \in Nat /\ z \in Nat
      BY <2>3
    <3> HIDE DEF x, y, z
    <3>2. x + 1 \in Nat /\ x + 1 > 0 /\ y + 1 = x + 1 + z
      BY <3>1
    <3> QED
      BY <3>2 DEF x, y, z
  <2>5. Stands(whole, p, a)
    BY <1>6
  <2> HIDE DEF a, p
  <2>6. /\ SubSeq(whole, p, Len(whole)) = a \o SubSeq(whole, p + Len(a), Len(whole))
        /\ SubSeq(whole, p + Len(a), Len(whole)) \in Seq(Argument)
    BY <1>7, <2>2, <2>4, <2>5, Remaining
  <2>7. Rest(k) = SubSeq(whole, p, Len(whole))
    BY <1>4, <1>5, <2>1, Zenon DEF Rest, p
  <2>8. Rest(k + 1) = SubSeq(whole, p + Len(a), Len(whole))
    BY <1>4, <1>5, <2>1, <2>4, Zenon DEF Rest
  <2> QED
    BY <2>2, <2>6, <2>7, <2>8, Zenon
<1> QED
  BY <1>8, <1>9 DEF N, s

\* What %n stores, one directive after the other.
LEMMA Storings ==
  ASSUME Formed(call)
  PROVE  /\ StoredBy(0) = <<>>
         /\ \A k \in 0 .. Len(call.items) : StoredBy(k) \in Seq(Int)
         /\ \A k \in 0 .. Len(call.items) - 1 : StoredBy(k + 1) = StoredBy(k) \o Stored(k + 1)
<1> DEFINE N == Len(call.items)
           ss == [i \in 1 .. N |-> Stored(i)]
           F(k) == FlattenSeq(SubSeq(ss, 1, k))
<1>1. N \in Nat
  BY ItemsAre
<1>2. \A i \in 1 .. N : Stored(i) \in Seq(Int)
  <2> TAKE i \in 1 .. N
  <2> DEFINE x == Len(Meaning(i))
             b == Bits(call.items[i].len)
             v == Signed(x, b)
  <2>1. x \in Nat
    <3>1. i \in 0 .. N
      BY <1>1
    <3>2. Meaning(i) \in Seq(Character)
      BY <3>1, Meanings
    <3> QED
      BY <3>2
  <2>2. b \in Nat /\ b > 0 /\ b <= IntBits
    BY BitsIs
  <2>3. Stored(i) = IF call.items[i].conv # "n" THEN <<>> ELSE <<v>>
    BY Zenon DEF Stored, Meaning
  <2> HIDE DEF x, b
  <2>4. v \in Int
    BY <2>1, <2>2, NumberFits
  <2> HIDE DEF v
  <2>5. <<v>> \in Seq(Int) /\ <<>> \in Seq(Int)
    BY <2>4
  <2> QED
    BY <2>3, <2>5, Zenon
<1> HIDE DEF N
<1>3. ss \in Seq(Seq(Int)) /\ Len(ss) = N /\ \A i \in 1 .. N : ss[i] = Stored(i)
  BY <1>1, <1>2
<1> HIDE DEF ss
<1>4. \A k \in 0 .. N : StoredBy(k) = F(k)
  <2> TAKE k \in 0 .. N
  <2>1. SubSeq(ss, 1, k) = [i \in 1 .. k |-> ss[i]]
    BY <1>3, FirstTexts
  <2>2. [i \in 1 .. k |-> ss[i]] = [i \in 1 .. k |-> Stored(i)]
    <3>1. \A i \in 1 .. k : ss[i] = Stored(i)
      BY <1>1, <1>3
    <3> QED
      BY <3>1
  <2> QED
    BY <2>1, <2>2, Zenon DEF StoredBy
<1>5. /\ \A k \in 0 .. N : F(k) \in Seq(Int)
      /\ F(0) = <<>>
      /\ \A k \in 0 .. N - 1 : F(k + 1) = F(k) \o ss[k + 1]
  <2>1. /\ \A k \in 0 .. Len(ss) : F(k) \in Seq(Int)
        /\ F(0) = <<>>
        /\ \A k \in 0 .. Len(ss) - 1 : F(k + 1) = F(k) \o ss[k + 1]
    BY <1>3, FlattenSteps
  <2> HIDE DEF F
  <2> QED
    BY <1>3, <2>1
<1> HIDE DEF F
<1>6. ASSUME NEW k \in 0 .. N - 1
      PROVE  StoredBy(k + 1) = StoredBy(k) \o Stored(k + 1)
  <2>1. k \in 0 .. N /\ k + 1 \in 0 .. N /\ k + 1 \in 1 .. N
    BY <1>1
  <2> QED
    BY <1>3, <1>4, <1>5, <2>1, Zenon
<1>7. 0 \in 0 .. N
  BY <1>1
<1> QED
  BY <1>4, <1>5, <1>6, <1>7 DEF N

\* The smaller of two sizes.
LEMMA Lesser ==
  ASSUME NEW a \in Nat, NEW b \in Nat
  PROVE  Min({a, b}) = IF a < b THEN a ELSE b
<1>1. Min({a, b}) = IF a <= b THEN a ELSE b
  BY MaxMin
<1> QED
  BY <1>1

\* What a buffer holds of a text.
LEMMA CutIs ==
  ASSUME NEW S, NEW t \in Seq(S), NEW room \in Nat
  PROVE  /\ Cut(t, room) \in Seq(S) /\ Len(Cut(t, room)) \in Nat
         /\ Len(Cut(t, room)) = IF room < Len(t) THEN room ELSE Len(t)
         /\ \A i \in 1 .. Len(Cut(t, room)) : Cut(t, room)[i] = t[i]
<1> DEFINE m == IF room < Len(t) THEN room ELSE Len(t)
<1>1. Len(t) \in Nat /\ m \in Nat /\ m <= Len(t) /\ Min({room, Len(t)}) = m
  <2>1. Len(t) \in Nat
    OBVIOUS
  <2>2. Min({room, Len(t)}) = m
    BY <2>1, Lesser
  <2> QED
    BY <2>1, <2>2
<1>2. Cut(t, room) = SubSeq(t, 1, m)
  BY <1>1, Zenon DEF Cut
<1> HIDE DEF m
<1> DEFINE c == SubSeq(t, 1, m)
<1>3. c \in Seq(S) /\ Len(c) = m /\ \A i \in 1 .. m : c[i] = t[i]
  <2>1. \A i \in 1 .. m : t[i] \in S
    BY <1>1
  <2> QED
    BY <1>1, <2>1
<1> HIDE DEF c
<1>4. Cut(t, room) = c
  BY <1>2 DEF c
<1> QED
  BY <1>1, <1>3, <1>4, Zenon DEF m

\* What is put behind a text in the buffer is what the buffer holds of both.
LEMMA CutMore ==
  ASSUME NEW S, NEW t \in Seq(S), NEW u \in Seq(S), NEW room \in Nat
  PROVE  Cut(t \o u, room)
         = Cut(t, room) \o SubSeq(u, 1, Min({Len(u), room - Len(Cut(t, room))}))
<1> DEFINE w == t \o u
           a == Cut(w, room)
           b == Cut(t, room)
           q == Min({Len(u), room - Len(b)})
           v == SubSeq(u, 1, q)
           x == Len(t)
           y == Len(u)
<1>1. /\ w \in Seq(S) /\ Len(w) = x + y /\ x \in Nat /\ y \in Nat
      /\ \A i \in 1 .. x : w[i] = t[i]
      /\ \A i \in x + 1 .. x + y : w[i] = u[i - x]
  OBVIOUS
<1> HIDE DEF w
<1>2. /\ a \in Seq(S) /\ Len(a) = (IF room < Len(w) THEN room ELSE Len(w))
      /\ \A i \in 1 .. Len(a) : a[i] = w[i]
  BY <1>1, CutIs
<1>3. /\ b \in Seq(S) /\ Len(b) = (IF room < x THEN room ELSE x)
      /\ \A i \in 1 .. Len(b) : b[i] = t[i]
  BY CutIs
<1> DEFINE h == room - Len(b)
<1>4. Len(b) \in Nat /\ h \in Nat /\ y \in Nat
  <2> HIDE DEF x, y, a, b
  <2> QED
    BY <1>1, <1>3
<1>5. q = IF y < h THEN y ELSE h
  <2> HIDE DEF h, y
  <2>1. Min({y, h}) = IF y < h THEN y ELSE h
    BY <1>4, Lesser
  <2> QED
    BY <2>1 DEF h, y
<1>6. q \in Nat /\ q <= y
  <2> HIDE DEF q, h, y
  <2> QED
    BY <1>4, <1>5
<1>7. v \in Seq(S) /\ Len(v) = q /\ \A i \in 1 .. q : v[i] = u[i]
  <2> HIDE DEF q
  <2>1. \A i \in 1 .. q : u[i] \in S
    BY <1>6
  <2> QED
    BY <1>6, <2>1
<1> HIDE DEF v, q, a, b
<1> DEFINE c == b \o v
           z == Len(b)
<1>8. /\ c \in Seq(S) /\ Len(c) = z + q
      /\ \A i \in 1 .. z : c[i] = b[i]
      /\ \A i \in z + 1 .. z + q : c[i] = v[i - z]
  <2>1. b \in Seq(S) /\ v \in Seq(S) /\ Len(v) = q
    BY <1>3, <1>7
  <2> HIDE DEF x, y, z, h
  <2>2. /\ b \o v \in Seq(S) /\ Len(b \o v) = Len(b) + Len(v)
        /\ \A i \in 1 .. Len(b) : (b \o v)[i] = b[i]
        /\ \A i \in Len(b) + 1 .. Len(b) + Len(v) : (b \o v)[i] = v[i - Len(b)]
    BY <2>1
  <2> QED
    BY <2>1, <2>2, Zenon DEF c, z
<1> HIDE DEF c, x, y, z, h
<1>9. z = (IF room < x THEN room ELSE x) /\ h = room - z
  BY <1>3 DEF z, h
<1>10. Len(a) = z + q /\ z \in Nat
  BY <1>1, <1>2, <1>4, <1>5, <1>9
<1>11. ASSUME NEW i \in 1 .. z + q PROVE a[i] = c[i]
  <2>1. a[i] = w[i]
    BY <1>2, <1>10
  <2>2. CASE i \in 1 .. z
    <3>1. i \in 1 .. x
      BY <1>1, <1>9, <2>2
    <3>2. b[i] = t[i]
      BY <1>3, <2>2 DEF z
    <3> QED
      BY <1>1, <1>8, <2>1, <2>2, <3>1, <3>2
  <2>3. CASE i \in z + 1 .. z + q
    <3>1. z = x /\ i - z \in 1 .. q /\ i \in x + 1 .. x + y
      BY <1>1, <1>5, <1>6, <1>9, <1>10, <2>3
    <3>2. w[i] = u[i - z] /\ c[i] = v[i - z]
      BY <1>1, <1>8, <2>3, <3>1
    <3>3. v[i - z] = u[i - z]
      BY <1>7, <3>1
    <3> QED
      BY <2>1, <3>2, <3>3
  <2>4. i \in 1 .. z \/ i \in z + 1 .. z + q
    BY <1>6, <1>10
  <2> QED
    BY <2>2, <2>3, <2>4
<1>12. /\ a \in Seq(S) /\ c \in Seq(S) /\ Len(c) = Len(a)
       /\ \A i \in 1 .. Len(a) : a[i] = c[i]
  BY <1>2, <1>8, <1>10, <1>11
<1>13. a = c
  BY <1>12
<1> QED
  BY <1>13 DEF a, b, c, v, q, w

\* The buffer and the count.
Holds(o, text) == o = [dst |-> Cut(text, Room), n |-> Len(text)]

\* The room is a size.
LEMMA RoomIs ==
  ASSUME Formed(call)
  PROVE  Room \in Nat
<1>1. call.bufsz \in Nat
  BY Zenon DEF Formed
<1> QED
  BY <1>1 DEF Room

\* What is put on top of a text that the buffer holds is held as well.
LEMMA PutIs ==
  ASSUME Formed(call), NEW S, NEW t \in Seq(S), NEW u \in Seq(S), NEW o, Holds(o, t)
  PROVE  Holds(Put(o, u), t \o u)
<1> DEFINE a == Cut(t, Room)
<1>1. Room \in Nat
  BY RoomIs
<1>2. Cut(t \o u, Room) = a \o SubSeq(u, 1, Min({Len(u), Room - Len(a)}))
  BY <1>1, CutMore
<1>3. Len(t \o u) = Len(t) + Len(u)
  OBVIOUS
<1> HIDE DEF a
<1>4. o.dst = a /\ o.n = Len(t)
  BY DEF Holds, a
<1> QED
  BY <1>2, <1>3, <1>4, Zenon DEF Put, Holds

\* The NUL goes where it fits.
LEMMA TerminatedIs ==
  ASSUME Formed(call), NEW S, NEW t \in Seq(S), NEW o, Holds(o, t)
  PROVE  Terminated(o) = IF Room = 0 THEN <<>> ELSE Append(Cut(t, Room - 1), NUL)
<1> DEFINE a == Cut(t, Room)
           m == Len(t)
<1>1. Room \in Nat
  BY RoomIs
<1>2. o.dst = a /\ o.n = m
  BY DEF Holds
<1>3. /\ a \in Seq(S) /\ Len(a) = (IF Room < m THEN Room ELSE m)
      /\ \A i \in 1 .. Len(a) : a[i] = t[i]
  BY <1>1, CutIs
<1>4. m \in Nat
  OBVIOUS
<1>5. CASE Room = 0
  <2> HIDE DEF a, m
  <2>1. a = <<>>
    BY <1>3, <1>4, <1>5
  <2> QED
    BY <1>2, <1>5, <2>1, Zenon DEF Terminated
<1>6. CASE Room # 0
  <2> DEFINE r == Room - 1
             b == Cut(t, r)
             q == Min({m, r})
             c == SubSeq(a, 1, q)
  <2>1. r \in Nat
    BY <1>1, <1>6
  <2> HIDE DEF r
  <2>2. /\ b \in Seq(S) /\ Len(b) = (IF r < m THEN r ELSE m)
        /\ \A i \in 1 .. Len(b) : b[i] = t[i]
    BY <2>1, CutIs
  <2> HIDE DEF a, m, b
  <2>3. q = IF m < r THEN m ELSE r
    BY <1>4, <2>1, Lesser
  <2> HIDE DEF q
  <2>4. q \in Nat /\ q <= Len(a) /\ q = Len(b)
    BY <1>1, <1>3, <1>4, <1>6, <2>1, <2>2, <2>3 DEF r
  <2>5. c \in Seq(S) /\ Len(c) = q /\ \A i \in 1 .. q : c[i] = a[i]
    <3>1. \A i \in 1 .. q : a[i] \in S
      BY <1>3, <2>4
    <3> QED
      BY <1>3, <2>4, <3>1
  <2> HIDE DEF c
  <2>6. \A i \in 1 .. q : a[i] = t[i] /\ b[i] = t[i]
    BY <1>3, <2>2, <2>4
  <2>7. /\ b \in Seq(S) /\ c \in Seq(S) /\ Len(c) = Len(b)
        /\ \A i \in 1 .. Len(b) : b[i] = c[i]
    BY <2>2, <2>4, <2>5, <2>6
  <2>8. b = c
    BY <2>7
  <2>9. Terminated(o) = Append(c, NUL)
    BY <1>2, <1>6, Zenon DEF Terminated, c, q, r
  <2> QED
    BY <1>6, <2>8, <2>9, Zenon DEF b, r
<1> QED
  BY <1>5, <1>6

\* No directive begins with what is not in this set.
Begins == FlagChars \cup Decimal \cup Conversions \cup {"*", ".", "h", "l"}

\* The NUL begins no directive.
LEMMA NulIs ==
  NUL \notin Begins
<1>1. NUL \notin Decimal
  BY DecimalIs DEF NUL
<1>2. NUL \notin FlagChars /\ NUL \notin Conversions
  BY DEF NUL, FlagChars, Conversions
<1>3. NUL \notin {"*", ".", "h", "l"}
  BY DEF NUL
<1> QED
  BY <1>1, <1>2, <1>3, Zenon DEF Begins

\* A directive has at least its '%'.
LEMMA SpelledIs ==
  ASSUME NEW item, Directive(item)
  PROVE  Spelled(item) \in Seq(Letters) /\ Len(Spelled(item)) > 0 /\ Spelled(item)[1] = "%"
<1> DEFINE s == Spelled(item)
           t == item.flags \o (AmountText(item.width)
                 \o (Dot(item.prec) \o (AmountText(item.prec)
                 \o (item.len \o <<item.conv>>))))
<1>1. s = <<"%">> \o t
  BY Zenon DEF Spelled
<1>2. t \in Seq(Letters)
  <2>1. \A u, v \in Seq(Letters) : u \o v \in Seq(Letters)
    OBVIOUS
  <2> QED
    BY <2>1, SpelledTyped, Zenon
<1>3. <<"%">> \in Seq(Letters)
  BY SpelledTyped
<1> HIDE DEF t
<1> DEFINE w == <<"%">> \o t
<1>4. w \in Seq(Letters) /\ Len(w) = 1 + Len(t) /\ Len(t) \in Nat /\ w[1] = "%"
  BY <1>2, <1>3
<1> HIDE DEF w
<1>5. w \in Seq(Letters) /\ Len(w) > 0 /\ w[1] = "%"
  BY <1>4
<1> QED
  BY <1>1, <1>5, Zenon DEF w

\* What the loop finds where it is.
LEMMA WhereIs ==
  ASSUME Formed(call), NEW k \in 0 .. Len(call.items), NEW j \in 0 .. Len(Lit(k)),
         cur = Behind(k) + 1 + j
  PROVE  /\ j < Len(Lit(k)) => /\ cur <= Len(format) /\ ~AtDirective
                               /\ format[cur] = Lit(k)[j + 1]
         /\ j = Len(Lit(k)) /\ k < Len(call.items) =>
                /\ cur <= Len(format) /\ AtDirective
                /\ Behind(k + 1) = Behind(k) + Len(Lit(k)) + Len(Spelled(call.items[k + 1]))
                /\ npf_parse_format_spec(format, cur)
                   = Parsed(call.items[k + 1], Behind(k + 1) + 1)
         /\ j = Len(Lit(k)) /\ k = Len(call.items) => cur = Len(format) + 1
<1> DEFINE N == Len(call.items)
           lit == Lit(k)
           m == Len(lit)
           f == format
           b == Behind(k)
           item == call.items[k + 1]
           sp == Spelled(item)
<1>1. N \in Nat /\ \A i \in 1 .. N : Directive(call.items[i])
  BY ItemsAre
<1>2. /\ lit \in Seq(Letters) /\ m \in Nat
      /\ \A i \in 1 .. m : lit[i] = "%" => Lone(lit, i) /\ (k < N => i < m)
  BY LitIs
<1>3. f \in Seq(Letters) /\ Len(f) \in Nat /\ b \in Nat /\ Stands(f, b + 1, lit)
  BY Places
<1>4. k = N => b + m = Len(f)
  <2> SUFFICES ASSUME k = N PROVE b + m = Len(f)
    OBVIOUS
  <2>1. Behind(N) + Len(call.tail) = Len(f)
    BY Places
  <2>2. lit = call.tail
    <3>1. ~(k < N)
      BY <1>1
    <3> QED
      BY <3>1, Zenon DEF Lit
  <2> QED
    BY <2>1, <2>2
<1>5. k < N => /\ k + 1 \in 1 .. N /\ k \in 0 .. N - 1
               /\ Stands(f, b + 1 + m, sp)
               /\ Behind(k + 1) = b + m + Len(sp)
  <2> SUFFICES ASSUME k < N
               PROVE  /\ k + 1 \in 1 .. N /\ k \in 0 .. N - 1
                      /\ Stands(f, b + 1 + m, sp)
                      /\ Behind(k + 1) = b + m + Len(sp)
    OBVIOUS
  <2>1. k + 1 \in 1 .. N /\ k \in 0 .. N - 1
    BY <1>1
  <2> QED
    BY <2>1, Places
<1> HIDE DEF N, m, f, b, item, sp, lit
<1>6. cur = b + 1 + j /\ j \in 0 .. m
  BY DEF b, m, lit
<1>10. m \in Nat /\ b \in Nat /\ Len(f) \in Nat /\ j \in Nat /\ cur = b + 1 + j
  BY SMTT(60), <1>2, <1>3, <1>6
<1>7. ASSUME j < m
      PROVE  cur <= Len(f) /\ ~AtDirective /\ f[cur] = lit[j + 1]
  <2>1. \A i \in 1 .. m : f[b + 1 + i - 1] = lit[i]
    BY <1>3 DEF Stands, m
  <2>2. b + 1 + m <= Len(f) + 1
    BY <1>3 DEF Stands, m
  <2>3. j + 1 \in 1 .. m /\ b + 1 + (j + 1) - 1 = cur
    BY <1>7, <1>10
  <2>4. f[cur] = lit[j + 1]
    BY <2>1, <2>3
  <2>5. cur \in 1 .. Len(f)
    BY <1>2, <1>3, <1>6, <1>7, <2>2
  <2>6. ASSUME AtDirective PROVE FALSE
    <3>1. Char(f, cur) = "%" /\ npf_parse_format_spec(f, cur).ok
      BY <2>6, Zenon DEF AtDirective, f
    <3>2. lit[j + 1] = "%"
      <4>1. cur <= Len(f)
        BY <2>5
      <4> QED
        BY <2>4, <3>1, <4>1, Zenon DEF Char
    <3>3. Lone(lit, j + 1) /\ (k < N => j + 1 < m)
      BY <1>2, <2>3, <3>2
    <3>4. Char(f, cur + 1) \notin Begins
      <4>1. CASE j + 1 < m
        <5>1. lit[j + 1 + 1] \notin Begins
          BY <3>3, <4>1, Zenon DEF Lone, Begins, m
        <5>2. j + 1 + 1 \in 1 .. m /\ b + 1 + (j + 1 + 1) - 1 = cur + 1
          BY <1>10, <4>1
        <5>3. f[cur + 1] = lit[j + 1 + 1]
          BY <2>1, <5>2
        <5>4. cur + 1 <= Len(f)
          BY <1>10, <2>2, <4>1
        <5> QED
          BY <5>1, <5>3, <5>4, Zenon DEF Char
      <4>2. CASE ~(j + 1 < m)
        <5>1. j + 1 = m
          BY <1>2, <1>6, <1>7, <4>2
        <5>2. k = N
          <6>1. ~(k < N) /\ k \in 0 .. N
            BY <3>3, <4>2 DEF N
          <6> QED
            BY <1>1, <6>1
        <5>3. ~(cur + 1 <= Len(f))
          BY <1>2, <1>3, <1>4, <1>6, <5>1, <5>2
        <5> QED
          BY <5>3, NulIs, Zenon DEF Char
      <4> QED
        BY <4>1, <4>2
    <3>5. ~npf_parse_format_spec(f, cur).ok
      BY <1>3, <2>5, <3>4, LoneIs DEF Begins
    <3> QED
      BY <3>1, <3>5
  <2> QED
    BY <2>4, <2>5, <2>6
<1>8. ASSUME j = m, k < N
      PROVE  /\ cur <= Len(f) /\ AtDirective
             /\ Behind(k + 1) = b + m + Len(sp)
             /\ npf_parse_format_spec(f, cur) = Parsed(item, Behind(k + 1) + 1)
  <2>1. /\ k + 1 \in 1 .. N /\ Stands(f, b + 1 + m, sp)
        /\ Behind(k + 1) = b + m + Len(sp)
    BY <1>5, <1>8
  <2>2. Directive(item)
    BY <1>1, <2>1 DEF item
  <2>3. sp \in Seq(Letters) /\ Len(sp) > 0 /\ sp[1] = "%" /\ Len(sp) \in Nat
    BY <2>2, SpelledIs DEF sp
  <2>4. cur = b + 1 + m /\ cur \in Nat /\ cur > 0
    BY <1>8, <1>10
  <2>5. Stands(f, cur, sp)
    BY <2>1, <2>4
  <2>6. npf_parse_format_spec(f, cur) = Parsed(item, cur + Len(sp))
    BY <1>3, <2>2, <2>4, <2>5, ParsedIs DEF sp
  <2>7. cur + Len(sp) = Behind(k + 1) + 1
    <3> DEFINE x == Behind(k + 1)
    <3>1. x = b + m + Len(sp)
      BY <2>1
    <3> DEFINE y == Len(sp)
    <3>2. y \in Nat
      BY <2>3
    <3> HIDE DEF x, y
    <3>3. cur + y = x + 1
      BY SMTT(60), <1>10, <2>4, <3>1, <3>2 DEF y
    <3> QED
      BY <3>3 DEF x, y
  <2>8. cur <= Len(f) /\ f[cur] = "%"
    <3>1. cur + Len(sp) <= Len(f) + 1 /\ \A i \in 1 .. Len(sp) : f[cur + i - 1] = sp[i]
      BY <2>5 DEF Stands
    <3>2. 1 \in 1 .. Len(sp) /\ cur + 1 - 1 = cur
      BY <2>3, <2>4
    <3> QED
      BY <1>3, <2>3, <2>4, <3>1, <3>2
  <2>9. AtDirective
    <3>1. Parsed(item, cur + Len(sp)).ok
      BY DEF Parsed
    <3>2. Char(f, cur) = "%"
      BY <2>8, Zenon DEF Char
    <3> QED
      BY <2>6, <3>1, <3>2, Zenon DEF AtDirective, f
  <2> QED
    BY <2>1, <2>6, <2>7, <2>8, <2>9, Zenon
<1>9. ASSUME j = m, k = N PROVE cur = Len(f) + 1
  BY <1>2, <1>3, <1>4, <1>6, <1>9
<1> QED
  BY <1>7, <1>8, <1>9, Zenon DEF f, lit, m, N, b, item, sp

\* What belongs to the call stays what it is.
LEMMA CallKept ==
  ASSUME call' = call
  PROVE  /\ \A k : Behind(k)' = Behind(k) /\ Meaning(k)' = Meaning(k) /\ Rest(k)' = Rest(k)
                   /\ Lit(k)' = Lit(k) /\ StoredBy(k)' = StoredBy(k)
         /\ Room' = Room /\ Whole' = Whole /\ Formed(call)' = Formed(call)
         /\ Len(call.items)' = Len(call.items)
<1>1. \A k : Behind(k)' = Behind(k)
  BY Zenon DEF Behind
<1>2. \A k : Meaning(k)' = Meaning(k)
  BY Zenon DEF Meaning
<1>3. \A k : Rest(k)' = Rest(k)
  BY Zenon DEF Rest, Passing, PassedBy
<1>4. \A k : Lit(k)' = Lit(k)
  BY Zenon DEF Lit
<1>5. \A k : StoredBy(k)' = StoredBy(k)
  BY Zenon DEF StoredBy, Stored
<1>6. Room' = Room /\ Whole' = Whole /\ Formed(call)' = Formed(call)
  BY Zenon DEF Room, Whole
<1> QED
  BY <1>1, <1>2, <1>3, <1>4, <1>5, <1>6, Zenon

\* The text in front of where the loop is.
Before(k, j) == Meaning(k) \o SubSeq(Lit(k), 1, j)

\* The text in front grows by a character of the format at a time.
LEMMA BeforeIs ==
  ASSUME Formed(call), NEW k \in 0 .. Len(call.items)
  PROVE  /\ \A j \in 0 .. Len(Lit(k)) : Before(k, j) \in Seq(Character)
         /\ Before(k, 0) = Meaning(k)
         /\ Before(k, Len(Lit(k))) = Meaning(k) \o Lit(k)
         /\ \A j \in 0 .. Len(Lit(k)) - 1 :
                Before(k, j + 1) = Before(k, j) \o <<Lit(k)[j + 1]>>
<1> DEFINE w == Meaning(k)
           s == Lit(k)
           m == Len(s)
<1>1. w \in Seq(Character)
  BY Meanings
<1>2. s \in Seq(Character) /\ m \in Nat
  BY LitIs
<1> HIDE DEF w, s
<1>3. \A j \in 0 .. m : SubSeq(s, 1, j) \in Seq(Character)
  <2> TAKE j \in 0 .. m
  <2>1. \A i \in 1 .. j : s[i] \in Character
    BY <1>2
  <2> QED
    BY <1>2, <2>1
<1>4. \A j \in 0 .. m : w \o SubSeq(s, 1, j) \in Seq(Character)
  BY <1>1, <1>3
<1>5. w \o SubSeq(s, 1, 0) = w
  BY <1>1, <1>2
<1>6. SubSeq(s, 1, m) = s
  BY <1>2
<1>7. ASSUME NEW j \in 0 .. m - 1
      PROVE  w \o SubSeq(s, 1, j + 1) = (w \o SubSeq(s, 1, j)) \o <<s[j + 1]>>
  <2> DEFINE a == SubSeq(s, 1, j)
             x == s[j + 1]
             b == SubSeq(s, 1, j + 1)
  <2>1. x \in Character
    BY <1>2
  <2>2. a \in Seq(Character)
    BY <1>2, <1>3
  <2>3. b = a \o <<x>>
    <3>1. b = Append(a, x)
      BY <1>2
    <3> HIDE DEF a, x, b
    <3>2. Append(a, x) = a \o <<x>>
      BY <2>1, <2>2
    <3> QED
      BY <3>1, <3>2
  <2> HIDE DEF a, x, b
  <2> DEFINE y == <<x>>
  <2>4. y \in Seq(Character)
    BY <2>1
  <2> HIDE DEF y
  <2>5. w \o (a \o y) = (w \o a) \o y
    BY SMTT(60), <1>1, <2>2, <2>4
  <2> QED
    BY <2>3, <2>5, Zenon DEF y, a, x, b
<1> QED
  BY <1>4, <1>5, <1>6, <1>7, Zenon DEF Before, w, s, m

\* Where the loop is, written with the names above, before a step and behind it.
Place(k, j, o, c, a, t) ==
    c = Behind(k) + 1 + j /\ a = Rest(k) /\ Holds(o, Before(k, j)) /\ t = StoredBy(k)

\* The two ways to say where the loop is.
LEMMA AtIs ==
  ASSUME NEW k, NEW j
  PROVE  /\ At(k, j) <=> Place(k, j, out, cur, args, stored)
         /\ call' = call /\ Place(k, j, out', cur', args', stored') => At(k, j)'
<1>1. At(k, j) <=> Place(k, j, out, cur, args, stored)
  BY Zenon DEF At, Rest, Holds, Before, Place
<1>2. ASSUME call' = call, Place(k, j, out', cur', args', stored') PROVE At(k, j)'
  <2>1. /\ Behind(k)' = Behind(k) /\ Meaning(k)' = Meaning(k) /\ Rest(k)' = Rest(k)
        /\ Lit(k)' = Lit(k) /\ StoredBy(k)' = StoredBy(k) /\ Room' = Room
    BY <1>2, CallKept, Zenon
  <2>2. Before(k, j) = Meaning(k)' \o SubSeq(Lit(k)', 1, j)
    BY <2>1, Zenon DEF Before
  <2>3. out' = [dst |-> Cut(Before(k, j), Room'), n |-> Len(Before(k, j))]
    BY <1>2, <2>1, Zenon DEF Place, Holds
  <2>4. cur' = Behind(k)' + 1 + j /\ args' = Rest(k)' /\ stored' = StoredBy(k)'
    BY <1>2, <2>1, Zenon DEF Place
  <2>5. args' = SubSeq(Passing', Len(PassedBy(k)') + 1, Len(Passing'))
    BY <2>4, Zenon DEF Rest
  <2> QED
    BY <2>2, <2>3, <2>4, <2>5, Zenon DEF At
<1> QED
  BY <1>1, <1>2, Zenon

\* The loop begins in front of the first directive, with all the arguments.
LEMMA BeginsRight ==
  ASSUME Init
  PROVE  FormatInv
<1>1. /\ Formed(call) /\ cur = 1 /\ args = Passing /\ done = FALSE
      /\ out = [dst |-> <<>>, n |-> 0] /\ stored = <<>>
  BY CallsAssumption, Zenon DEF Init, Passing
<1>2. /\ Behind(0) = 0 /\ Rest(0) = Passing /\ StoredBy(0) = <<>>
      /\ Meaning(0) = <<>>
  BY <1>1, Places, Passings, Storings, Meanings
<1>3. 0 \in 0 .. Len(call.items) /\ 0 \in 0 .. Len(Lit(0))
  <2>1. 0 \in 0 .. Len(call.items)
    BY <1>1, ItemsAre
  <2>2. Len(Lit(0)) \in Nat
    BY <1>1, <2>1, LitIs
  <2> QED
    BY <2>1, <2>2
<1>4. Before(0, 0) = <<>>
  BY <1>1, <1>2, <1>3, BeforeIs
<1>5. Holds(out, Before(0, 0))
  <2>1. Room \in Nat /\ <<>> \in Seq(Character) /\ Len(<<>>) = 0
    BY <1>1, RoomIs
  <2>2. Cut(<<>>, Room) = <<>>
    <3> DEFINE c == Cut(<<>>, Room)
    <3>1. c \in Seq(Character) /\ Len(c) = IF Room < Len(<<>>) THEN Room ELSE Len(<<>>)
      BY <2>1, CutIs
    <3> HIDE DEF c
    <3>2. c = <<>>
      BY <2>1, <3>1
    <3> QED
      BY <3>2 DEF c
  <2> QED
    BY <1>1, <1>4, <2>1, <2>2, Zenon DEF Holds
<1>6. At(0, 0)
  <2>1. cur = Behind(0) + 1 + 0
    BY <1>1, <1>2
  <2>2. Place(0, 0, out, cur, args, stored)
    BY <1>1, <1>2, <1>5, <2>1, Zenon DEF Place
  <2> QED
    BY <2>2, AtIs, Zenon
<1> QED
  BY <1>1, <1>3, <1>6, Zenon DEF FormatInv

\* Where the loop is when it is not done.
LEMMA ComesFrom ==
  ASSUME FormatInv, ~done
  PROVE  /\ Formed(call) /\ done = FALSE
         /\ \E k \in 0 .. Len(call.items) : \E j \in 0 .. Len(Lit(k)) :
                Place(k, j, out, cur, args, stored)
<1>1. done = FALSE
  BY Zenon DEF FormatInv
<1> QED
  BY <1>1, AtIs, Zenon DEF FormatInv

\* A step that ends somewhere in the format keeps the invariant.
LEMMA ArrivesAt ==
  ASSUME Formed(call), call' = call, done' = FALSE, NEW k \in 0 .. Len(call.items),
         NEW j \in 0 .. Len(Lit(k)), Place(k, j, out', cur', args', stored')
  PROVE  FormatInv'
<1>1. /\ Lit(k)' = Lit(k) /\ Formed(call)' /\ Len(call.items)' = Len(call.items)
  BY CallKept, Zenon
<1>2. At(k, j)'
  BY AtIs, Zenon
<1>3. k \in 0 .. Len(call'.items) /\ j \in 0 .. Len(Lit(k)')
  BY <1>1, Zenon
<1> QED
  BY <1>1, <1>2, <1>3, Zenon DEF FormatInv

\* A character of the format goes to the text.
LEMMA LiteralKeeps ==
  ASSUME FormatInv, ~done, Literal
  PROVE  FormatInv'
<1>0. PICK k \in 0 .. Len(call.items) : \E j \in 0 .. Len(Lit(k)) :
          Place(k, j, out, cur, args, stored)
  BY ComesFrom
<1>1. PICK j \in 0 .. Len(Lit(k)) : Place(k, j, out, cur, args, stored)
  BY <1>0
<1>2. Formed(call)
  BY ComesFrom
<1>3. /\ cur = Behind(k) + 1 + j /\ args = Rest(k)
      /\ Holds(out, Before(k, j)) /\ stored = StoredBy(k)
  BY <1>1, Zenon DEF Place
<1>4. /\ cur <= Len(format) /\ ~AtDirective
      /\ out' = Put(out, <<format[cur]>>) /\ cur' = cur + 1
      /\ call' = call /\ args' = args /\ stored' = stored /\ done' = FALSE
  BY ComesFrom, Zenon DEF Literal
<1>5. Len(Lit(k)) \in Nat /\ Lit(k) \in Seq(Character) /\ Behind(k) \in Nat /\ Len(format) \in Nat
  BY <1>2, LitIs, Places
<1>6. j < Len(Lit(k)) /\ format[cur] = Lit(k)[j + 1]
  <2>1. /\ j < Len(Lit(k)) => format[cur] = Lit(k)[j + 1]
        /\ ~(j = Len(Lit(k)) /\ k < Len(call.items))
        /\ ~(j = Len(Lit(k)) /\ k = Len(call.items))
    <3>1. ~(j = Len(Lit(k)) /\ k < Len(call.items))
      BY <1>2, <1>3, <1>4, WhereIs, Zenon
    <3>2. ASSUME j = Len(Lit(k)), k = Len(call.items) PROVE FALSE
      <4>1. cur = Len(format) + 1
        BY <1>2, <1>3, <3>2, WhereIs, Zenon
      <4> QED
        BY <1>4, <1>5, <4>1
    <3>3. j < Len(Lit(k)) => format[cur] = Lit(k)[j + 1]
      BY <1>2, <1>3, WhereIs, Zenon
    <3> QED
      BY <3>1, <3>2, <3>3
  <2> DEFINE m == Len(Lit(k))
             N == Len(call.items)
  <2>2. m \in Nat /\ j \in 0 .. m /\ N \in Nat /\ k \in 0 .. N
    BY <1>2, <1>5, ItemsAre
  <2> HIDE DEF m, N
  <2>3. ~(j = m /\ k < N) /\ ~(j = m /\ k = N)
    BY <2>1 DEF m, N
  <2>4. j < m
    BY <2>2, <2>3
  <2> QED
    BY <2>1, <2>4 DEF m
<1>7. j + 1 \in 0 .. Len(Lit(k)) /\ j \in 0 .. Len(Lit(k)) - 1
  BY <1>5, <1>6
<1>8. Before(k, j + 1) = Before(k, j) \o <<Lit(k)[j + 1]>> /\ Before(k, j) \in Seq(Character)
  BY <1>2, <1>7, BeforeIs
<1>9. Holds(out', Before(k, j + 1))
  <2>1. <<Lit(k)[j + 1]>> \in Seq(Character)
    <3>1. Lit(k)[j + 1] \in Character
      BY <1>5, <1>7
    <3> QED
      BY <3>1
  <2>2. Holds(Put(out, <<Lit(k)[j + 1]>>), Before(k, j) \o <<Lit(k)[j + 1]>>)
    BY <1>2, <1>3, <1>8, <2>1, PutIs
  <2> QED
    BY <1>4, <1>6, <1>8, <2>2, Zenon
<1>10. cur' = Behind(k) + 1 + (j + 1)
  BY <1>3, <1>4, <1>5
<1>11. Place(k, j + 1, out', cur', args', stored')
  BY <1>3, <1>4, <1>9, <1>10, Zenon DEF Place
<1> QED
  BY <1>2, <1>4, <1>7, <1>11, ArrivesAt

\* %n writes nothing.
LEMMA NothingIs ==
  ASSUME NEW item, Directive(item), item.conv = "n"
  PROVE  Field(item) = <<>>
<1>1. item.flags = <<>> /\ item.width.kind = "none" /\ item.width \in Amount_
  BY Zenon DEF Directive
<1>2. item.width.n = 0
  BY <1>1 DEF Amount_
<1>3. Body(item) = <<>> /\ ~Numeric(item)
  <2>1. item.conv # "%" /\ item.conv # "c" /\ item.conv # "s"
    OBVIOUS
  <2>2. ~Numeric(item)
    BY DEF Numeric
  <2>3. Body(item) = <<>>
    BY DEF Body
  <2> QED
    BY <2>2, <2>3
<1>4. ~Left(item)
  <2>1. ~Has(item, "-")
    BY <1>1 DEF Has, Contains
  <2> QED
    BY <1>2, <2>1 DEF Left
<1>5. Max({0, Magnitude(item.width.n) - Len(<<>>) - Len(<<>>)}) = 0
  <2>1. Magnitude(item.width.n) = 0
    BY <1>2 DEF Magnitude
  <2>2. Max({0, 0}) = 0
    BY MaxMin
  <2> DEFINE m == Magnitude(item.width.n)
             l == Len(<<>>)
             x == m - l - l
  <2>3. m = 0 /\ l = 0
    BY <2>1
  <2> HIDE DEF m, l
  <2>4. x = 0
    BY <2>3
  <2> HIDE DEF x
  <2>5. Max({0, x}) = 0
    BY <2>2, <2>4
  <2> QED
    BY <2>5 DEF x, m, l
<1>6. Times(0, " ") = <<>>
  BY DEF Times
<1>7. (<<>> \o <<>>) \o <<>> = <<>>
  OBVIOUS
<1> QED
  BY <1>3, <1>4, <1>5, <1>6, <1>7, Zenon DEF Field

\* A directive takes its arguments and puts what it means.
LEMMA ConvertIs ==
  ASSUME FormatInv, ~done, Convert, NEW k \in 0 .. Len(call.items), NEW j \in 0 .. Len(Lit(k)),
         Place(k, j, out, cur, args, stored)
  PROVE  k < Len(call.items) /\ j = Len(Lit(k))
<1>1. Formed(call)
  BY ComesFrom
<1>2. cur = Behind(k) + 1 + j
  BY Zenon DEF Place
<1>3. cur <= Len(format) /\ AtDirective
  BY Zenon DEF Convert
<1>4. Len(Lit(k)) \in Nat /\ Len(format) \in Nat /\ Len(call.items) \in Nat
  BY <1>1, LitIs, Places, ItemsAre
<1>5. ~(j < Len(Lit(k)))
  BY <1>1, <1>2, <1>3, WhereIs, Zenon
<1>6. j = Len(Lit(k))
  BY <1>4, <1>5
<1>7. k # Len(call.items)
  <2>1. ~(cur = Len(format) + 1)
    BY <1>3, <1>4
  <2> QED
    BY <1>1, <1>2, <1>6, <2>1, WhereIs, Zenon
<1> QED
  BY <1>4, <1>6, <1>7

\* A directive is converted, and the loop is right behind it.
LEMMA ConvertKeeps ==
  ASSUME FormatInv, ~done, Convert
  PROVE  FormatInv'
<1>0. PICK k \in 0 .. Len(call.items) : \E j \in 0 .. Len(Lit(k)) :
          Place(k, j, out, cur, args, stored)
  BY ComesFrom
<1>1. PICK j \in 0 .. Len(Lit(k)) : Place(k, j, out, cur, args, stored)
  BY <1>0
<1> DEFINE N == Len(call.items)
           item == call.items[k + 1]
           next == Behind(k + 1) + 1
           rest == Rest(k + 1)
           fs == npf_parse_format_spec(format, cur)
           r == Completed(StarPrecision(StarWidth([fs |-> fs, args |-> args])))
           plain == fs.conv_spec \in {"%", "n"}
           arg == IF plain THEN Num(0) ELSE Head(r.args)
           before == Before(k, j)
<1>2. Formed(call) /\ done = FALSE
  BY ComesFrom
<1>3. /\ cur = Behind(k) + 1 + j /\ args = Rest(k)
      /\ Holds(out, before) /\ stored = StoredBy(k)
  BY <1>1, Zenon DEF Place
<1>4. k < N /\ j = Len(Lit(k))
  BY <1>1, ConvertIs
<1>5. N \in Nat /\ k \in 0 .. N - 1 /\ k + 1 \in 1 .. N /\ k + 1 \in 0 .. N
  BY <1>2, <1>4, ItemsAre
<1>6. Directive(item)
  BY <1>2, <1>5, ItemsAre
<1>7. fs = Parsed(item, next)
  BY <1>2, <1>3, <1>4, WhereIs, Zenon
<1>8. rest \in Seq(Argument) /\ args = Passed(item) \o rest
  BY <1>2, <1>3, <1>5, Passings
<1>9. Means(r.fs, item) /\ r.args = item.arg \o rest
  <2> DEFINE q == Completed(StarPrecision(StarWidth(
                    [fs |-> Parsed(item, next), args |-> Passed(item) \o rest])))
  <2>1. q = r
    BY <1>7, <1>8, Zenon
  <2>2. Means(q.fs, item) /\ q.args = item.arg \o rest
    <3> HIDE DEF item, next, rest
    <3> QED
      BY <1>6, <1>8, StarsLookedUp
  <2> HIDE DEF q, r
  <2> QED
    BY <2>1, <2>2, Zenon
<1>10. /\ plain <=> item.conv \in {"%", "n"}
       /\ fs.conv_spec = "n" <=> item.conv = "n"
       /\ fs.length_modifier = item.len /\ fs.next = next
  <2> HIDE DEF fs, item, next
  <2>1. /\ fs.conv_spec = IF item.conv = "i" THEN "d" ELSE item.conv
        /\ fs.length_modifier = item.len /\ fs.next = next
    BY <1>7 DEF Parsed
  <2> QED
    BY <2>1
<1>11. /\ item.arg \in Seq(Argument)
       /\ item.conv \in {"%", "n"} => item.arg = <<>>
       /\ item.conv \notin {"%", "n"} => Len(item.arg) = 1
  <2>1. item.arg \in Seq(Argument) /\ (item.conv \in {"%", "n"} => item.arg = <<>>)
    BY <1>6, PassedIs, Zenon
  <2>2. item.conv \notin {"%", "n"} => Len(item.arg) = 1
    <3> HIDE DEF item
    <3>1. (item.conv \in {"c", "s"} => Len(item.arg) = 1)
          /\ (item.conv \notin {"%", "n", "c", "s"} => Len(item.arg) = 1)
      BY <1>6, Zenon DEF Directive
    <3> QED
      BY <3>1
  <2> QED
    BY <2>1, <2>2, Zenon
<1>12. /\ (IF plain THEN r.args ELSE Tail(r.args)) = rest
       /\ item.conv \notin {"%", "n"} => arg = item.arg[1]
  <2> DEFINE a == item.arg
             x == a[1]
             u == item.conv \in {"%", "n"}
             ra == r.args
  <2>1. ra = a \o rest /\ a \in Seq(Argument) /\ (plain <=> u)
    BY <1>9, <1>10, <1>11
  <2>2. CASE u
    <3>1. a = <<>>
      BY <1>11, <2>2
    <3> HIDE DEF a, rest, ra, plain, u
    <3>2. a \o rest = rest
      BY <1>8, <3>1
    <3> QED
      BY <2>1, <2>2, <3>2, Zenon DEF u, ra
  <2>3. CASE ~u
    <3>1. Len(a) = 1
      BY <1>11, <2>3
    <3> HIDE DEF a, rest, ra, plain, u
    <3>2. x \in Argument /\ a = <<x>>
      <4> DEFINE b == <<x>>
      <4>0. a \in Seq(Argument) /\ 1 \in 1 .. Len(a)
        <5>1. 1 \in 1 .. 1
          OBVIOUS
        <5> QED
          BY <2>1, <3>1, <5>1, Zenon
      <4>1. x \in Argument
        BY <4>0, ElementOfSeq
      <4>2. b \in Seq(Argument) /\ Len(b) = 1 /\ b[1] = a[1]
        BY <4>1
      <4> HIDE DEF b
      <4>3. a = b
        BY <2>1, <3>1, <4>2
      <4> QED
        BY <4>1, <4>3 DEF b
    <3> HIDE DEF x
    <3>3. Head(<<x>> \o rest) = x /\ Tail(<<x>> \o rest) = rest
      BY <1>8, <3>2, FirstOf
    <3>4. ~plain /\ ra = <<x>> \o rest
      BY <2>1, <2>3, <3>2
    <3> QED
      BY <3>3, <3>4, Zenon DEF x, a, ra
  <2> QED
    BY <2>2, <2>3
<1>13. Converted(r.fs, arg) = Field(item) /\ Field(item) \in Seq(Character)
  <2> HIDE DEF item, arg, r
  <2> QED
    BY <1>6, <1>9, <1>12, FieldIs
<1>14. /\ cur' = fs.next
       /\ args' = IF plain THEN r.args ELSE Tail(r.args)
       /\ out' = Put(out, Converted(r.fs, arg))
       /\ stored' = IF fs.conv_spec = "n"
                    THEN Append(stored, Signed(out.n, Bits(fs.length_modifier)))
                    ELSE stored
       /\ call' = call /\ done' = done
  BY Zenon DEF Convert
<1> HIDE DEF fs, r, arg, plain
<1>15. before = Meaning(k) \o Lit(k) /\ before \in Seq(Character)
  <2>1. \A i \in 0 .. Len(Lit(k)) : Before(k, i) \in Seq(Character)
    BY <1>2, BeforeIs
  <2>2. Before(k, Len(Lit(k))) = Meaning(k) \o Lit(k)
    BY <1>2, BeforeIs
  <2> QED
    BY <1>4, <2>1, <2>2
<1>16. /\ Meaning(k + 1) = before \o Field(item)
       /\ Before(k + 1, 0) = Meaning(k + 1)
       /\ StoredBy(k + 1) = StoredBy(k) \o Stored(k + 1)
       /\ StoredBy(k) \in Seq(Int)
  <2>1. Meaning(k + 1) = (Meaning(k) \o Lit(k)) \o Field(item)
    BY <1>2, <1>5, Meanings
  <2>2. Before(k + 1, 0) = Meaning(k + 1)
    BY <1>2, <1>5, BeforeIs
  <2>3. StoredBy(k + 1) = StoredBy(k) \o Stored(k + 1) /\ StoredBy(k) \in Seq(Int)
    BY <1>2, <1>5, Storings
  <2> QED
    BY <1>15, <2>1, <2>2, <2>3, Zenon
<1>17. Holds(out', Before(k + 1, 0))
  <2>1. Holds(Put(out, Field(item)), before \o Field(item))
    <3> HIDE DEF item, before
    <3> QED
      BY <1>2, <1>3, <1>13, <1>15, PutIs
  <2> QED
    BY <1>13, <1>14, <1>16, <2>1, Zenon
<1>18. stored' = StoredBy(k + 1)
  <2> DEFINE x == Signed(Len(Meaning(k + 1)), Bits(item.len))
  <2>1. Stored(k + 1) = IF item.conv # "n" THEN <<>> ELSE <<x>>
    BY Zenon DEF Stored, Meaning
  <2>2. CASE item.conv = "n"
    <3>1. Field(item) = <<>>
      BY <1>6, <2>2, NothingIs
    <3>2. before \o <<>> = before
      BY <1>15
    <3>3. Len(Meaning(k + 1)) = out.n
      <4>1. out.n = Len(before)
        BY <1>3 DEF Holds
      <4> QED
        BY <1>16, <3>1, <3>2, <4>1, Zenon
    <3>4. stored' = Append(stored, x)
      BY <1>10, <1>14, <2>2, <3>3, Zenon
    <3>5. x \in Int
      <4> DEFINE b == Bits(item.len)
                 y == Len(Meaning(k + 1))
      <4>1. y \in Nat /\ b \in Nat /\ b > 0 /\ b <= IntBits
        <5>1. before \in Seq(Character) /\ y = Len(before)
          BY <1>15, <1>16, <3>1, <3>2, Zenon
        <5>2. Len(before) \in Nat
          BY <5>1
        <5> QED
          BY <5>1, <5>2, BitsIs
      <4> HIDE DEF b, y
      <4>2. Signed(y, b) \in Int
        BY <4>1, NumberFits
      <4> QED
        BY <4>2 DEF y, b
    <3> HIDE DEF x
    <3>6. Append(StoredBy(k), x) = StoredBy(k) \o <<x>>
      <4> DEFINE s == StoredBy(k)
      <4>1. s \in Seq(Int)
        BY <1>16
      <4> HIDE DEF s
      <4>2. Append(s, x) = s \o <<x>>
        BY <3>5, <4>1
      <4> QED
        BY <4>2 DEF s
    <3> QED
      BY <1>3, <1>16, <2>1, <2>2, <3>4, <3>6, Zenon
  <2>3. CASE item.conv # "n"
    <3>1. stored' = StoredBy(k)
      BY <1>3, <1>10, <1>14, <2>3, Zenon
    <3>2. StoredBy(k) \o <<>> = StoredBy(k)
      BY <1>16
    <3> QED
      BY <1>16, <2>1, <2>3, <3>1, <3>2, Zenon
  <2> QED
    BY <2>2, <2>3
<1>19. cur' = Behind(k + 1) + 1 + 0
  <2>1. Behind(k + 1) \in Nat
    BY <1>2, <1>5, Places
  <2>2. cur' = next
    BY <1>10, <1>14, Zenon
  <2> QED
    BY <2>1, <2>2
<1>20. args' = Rest(k + 1)
  BY <1>12, <1>14, Zenon
<1>21. Place(k + 1, 0, out', cur', args', stored')
  BY <1>17, <1>18, <1>19, <1>20, Zenon DEF Place
<1>22. 0 \in 0 .. Len(Lit(k + 1))
  <2>1. Len(Lit(k + 1)) \in Nat
    BY <1>2, <1>5, LitIs
  <2> QED
    BY <2>1
<1>23. call' = call /\ done' = FALSE
  BY <1>2, <1>14
<1> QED
  BY <1>2, <1>5, <1>21, <1>22, <1>23, ArrivesAt

\* The end, written so that it can be said of what a step leaves.
Closed(o, c, t) ==
    /\ c = Len(format) + 1 /\ o.n = Len(Whole)
    /\ o.dst = IF Room = 0 THEN <<>> ELSE Append(Cut(Whole, Room - 1), NUL)
    /\ t = StoredBy(Len(call.items))

\* A step that ends in the end keeps the invariant.
LEMMA EndsAt ==
  ASSUME Formed(call), call' = call, done', done' \in BOOLEAN,
         Closed(out', cur', stored')
  PROVE  FormatInv'
<1>1. Room' = Room /\ Whole' = Whole /\ Formed(call)'
  BY CallKept, Zenon
<1>2. format' = format
  BY Zenon DEF format
<1>3. StoredBy(Len(call.items))' = StoredBy(Len(call.items))
  BY Zenon DEF StoredBy, Stored
<1>4. /\ cur' = Len(format') + 1 /\ out'.n = Len(Whole')
      /\ out'.dst = IF Room' = 0 THEN <<>> ELSE Append(Cut(Whole', Room' - 1), NUL)
  BY <1>1, <1>2, Zenon DEF Closed
<1>5. stored' = StoredBy(Len(call.items))'
  BY <1>3, Zenon DEF Closed
<1>6. Ended'
  BY <1>4, <1>5, Zenon DEF Ended
<1> QED
  BY <1>1, <1>6, Zenon DEF FormatInv

\* What was put is closed by a NUL.
LEMMA ReturnKeeps ==
  ASSUME FormatInv, Return
  PROVE  FormatInv'
<1> DEFINE N == Len(call.items)
<1>1. /\ cur > Len(format) /\ ~done /\ out' = [out EXCEPT !.dst = Terminated(out)]
      /\ done' = TRUE /\ call' = call /\ cur' = cur /\ args' = args /\ stored' = stored
  BY Zenon DEF Return
<1>2. Formed(call)
  BY <1>1, ComesFrom
<1>3. PICK k \in 0 .. N : \E j \in 0 .. Len(Lit(k)) : Place(k, j, out, cur, args, stored)
  BY <1>1, ComesFrom
<1>4. PICK j \in 0 .. Len(Lit(k)) : Place(k, j, out, cur, args, stored)
  BY <1>3
<1>5. /\ cur = Behind(k) + 1 + j
      /\ Holds(out, Before(k, j)) /\ stored = StoredBy(k)
  BY <1>4, Zenon DEF Place
<1>6. Len(Lit(k)) \in Nat /\ Len(format) \in Nat /\ N \in Nat
  BY <1>2, LitIs, Places, ItemsAre
<1>7. ~(cur <= Len(format))
  <2>1. cur \in Nat
    <3>1. Behind(k) \in Nat
      BY <1>2, Places
    <3> QED
      BY <1>5, <1>6, <3>1
  <2> QED
    BY <1>1, <1>6, <2>1
<1>8. ~(j < Len(Lit(k)))
  BY <1>2, <1>5, <1>7, WhereIs, Zenon
<1>9. j = Len(Lit(k))
  BY <1>6, <1>8
<1>10. ~(k < N)
  BY <1>2, <1>5, <1>7, <1>9, WhereIs, Zenon
<1>11. k = N
  BY <1>6, <1>10
<1>12. Before(k, j) = Whole /\ Whole \in Seq(Character)
  <2>1. Before(k, Len(Lit(k))) = Meaning(k) \o Lit(k)
    BY <1>2, BeforeIs
  <2>2. Whole = Meaning(N) \o Lit(N) /\ Whole \in Seq(Character)
    BY <1>2, Meanings
  <2> QED
    BY <1>9, <1>11, <2>1, <2>2, Zenon
<1>13. Terminated(out) = IF Room = 0 THEN <<>> ELSE Append(Cut(Whole, Room - 1), NUL)
  BY <1>2, <1>5, <1>12, TerminatedIs
<1>14. out'.n = Len(Whole) /\ out'.dst = Terminated(out)
  <2> DEFINE t == Terminated(out)
             d == Cut(Whole, Room)
             m == Len(Whole)
  <2>1. out = [dst |-> d, n |-> m]
    BY <1>5, <1>12, Zenon DEF Holds
  <2>2. out' = [out EXCEPT !.dst = t]
    BY <1>1
  <2> HIDE DEF t, d, m
  <2>3. out'.n = m /\ out'.dst = t
    BY <2>1, <2>2
  <2> QED
    BY <2>3 DEF m, t
<1>15. cur' = Len(format) + 1
  BY <1>1, <1>2, <1>5, <1>9, <1>11, WhereIs, Zenon
<1>16. Closed(out', cur', stored')
  BY <1>1, <1>5, <1>11, <1>13, <1>14, <1>15, Zenon DEF Closed
<1>17. done' \in BOOLEAN /\ done'
  BY <1>1
<1> QED
  BY <1>1, <1>2, <1>16, <1>17, EndsAt

\* The invariant holds of every step.
LEMMA FormatSteps ==
  ASSUME FormatInv, [Next]_vars
  PROVE  FormatInv'
<1>1. CASE Literal \/ Convert
  <2>1. cur <= Len(format)
    BY <1>1, Zenon DEF Literal, Convert
  <2>2. ~done
    <3>1. ASSUME done PROVE FALSE
      <4>1. cur = Len(format) + 1 /\ Formed(call)
        BY <3>1, Zenon DEF FormatInv, Ended
      <4>2. Len(format) \in Nat
        BY <4>1, Places
      <4> QED
        BY <2>1, <4>1, <4>2
    <3> QED
      BY <3>1
  <2> QED
    BY <1>1, <2>2, LiteralKeeps, ConvertKeeps
<1>2. CASE Return
  BY <1>2, ReturnKeeps
<1>3. CASE UNCHANGED vars
  <2>1. /\ call' = call /\ cur' = cur /\ args' = args /\ out' = out
        /\ stored' = stored /\ done' = done
    BY <1>3, Zenon DEF vars
  <2>2. CASE done
    <3>1. Formed(call) /\ Ended /\ done \in BOOLEAN
      BY <2>2, Zenon DEF FormatInv
    <3>2. Closed(out', cur', stored')
      BY <2>1, <3>1, Zenon DEF Closed, Ended
    <3> QED
      BY <2>1, <2>2, <3>1, <3>2, EndsAt
  <2>3. CASE ~done
    <3>1. Formed(call) /\ done = FALSE
      BY <2>3, ComesFrom
    <3>2. PICK k \in 0 .. Len(call.items) : \E j \in 0 .. Len(Lit(k)) :
              Place(k, j, out, cur, args, stored)
      BY <2>3, ComesFrom
    <3>3. PICK j \in 0 .. Len(Lit(k)) : Place(k, j, out, cur, args, stored)
      BY <3>2
    <3>4. Place(k, j, out', cur', args', stored')
      BY <2>1, <3>3, Zenon
    <3> QED
      BY <2>1, <3>1, <3>4, ArrivesAt
  <2> QED
    BY <2>2, <2>3
<1> QED
  BY <1>1, <1>2, <1>3, Zenon DEF Next

------------------------------------------------------------------------------
(* What the invariant says of the string and of the count. *)

\* A text closed by a NUL holds no other.
LEMMA NoNul ==
  ASSUME NEW s \in Seq(Character)
  PROVE  /\ Append(s, NUL)[Len(Append(s, NUL))] = NUL
         /\ Front(Append(s, NUL)) = s /\ Last(Append(s, NUL)) = NUL
         /\ Len(Append(s, NUL)) = Len(s) + 1
         /\ ~Contains(s, NUL)
<1> DEFINE S == Character \cup {NUL}
           t == Append(s, NUL)
           x == NUL
<1>1. s \in Seq(S) /\ x \in S /\ Len(s) \in Nat
  OBVIOUS
<1>2. t \in Seq(S) /\ Len(t) = Len(s) + 1 /\ t[Len(s) + 1] = x
      /\ \A i \in 1 .. Len(s) : t[i] = s[i]
  <2> HIDE DEF S, x
  <2>1. /\ Append(s, x) \in Seq(S) /\ Len(Append(s, x)) = Len(s) + 1
        /\ Append(s, x)[Len(s) + 1] = x
        /\ \A i \in 1 .. Len(s) : Append(s, x)[i] = s[i]
    BY <1>1
  <2> QED
    BY <2>1 DEF x
<1>3. x \notin Character
  BY CharactersAre
<1>4. ~Contains(s, x)
  <2>1. \A i \in 1 .. Len(s) : s[i] \in Character
    BY <1>1
  <2>2. DOMAIN s = 1 .. Len(s)
    OBVIOUS
  <2> HIDE DEF x
  <2> QED
    BY <1>3, <2>1, <2>2 DEF Contains
<1> HIDE DEF t, x
<1>5. Last(t) = x
  BY <1>2, Zenon DEF Last
<1>6. Front(t) = s
  <2> DEFINE m == Len(t) - 1
             f == SubSeq(t, 1, m)
  <2>1. m = Len(s)
    BY <1>1, <1>2
  <2> HIDE DEF m
  <2>2. f \in Seq(S) /\ Len(f) = Len(s) /\ \A i \in 1 .. Len(s) : f[i] = t[i]
    <3>1. \A i \in 1 .. m : t[i] \in S
      BY <1>1, <1>2, <2>1
    <3> HIDE DEF S
    <3> QED
      BY <1>1, <1>2, <2>1, <3>1
  <2> HIDE DEF f
  <2>3. f = s
    BY <1>1, <1>2, <2>2
  <2> QED
    BY <2>3, Zenon DEF Front, f, m
<1> QED
  BY <1>2, <1>4, <1>5, <1>6, Zenon DEF t, x

\* The invariant bounds what is in the buffer and closes it.
LEMMA BufferHolds ==
  ASSUME FormatInv
  PROVE  StaysInBuffer
<1>1. Formed(call) /\ done \in BOOLEAN
  BY Zenon DEF FormatInv
<1>2. Room \in Nat
  BY <1>1, RoomIs
<1>3. CASE ~done
  <2>1. PICK k \in 0 .. Len(call.items) : \E j \in 0 .. Len(Lit(k)) :
            Place(k, j, out, cur, args, stored)
    BY <1>3, ComesFrom
  <2>2. PICK j \in 0 .. Len(Lit(k)) : Place(k, j, out, cur, args, stored)
    BY <2>1
  <2>3. Holds(out, Before(k, j)) /\ Before(k, j) \in Seq(Character)
    BY <1>1, <2>2, BeforeIs DEF Place
  <2> DEFINE t == Before(k, j)
             c == Cut(t, Room)
             m == Len(t)
  <2>4. out.dst = c
    BY <2>3 DEF Holds
  <2>5. Len(c) = IF Room < m THEN Room ELSE m
    BY <1>2, <2>3, CutIs
  <2>6. m \in Nat
    BY <2>3
  <2> HIDE DEF c, m
  <2>7. Len(c) <= Room
    BY <1>2, <2>5, <2>6
  <2> QED
    BY <1>3, <2>4, <2>7 DEF StaysInBuffer
<1>4. CASE done
  <2>1. out.dst = IF Room = 0 THEN <<>> ELSE Append(Cut(Whole, Room - 1), NUL)
    BY <1>4, Zenon DEF FormatInv, Ended
  <2>2. CASE Room = 0
    BY <2>1, <2>2 DEF StaysInBuffer
  <2>3. CASE Room # 0
    <3> DEFINE c == Cut(Whole, Room - 1)
               m == Len(Whole)
    <3>1. Whole \in Seq(Character) /\ m \in Nat /\ Room - 1 \in Nat
      <4>1. Whole \in Seq(Character)
        BY <1>1, Meanings
      <4> QED
        BY <1>2, <2>3, <4>1
    <3>2. c \in Seq(Character) /\ Len(c) = IF Room - 1 < m THEN Room - 1 ELSE m
      BY <3>1, CutIs
    <3> HIDE DEF c, m
    <3> DEFINE d == Append(c, NUL)
    <3>3. /\ Front(d) = c /\ Last(d) = NUL /\ Len(d) = Len(c) + 1 /\ ~Contains(c, NUL)
      BY <3>2, NoNul
    <3> HIDE DEF d
    <3>4. Len(d) <= Room
      BY <1>2, <2>3, <3>1, <3>2, <3>3
    <3>5. out.dst = d
      BY <2>1, <2>3 DEF c, d
    <3> QED
      BY <3>3, <3>4, <3>5, Zenon DEF StaysInBuffer
  <2> QED
    BY <2>2, <2>3
<1> QED
  BY <1>3, <1>4

\* The string is the beginning of what the format means.
LEMMA StringIs ==
  ASSUME FormatInv
  PROVE  FormatsAsC
<1> SUFFICES ASSUME done, Room > 0
             PROVE  Front(out.dst) = Cut(Whole, Room - 1)
  BY Zenon DEF FormatsAsC, Cut
<1>1. Formed(call)
  BY Zenon DEF FormatInv
<1>2. Room \in Nat
  BY <1>1, RoomIs
<1>3. out.dst = Append(Cut(Whole, Room - 1), NUL)
  <2>1. out.dst = IF Room = 0 THEN <<>> ELSE Append(Cut(Whole, Room - 1), NUL)
    BY Zenon DEF FormatInv, Ended
  <2> QED
    BY <1>2, <2>1
<1> DEFINE c == Cut(Whole, Room - 1)
<1>4. c \in Seq(Character)
  <2>1. Whole \in Seq(Character)
    BY <1>1, Meanings
  <2>2. Room - 1 \in Nat
    BY <1>2
  <2> QED
    BY <2>1, <2>2, CutIs
<1> HIDE DEF c
<1>5. Front(Append(c, NUL)) = c
  BY <1>4, NoNul
<1> QED
  BY <1>3, <1>5 DEF c

\* All of it is counted, and %n stores what it says.
LEMMA CountIs ==
  ASSUME FormatInv
  PROVE  CountsWhole
<1> SUFFICES ASSUME done
             PROVE  /\ out.n = Len(Whole)
                    /\ stored = FlattenSeq([k \in DOMAIN call.items |-> Stored(k)])
  BY Zenon DEF CountsWhole
<1>1. Formed(call) /\ Ended
  BY Zenon DEF FormatInv
<1>2. DOMAIN call.items = 1 .. Len(call.items)
  BY <1>1, ItemsAre
<1> QED
  BY <1>1, <1>2, Zenon DEF Ended, StoredBy

\* A directive is understood as it was written wherever it stands.
LEMMA SpecIs ==
  ASSUME Formed(call)
  PROVE  ParserFindsSpec
<1> DEFINE Is(amount, N, opt) == /\ amount.kind = "star" <=> opt = "STAR"
                                 /\ amount.kind = "none" <=> opt = "NONE"
                                 /\ amount.kind = "literal" => N = amount.n
<1>1. /\ DOMAIN call.items = 1 .. Len(call.items) /\ Len(call.items) \in Nat
      /\ \A i \in 1 .. Len(call.items) : Directive(call.items[i])
  BY ItemsAre
<1>2. ASSUME NEW amount \in Amount_
      PROVE  Is(amount, Told(amount), OptOf(amount))
  <2>1. amount.kind \in {"none", "literal", "star"}
    BY DEF Amount_
  <2>2. /\ amount.kind = "none" => OptOf(amount) = "NONE"
        /\ amount.kind = "star" => OptOf(amount) = "STAR"
        /\ amount.kind = "literal" => OptOf(amount) = "LITERAL" /\ Told(amount) = amount.n
    BY DEF OptOf, Told
  <2> QED
    BY <2>1, <2>2
<1> HIDE DEF Is
<1>3. ASSUME NEW k \in 1 .. Len(call.items), NEW item, item = call.items[k],
             cur = Behind(k - 1) + Len(item.before) + 1
      PROVE  npf_parse_format_spec(format, cur) = Parsed(item, Behind(k) + 1)
  <2> DEFINE l == k - 1
             j == Len(Lit(l))
  <2>1. l \in 0 .. Len(call.items) /\ l < Len(call.items) /\ l + 1 = k
    BY <1>1
  <2> HIDE DEF l
  <2>2. Lit(l) = item.before
    BY <1>3, <2>1, Zenon DEF Lit
  <2>3. j \in Nat /\ Behind(l) \in Nat
    BY <2>1, LitIs, Places
  <2>4. cur = Behind(l) + 1 + j /\ j \in 0 .. Len(Lit(l))
    <3>1. cur = Behind(l) + j + 1
      BY <1>3, <2>2 DEF l
    <3> DEFINE b == Behind(l)
    <3>2. b \in Nat /\ j \in Nat /\ cur = b + j + 1
      BY <2>3, <3>1
    <3> HIDE DEF b, j
    <3>3. cur = b + 1 + j /\ j \in 0 .. j
      BY <3>2
    <3> QED
      BY <3>3 DEF b, j
  <2>5. npf_parse_format_spec(format, cur)
        = Parsed(call.items[l + 1], Behind(l + 1) + 1)
    BY <2>1, <2>4, WhereIs, Zenon
  <2> QED
    BY <1>3, <2>1, <2>5
<1>4. ASSUME NEW item, Directive(item), NEW next, NEW fs, fs = Parsed(item, next)
      PROVE  /\ fs.ok /\ fs.next = next
             /\ fs.left_justified <=> Has(item, "-")
             /\ fs.leading_zero_pad <=> Has(item, "0")
             /\ fs.alt_form <=> Has(item, "#")
             /\ fs.prepend = "+" <=> Has(item, "+")
             /\ fs.prepend = " " <=> Has(item, " ") /\ ~Has(item, "+")
             /\ Is(item.width, fs.field_width, fs.field_width_opt)
             /\ Is(item.prec, fs.prec, fs.prec_opt)
  <2>1. /\ fs.ok = TRUE /\ fs.next = next
        /\ fs.left_justified = Has(item, "-")
        /\ fs.leading_zero_pad = Has(item, "0")
        /\ fs.alt_form = Has(item, "#")
        /\ fs.prepend = Prepend(item.flags)
        /\ fs.field_width = Told(item.width) /\ fs.field_width_opt = OptOf(item.width)
        /\ fs.prec = Told(item.prec) /\ fs.prec_opt = OptOf(item.prec)
    BY <1>4 DEF Parsed
  <2>2. item.width \in Amount_ /\ item.prec \in Amount_
    BY <1>4, Zenon DEF Directive
  <2>3. NUL # "+" /\ NUL # " "
    BY DEF NUL
  <2>4. /\ Prepend(item.flags) = "+" <=> Has(item, "+")
        /\ Prepend(item.flags) = " " <=> Has(item, " ") /\ ~Has(item, "+")
    BY <2>3 DEF Prepend, Has
  <2>5. /\ Is(item.width, Told(item.width), OptOf(item.width))
        /\ Is(item.prec, Told(item.prec), OptOf(item.prec))
    BY <1>2, <2>2
  <2>6. /\ Is(item.width, fs.field_width, fs.field_width_opt)
        /\ Is(item.prec, fs.prec, fs.prec_opt)
    BY <2>1, <2>5, Zenon
  <2> QED
    BY <2>1, <2>4, <2>6, Zenon
<1> DEFINE Finds(k) ==
              LET item == call.items[k]
                  fs   == npf_parse_format_spec(format, cur)
              IN  cur = Behind(k - 1) + Len(item.before) + 1 =>
                      /\ fs.ok /\ fs.next = Behind(k) + 1
                      /\ fs.left_justified <=> Has(item, "-")
                      /\ fs.leading_zero_pad <=> Has(item, "0")
                      /\ fs.alt_form <=> Has(item, "#")
                      /\ fs.prepend = "+" <=> Has(item, "+")
                      /\ fs.prepend = " " <=> Has(item, " ") /\ ~Has(item, "+")
                      /\ Is(item.width, fs.field_width, fs.field_width_opt)
                      /\ Is(item.prec, fs.prec, fs.prec_opt)
<1>5. ASSUME NEW k \in 1 .. Len(call.items) PROVE Finds(k)
  <2>1. Directive(call.items[k])
    BY <1>1
  <2>2. cur = Behind(k - 1) + Len(call.items[k].before) + 1 =>
            npf_parse_format_spec(format, cur) = Parsed(call.items[k], Behind(k) + 1)
    BY <1>3, Zenon
  <2> QED
    BY <1>4, <2>1, <2>2, ZenonT(60)
<1> QED
  BY <1>1, <1>5, Zenon DEF ParserFindsSpec, Is


\* The formatter keeps its invariant in every call, the strings' included.
LEMMA FormatInvariant == LibSpec => []FormatInv
<1>1. LibInit => FormatInv
  <2>1. ASSUME call = [items |-> <<>>, tail |-> <<>>, bufsz |-> 0, buffer |-> FALSE],
               cur = 1, args = <<>>, out = [dst |-> <<>>, n |-> 0],
               stored = <<>>, done = TRUE
        PROVE  FormatInv
    <3>1. call.items = <<>> /\ call.tail = <<>> /\ call.bufsz = 0 /\ call.buffer = FALSE
      BY <2>1
    <3>2. /\ <<>> \in Seq({call.items[i] : i \in DOMAIN call.items})
          /\ <<>> \in Seq(Character) /\ Len(<<>>) = 0 /\ DOMAIN <<>> = {}
      OBVIOUS
    <3>3. Formed(call)
      <4>1. /\ call.items \in Seq({call.items[i] : i \in DOMAIN call.items})
            /\ DOMAIN call.items = {} /\ call.tail \in Seq(Character)
            /\ Len(call.tail) = 0
        BY <3>1, <3>2, Zenon
      <4>2. \A i \in DOMAIN call.items : Directive(call.items[i])
        BY <4>1
      <4>3. \A i \in 1 .. Len(call.tail) : call.tail[i] = "%" => Lone(call.tail, i)
        BY <4>1
      <4>4. call.bufsz \in Nat /\ call.buffer \in BOOLEAN
        <5>1. 0 \in Nat /\ FALSE \in BOOLEAN
          OBVIOUS
        <5> QED
          BY <3>1, <5>1, Zenon
      <4> QED
        BY <4>1, <4>2, <4>3, <4>4, Zenon DEF Formed
    <3>4. Len(call.items) = 0 /\ Len(call.tail) = 0 /\ 0 \in 0 .. 0
      BY <3>1, <3>2
    <3>5. Len(format) = 0
      <4>1. Behind(0) + 0 = Len(format) /\ Behind(0) = 0
        BY <3>3, <3>4, Places
      <4> QED
        BY <4>1
    <3>6. Whole = <<>>
      <4>1. Whole = Meaning(0) \o Lit(0) /\ Meaning(0) = <<>>
        BY <3>3, <3>4, Meanings
      <4>2. Lit(0) = <<>>
        BY <3>1, <3>4 DEF Lit
      <4> QED
        BY <4>1, <4>2
    <3>7. StoredBy(Len(call.items)) = <<>>
      BY <3>3, <3>4, Storings
    <3>8. Room = 0
      BY <3>1 DEF Room
    <3>9. Ended
      BY <2>1, <3>2, <3>5, <3>6, <3>7, <3>8 DEF Ended
    <3> QED
      BY <2>1, <3>3, <3>9 DEF FormatInv
  <2> QED
    BY <2>1, BeginsRight, Zenon DEF LibInit
<1>2. FormatInv /\ [LibNext]_<<vars, strings>> => FormatInv'
  <2> SUFFICES ASSUME FormatInv, [LibNext]_<<vars, strings>> PROVE FormatInv'
    OBVIOUS
  <2>1. [Next]_vars
    BY Zenon DEF LibNext
  <2> QED
    BY <2>1, FormatSteps
<1> QED
  BY <1>1, <1>2, PTL DEF LibSpec

\* No call of npf_vsnprintf, of any format with its arguments and any size of
\* buffer, puts a character behind the buffer, and a buffer that has room for
\* one holds a string in the end.
THEOREM BufferNeverOverrun == LibSpec => []StaysInBuffer
<1>1. FormatInv => StaysInBuffer
  BY BufferHolds
<1> QED
  BY <1>1, FormatInvariant, PTL

\* Every call understands each directive as it was written, the string is the
\* beginning of what C and the comments of nanoprintf say the directives mean,
\* for every set of flags, width, precision, length and argument, its length is
\* counted whole, and %n stores the length before it.
THEOREM FormatsAsStandard == LibSpec => []FormatterAsC
<1>1. FormatInv => FormatterAsC
  <2> SUFFICES ASSUME FormatInv PROVE FormatterAsC
    OBVIOUS
  <2>1. ParserFindsSpec
    <3>1. Formed(call)
      BY Zenon DEF FormatInv
    <3> QED
      BY <3>1, SpecIs
  <2>2. FormatsAsC /\ CountsWhole
    BY StringIs, CountIs
  <2> QED
    BY <2>1, <2>2, Zenon DEF FormatterAsC
<1> QED
  BY <1>1, FormatInvariant, PTL
==============================================================================
