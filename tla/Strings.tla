------------------------------- MODULE Strings -------------------------------
(***************************************************************************)
(* The functions of src/lib/string.c, a turn of a loop at a time, over a   *)
(* memory of bytes.  cs is the first pointer (dest, s), ct the second      *)
(* (src); both move.  ret is NULL, a pointer or a number.                  *)
(***************************************************************************)
EXTENDS Integers, Sequences, FiniteSetsExt

CONSTANTS Memories,  \* contents of memory: sequences of bytes, from address 1
          WordSize,  \* sizeof(unsigned long)
          Chars      \* the int arguments of memset, memchr, strchr, strrchr

ASSUME StringsAssumption == /\ Memories \subseteq Seq(0 .. 255)
                            /\ WordSize \in Nat \ {0}
                            /\ Chars \subseteq Int

Functions_ == {"memset", "memcmp", "memcpy", "memmove", "memchr", "strlen",
               "strncpy", "strcmp", "strncmp", "strchr", "strrchr"}
NoPointer == 0   \* NULL

VARIABLES
    op,      \* [fn, cs, ct, c, n, mem]: the call, and memory as it was
    mem,
    cs, ct,  \* the pointers
    n,       \* bytes left to do
    at,      \* the loop a copy is in
    last,    \* strrchr: where the character was found last
    ret,
    reads    \* history: the addresses read

strings == <<op, mem, cs, ct, n, at, last, ret, reads>>

Running == -1000
Byte_(c) == c % 256

\* A string that begins at p ends in memory, before its last byte.
End(m, p) == CHOOSE e \in p .. Len(m) :
                 m[e] = 0 /\ \A k \in p .. e - 1 : m[k] # 0
IsString(m, p) == \E e \in p .. Len(m) - 1 : m[e] = 0

\* A call whose operands are in memory, as the function wants them.
Legal(o) ==
    /\ o.fn \in {"memset", "memcpy", "memmove", "strncpy", "memcmp", "memchr"}
         => o.cs + o.n - 1 <= Len(o.mem)
    /\ o.fn \in {"memcpy", "memmove", "memcmp"} => o.ct + o.n - 1 <= Len(o.mem)
    /\ o.fn \in {"strlen", "strchr", "strrchr", "strcmp", "strncmp"}
         => IsString(o.mem, o.cs)
    /\ o.fn \in {"strcmp", "strncmp", "strncpy"} => IsString(o.mem, o.ct)
    /\ o.fn = "strncpy" => o.ct > o.cs + o.n - 1 \/ End(o.mem, o.ct) < o.cs

Aligned(o) == (o.cs - 1) % WordSize = 0 /\ (o.ct - 1) % WordSize = 0

\* Mutant: memmove copies forwards whatever the order.
Part_Forward(o) ==
    CASE o.fn = "memcpy" -> IF Aligned(o) THEN "words" ELSE "bytes"
      [] o.fn = "memmove" -> "forward"
      [] OTHER -> "none"

\* Where a copy begins: with words, if both pointers are aligned, or bytes;
\* a move to a higher address at the end.
Part(o) ==
    CASE o.fn = "memcpy" -> IF Aligned(o) THEN "words" ELSE "bytes"
      [] o.fn = "memmove" -> IF o.cs < o.ct THEN "forward" ELSE "backward"
      [] OTHER -> "none"

Start(o) ==
    /\ op = o /\ mem = o.mem /\ n = o.n /\ at = Part(o)
    /\ LET skip == IF Part(o) = "backward" THEN o.n ELSE 0
       IN  cs = o.cs + skip /\ ct = o.ct + skip
    /\ ret = IF o.fn \in {"memcpy", "memmove"} /\ o.cs = o.ct
             THEN o.cs ELSE Running
    /\ reads = {} /\ last = NoPointer

StringsInit ==
    \E fn \in Functions_, m \in Memories :
        \E p, q \in DOMAIN m, c \in Chars, k \in 0 .. Len(m) :
            LET o == [fn |-> fn, cs |-> p, ct |-> q, c |-> c, n |-> k, mem |-> m]
            IN  Legal(o) /\ Start(o)

-----------------------------------------------------------------------------

In(fn) == ret = Running /\ op.fn = fn
Returns(value) == ret' = value /\ UNCHANGED <<mem, cs, ct, n, at, last>>
Read(addresses) == reads' = reads \cup addresses
Step(dcs, dct, dn) == /\ cs' = cs + dcs /\ ct' = ct + dct /\ n' = n + dn
                      /\ UNCHANGED <<at, last, ret>>

memset ==
    /\ In("memset") /\ UNCHANGED reads
    /\ \/ n = 0 /\ Returns(op.cs)
       \/ n > 0 /\ mem' = [mem EXCEPT ![cs] = Byte_(op.c)] /\ Step(1, 0, -1)

memcmp ==
    /\ In("memcmp")
    /\ \/ n = 0 /\ Returns(0) /\ UNCHANGED reads
       \/ /\ n > 0 /\ Read({cs, ct})
          /\ \/ mem[cs] # mem[ct] /\ Returns(mem[cs] - mem[ct])
             \/ mem[cs] = mem[ct] /\ Step(1, 1, -1) /\ UNCHANGED mem

CopyWord ==
    /\ at = "words" /\ n >= WordSize /\ Read(ct .. ct + WordSize - 1)
    /\ mem' = [a \in DOMAIN mem |-> IF a \in cs .. cs + WordSize - 1
                                    THEN mem[ct + (a - cs)] ELSE mem[a]]
    /\ Step(WordSize, WordSize, -WordSize)

CopyByte ==
    /\ n > 0 /\ Read({ct})
    /\ mem' = [mem EXCEPT ![cs] = mem[ct]] /\ Step(1, 1, -1)

memcpy ==
    /\ In("memcpy")
    /\ \/ CopyWord
       \/ /\ at = "words" /\ n < WordSize /\ at' = "bytes"
          /\ UNCHANGED <<mem, cs, ct, n, last, ret, reads>>
       \/ at = "bytes" /\ CopyByte
       \/ at = "bytes" /\ n <= 0 /\ Returns(op.cs) /\ UNCHANGED reads

memmove ==
    /\ In("memmove")
    /\ \/ at = "forward" /\ CopyByte
       \/ /\ at = "backward" /\ n > 0 /\ Read({ct - 1})
          /\ mem' = [mem EXCEPT ![cs - 1] = mem[ct - 1]] /\ Step(-1, -1, -1)
       \/ n = 0 /\ Returns(op.cs) /\ UNCHANGED reads

memchr ==
    /\ In("memchr")
    /\ \/ n = 0 /\ Returns(NoPointer) /\ UNCHANGED reads
       \/ /\ n > 0 /\ Read({cs})
          /\ \/ mem[cs] = Byte_(op.c) /\ Returns(cs)
             \/ mem[cs] # Byte_(op.c) /\ Step(1, 0, -1) /\ UNCHANGED mem

strlen ==
    /\ In("strlen") /\ Read({cs})
    /\ \/ mem[cs] = 0 /\ Returns(cs - op.cs)
       \/ mem[cs] # 0 /\ Step(1, 0, 0) /\ UNCHANGED mem

\* The source stays at its terminator while the rest is filled.
strncpy ==
    /\ In("strncpy")
    /\ \/ n = 0 /\ Returns(op.cs) /\ UNCHANGED reads
       \/ /\ n > 0 /\ Read({ct})
          /\ mem' = [mem EXCEPT ![cs] = mem[ct]]
          /\ Step(1, IF mem[ct] # 0 THEN 1 ELSE 0, -1)

strcmp ==
    /\ In("strcmp") /\ Read({cs, ct})
    /\ \/ mem[cs] # mem[ct] /\ Returns(mem[cs] - mem[ct])
       \/ mem[cs] = mem[ct] /\ mem[cs] = 0 /\ Returns(0)
       \/ mem[cs] = mem[ct] /\ mem[cs] # 0 /\ Step(1, 1, 0) /\ UNCHANGED mem

strncmp ==
    /\ In("strncmp")
    /\ \/ n = 0 /\ Returns(0) /\ UNCHANGED reads
       \/ /\ n > 0 /\ Read({cs, ct})
          /\ \/ mem[cs] # mem[ct] /\ Returns(mem[cs] - mem[ct])
             \/ mem[cs] = mem[ct] /\ mem[cs] = 0 /\ Returns(0)
             \/ /\ mem[cs] = mem[ct] /\ mem[cs] # 0
                /\ Step(1, 1, -1) /\ UNCHANGED mem

strchr ==
    /\ In("strchr") /\ Read({cs})
    /\ \/ mem[cs] = Byte_(op.c) /\ Returns(cs)
       \/ mem[cs] # Byte_(op.c) /\ mem[cs] = 0 /\ Returns(NoPointer)
       \/ /\ mem[cs] # Byte_(op.c) /\ mem[cs] # 0
          /\ Step(1, 0, 0) /\ UNCHANGED mem

strrchr ==
    /\ In("strrchr") /\ Read({cs})
    /\ LET found == IF mem[cs] = Byte_(op.c) THEN cs ELSE last
       IN  \/ /\ mem[cs] # 0 /\ last' = found /\ cs' = cs + 1
              /\ UNCHANGED <<mem, ct, n, at, ret>>
           \/ mem[cs] = 0 /\ Returns(found)

StringsNext ==
    /\ UNCHANGED op
    /\ \/ memset \/ memcmp \/ memcpy \/ memmove \/ memchr \/ strlen
       \/ strncpy \/ strcmp \/ strncmp \/ strchr \/ strrchr

-----------------------------------------------------------------------------
(* Properties, against what the C library says of the call. *)

\* The bytes of the string at p; Same(k): the operands' k-th bytes agree.
Upto(p) == p .. End(op.mem, p)
Same(k) == op.mem[op.cs + k] = op.mem[op.ct + k]
First(S) == IF S = {} THEN NoPointer ELSE Min(S)
Found(S) == {a \in S : op.mem[a] = Byte_(op.c)}

\* The difference at the first of those places where the operands differ.
Difference(places) ==
    LET differ == {k \in places : ~Same(k)}
    IN  IF differ = {} THEN 0
        ELSE op.mem[op.cs + Min(differ)] - op.mem[op.ct + Min(differ)]

\* Places to compare in two strings: up to the end of the first.
Common == 0 .. Min({End(op.mem, op.cs) - op.cs, End(op.mem, op.ct) - op.ct})

Result ==
    CASE op.fn \in {"memset", "memcpy", "memmove", "strncpy"} -> op.cs
      [] op.fn = "memcmp" -> Difference(0 .. op.n - 1)
      [] op.fn = "memchr" -> First(Found(op.cs .. op.cs + op.n - 1))
      [] op.fn = "strlen" -> End(op.mem, op.cs) - op.cs
      [] op.fn = "strcmp" -> Difference(Common)
      [] op.fn = "strncmp" -> Difference(Common \cap 0 .. op.n - 1)
      [] op.fn = "strchr" -> First(Found(Upto(op.cs)))
      [] op.fn = "strrchr" -> LET S == Found(Upto(op.cs))
                              IN  IF S = {} THEN NoPointer ELSE Max(S)

\* What byte k of the destination becomes.  memcpy is asked to copy over
\* itself by the loader: it repeats what lies between the pointers.
Written(k) ==
    CASE op.fn = "memset" -> Byte_(op.c)
      [] op.fn = "memcpy" -> op.mem[op.ct + (IF op.cs > op.ct
                                             THEN k % (op.cs - op.ct) ELSE k)]
      [] op.fn = "memmove" -> op.mem[op.ct + k]
      [] op.fn = "strncpy" -> IF op.ct + k \in Upto(op.ct)
                              THEN op.mem[op.ct + k] ELSE 0

Writes == op.fn \in {"memset", "memcpy", "memmove", "strncpy"}

\* A function returns what the C library says and leaves memory as it says,
\* with operands that overlap, empty ones, and bytes above 127
\* (string.c:16-165).
FunctionsAsC ==
    ret # Running =>
      /\ ret = Result
      /\ \A a \in DOMAIN mem :
            mem[a] = IF Writes /\ a \in op.cs .. op.cs + op.n - 1
                     THEN Written(a - op.cs) ELSE op.mem[a]

Operands ==
    LET first == op.cs .. op.cs + op.n - 1
        second == op.ct .. op.ct + op.n - 1
    IN  CASE op.fn \in {"memcpy", "memmove"} -> second
          [] op.fn = "memcmp" -> first \cup second
          [] op.fn = "memchr" -> first
          [] op.fn = "strncpy" -> second \cap Upto(op.ct)
          [] op.fn = "strncmp" -> (first \cap Upto(op.cs))
                                  \cup (second \cap Upto(op.ct))
          [] op.fn = "strcmp" -> Upto(op.cs) \cup Upto(op.ct)
          [] op.fn = "memset" -> {}
          [] OTHER -> Upto(op.cs)

\* No function reads a byte that is not its caller's: not behind a string's
\* terminator, not behind the count (string.c:23-165).
ReadsOperands == reads \subseteq Operands

\* A function does what C says of it and looks at nothing but its operands
\* (string.c:16-165).
StringsAsC == FunctionsAsC /\ ReadsOperands
=============================================================================
