------------------------------ MODULE FdtProofs ------------------------------
(* What the operators of libfdt's model preserve: bytes, tags, the walk over *)
(* the structure block, the tree it means.                                   *)
EXTENDS FdtRw, Numbers, SequenceTheorems

USE DEF HeaderSize, FDT_TAGSIZE, PropertySize, ReserveSize, NUL, Junk,
        FDT_BEGIN_NODE, FDT_END_NODE, FDT_PROP, FDT_NOP, FDT_END

Cell == Nat \cup {Junk}

\* Bytes of a blob that are there are a piece of memory.
LEMMA BytesOf ==
  ASSUME NEW b \in Blob, NEW x \in Int, NEW n \in Nat,
         HeaderSize <= x, x + n <= End(b)
  PROVE  /\ Bytes(b, x, n) \in Seq(Cell) /\ Len(Bytes(b, x, n)) = n
         /\ \A i \in 1 .. n : Bytes(b, x, n)[i] = Byte(b, x + i - 1)
<1> DEFINE m == b.mem
           lo == x - HeaderSize + 1
           hi == x - HeaderSize + n
<1>1. m \in Seq(Cell) /\ lo \in Int /\ hi \in Int /\ hi - lo + 1 = n
      /\ 1 <= lo /\ hi <= Len(m)
  BY DEF Blob, End, HeaderSize, Cell
<1>2. Bytes(b, x, n) = SubSeq(m, lo, hi)
  BY DEF Bytes
<1>3. \A i \in 1 .. n : Byte(b, x + i - 1) = m[lo + i - 1]
  BY DEF Byte, HeaderSize
<1> HIDE DEF m, lo, hi
<1>4. \A i \in lo .. hi : m[i] \in Cell
  BY <1>1
<1>5. /\ SubSeq(m, lo, hi) \in Seq(Cell)
      /\ Len(SubSeq(m, lo, hi)) = IF lo <= hi THEN hi - lo + 1 ELSE 0
      /\ \A i \in 1 .. hi - lo + 1 : SubSeq(m, lo, hi)[i] = m[lo + i - 1]
  BY <1>1, <1>4, SubSeqProperties
<1>6. Len(SubSeq(m, lo, hi)) = n
  BY <1>1, <1>5
<1> QED
  BY <1>1, <1>2, <1>3, <1>5, <1>6

\* A blob ends somewhere.
LEMMA EndOf ==
  ASSUME NEW b \in Blob
  PROVE  End(b) \in Nat /\ HeaderSize <= End(b)
BY DEF Blob, End

\* The byte at an address of the blob is a byte, or nothing yet.
LEMMA ByteOf ==
  ASSUME NEW b \in Blob, NEW x \in HeaderSize .. End(b) - 1
  PROVE  Byte(b, x) \in Cell
BY DEF Blob, End, HeaderSize, Cell, Byte

\* Three pieces of memory behind each other.
Joined(m, S, s, t, u, k, l, n) ==
    /\ m \in Seq(S) /\ Len(m) = n
    /\ k \in Nat /\ l \in Nat /\ n \in Nat /\ k <= l /\ l <= n
    /\ \A i \in 1 .. k : m[i] = s[i]
    /\ \A i \in k + 1 .. l : m[i] = t[i - k]
    /\ \A i \in l + 1 .. n : m[i] = u[i - l]

\* That is what their concatenation is.
LEMMA Concat3 ==
  ASSUME NEW S, NEW s \in Seq(S), NEW t \in Seq(S), NEW u \in Seq(S),
         NEW k, NEW l, NEW n, k = Len(s), l = k + Len(t), n = l + Len(u)
  PROVE  Joined(s \o t \o u, S, s, t, u, k, l, n)
<1>1. /\ s \o t \in Seq(S) /\ Len(s \o t) = Len(s) + Len(t)
      /\ \A i \in 1 .. Len(s) + Len(t) : (s \o t)[i] =
            IF i <= Len(s) THEN s[i] ELSE t[i - Len(s)]
  BY ConcatProperties
<1> DEFINE v == s \o t
<1>2. /\ v \o u \in Seq(S) /\ Len(v \o u) = Len(v) + Len(u)
      /\ \A i \in 1 .. Len(v) + Len(u) : (v \o u)[i] =
            IF i <= Len(v) THEN v[i] ELSE u[i - Len(v)]
  BY <1>1, ConcatProperties
<1>3. Len(s) \in Nat /\ Len(t) \in Nat /\ Len(u) \in Nat
  OBVIOUS
<1> QED
  BY <1>1, <1>2, <1>3 DEF Joined

\* Room is there, and nothing in it.
LEMMA RoomOf ==
  ASSUME NEW n \in Nat
  PROVE  Room(n) \in Seq(Cell) /\ Len(Room(n)) = n
<1> SUFFICES Room(n) \in [1 .. n -> Cell]
  OBVIOUS
<1> QED
  BY DEF Room, Cell

\* What a memcpy of bytes to address x leaves.
StoredAt(b, c, x, bytes) ==
    /\ c \in Blob
    /\ c = [b EXCEPT !.mem = c.mem]
    /\ End(c) = End(b)
    /\ \A y \in HeaderSize .. End(b) - 1 :
          Byte(c, y) = IF x <= y /\ y < x + Len(bytes)
                       THEN bytes[y - x + 1] ELSE Byte(b, y)

\* Store writes its bytes and no others.
LEMMA StoreWrites ==
  ASSUME NEW b \in Blob, NEW bytes \in Seq(Cell), NEW x \in Int,
         HeaderSize <= x, x + Len(bytes) <= End(b)
  PROVE  StoredAt(b, Store(b, x, bytes), x, bytes)
<1> DEFINE n == Len(bytes)
           front == Bytes(b, HeaderSize, x - HeaderSize)
           back == Bytes(b, x + n, End(b) - x - n)
           m == front \o bytes \o back
           c == Store(b, x, bytes)
<1>1. n \in Nat /\ x - HeaderSize \in Nat /\ End(b) - x - n \in Nat
      /\ End(b) \in Nat
  BY DEF HeaderSize, Blob, End
<1>2. /\ front \in Seq(Cell) /\ Len(front) = x - HeaderSize
      /\ \A i \in 1 .. x - HeaderSize : front[i] = Byte(b, HeaderSize + i - 1)
  BY SMTT(60), <1>1, BytesOf DEF HeaderSize
<1>3. /\ back \in Seq(Cell) /\ Len(back) = End(b) - x - n
      /\ \A i \in 1 .. End(b) - x - n : back[i] = Byte(b, x + n + i - 1)
  <2>1. /\ x + n \in Int /\ HeaderSize <= x + n
        /\ (x + n) + (End(b) - x - n) <= End(b)
    BY <1>1
  <2> QED
    BY <1>1, <2>1, BytesOf
<1>4. c = [b EXCEPT !.mem = m]
  BY DEF Store
<1> HIDE DEF n, front, back, c
<1>5. /\ m \in Seq(Cell) /\ Len(m) = End(b) - HeaderSize
      /\ \A i \in 1 .. x - HeaderSize : m[i] = front[i]
      /\ \A i \in x - HeaderSize + 1 .. x - HeaderSize + n :
            m[i] = bytes[i - (x - HeaderSize)]
      /\ \A i \in x - HeaderSize + n + 1 .. End(b) - HeaderSize :
            m[i] = back[i - (x - HeaderSize + n)]
  <2> DEFINE k == x - HeaderSize
             l == x - HeaderSize + n
             e == End(b) - HeaderSize
  <2>1. k = Len(front) /\ l = k + Len(bytes) /\ e = l + Len(back)
    BY <1>1, <1>2, <1>3 DEF n
  <2> HIDE DEF k, l, e
  <2>2. Joined(m, Cell, front, bytes, back, k, l, e)
    BY <2>1, <1>2, <1>3, Concat3, Zenon
  <2> QED
    BY <2>2 DEF k, l, e, Joined
<1> HIDE DEF m
<1>7. c \in Blob /\ c.mem = m /\ c = [b EXCEPT !.mem = c.mem]
  <2>1. c.mem = m
    BY <1>4 DEF Blob
  <2>2. c \in Blob
    BY <1>4, <1>5 DEF Blob, Cell
  <2> QED
    BY <1>4, <2>1, <2>2, Zenon
<1>8. End(c) = End(b)
  BY <1>5, <1>7, <1>1 DEF End
<1>9. ASSUME NEW y \in HeaderSize .. End(b) - 1
      PROVE  Byte(c, y) = IF x <= y /\ y < x + n
                          THEN bytes[y - x + 1] ELSE Byte(b, y)
  <2> DEFINE i == y - HeaderSize + 1
  <2>1. i \in 1 .. End(b) - HeaderSize /\ y \in Int /\ y = HeaderSize + i - 1
    BY <1>1
  <2>2. Byte(c, y) = m[i]
    BY <1>7 DEF Byte
  <2> HIDE DEF i
  <2>3. CASE y < x
    <3>1. i \in 1 .. x - HeaderSize
      BY <2>1, <2>3, <1>1
    <3>2. m[i] = Byte(b, y)
      BY <3>1, <1>5, <1>2, <2>1
    <3> QED
      BY <3>2, <2>2, <2>3, <1>1, <2>1
  <2>4. CASE x <= y /\ y < x + n
    <3>1. /\ i \in x - HeaderSize + 1 .. x - HeaderSize + n
          /\ i - (x - HeaderSize) = y - x + 1
      BY <2>1, <2>4, <1>1
    <3> QED
      BY <3>1, <1>5, <2>2, <2>4
  <2>5. CASE y >= x + n
    <3>1. /\ i \in x - HeaderSize + n + 1 .. End(b) - HeaderSize
          /\ i - (x - HeaderSize + n) \in 1 .. End(b) - x - n
          /\ x + n + (i - (x - HeaderSize + n)) - 1 = y
      BY <2>1, <2>5, <1>1
    <3>2. m[i] = Byte(b, y)
      BY <3>1, <1>5, <1>3
    <3> QED
      BY SMTT(60), <3>2, <2>2, <2>5, <1>1, <2>1
  <2> QED
    BY <2>3, <2>4, <2>5, <2>1, <1>1
<1> QED
  BY <1>7, <1>8, <1>9 DEF StoredAt, n, c

------------------------------------------------------------------------------
\* A tree that can be edited: its blocks are behind each other and whole.
LaidOut(b) ==
    /\ b \in Blob /\ b.version = 17
    /\ b.off_mem_rsvmap % 8 = 0 /\ b.off_dt_struct % 4 = 0
    /\ HeaderSize <= b.off_mem_rsvmap
    /\ b.off_mem_rsvmap + ReserveSize <= b.off_dt_struct
    /\ b.off_dt_struct + b.size_dt_struct <= b.off_dt_strings
    /\ fdt_data_size_(b) <= b.totalsize
    /\ fdt_data_size_(b) <= End(b)

\* Below an address c has the bytes of b; from it on, moved by d.
Kept(b, c, x)     == \A y \in HeaderSize .. x - 1 : Byte(c, y) = Byte(b, y)
Moved(b, c, x, d) == \A y \in x .. fdt_data_size_(b) - 1 :
                         Byte(c, y + d) = Byte(b, y)

\* c is b with something else for old bytes at lo of the structure block: new
\* bytes, of which nothing is said.
Edited(b, c, lo, old, new) ==
    /\ c \in Blob
    /\ c.version = b.version /\ c.totalsize = b.totalsize
    /\ c.off_mem_rsvmap = b.off_mem_rsvmap
    /\ c.off_dt_struct = b.off_dt_struct
    /\ c.size_dt_strings = b.size_dt_strings
    /\ c.size_dt_struct = b.size_dt_struct + new - old
    /\ c.off_dt_strings = b.off_dt_strings + new - old
    /\ End(c) = fdt_data_size_(b) + new - old
    /\ fdt_data_size_(b) + new - old <= b.totalsize
    /\ Kept(b, c, b.off_dt_struct + lo)
    /\ Moved(b, c, b.off_dt_struct + lo + old, new - old)

\* The numbers of an editable tree.
LEMMA LaidNumbers ==
  ASSUME NEW b, LaidOut(b)
  PROVE  /\ b \in Blob /\ b.version = 17
         /\ b.totalsize \in Nat /\ b.off_mem_rsvmap \in Nat
         /\ b.off_dt_struct \in Nat /\ b.size_dt_struct \in Nat
         /\ b.off_dt_strings \in Nat /\ b.size_dt_strings \in Nat
         /\ HeaderSize + ReserveSize <= b.off_dt_struct
         /\ b.off_dt_struct + b.size_dt_struct <= b.off_dt_strings
         /\ fdt_data_size_(b) = b.off_dt_strings + b.size_dt_strings
         /\ fdt_data_size_(b) \in Nat /\ End(b) \in Nat
         /\ fdt_data_size_(b) <= b.totalsize
         /\ fdt_data_size_(b) <= End(b)
         /\ b.off_dt_struct + b.size_dt_struct <= fdt_data_size_(b)
         /\ HeaderSize <= b.off_dt_struct
<1>1. b \in Blob /\ b.version = 17
  BY DEF LaidOut
<1>2. /\ b.totalsize \in Nat /\ b.off_mem_rsvmap \in Nat
      /\ b.off_dt_struct \in Nat /\ b.size_dt_struct \in Nat
      /\ b.off_dt_strings \in Nat /\ b.size_dt_strings \in Nat
      /\ End(b) \in Nat
  BY <1>1 DEF Blob, End
<1>3. fdt_data_size_(b) = b.off_dt_strings + b.size_dt_strings
  BY DEF fdt_data_size_
<1>4. /\ HeaderSize <= b.off_mem_rsvmap
      /\ b.off_mem_rsvmap + ReserveSize <= b.off_dt_struct
      /\ b.off_dt_struct + b.size_dt_struct <= b.off_dt_strings
      /\ fdt_data_size_(b) <= b.totalsize
      /\ fdt_data_size_(b) <= End(b)
  BY DEF LaidOut
<1> QED
  BY <1>1, <1>2, <1>3, <1>4

\* The lesser of two numbers.
LEMMA MinOf2 ==
  ASSUME NEW i \in Int, NEW j \in Int
  PROVE  Min({i, j}) = IF i <= j THEN i ELSE j
<1> DEFINE m == IF i <= j THEN i ELSE j
<1>1. m \in {i, j} /\ \A y \in {i, j} : m <= y
  OBVIOUS
<1>2. \A x \in {i, j} : (\A y \in {i, j} : x <= y) => x = m
  OBVIOUS
<1> HIDE DEF m
<1>3. (CHOOSE x \in {i, j} : \A y \in {i, j} : x <= y) = m
  BY <1>1, <1>2
<1>4. Min({i, j}) = m
  BY <1>3 DEF Min
<1> QED
  BY <1>4 DEF m

\* An editable tree passes FDT_RW_PROBE.
LEMMA Probe ==
  ASSUME NEW b, LaidOut(b)
  PROVE  fdt_rw_probe_(b) = Result(Done, b)
<1>1. ~(b.version < 17)
  BY DEF LaidOut
<1>2. ~fdt_blocks_misordered_(b, ReserveSize, b.size_dt_struct)
  BY SMTT(60) DEF LaidOut, fdt_blocks_misordered_, FDT_ALIGN, Blob, fdt_data_size_
<1> QED
  BY <1>1, <1>2 DEF fdt_rw_probe_

\* A splice anywhere in the data: lengths, and the bytes that stay.
Spliced(b, c, at, old, new) ==
    /\ c \in Blob /\ c = [b EXCEPT !.mem = c.mem]
    /\ End(c) = fdt_data_size_(b) + new - old
    /\ Kept(b, c, at)
    /\ Moved(b, c, at + old, new - old)

\* fdt_splice_ succeeds if there is room, and leaves the rest as it was.
LEMMA Splice ==
  ASSUME NEW b \in Blob, NEW at \in Nat, NEW old \in Nat, NEW new \in Nat,
         HeaderSize <= at, at + old <= fdt_data_size_(b),
         fdt_data_size_(b) <= End(b),
         NEW r, r = fdt_splice_(b, at, old, new)
  PROVE  IF fdt_data_size_(b) - old + new > b.totalsize
         THEN r = Result(NoSpace, b)
         ELSE r.ret = Done /\ Spliced(b, r.b, at, old, new)
<1> DEFINE dsize == fdt_data_size_(b)
           kept == Min({old, new})
           front == Bytes(b, HeaderSize, at + kept - HeaderSize)
           back == Bytes(b, at + old, dsize - at - old)
           m == front \o Room(new - kept) \o back
           c == [b EXCEPT !.mem = m]
<1>1. dsize \in Nat /\ End(b) \in Nat /\ at + old <= dsize /\ dsize <= End(b)
  BY DEF Blob, End, fdt_data_size_
<1>2. kept \in Nat /\ kept <= old /\ kept <= new
  BY MinOf2
<1>3. ~(at + old > dsize)
  BY <1>1
<1>4. r = IF dsize - old + new > b.totalsize THEN Result(NoSpace, b)
          ELSE Result(Done, c)
  BY <1>3, Zenon DEF fdt_splice_
<1> HIDE DEF kept, front, back, dsize
<1> SUFFICES ASSUME ~(dsize - old + new > b.totalsize)
             PROVE  Result(Done, c).ret = Done
                    /\ Spliced(b, Result(Done, c).b, at, old, new)
  BY <1>4, Zenon DEF dsize
<1>5. Result(Done, c).ret = Done /\ Result(Done, c).b = c
  BY DEF Result
<1>6. /\ front \in Seq(Cell) /\ Len(front) = at + kept - HeaderSize
      /\ \A i \in 1 .. at + kept - HeaderSize :
            front[i] = Byte(b, HeaderSize + i - 1)
  <2>1. at + kept - HeaderSize \in Nat
        /\ HeaderSize + (at + kept - HeaderSize) <= End(b)
    BY <1>1, <1>2
  <2> QED
    BY <2>1, BytesOf DEF front
<1>7. /\ back \in Seq(Cell) /\ Len(back) = dsize - at - old
      /\ \A i \in 1 .. dsize - at - old : back[i] = Byte(b, at + old + i - 1)
  <2>1. /\ dsize - at - old \in Nat /\ HeaderSize <= at + old
        /\ at + old + (dsize - at - old) <= End(b) /\ at + old \in Int
    BY <1>1, <1>2
  <2> QED
    BY <2>1, BytesOf DEF back
<1>8. Room(new - kept) \in Seq(Cell) /\ Len(Room(new - kept)) = new - kept
  BY <1>2, RoomOf
<1> DEFINE k == at + kept - HeaderSize
           l == at + new - HeaderSize
           e == dsize - old + new - HeaderSize
<1>9. Joined(m, Cell, front, Room(new - kept), back, k, l, e)
  <2>1. k = Len(front)
    BY <1>6
  <2>2. l = k + (new - kept) /\ e = l + (dsize - at - old)
    BY <1>1, <1>2
  <2> HIDE DEF k, l, e
  <2>3. l = k + Len(Room(new - kept))
    BY <2>2, <1>8
  <2>4. e = l + Len(back)
    BY <2>2, <1>7
  <2> QED
    BY <2>1, <2>3, <2>4, <1>6, <1>7, <1>8, Concat3, Zenon
<1> HIDE DEF m
<1>10. c \in Blob /\ c.mem = m /\ c = [b EXCEPT !.mem = c.mem]
  <2>a. m \in Seq(Cell)
    BY <1>9 DEF Joined
  <2>1. c.mem = m
    BY DEF Blob
  <2>2. c \in Blob
    BY <2>a DEF Blob, Cell
  <2> QED
    BY <2>1, <2>2, Zenon
<1> HIDE DEF c
<1>11. End(c) = dsize + new - old
  BY SMTT(60), <1>1, <1>9, <1>10 DEF End, Joined
<1>12. ASSUME NEW x \in HeaderSize .. at - 1 PROVE Byte(c, x) = Byte(b, x)
  <2>1. x - HeaderSize + 1 \in 1 .. k
        /\ HeaderSize + (x - HeaderSize + 1) - 1 = x
    BY <1>2
  <2>2. m[x - HeaderSize + 1] = Byte(b, x)
    BY <2>1, <1>6, <1>9 DEF Joined
  <2> QED
    BY <2>2, <1>10 DEF Byte
<1>13. ASSUME NEW x \in at + old .. dsize - 1
       PROVE  Byte(c, x + (new - old)) = Byte(b, x)
  <2> DEFINE i == x + (new - old) - HeaderSize + 1
  <2>1. i \in l + 1 .. e /\ i - l \in 1 .. dsize - at - old
        /\ at + old + (i - l) - 1 = x
    BY <1>1, <1>2
  <2>2. m[i] = Byte(b, x)
    BY <2>1, <1>7, <1>9 DEF Joined
  <2> QED
    BY <2>2, <1>10 DEF Byte
<1> QED
  <2>1. Kept(b, c, at) /\ Moved(b, c, at + old, new - old)
    BY <1>12, <1>13, Zenon DEF Kept, Moved, dsize
  <2> QED
    BY <1>5, <1>10, <1>11, <2>1 DEF Spliced, dsize

\* fdt_splice_struct_ fails for want of room only, and then has done nothing.
LEMMA SpliceStruct ==
  ASSUME NEW b, LaidOut(b), NEW lo \in Nat, NEW old \in Nat, NEW new \in Nat,
         lo + old <= b.size_dt_struct,
         NEW r, r = fdt_splice_struct_(b, lo, old, new)
  PROVE  IF fdt_data_size_(b) - old + new > b.totalsize
         THEN r = Result(NoSpace, b)
         ELSE r.ret = Done /\ Edited(b, r.b, lo, old, new)
<1> DEFINE dsize == fdt_data_size_(b)
           at == b.off_dt_struct + lo
           q == fdt_splice_(b, at, old, new)
           delta == new - old
           done(c) == Result(Done, [c EXCEPT !.size_dt_struct = @ + delta,
                                             !.off_dt_strings = @ + delta])
<1>1. /\ b \in Blob /\ at \in Nat /\ HeaderSize <= at /\ at + old <= dsize
      /\ dsize <= End(b) /\ dsize \in Nat /\ b.totalsize \in Nat
  BY LaidNumbers
<1>2. IF dsize - old + new > b.totalsize THEN q = Result(NoSpace, b)
      ELSE q.ret = Done /\ Spliced(b, q.b, at, old, new)
  <2> HIDE DEF at
  <2> QED
    BY <1>1, Splice
<1>3. r = IF q.ret = Done THEN done(q.b) ELSE q
  BY DEF fdt_splice_struct_, AndThen
<1> HIDE DEF q
<1>4. CASE dsize - old + new > b.totalsize
  <2>1. q = Result(NoSpace, b)
    BY <1>2, <1>4
  <2>2. q.ret # Done
    BY <2>1 DEF Result, NoSpace, Done
  <2> QED
    BY <1>3, <1>4, <2>1, <2>2
<1>5. CASE ~(dsize - old + new > b.totalsize)
  <2>1. q.ret = Done /\ Spliced(b, q.b, at, old, new)
    BY <1>2, <1>5
  <2> DEFINE c == q.b
             e == [c EXCEPT !.size_dt_struct = @ + delta,
                            !.off_dt_strings = @ + delta]
  <2>2. r = Result(Done, e)
    BY <1>3, <2>1
  <2>3. r.ret = Done /\ r.b = e
    BY <2>2 DEF Result
  <2>4. /\ c \in Blob /\ c.version = b.version /\ c.totalsize = b.totalsize
        /\ c.off_mem_rsvmap = b.off_mem_rsvmap
        /\ c.off_dt_struct = b.off_dt_struct
        /\ c.size_dt_strings = b.size_dt_strings
        /\ c.size_dt_struct = b.size_dt_struct
        /\ c.off_dt_strings = b.off_dt_strings
    <3>1. c \in Blob /\ c = [b EXCEPT !.mem = c.mem]
      BY <2>1 DEF Spliced
    <3> QED
      BY <3>1, <1>1 DEF Blob
  <2> HIDE DEF c
  <2>5. /\ e \in Blob /\ e.version = b.version /\ e.totalsize = b.totalsize
        /\ e.off_mem_rsvmap = b.off_mem_rsvmap
        /\ e.off_dt_struct = b.off_dt_struct
        /\ e.size_dt_strings = b.size_dt_strings
        /\ e.size_dt_struct = b.size_dt_struct + new - old
        /\ e.off_dt_strings = b.off_dt_strings + new - old
        /\ e.mem = c.mem
    <3>1. /\ b.size_dt_struct + delta \in Nat
          /\ b.off_dt_strings + delta \in Nat
          /\ b.size_dt_struct + delta = b.size_dt_struct + new - old
          /\ b.off_dt_strings + delta = b.off_dt_strings + new - old
      BY LaidNumbers
    <3> HIDE DEF delta
    <3> QED
      BY <2>4, <3>1 DEF Blob
  <2>6. End(e) = End(c) /\ \A x : Byte(e, x) = Byte(c, x)
    BY <2>5 DEF End, Byte
  <2> HIDE DEF e
  <2>7. /\ End(e) = dsize + new - old
        /\ Kept(b, e, at) /\ Moved(b, e, at + old, new - old)
    BY <2>1, <2>6, Zenon DEF Spliced, c, Kept, Moved
  <2>8. dsize + new - old <= b.totalsize
    BY <1>1, <1>5
  <2>9. Edited(b, e, lo, old, new)
    BY <2>5, <2>7, <2>8, Zenon DEF Edited
  <2> QED
    BY <2>3, <2>9, <1>5
<1> QED
  BY <1>4, <1>5

\* A store into the new bytes changes nothing else.
LEMMA EditedStore ==
  ASSUME NEW b, LaidOut(b), NEW lo \in Nat, NEW old \in Nat, NEW new \in Nat,
         NEW c, Edited(b, c, lo, old, new), NEW bytes \in Seq(Cell),
         NEW x \in Int,
         b.off_dt_struct + lo <= x,
         x + Len(bytes) <= b.off_dt_struct + lo + new,
         lo + old <= b.size_dt_struct
  PROVE  /\ StoredAt(c, Store(c, x, bytes), x, bytes)
         /\ Edited(b, Store(c, x, bytes), lo, old, new)
<1> DEFINE e == Store(c, x, bytes)
           n == Len(bytes)
           S == b.off_dt_struct
           dsize == fdt_data_size_(b)
<1>1. /\ c \in Blob /\ b \in Blob /\ S \in Nat /\ n \in Nat /\ HeaderSize <= S
      /\ dsize \in Nat /\ S + lo + old <= dsize
  <2>1. c \in Blob
    BY DEF Edited
  <2>2. b \in Blob /\ S \in Nat /\ HeaderSize <= S /\ dsize \in Nat
        /\ S + lo + old <= dsize
    <3>1. b \in Blob /\ S \in Nat /\ HeaderSize <= S /\ dsize \in Nat
      BY LaidNumbers
    <3>2. b.size_dt_struct \in Nat /\ S + b.size_dt_struct <= dsize
      BY LaidNumbers
    <3> HIDE DEF S, dsize
    <3> QED
      BY <3>1, <3>2
  <2>3. n \in Nat
    OBVIOUS
  <2> QED
    BY <2>1, <2>2, <2>3
<1>2. /\ End(c) = dsize + new - old
      /\ \A y \in HeaderSize .. (S + lo) - 1 : Byte(c, y) = Byte(b, y)
      /\ \A y \in S + lo + old .. dsize - 1 : Byte(c, y + (new - old)) = Byte(b, y)
  <2>1. End(c) = dsize + new - old
    BY DEF Edited
  <2>2. Kept(b, c, S + lo) /\ Moved(b, c, S + lo + old, new - old)
    BY DEF Edited
  <2> QED
    BY <2>1, <2>2 DEF Kept, Moved
<1>3. StoredAt(c, e, x, bytes)
  <2>1. HeaderSize <= x /\ x + n <= End(c)
    BY SMTT(60), <1>1, <1>2
  <2> HIDE DEF e
  <2> QED
    BY <2>1, <1>1, StoreWrites DEF e
<1> HIDE DEF e
<1>4. /\ e \in Blob /\ e = [c EXCEPT !.mem = e.mem] /\ End(e) = End(c)
      /\ \A y \in HeaderSize .. End(c) - 1 :
            Byte(e, y) = IF x <= y /\ y < x + n
                         THEN bytes[y - x + 1] ELSE Byte(c, y)
  BY <1>3 DEF StoredAt
<1>a. /\ S \in Nat /\ n \in Nat /\ dsize \in Nat /\ HeaderSize <= S
      /\ S + lo + old <= dsize /\ End(c) = dsize + new - old
      /\ S + lo <= x /\ x + n <= S + lo + new
  BY <1>1, <1>2
<1>5. ASSUME NEW y \in HeaderSize .. (S + lo) - 1 PROVE Byte(e, y) = Byte(b, y)
  <2> HIDE DEF S, n, dsize
  <2>1. y \in HeaderSize .. End(c) - 1 /\ ~(x <= y)
    BY <1>a
  <2> QED
    BY <2>1, <1>4, <1>2
<1>6. ASSUME NEW y \in S + lo + old .. dsize - 1
      PROVE  Byte(e, y + (new - old)) = Byte(b, y)
  <2> HIDE DEF S, n, dsize
  <2>1. /\ y + (new - old) \in HeaderSize .. End(c) - 1
        /\ ~(y + (new - old) < x + n)
    BY <1>a
  <2>2. Byte(e, y + (new - old)) = Byte(c, y + (new - old))
    BY <2>1, <1>4
  <2> QED
    BY <2>2, <1>2
<1>7. /\ e.version = c.version /\ e.totalsize = c.totalsize
      /\ e.off_mem_rsvmap = c.off_mem_rsvmap
      /\ e.off_dt_struct = c.off_dt_struct
      /\ e.size_dt_strings = c.size_dt_strings
      /\ e.size_dt_struct = c.size_dt_struct
      /\ e.off_dt_strings = c.off_dt_strings
  BY <1>1, <1>4 DEF Blob
<1>8. Edited(b, e, lo, old, new)
  <2>1. Kept(b, e, S + lo)
    BY <1>5 DEF Kept
  <2>2. Moved(b, e, S + lo + old, new - old)
    BY <1>6 DEF Moved
  <2> QED
    BY <1>2, <1>4, <1>7, <2>1, <2>2 DEF Edited
<1> QED
  BY <1>3, <1>8 DEF e

\* The bytes before a change may be counted among the changed ones.
LEMMA EditedWider ==
  ASSUME NEW b, LaidOut(b), NEW lo \in Nat, NEW old \in Nat, NEW new \in Nat,
         NEW n \in Nat, NEW c, Edited(b, c, lo + n, old, new)
  PROVE  Edited(b, c, lo, old + n, new + n)
<1>1. b.off_dt_struct \in Nat /\ b.size_dt_struct \in Nat
      /\ b.off_dt_strings \in Nat
      /\ fdt_data_size_(b) \in Nat
  BY LaidNumbers
<1>2. Kept(b, c, b.off_dt_struct + lo)
  <2>1. Kept(b, c, b.off_dt_struct + (lo + n))
    BY DEF Edited
  <2> QED
    BY <1>1, <2>1 DEF Kept
<1>3. Moved(b, c, b.off_dt_struct + lo + (old + n), (new + n) - (old + n))
  <2>1. Moved(b, c, b.off_dt_struct + (lo + n) + old, new - old)
    BY DEF Edited
  <2>2. /\ b.off_dt_struct + (lo + n) + old = b.off_dt_struct + lo + (old + n)
        /\ (new + n) - (old + n) = new - old
    BY <1>1
  <2> QED
    BY <2>1, <2>2
<1>4. /\ c.size_dt_struct = b.size_dt_struct + (new + n) - (old + n)
      /\ c.off_dt_strings = b.off_dt_strings + (new + n) - (old + n)
      /\ End(c) = fdt_data_size_(b) + (new + n) - (old + n)
      /\ fdt_data_size_(b) + (new + n) - (old + n) <= b.totalsize
  BY <1>1 DEF Edited
<1> QED
  BY <1>2, <1>3, <1>4 DEF Edited

\* What it leaves can be edited again.
LEMMA EditedLaidOut ==
  ASSUME NEW b, LaidOut(b), NEW lo \in Nat, NEW old \in Nat, NEW new \in Nat,
         NEW c, Edited(b, c, lo, old, new), lo + old <= b.size_dt_struct
  PROVE  LaidOut(c) /\ fdt_data_size_(c) = fdt_data_size_(b) + new - old
                    /\ End(c) = fdt_data_size_(c)
<1>1. /\ b.off_dt_struct \in Nat /\ b.size_dt_struct \in Nat
      /\ b.off_dt_strings \in Nat /\ b.size_dt_strings \in Nat
      /\ fdt_data_size_(b) = b.off_dt_strings + b.size_dt_strings
      /\ fdt_data_size_(c) = c.off_dt_strings + c.size_dt_strings
  <2>1. fdt_data_size_(c) = c.off_dt_strings + c.size_dt_strings
    BY DEF fdt_data_size_
  <2> QED
    BY <2>1, LaidNumbers
<1>2. fdt_data_size_(c) = fdt_data_size_(b) + new - old
      /\ End(c) = fdt_data_size_(c)
  BY <1>1 DEF Edited
<1>3. c.off_dt_struct + c.size_dt_struct <= c.off_dt_strings
  BY <1>1 DEF Edited, LaidOut
<1>4. fdt_data_size_(c) \in Int
  BY <1>1, <1>2
<1>5. fdt_data_size_(c) <= c.totalsize /\ fdt_data_size_(c) <= End(c)
  BY <1>2, <1>4 DEF Edited
<1> QED
  BY <1>2, <1>3, <1>5 DEF Edited, LaidOut

------------------------------------------------------------------------------
\* Words of four bytes.
LEMMA TagAlign ==
  ASSUME NEW n \in Int
  PROVE  /\ FDT_TAGALIGN(n) \in Int /\ n <= FDT_TAGALIGN(n)
         /\ FDT_TAGALIGN(n) <= n + 3 /\ FDT_TAGALIGN(n) % 4 = 0
         /\ n % 4 = 0 => FDT_TAGALIGN(n) = n
         /\ \A d \in Int : d % 4 = 0 =>
               FDT_TAGALIGN(n + d) = FDT_TAGALIGN(n) + d
<1>1. \A k \in Int : FDT_TAGALIGN(k) = ((k + 3) \div 4) * 4
  BY DEF FDT_TAGALIGN, FDT_ALIGN
<1>2. ASSUME NEW d \in Int, d % 4 = 0
      PROVE  FDT_TAGALIGN(n + d) = FDT_TAGALIGN(n) + d
  <2>1. (((n + d) + 3) \div 4) * 4 = ((n + 3) \div 4) * 4 + d
    BY <1>2
  <2>2. FDT_TAGALIGN(n + d) = (((n + d) + 3) \div 4) * 4
    BY <1>1
  <2>3. FDT_TAGALIGN(n) = ((n + 3) \div 4) * 4
    BY <1>1
  <2> QED
    BY <2>1, <2>2, <2>3
<1>3. n % 4 = 0 => FDT_TAGALIGN(n) = n
  <2>1. n % 4 = 0 => ((n + 3) \div 4) * 4 = n
    OBVIOUS
  <2> QED
    BY <1>1, <2>1
<1>4. /\ ((n + 3) \div 4) * 4 \in Int /\ n <= ((n + 3) \div 4) * 4
      /\ ((n + 3) \div 4) * 4 <= n + 3 /\ (((n + 3) \div 4) * 4) % 4 = 0
  OBVIOUS
<1> QED
  BY <1>1, <1>2, <1>3, <1>4

\* The least of some numbers.
LEMMA MinOf ==
  ASSUME NEW S, S \subseteq Nat, S # {}
  PROVE  Min(S) \in S /\ \A k \in S : Min(S) <= k
<1>1. \E m \in S : \A k \in S : m <= k
  BY LeastNat
<1> QED
  BY <1>1, Zenon DEF Min

\* A number below all others of a set is its least.
LEMMA MinIs ==
  ASSUME NEW S, S \subseteq Int, NEW m \in S, \A k \in S : m <= k
  PROVE  Min(S) = m
<1>1. \A x \in S : (\A y \in S : x <= y) => x = m
  OBVIOUS
<1>2. (CHOOSE x \in S : \A y \in S : x <= y) = m
  BY <1>1
<1> QED
  BY <1>2 DEF Min

\* A string of n characters stands at address x, with its NUL.
StringOf(b, x, n) ==
    /\ n \in Nat /\ Byte(b, x + n) = NUL
    /\ \A i \in 0 .. n - 1 : Byte(b, x + i) # NUL

\* It ends at its NUL.
LEMMA StringIs ==
  ASSUME NEW b, NEW x \in Nat, NEW limit \in Int, NEW n \in Nat,
         StringOf(b, x, n), x + n < limit
  PROVE  CString(b, x, limit) = Bytes(b, x, n)
<1> DEFINE nul == {i \in x .. limit - 1 : Byte(b, i) = NUL}
<1>1. nul \subseteq Int /\ x + n \in nul
  BY DEF StringOf
<1>2. ASSUME NEW k \in nul PROVE x + n <= k
  <2>1. k \in Int /\ x <= k /\ Byte(b, k) = NUL
    OBVIOUS
  <2>2. CASE k < x + n
    <3>1. k - x \in 0 .. n - 1 /\ x + (k - x) = k
      BY <2>1, <2>2
    <3>2. Byte(b, k) # NUL
      BY <3>1 DEF StringOf
    <3> QED
      BY <2>1, <3>2
  <2> QED
    BY <2>1, <2>2
<1>3. CString(b, x, limit) =
        Bytes(b, x, (IF nul = {} THEN limit ELSE Min(nul)) - x)
  BY DEF CString
<1> HIDE DEF nul
<1>4. Min(nul) = x + n /\ nul # {}
  BY <1>1, <1>2, MinIs
<1>5. (x + n) - x = n
  OBVIOUS
<1>6. (IF nul = {} THEN limit ELSE Min(nul)) = x + n
  BY <1>4
<1> QED
  BY <1>3, <1>5, <1>6

\* What is read as a string: up to its NUL, or to the limit.
LEMMA StringRead ==
  ASSUME NEW b \in Blob, NEW x \in Nat, NEW limit \in Nat,
         HeaderSize <= x, x <= limit, limit <= End(b),
         NEW s, s = CString(b, x, limit)
  PROVE  /\ s \in Seq(Cell) /\ Len(s) \in Nat
         /\ \A i \in 1 .. Len(s) : s[i] = Byte(b, x + i - 1)
         /\ x + Len(s) <= limit
         /\ x + Len(s) < limit => StringOf(b, x, Len(s))
<1> DEFINE nul == {i \in x .. limit - 1 : Byte(b, i) = NUL}
           n == (IF nul = {} THEN limit ELSE Min(nul)) - x
<1>1. s = Bytes(b, x, n)
  BY DEF CString
<1>2. CASE nul = {}
  <2>1. n = limit - x
    BY <1>2
  <2> HIDE DEF n
  <2>2. n \in Nat /\ x + n <= End(b) /\ x + n = limit
    BY <2>1
  <2>3. s \in Seq(Cell) /\ Len(s) = n
        /\ \A i \in 1 .. n : s[i] = Byte(b, x + i - 1)
    BY <1>1, <2>2, BytesOf
  <2> QED
    BY <2>2, <2>3
<1>3. CASE nul # {}
  <2> DEFINE m == Min(nul)
  <2>1. nul \subseteq Nat
    OBVIOUS
  <2>2. m \in nul /\ \A k \in nul : m <= k
    <3> HIDE DEF nul
    <3> QED
      BY <1>3, <2>1, MinOf
  <2>3. n = m - x
    BY <1>3
  <2>4. m \in x .. limit - 1 /\ Byte(b, m) = NUL
    BY <2>2
  <2>5. ASSUME NEW k \in x .. m - 1 PROVE Byte(b, k) # NUL
    <3>1. k \in x .. limit - 1 /\ ~(m <= k)
      BY <2>4
    <3>2. k \notin nul
      BY <3>1, <2>2
    <3> QED
      BY <3>1, <3>2
  <2> HIDE DEF n, m
  <2>6. n \in Nat /\ x + n <= End(b) /\ x + n = m /\ x + n < limit
    <3>1. End(b) \in Nat
      BY EndOf
    <3>2. m \in x .. limit - 1
      BY <2>4
    <3> QED
      BY <2>3, <3>1, <3>2
  <2>7. s \in Seq(Cell) /\ Len(s) = n
        /\ \A i \in 1 .. n : s[i] = Byte(b, x + i - 1)
    BY <1>1, <2>6, BytesOf
  <2>8. StringOf(b, x, n)
    <3>1. ASSUME NEW i \in 0 .. n - 1 PROVE Byte(b, x + i) # NUL
      <4>1. x + i \in x .. m - 1
        BY <2>6
      <4> QED
        BY <4>1, <2>5
    <3> QED
      BY <2>4, <2>6, <3>1 DEF StringOf
  <2> QED
    BY <2>6, <2>7, <2>8
<1> QED
  BY <1>2, <1>3

\* n bytes from x on in b stand at y in c.
Alike(b, x, c, y, n) ==
    \A i \in 0 .. n - 1 : Byte(c, y + i) = Byte(b, x + i)

\* The same bytes in two places of two blobs are the same string.
LEMMA StringMoves ==
  ASSUME NEW b \in Blob, NEW c \in Blob, NEW x \in Nat, NEW y \in Nat,
         NEW n \in Nat, HeaderSize <= x, HeaderSize <= y,
         x + n < End(b), y + n < End(c), StringOf(b, x, n),
         Alike(b, x, c, y, n + 1)
  PROVE  StringOf(c, y, n) /\ Bytes(c, y, n) = Bytes(b, x, n)
<1>a. \A i \in 0 .. n : Byte(c, y + i) = Byte(b, x + i)
  BY DEF Alike
<1>1. StringOf(c, y, n)
  <2>1. n \in 0 .. n /\ \A i \in 0 .. n - 1 : i \in 0 .. n
    OBVIOUS
  <2> QED
    BY <2>1, <1>a DEF StringOf
<1>2. x + n <= End(b) /\ y + n <= End(c) /\ x \in Int /\ y \in Int
  <2>1. End(b) \in Nat /\ End(c) \in Nat
    BY EndOf
  <2> QED
    BY <2>1
<1>3. /\ Bytes(b, x, n) \in Seq(Cell) /\ Len(Bytes(b, x, n)) = n
      /\ \A i \in 1 .. n : Bytes(b, x, n)[i] = Byte(b, x + i - 1)
  BY <1>2, BytesOf
<1>4. /\ Bytes(c, y, n) \in Seq(Cell) /\ Len(Bytes(c, y, n)) = n
      /\ \A i \in 1 .. n : Bytes(c, y, n)[i] = Byte(c, y + i - 1)
  BY <1>2, BytesOf
<1>5. ASSUME NEW i \in 1 .. n PROVE Bytes(c, y, n)[i] = Bytes(b, x, n)[i]
  <2>1. i - 1 \in 0 .. n /\ y + i - 1 = y + (i - 1) /\ x + i - 1 = x + (i - 1)
    OBVIOUS
  <2>2. Byte(c, y + i - 1) = Byte(b, x + i - 1)
    BY <2>1, <1>a
  <2> QED
    BY <1>3, <1>4, <2>2
<1>6. Bytes(c, y, n) = Bytes(b, x, n)
  <2> HIDE DEF Cell
  <2> QED
    BY <1>3, <1>4, <1>5, SeqEqual
<1> QED
  BY <1>1, <1>6

------------------------------------------------------------------------------
\* The structure block's end for who reads it, and a blob whose tags can be
\* read: as far as offsets are checked there are bytes.
BlockEnd(b) == IF b.version >= 17 THEN b.size_dt_struct
               ELSE End(b) - b.off_dt_struct

Readable(b) ==
    /\ b \in Blob
    /\ HeaderSize <= b.off_dt_struct
    /\ b.off_dt_struct <= End(b)
    /\ IF b.version >= 17
       THEN /\ b.off_dt_struct + b.size_dt_struct <= End(b)
            /\ b.off_dt_struct + b.size_dt_struct <= b.totalsize
       ELSE b.totalsize <= End(b)

\* A tree that can be edited can be read.
LEMMA LaidOutReadable ==
  ASSUME NEW b, LaidOut(b)
  PROVE  Readable(b) /\ BlockEnd(b) = b.size_dt_struct
<1>1. /\ b \in Blob /\ b.version = 17 /\ b.off_dt_struct \in Nat
      /\ HeaderSize + ReserveSize <= b.off_dt_struct
      /\ b.size_dt_struct \in Nat /\ b.totalsize \in Nat /\ End(b) \in Nat
  BY LaidNumbers
<1>2. /\ b.off_dt_struct + b.size_dt_struct <= fdt_data_size_(b)
      /\ fdt_data_size_(b) \in Nat
      /\ fdt_data_size_(b) <= b.totalsize /\ fdt_data_size_(b) <= End(b)
  BY LaidNumbers
<1> QED
  BY <1>1, <1>2 DEF Readable, BlockEnd

\* The numbers of a blob that can be read.
LEMMA ReadNumbers ==
  ASSUME NEW b, Readable(b)
  PROVE  /\ b \in Blob /\ b.version \in {16, 17} /\ b.totalsize \in Nat
         /\ b.off_dt_struct \in Nat /\ b.size_dt_struct \in Nat
         /\ HeaderSize <= b.off_dt_struct /\ End(b) \in Nat
         /\ BlockEnd(b) \in Nat /\ b.off_dt_struct + BlockEnd(b) <= End(b)
<1>1. b \in Blob
  BY DEF Readable
<1>2. /\ b.version \in {16, 17} /\ b.totalsize \in Nat
      /\ b.off_dt_struct \in Nat /\ b.size_dt_struct \in Nat
  BY <1>1 DEF Blob
<1>3. End(b) \in Nat
  BY <1>1, EndOf
<1>4. BlockEnd(b) \in Nat /\ b.off_dt_struct + BlockEnd(b) <= End(b)
      /\ HeaderSize <= b.off_dt_struct
  BY <1>2, <1>3 DEF Readable, BlockEnd
<1> QED
  BY <1>1, <1>2, <1>3, <1>4

\* len bytes at an offset may be read: they are there.
LEMMA OffsetPtr ==
  ASSUME NEW b, Readable(b), NEW o \in Int, NEW len \in Nat,
         fdt_offset_ptr(b, o, len)
  PROVE  /\ o \in Nat /\ o + len <= BlockEnd(b)
         /\ b.off_dt_struct + o + len <= End(b)
         /\ b.off_dt_struct + o + len <= b.totalsize
         /\ \A n \in 0 .. len : fdt_offset_ptr(b, o, n)
<1>1. /\ b.version \in {16, 17} /\ b.totalsize \in Nat
      /\ b.off_dt_struct \in Nat /\ b.size_dt_struct \in Nat
      /\ End(b) \in Nat
  BY ReadNumbers
<1>2. /\ o >= 0 /\ b.off_dt_struct + o + len <= b.totalsize
      /\ b.version >= 17 => o + len <= b.size_dt_struct
  BY DEF fdt_offset_ptr
<1>3. /\ b.version >= 17 => b.off_dt_struct + b.size_dt_struct <= End(b)
      /\ ~(b.version >= 17) => b.totalsize <= End(b)
  BY DEF Readable
<1>4. o + len <= BlockEnd(b) /\ b.off_dt_struct + o + len <= End(b)
  BY <1>1, <1>2, <1>3 DEF BlockEnd
<1>5. ASSUME NEW n \in 0 .. len PROVE fdt_offset_ptr(b, o, n)
  <2>1. /\ b.off_dt_struct + o + n <= b.totalsize
        /\ b.version >= 17 => o + n <= b.size_dt_struct
    BY <1>1, <1>2
  <2> QED
    BY <1>2, <2>1 DEF fdt_offset_ptr
<1> QED
  BY <1>1, <1>2, <1>4, <1>5

\* The condition under which a tag is read.
ValidTag(b, o) ==
    /\ fdt_offset_ptr(b, o, FDT_TAGSIZE)
    /\ Byte(b, b.off_dt_struct + o) \in
           {FDT_BEGIN_NODE, FDT_END_NODE, FDT_PROP, FDT_NOP, FDT_END}
    /\ \/ Byte(b, b.off_dt_struct + o) # FDT_PROP
       \/ fdt_offset_ptr(b, o + FDT_TAGSIZE, FDT_TAGSIZE)
    /\ fdt_offset_ptr(b, o, TagSize(b, o))

\* fdt_next_tag reads the tag under that condition, and ends the walk otherwise
\* (fdt.c:171-229).
LEMMA NextTag ==
  ASSUME NEW b, NEW o
  PROVE  fdt_next_tag(b, o) =
            IF ValidTag(b, o)
            THEN [tag |-> Byte(b, b.off_dt_struct + o), off |-> o,
                  next |-> FDT_TAGALIGN(o + TagSize(b, o))]
            ELSE [tag |-> FDT_END, off |-> o, next |-> -1]
BY Zenon DEF fdt_next_tag, ValidTag

\* The node's name, with its NUL, ends its tag.
NameEnds(b, o) ==
    /\ NameAt(b, o + FDT_TAGSIZE) \in Seq(Cell)
    /\ TagSize(b, o) = FDT_TAGSIZE + Len(NameAt(b, o + FDT_TAGSIZE)) + 1
    /\ StringOf(b, b.off_dt_struct + (o + FDT_TAGSIZE),
                Len(NameAt(b, o + FDT_TAGSIZE)))
    /\ NameAt(b, o + FDT_TAGSIZE) =
          Bytes(b, b.off_dt_struct + (o + FDT_TAGSIZE),
                Len(NameAt(b, o + FDT_TAGSIZE)))

\* A tag that is read is whole.
TagWhole(b, o) ==
    /\ TagSize(b, o) \in Nat /\ 4 <= TagSize(b, o)
    /\ o + TagSize(b, o) <= BlockEnd(b)
    /\ b.off_dt_struct + o + TagSize(b, o) <= End(b)
    /\ b.off_dt_struct + o + TagSize(b, o) <= b.totalsize
    /\ Byte(b, b.off_dt_struct + o) = FDT_BEGIN_NODE => NameEnds(b, o)
    /\ Byte(b, b.off_dt_struct + o) = FDT_PROP =>
          /\ Byte(b, b.off_dt_struct + o + FDT_TAGSIZE) \in Cell
          /\ TagSize(b, o) =
                PropertySize + Byte(b, b.off_dt_struct + o + FDT_TAGSIZE)
    /\ Byte(b, b.off_dt_struct + o) \notin {FDT_BEGIN_NODE, FDT_PROP} =>
          TagSize(b, o) = FDT_TAGSIZE

\* A tag that passes the checks of fdt_next_tag is whole.
LEMMA ValidWhole ==
  ASSUME NEW b, Readable(b), NEW o \in Int, ValidTag(b, o)
  PROVE  o \in Nat /\ TagWhole(b, o)
<1> DEFINE S == b.off_dt_struct
           size == TagSize(b, o)
           byte == Byte(b, S + o)
<1>1. /\ b \in Blob /\ S \in Nat /\ HeaderSize <= S /\ BlockEnd(b) \in Nat
      /\ S + BlockEnd(b) <= End(b) /\ End(b) \in Nat
  BY ReadNumbers
<1>2. /\ o \in Nat /\ o + 4 <= BlockEnd(b)
  BY OffsetPtr DEF ValidTag
<1>3. fdt_offset_ptr(b, o, size)
  BY DEF ValidTag
<1>4. byte = FDT_BEGIN_NODE =>
         size = FDT_TAGSIZE + Len(NameAt(b, o + FDT_TAGSIZE)) + 1
  BY DEF TagSize
<1>5. byte = FDT_PROP => size = PropertySize + Byte(b, S + o + FDT_TAGSIZE)
  BY DEF TagSize
<1>6. byte \notin {FDT_BEGIN_NODE, FDT_PROP} => size = FDT_TAGSIZE
  BY DEF TagSize
<1>7. CASE byte = FDT_BEGIN_NODE
  <2> DEFINE x == S + (o + FDT_TAGSIZE)
             limit == S + BlockEnd(b)
             s == NameAt(b, o + FDT_TAGSIZE)
             n == Len(s)
  <2>1. x \in Nat /\ limit \in Nat /\ HeaderSize <= x /\ x <= limit
        /\ limit <= End(b)
    BY <1>1, <1>2
  <2>2. s = CString(b, x, limit)
    BY DEF NameAt, BlockEnd
  <2> HIDE DEF x, limit, s
  <2>3. /\ s \in Seq(Cell) /\ Len(s) \in Nat
        /\ x + Len(s) <= limit
        /\ x + Len(s) < limit => StringOf(b, x, Len(s))
    BY <1>1, <2>1, <2>2, StringRead
  <2>4. size = 4 + n + 1 /\ n \in Nat
    BY <1>4, <1>7, <2>3 DEF s
  <2> HIDE DEF size
  <2>5. /\ o + size <= BlockEnd(b)
        /\ S + o + size <= End(b) /\ S + o + size <= b.totalsize
    <3>1. size \in Nat
      BY <2>4
    <3>2. fdt_offset_ptr(b, o, size)
      BY <1>3 DEF size
    <3> QED
      BY <3>1, <3>2, OffsetPtr
  <2>6. x + n < limit
    BY <1>1, <1>2, <2>4, <2>5 DEF x, limit
  <2>7. StringOf(b, x, n)
    BY <2>3, <2>6
  <2>8. CString(b, x, limit) = Bytes(b, x, n)
    BY <2>1, <2>4, <2>6, <2>7, StringIs
  <2>9. NameEnds(b, o)
    BY <1>4, <1>7, <2>2, <2>3, <2>7, <2>8 DEF NameEnds, s, x, size
  <2>10. size \in Nat /\ 4 <= size
    BY <2>4
  <2> QED
    BY <1>2, <1>7, <2>5, <2>9, <2>10 DEF TagWhole, size
<1>8. CASE byte = FDT_PROP
  <2> DEFINE w == Byte(b, S + o + FDT_TAGSIZE)
  <2>1. fdt_offset_ptr(b, o + FDT_TAGSIZE, FDT_TAGSIZE)
    BY <1>8 DEF ValidTag
  <2>2. o + 4 \in Int /\ 4 \in Nat
    BY <1>2
  <2>3. b.off_dt_struct + (o + 4) + 4 <= End(b)
    BY <2>1, <2>2, OffsetPtr
  <2>4. S + o + FDT_TAGSIZE \in HeaderSize .. End(b) - 1
    BY <2>3, <1>1, <1>2
  <2>5. w \in Cell
    BY <1>1, <2>4, ByteOf
  <2> HIDE DEF w
  <2>6. size = 12 + w
    BY <1>5, <1>8 DEF w
  <2> HIDE DEF size
  <2>7. size \in Nat /\ 4 <= size
    BY <2>5, <2>6 DEF Cell
  <2>8. fdt_offset_ptr(b, o, size)
    BY <1>3 DEF size
  <2>9. /\ o + size <= BlockEnd(b)
        /\ S + o + size <= End(b) /\ S + o + size <= b.totalsize
    BY <2>7, <2>8, OffsetPtr
  <2> QED
    BY <1>2, <1>8, <2>5, <2>6, <2>7, <2>9 DEF TagWhole, size, w
<1>9. CASE byte \notin {FDT_BEGIN_NODE, FDT_PROP}
  <2>1. size = 4
    BY <1>6, <1>9
  <2>2. fdt_offset_ptr(b, o, 4)
    BY DEF ValidTag
  <2>3. /\ o + 4 <= BlockEnd(b)
        /\ S + o + 4 <= End(b) /\ S + o + 4 <= b.totalsize
    BY <2>2, OffsetPtr
  <2> QED
    BY <1>2, <1>9, <2>1, <2>3 DEF TagWhole
<1> QED
  BY <1>7, <1>8, <1>9

\* A tag whose bytes are found at another place is the same tag there.
LEMMA TagMoves ==
  ASSUME NEW b, Readable(b), NEW c, Readable(c), NEW o \in Int, NEW d \in Int,
         d % 4 = 0, ValidTag(b, o),
         fdt_offset_ptr(c, o + d, TagSize(b, o)),
         Alike(b, b.off_dt_struct + o, c, c.off_dt_struct + (o + d),
               TagSize(b, o))
  PROVE  /\ ValidTag(c, o + d)
         /\ Byte(c, c.off_dt_struct + (o + d)) = Byte(b, b.off_dt_struct + o)
         /\ TagSize(c, o + d) = TagSize(b, o)
         /\ fdt_next_tag(c, o + d) =
               [tag |-> Byte(b, b.off_dt_struct + o), off |-> o + d,
                next |-> FDT_TAGALIGN(o + TagSize(b, o)) + d]
         /\ Byte(b, b.off_dt_struct + o) = FDT_BEGIN_NODE =>
               NameAt(c, (o + d) + FDT_TAGSIZE) = NameAt(b, o + FDT_TAGSIZE)
<1> DEFINE S == b.off_dt_struct
           T == c.off_dt_struct
           p == o + d
           size == TagSize(b, o)
           byte == Byte(b, S + o)
<1>1. /\ b \in Blob /\ S \in Nat /\ HeaderSize <= S /\ BlockEnd(b) \in Nat
      /\ S + BlockEnd(b) <= End(b) /\ End(b) \in Nat
  BY ReadNumbers
<1>2. /\ c \in Blob /\ T \in Nat /\ HeaderSize <= T /\ BlockEnd(c) \in Nat
      /\ T + BlockEnd(c) <= End(c) /\ End(c) \in Nat
  BY ReadNumbers
<1>3. o \in Nat /\ TagWhole(b, o)
  BY ValidWhole
<1>4. size \in Nat /\ 4 <= size /\ o + size <= BlockEnd(b)
      /\ S + o + size <= End(b)
  BY <1>3 DEF TagWhole
<1>5. p \in Int
  OBVIOUS
<1> HIDE DEF size, p
<1>6. fdt_offset_ptr(c, p, size)
  BY DEF size, p
<1>7. /\ p \in Nat /\ p + size <= BlockEnd(c) /\ T + p + size <= End(c)
      /\ \A n \in 0 .. size : fdt_offset_ptr(c, p, n)
  BY <1>4, <1>5, <1>6, OffsetPtr
<1>8. \A i \in 0 .. size - 1 : Byte(c, T + p + i) = Byte(b, S + o + i)
  BY DEF size, p, Alike
<1>9. Byte(c, T + p) = byte
  <2>1. 0 \in 0 .. size - 1 /\ T + p + 0 = T + p /\ S + o + 0 = S + o
    BY <1>1, <1>2, <1>3, <1>4, <1>7
  <2> QED
    BY <1>8, <2>1
<1>10. byte \in {FDT_BEGIN_NODE, FDT_END_NODE, FDT_PROP, FDT_NOP, FDT_END}
  BY DEF ValidTag
<1>11. TagSize(c, p) = CASE byte = FDT_BEGIN_NODE ->
                               FDT_TAGSIZE + Len(NameAt(c, p + FDT_TAGSIZE)) + 1
                         [] byte = FDT_PROP ->
                               PropertySize + Byte(c, T + p + FDT_TAGSIZE)
                         [] OTHER -> FDT_TAGSIZE
  BY <1>9, Zenon DEF TagSize
<1> HIDE DEF byte
<1>12. /\ TagSize(c, p) = size
       /\ byte = FDT_PROP => fdt_offset_ptr(c, p + FDT_TAGSIZE, FDT_TAGSIZE)
       /\ byte = FDT_BEGIN_NODE =>
             NameAt(c, p + FDT_TAGSIZE) = NameAt(b, o + FDT_TAGSIZE)
  <2>1. CASE byte = FDT_BEGIN_NODE
    <3> DEFINE x == S + (o + FDT_TAGSIZE)
               y == T + (p + FDT_TAGSIZE)
               limit == T + BlockEnd(c)
               s == NameAt(b, o + FDT_TAGSIZE)
               n == Len(s)
    <3>1. NameEnds(b, o)
      BY <1>3, <2>1 DEF TagWhole, byte
    <3>2. s \in Seq(Cell) /\ n \in Nat
      BY <3>1 DEF NameEnds
    <3>3. size = 4 + n + 1 /\ StringOf(b, x, n) /\ s = Bytes(b, x, n)
      BY <3>1 DEF NameEnds, size
    <3>a. /\ n \in Nat /\ size = 4 + n + 1 /\ o \in Nat /\ p \in Nat
          /\ S \in Nat /\ T \in Nat /\ HeaderSize <= S /\ HeaderSize <= T
          /\ S + o + size <= End(b) /\ T + p + size <= End(c)
          /\ p + size <= BlockEnd(c) /\ End(b) \in Nat /\ End(c) \in Nat
          /\ BlockEnd(c) \in Nat
      BY <1>1, <1>2, <1>3, <1>4, <1>7, <3>2, <3>3
    <3> HIDE DEF n, S, T
    <3>4. /\ x \in Nat /\ y \in Nat /\ HeaderSize <= x /\ HeaderSize <= y
          /\ x + n < End(b) /\ y + n < End(c) /\ y + n < limit /\ limit \in Int
      BY <3>a
    <3>5. ASSUME NEW i \in 0 .. (n + 1) - 1 PROVE Byte(c, y + i) = Byte(b, x + i)
      <4>1. /\ 4 + i \in 0 .. size - 1 /\ y + i = T + p + (4 + i)
            /\ x + i = S + o + (4 + i)
        BY <3>a
      <4> QED
        BY <1>8, <4>1
    <3> HIDE DEF s, x, y, limit
    <3>6. StringOf(c, y, n) /\ Bytes(c, y, n) = Bytes(b, x, n)
      <4>1. b \in Blob /\ c \in Blob /\ n \in Nat /\ StringOf(b, x, n)
        BY <1>1, <1>2, <3>a, <3>3
      <4>2. StringOf(c, y, n) /\ Bytes(c, y, n) = Bytes(b, x, n)
        <5>1. Alike(b, x, c, y, n + 1)
          BY <3>5 DEF Alike
        <5> QED
          BY <4>1, <5>1, <3>4, StringMoves
      <4> QED
        BY <4>2
    <3>7. CString(c, y, limit) = s
      <4>1. CString(c, y, limit) = Bytes(c, y, n)
        BY <3>2, <3>4, <3>6, StringIs
      <4> QED
        BY <4>1, <3>3, <3>6
    <3>8. NameAt(c, p + FDT_TAGSIZE) = s
      BY <3>7 DEF NameAt, BlockEnd, y, limit, T
    <3> QED
      BY <1>11, <2>1, <3>3, <3>8 DEF s, n
  <2>2. CASE byte = FDT_PROP
    <3>1. /\ size = PropertySize + Byte(b, S + o + FDT_TAGSIZE)
          /\ Byte(b, S + o + FDT_TAGSIZE) \in Cell
      BY <1>3, <2>2 DEF TagWhole, size, byte
    <3>2. 8 <= size
      BY <3>1, <1>4 DEF Cell
    <3>3. Byte(c, T + p + FDT_TAGSIZE) = Byte(b, S + o + FDT_TAGSIZE)
      <4>1. 4 \in 0 .. size - 1
        BY <3>2, <1>4
      <4> QED
        BY <4>1, <1>8
    <3>4. fdt_offset_ptr(c, p + FDT_TAGSIZE, FDT_TAGSIZE)
      <4>1. fdt_offset_ptr(c, p, 8)
        BY <3>2, <1>4, <1>7
      <4>2. (p + 4) + 4 = p + 8 /\ T + (p + 4) + 4 = T + p + 8 /\ p + 4 >= 0
        BY <1>2, <1>7
      <4> QED
        BY <4>1, <4>2 DEF fdt_offset_ptr
    <3> QED
      BY <1>11, <2>2, <3>1, <3>3, <3>4
  <2>3. CASE byte \notin {FDT_BEGIN_NODE, FDT_PROP}
    <3>1. size = FDT_TAGSIZE
      BY <1>3, <2>3 DEF TagWhole, size, byte
    <3> QED
      BY <1>11, <2>3, <3>1
  <2> QED
    BY <2>1, <2>2, <2>3
<1>13. ValidTag(c, p)
  <2>1. fdt_offset_ptr(c, p, FDT_TAGSIZE)
    BY <1>4, <1>7
  <2> QED
    BY <1>6, <1>9, <1>10, <1>12, <2>1 DEF ValidTag, byte
<1>14. FDT_TAGALIGN(p + size) = FDT_TAGALIGN(o + size) + d
  <2>1. p + size = (o + size) + d /\ o + size \in Int
    BY <1>3, <1>4 DEF p
  <2> QED
    BY ZenonT(60), <2>1, TagAlign
<1>15. fdt_next_tag(c, p) = [tag |-> byte, off |-> p,
                            next |-> FDT_TAGALIGN(o + size) + d]
  <2>1. fdt_next_tag(c, p) = [tag |-> Byte(c, c.off_dt_struct + p), off |-> p,
                              next |-> FDT_TAGALIGN(p + TagSize(c, p))]
    BY <1>13, NextTag
  <2> QED
    BY <1>9, <1>12, <1>14, <2>1
<1> QED
  BY <1>9, <1>12, <1>13, <1>15 DEF p, size, byte

------------------------------------------------------------------------------
Path == Seq(Seq(Int))

TagSet == [tag : {FDT_BEGIN_NODE, FDT_END_NODE, FDT_PROP, FDT_NOP, FDT_END},
           off : Int, next : Int, path : Path]

\* The tag met at an offset: it ends the walk, or the next one is behind it and
\* within the tree.
LEMMA EntryTyped ==
  ASSUME NEW b, Readable(b), NEW o \in Int, NEW p \in Path,
         NEW t, t = Entry(b, o, p)
  PROVE  /\ t \in TagSet /\ t.off = o
         /\ ~ValidTag(b, o) => t.tag = FDT_END /\ t.next = -1
         /\ ValidTag(b, o) => /\ t.tag = Byte(b, b.off_dt_struct + o)
                              /\ t.next = FDT_TAGALIGN(o + TagSize(b, o))
                              /\ o + 4 <= t.next /\ t.next <= b.totalsize
                              /\ t.next <= o + TagSize(b, o) + 3
         /\ t.tag = FDT_BEGIN_NODE =>
               t.path = Append(p, NameAt(b, o + FDT_TAGSIZE))
         /\ t.tag # FDT_BEGIN_NODE => t.path = p
<1> DEFINE n == fdt_next_tag(b, o)
<1>0. /\ t.tag = n.tag /\ t.off = n.off /\ t.next = n.next
      /\ t = [tag |-> n.tag, off |-> n.off, next |-> n.next, path |-> t.path]
      /\ t.path = IF n.tag = FDT_BEGIN_NODE
                  THEN Append(p, NameAt(b, o + FDT_TAGSIZE)) ELSE p
  BY DEF Entry
<1>1. CASE ~ValidTag(b, o)
  <2>1. n = [tag |-> FDT_END, off |-> o, next |-> -1]
    BY <1>1, NextTag
  <2> QED
    BY <1>0, <1>1, <2>1 DEF TagSet
<1>2. CASE ValidTag(b, o)
  <2> DEFINE size == TagSize(b, o)
  <2>1. n = [tag |-> Byte(b, b.off_dt_struct + o), off |-> o,
             next |-> FDT_TAGALIGN(o + size)]
    BY <1>2, NextTag
  <2>2. /\ o \in Nat /\ size \in Nat /\ 4 <= size
        /\ b.off_dt_struct + o + size <= b.totalsize
        /\ Byte(b, b.off_dt_struct + o) = FDT_BEGIN_NODE => NameEnds(b, o)
    BY <1>2, ValidWhole DEF TagWhole
  <2>3. b.off_dt_struct \in Nat /\ HeaderSize <= b.off_dt_struct
        /\ b.totalsize \in Nat
    BY ReadNumbers
  <2>4. FDT_TAGALIGN(o + size) \in Int /\ o + size <= FDT_TAGALIGN(o + size)
        /\ FDT_TAGALIGN(o + size) <= o + size + 3
    <3>1. o + size \in Int
      BY <2>2
    <3> HIDE DEF size
    <3> QED
      BY <3>1, TagAlign
  <2> HIDE DEF size
  <2>5. o + 4 <= FDT_TAGALIGN(o + size)
        /\ FDT_TAGALIGN(o + size) <= b.totalsize
    BY <2>2, <2>3, <2>4
  <2>6. Byte(b, b.off_dt_struct + o) = FDT_BEGIN_NODE =>
            NameAt(b, o + FDT_TAGSIZE) \in Seq(Int)
    BY <2>2 DEF NameEnds, Cell
  <2>7. t.path \in Path
    <3>1. CASE n.tag = FDT_BEGIN_NODE
      <4>1. NameAt(b, o + FDT_TAGSIZE) \in Seq(Int)
        BY <2>1, <2>6, <3>1
      <4>2. Append(p, NameAt(b, o + FDT_TAGSIZE)) \in Path
        BY <4>1 DEF Path
      <4> QED
        BY <1>0, <3>1, <4>2
    <3> QED
      BY <1>0, <3>1
  <2>8. Byte(b, b.off_dt_struct + o) \in
           {FDT_BEGIN_NODE, FDT_END_NODE, FDT_PROP, FDT_NOP, FDT_END}
    BY <1>2 DEF ValidTag
  <2>9. t \in TagSet
    <3>1. /\ n.tag \in {FDT_BEGIN_NODE, FDT_END_NODE, FDT_PROP, FDT_NOP, FDT_END}
          /\ n.off \in Int /\ n.next \in Int
      BY <2>1, <2>4, <2>8
    <3> HIDE DEF n
    <3> QED
      BY <1>0, <2>7, <3>1 DEF TagSet
  <2> QED
    BY <1>0, <1>2, <2>1, <2>4, <2>5, <2>9 DEF size
<1> QED
  BY <1>1, <1>2

\* Behind a tag that does not end the walk there is a path.
LEMMA InsideTyped ==
  ASSUME NEW t \in TagSet, ~Stops(t)
  PROVE  Inside(t) \in Path
<1>1. t.path \in Path
  BY DEF TagSet
<1>2. CASE t.tag = FDT_END_NODE
  <2>1. t.path # <<>>
    BY <1>2 DEF Stops
  <2>2. Front(t.path) \in Path
    BY <1>1, <2>1 DEF Front, Path
  <2> QED
    BY <1>2, <2>2 DEF Inside
<1> QED
  BY <1>1, <1>2 DEF Inside

\* What the walk collects from an offset on, in the node of that path.
WalkFrom(b, o, p, s) ==
    /\ s \in Seq(TagSet) /\ Len(s) # 0
    /\ s[1] = Entry(b, o, p)
    /\ \A k \in 1 .. Len(s) - 1 :
           ~Stops(s[k]) /\ s[k + 1] = Entry(b, s[k].next, Inside(s[k]))
    /\ Stops(s[Len(s)])

Walk(b, s) == WalkFrom(b, 0, <<>>, s)

\* A tag and the walk behind it are a walk.
LEMMA WalkCons ==
  ASSUME NEW b, NEW o, NEW p, NEW t \in TagSet, t = Entry(b, o, p),
         NEW s,
         IF Stops(t) THEN s = <<>> ELSE WalkFrom(b, t.next, Inside(t), s)
  PROVE  WalkFrom(b, o, p, <<t>> \o s)
<1> DEFINE w == <<t>> \o s
<1>1. CASE Stops(t)
  <2>1. w = <<t>>
    BY <1>1
  <2> QED
    BY <1>1, <2>1 DEF WalkFrom
<1>2. CASE ~Stops(t)
  <2>1. /\ s \in Seq(TagSet) /\ Len(s) # 0 /\ Len(s) \in Nat
        /\ s[1] = Entry(b, t.next, Inside(t))
        /\ \A k \in 1 .. Len(s) - 1 :
              ~Stops(s[k]) /\ s[k + 1] = Entry(b, s[k].next, Inside(s[k]))
        /\ Stops(s[Len(s)])
    BY <1>2 DEF WalkFrom
  <2>2. /\ w \in Seq(TagSet) /\ Len(w) = Len(s) + 1 /\ w[1] = t
        /\ \A k \in 2 .. Len(s) + 1 : w[k] = s[k - 1]
    BY <2>1
  <2> HIDE DEF w
  <2>3. ASSUME NEW k \in 1 .. Len(w) - 1
        PROVE  ~Stops(w[k]) /\ w[k + 1] = Entry(b, w[k].next, Inside(w[k]))
    <3>1. CASE k = 1
      <4>1. w[2] = s[1]
        BY <2>1, <2>2
      <4> QED
        BY <1>2, <2>1, <2>2, <3>1, <4>1
    <3>2. CASE k # 1
      <4>1. k - 1 \in 1 .. Len(s) - 1 /\ k \in 2 .. Len(s) + 1
            /\ k + 1 \in 2 .. Len(s) + 1 /\ (k + 1) - 1 = k /\ (k - 1) + 1 = k
        BY <2>1, <2>2, <3>2
      <4>2. w[k] = s[k - 1] /\ w[k + 1] = s[k]
        BY <2>2, <4>1
      <4>3. ~Stops(s[k - 1])
            /\ s[(k - 1) + 1] = Entry(b, s[k - 1].next, Inside(s[k - 1]))
        BY <2>1, <4>1
      <4> QED
        BY <4>1, <4>2, <4>3
    <3> QED
      BY <3>1, <3>2
  <2>4. w[Len(w)] = s[Len(s)]
    BY <2>1, <2>2
  <2>5. Len(w) # 0
    BY <2>1, <2>2
  <2> QED
    BY <2>1, <2>2, <2>3, <2>4, <2>5 DEF WalkFrom, w
<1> QED
  BY <1>1, <1>2

\* The walk as the recursion of Tags makes it, from the offsets in a set on.
Rest(b, f, t) == <<t>> \o IF Stops(t) THEN <<>> ELSE f[t.next][Inside(t)]

Collects(b, f, S) ==
    f = [o \in S |-> [p \in Path |-> Rest(b, f, Entry(b, o, p))]]

\* There is such a function: the walk never goes back.
LEMMA WalkExists ==
  ASSUME NEW b, Readable(b)
  PROVE  \E f : Collects(b, f, 0 .. b.totalsize)
<1> DEFINE N == b.totalsize
           P == {m \in Nat : m <= N => \E f : Collects(b, f, (N - m) .. N)}
<1>1. N \in Nat
  BY ReadNumbers
<1> HIDE DEF N
<1>2. 0 \in P
  <2> DEFINE f == [o \in {N} |-> [p \in Path |-> <<Entry(b, o, p)>>]]
  <2>1. (N - 0) .. N = {N} /\ N \in Int
    BY <1>1
  <2>2. ASSUME NEW p \in Path PROVE Stops(Entry(b, N, p))
    <3>1. CASE ValidTag(b, N)
      <4>1. N + 4 <= Entry(b, N, p).next /\ Entry(b, N, p).next <= N
        BY <2>1, <3>1, EntryTyped DEF N
      <4>2. Entry(b, N, p).next \in Int
        BY <2>1, EntryTyped DEF TagSet
      <4> QED
        BY <4>1, <4>2, <1>1
    <3>2. CASE ~ValidTag(b, N)
      <4>1. Entry(b, N, p).tag = FDT_END
        BY <2>1, <3>2, EntryTyped
      <4> QED
        BY <4>1 DEF Stops
    <3> QED
      BY <3>1, <3>2
  <2>3. ASSUME NEW p \in Path, NEW g
        PROVE  Rest(b, g, Entry(b, N, p)) = <<Entry(b, N, p)>>
    <3> DEFINE t == Entry(b, N, p)
    <3>1. t \in TagSet /\ Stops(t)
      BY <2>1, <2>2, EntryTyped
    <3> HIDE DEF t
    <3>2. <<t>> \o <<>> = <<t>>
      BY <3>1
    <3>3. Rest(b, g, t) = <<t>>
      BY <3>1, <3>2 DEF Rest
    <3> QED
      BY <3>3 DEF t
  <2>4. f = [o \in {N} |-> [p \in Path |-> Rest(b, f, Entry(b, o, p))]]
    <3> DEFINE g == f
    <3>1. \A o \in {N} : \A p \in Path :
             Rest(b, g, Entry(b, o, p)) = <<Entry(b, o, p)>>
      BY <2>3
    <3> HIDE DEF g
    <3>2. [o \in {N} |-> [p \in Path |-> Rest(b, g, Entry(b, o, p))]]
          = [o \in {N} |-> [p \in Path |-> <<Entry(b, o, p)>>]]
      BY <3>1
    <3> QED
      BY <3>2 DEF g
  <2> HIDE DEF f
  <2>5. Collects(b, f, (N - 0) .. N)
    BY <2>1, <2>4 DEF Collects
  <2> QED
    BY <2>5
<1>3. \A m \in Nat : m \in P => m + 1 \in P
  <2> SUFFICES ASSUME NEW m \in Nat, m \in P, m + 1 <= N
               PROVE  \E f : Collects(b, f, (N - (m + 1)) .. N)
    OBVIOUS
  <2>1. PICK f : Collects(b, f, (N - m) .. N)
    BY <1>1
  <2> DEFINE z == N - (m + 1)
             S == (N - m) .. N
             T == z .. N
             g == [o \in T |-> IF o \in S THEN f[o]
                               ELSE [p \in Path |-> Rest(b, f, Entry(b, o, p))]]
  <2>2. z \in Nat /\ S = (z + 1) .. N /\ z <= N
    BY <1>1
  <2>3. T = S \cup {z} /\ z \notin S /\ T \subseteq Int
    <3> HIDE DEF z, S
    <3>1. z .. N = (z + 1) .. N \cup {z} /\ z \notin (z + 1) .. N
          /\ z .. N \subseteq Int
      BY <1>1, <2>2
    <3> QED
      BY <2>2, <3>1
  <2> HIDE DEF z, S, T
  <2>4. ASSUME NEW o \in T, NEW p \in Path
        PROVE  Rest(b, g, Entry(b, o, p)) = Rest(b, f, Entry(b, o, p))
    <3> DEFINE t == Entry(b, o, p)
    <3>1. CASE Stops(t)
      BY <3>1 DEF Rest
    <3>2. CASE ~Stops(t)
      <4>1. o \in Int
        BY <2>3
      <4>2. ValidTag(b, o)
        BY <3>2, <4>1, EntryTyped DEF Stops
      <4>3. o + 4 <= t.next /\ t.next <= N /\ t.next \in Int
        BY <4>1, <4>2, EntryTyped DEF N, TagSet
      <4> HIDE DEF t
      <4>4. t.next \in S /\ t.next \in T
        <5>1. z <= o
          BY <1>1, <2>2 DEF T
        <5> QED
          BY <4>1, <4>3, <5>1, <2>2, <2>3
      <4>5. g[t.next] = f[t.next]
        BY <4>4
      <4> HIDE DEF g
      <4> QED
        BY <4>5 DEF Rest, t
    <3> QED
      BY <3>1, <3>2
  <2>5. ASSUME NEW o \in T
        PROVE  g[o] = [p \in Path |-> Rest(b, g, Entry(b, o, p))]
    <3>1. [p \in Path |-> Rest(b, g, Entry(b, o, p))]
          = [p \in Path |-> Rest(b, f, Entry(b, o, p))]
      <4> HIDE DEF g
      <4> QED
        BY <2>4
    <3>2. g[o] = [p \in Path |-> Rest(b, f, Entry(b, o, p))]
      <4>1. CASE o \in S
        <5>1. f = [i \in S |-> [p \in Path |-> Rest(b, f, Entry(b, i, p))]]
          BY <2>1, Zenon DEF Collects, S
        <5>2. f[o] = [p \in Path |-> Rest(b, f, Entry(b, o, p))]
          BY <4>1, <5>1, Zenon
        <5> QED
          BY <4>1, <5>2
      <4>2. CASE o \notin S
        BY <4>2
      <4> QED
        BY <4>1, <4>2
    <3> QED
      BY <3>1, <3>2
  <2>6. g = [o \in T |-> [p \in Path |-> Rest(b, g, Entry(b, o, p))]]
    <3>1. g = [o \in T |-> g[o]]
      OBVIOUS
    <3> HIDE DEF g
    <3>2. [o \in T |-> g[o]]
          = [o \in T |-> [p \in Path |-> Rest(b, g, Entry(b, o, p))]]
      BY <2>5
    <3> QED
      BY <3>1, <3>2
  <2>7. Collects(b, g, T)
    BY <2>6, Zenon DEF Collects
  <2> HIDE DEF g
  <2> QED
    BY <2>7 DEF T, z
<1>4. Nat \subseteq P
  <2> HIDE DEF P
  <2> QED
    BY <1>2, <1>3, SetInduction
<1>5. N \in P /\ N - N = 0
  BY <1>1, <1>4
<1>6. \E f : Collects(b, f, (N - N) .. N)
  BY <1>5
<1> QED
  BY <1>5, <1>6 DEF N

\* Tags collects a walk from the root.
LEMMA TagsWalk ==
  ASSUME NEW b, Readable(b)
  PROVE  Walk(b, Tags(b))
<1> DEFINE N == b.totalsize
           f == CHOOSE f : Collects(b, f, 0 .. N)
           P == {m \in Nat : m <= N =>
                    \A o \in (N - m) .. N : \A p \in Path :
                        WalkFrom(b, o, p, f[o][p])}
<1>1. N \in Nat
  BY ReadNumbers
<1>2. Collects(b, f, 0 .. N)
  BY WalkExists, Zenon
<1>3. Tags(b) = f[0][<<>>]
  <2> DEFINE walk == CHOOSE walk : walk =
                        [offset \in 0 .. N |->
                            [path \in Seq(Seq(Int)) |->
                                LET t == Entry(b, offset, path)
                                IN  <<t>> \o IF Stops(t) THEN <<>>
                                             ELSE walk[t.next][Inside(t)]]]
  <2>1. Tags(b) = walk[0][<<>>]
    BY Zenon DEF Tags
  <2>2. walk = f
    BY Zenon DEF Collects, Rest, Path
  <2> QED
    BY <2>1, <2>2, Zenon
<1> HIDE DEF f, N
<1>4. ASSUME NEW o \in 0 .. N, NEW p \in Path
      PROVE  f[o][p] = Rest(b, f, Entry(b, o, p))
  <2> DEFINE g == [p1 \in Path |-> Rest(b, f, Entry(b, o, p1))]
  <2>1. f = [i \in 0 .. N |-> [p1 \in Path |-> Rest(b, f, Entry(b, i, p1))]]
    BY <1>2, Zenon DEF Collects
  <2>2. f[o] = g
    BY <2>1, Zenon
  <2>3. g[p] = Rest(b, f, Entry(b, o, p))
    OBVIOUS
  <2> QED
    BY <2>2, <2>3, Zenon
<1>5. ASSUME NEW o \in 0 .. N, NEW p \in Path,
             \A i \in 0 .. N : i >= o + 4 =>
                 \A q \in Path : WalkFrom(b, i, q, f[i][q])
      PROVE  WalkFrom(b, o, p, f[o][p])
  <2> DEFINE t == Entry(b, o, p)
             s == IF Stops(t) THEN <<>> ELSE f[t.next][Inside(t)]
  <2>1. f[o][p] = <<t>> \o s
    BY <1>4 DEF Rest
  <2>2. t \in TagSet /\ o \in Int
    BY EntryTyped
  <2>3. ASSUME ~Stops(t) PROVE WalkFrom(b, t.next, Inside(t), s)
    <3>1. ValidTag(b, o)
      BY <2>2, <2>3, EntryTyped DEF Stops
    <3>2. o + 4 <= t.next /\ t.next <= N /\ t.next \in Int
      BY <2>2, <3>1, EntryTyped DEF N, TagSet
    <3>3. t.next \in 0 .. N /\ t.next >= o + 4
      <4> HIDE DEF t
      <4> QED
        BY <3>2, <1>1
    <3>4. Inside(t) \in Path
      BY <2>2, <2>3, InsideTyped
    <3>5. s = f[t.next][Inside(t)]
      BY <2>3
    <3> HIDE DEF s, t
    <3> QED
      BY <1>5, <3>3, <3>4, <3>5
  <2>4. IF Stops(t) THEN s = <<>> ELSE WalkFrom(b, t.next, Inside(t), s)
    BY <2>3
  <2> HIDE DEF s
  <2>5. WalkFrom(b, o, p, <<t>> \o s)
    <3>1. t = Entry(b, o, p)
      OBVIOUS
    <3> HIDE DEF t
    <3> QED
      BY <2>2, <2>4, <3>1, WalkCons
  <2> QED
    BY <2>1, <2>5
<1>6. 0 \in P
  <2>1. ASSUME NEW o \in (N - 0) .. N, NEW p \in Path
        PROVE  WalkFrom(b, o, p, f[o][p])
    <3>1. o \in 0 .. N /\ \A i \in 0 .. N : ~(i >= o + 4)
      BY <1>1
    <3> QED
      BY <1>5, <3>1
  <2> QED
    BY <2>1
<1>7. \A m \in Nat : m \in P => m + 1 \in P
  <2> SUFFICES ASSUME NEW m \in Nat, m \in P, m + 1 <= N,
                      NEW o \in (N - (m + 1)) .. N, NEW p \in Path
               PROVE  WalkFrom(b, o, p, f[o][p])
    OBVIOUS
  <2>1. \A i \in (N - m) .. N : \A q \in Path : WalkFrom(b, i, q, f[i][q])
    BY <1>1
  <2>2. o \in 0 .. N
    BY <1>1
  <2>3. \A i \in 0 .. N : i >= o + 4 => i \in (N - m) .. N
    BY <1>1
  <2> QED
    BY <1>5, <2>1, <2>2, <2>3
<1>8. Nat \subseteq P
  <2> HIDE DEF P
  <2> QED
    BY <1>6, <1>7, SetInduction
<1>9. <<>> \in Path
  BY DEF Path
<1>10. WalkFrom(b, 0, <<>>, f[0][<<>>])
  <2>1. N \in P
    BY <1>1, <1>8
  <2>2. \A o \in (N - N) .. N : \A p \in Path : WalkFrom(b, o, p, f[o][p])
    BY <1>1, <2>1
  <2>3. 0 \in (N - N) .. N
    BY <1>1
  <2> QED
    BY <1>9, <2>2, <2>3
<1> QED
  BY <1>3, <1>10 DEF Walk

\* There is one walk.
LEMMA OneWalk ==
  ASSUME NEW b, NEW s, NEW t, Walk(b, s), Walk(b, t)
  PROVE  s = t
<1>1. /\ s \in Seq(TagSet) /\ Len(s) # 0 /\ Len(s) \in Nat
      /\ s[1] = Entry(b, 0, <<>>)
      /\ \A k \in 1 .. Len(s) - 1 :
           ~Stops(s[k]) /\ s[k + 1] = Entry(b, s[k].next, Inside(s[k]))
      /\ Stops(s[Len(s)])
  BY DEF Walk, WalkFrom
<1>2. /\ t \in Seq(TagSet) /\ Len(t) # 0 /\ Len(t) \in Nat
      /\ t[1] = Entry(b, 0, <<>>)
      /\ \A k \in 1 .. Len(t) - 1 :
           ~Stops(t[k]) /\ t[k + 1] = Entry(b, t[k].next, Inside(t[k]))
      /\ Stops(t[Len(t)])
  BY DEF Walk, WalkFrom
<1> DEFINE P == {n \in Nat : n + 1 <= Len(s) =>
                                n + 1 <= Len(t) /\ s[n + 1] = t[n + 1]}
<1>3. 0 \in P
  BY <1>1, <1>2
<1>4. ASSUME NEW n \in Nat, n \in P PROVE n + 1 \in P
  <2> SUFFICES ASSUME (n + 1) + 1 <= Len(s)
               PROVE  (n + 1) + 1 <= Len(t) /\ s[(n + 1) + 1] = t[(n + 1) + 1]
    OBVIOUS
  <2>1. n + 1 <= Len(t) /\ s[n + 1] = t[n + 1]
    BY <1>1, <1>4
  <2>2. n + 1 \in 1 .. Len(s) - 1
    BY <1>1
  <2>3. ~Stops(s[n + 1])
        /\ s[(n + 1) + 1] = Entry(b, s[n + 1].next, Inside(s[n + 1]))
    BY <1>1, <2>2
  <2>4. n + 1 # Len(t)
    BY <1>2, <2>1, <2>3
  <2>5. n + 1 \in 1 .. Len(t) - 1
    BY <1>2, <2>1, <2>4
  <2>6. t[(n + 1) + 1] = Entry(b, t[n + 1].next, Inside(t[n + 1]))
    BY <1>2, <2>5
  <2> QED
    BY <1>2, <2>1, <2>3, <2>5, <2>6
<1>5. Nat \subseteq P
  <2> HIDE DEF P
  <2> QED
    BY <1>3, <1>4, SetInduction
<1>6. ASSUME NEW k \in 1 .. Len(s) PROVE k <= Len(t) /\ s[k] = t[k]
  <2>1. k - 1 \in Nat /\ (k - 1) + 1 = k
    BY <1>1
  <2>2. k - 1 \in P
    BY <1>5, <2>1
  <2> QED
    BY <2>1, <2>2
<1>7. Len(s) <= Len(t) /\ s[Len(s)] = t[Len(s)]
  <2>1. Len(s) \in 1 .. Len(s)
    BY <1>1
  <2> QED
    BY <1>6, <2>1
<1>8. Len(s) = Len(t)
  <2>1. CASE Len(s) < Len(t)
    <3>1. Len(s) \in 1 .. Len(t) - 1
      BY <1>1, <1>2, <2>1
    <3>2. ~Stops(t[Len(s)])
      BY <1>2, <3>1
    <3> QED
      BY <1>1, <1>7, <3>2
  <2> QED
    BY <1>1, <1>2, <1>7, <2>1
<1>9. \A k \in 1 .. Len(s) : s[k] = t[k]
  BY <1>6
<1> HIDE DEF P
<1> QED
  BY <1>1, <1>2, <1>8, <1>9, SeqEqual

\* Tags is the walk, and there is one only.
LEMMA TagsAre ==
  ASSUME NEW b, Readable(b), NEW s, Walk(b, s)
  PROVE  Tags(b) = s
BY TagsWalk, OneWalk

\* The node the walk is in before its k-th tag.
Before(s, k) == IF k = 1 THEN <<>> ELSE Inside(s[k - 1])

\* Each tag of a walk is what is read at its offset; it is whole unless it is
\* the last, and the next one is behind it.
LEMMA WalkTag ==
  ASSUME NEW b, Readable(b), NEW s, Walk(b, s), NEW k \in 1 .. Len(s)
  PROVE  /\ s[k] \in TagSet /\ s[k].off \in Nat /\ s[k].off % 4 = 0
         /\ s[k].next \in Int /\ s[k].path \in Path
         /\ Before(s, k) \in Path /\ s[k] = Entry(b, s[k].off, Before(s, k))
         /\ k # Len(s) => /\ ~Stops(s[k]) /\ ValidTag(b, s[k].off)
                          /\ k + 1 \in 1 .. Len(s)
                          /\ s[k + 1].off = s[k].next
                          /\ s[k].off + 4 <= s[k].next
         /\ k = Len(s) => Stops(s[k])
         /\ s[1].off = 0
<1>1. /\ s \in Seq(TagSet) /\ Len(s) # 0 /\ Len(s) \in Nat
      /\ s[1] = Entry(b, 0, <<>>)
      /\ \A i \in 1 .. Len(s) - 1 :
           ~Stops(s[i]) /\ s[i + 1] = Entry(b, s[i].next, Inside(s[i]))
      /\ Stops(s[Len(s)])
  BY DEF Walk, WalkFrom
<1>2. \A i \in 1 .. Len(s) : s[i] \in TagSet
  BY <1>1
<1>3. ASSUME NEW i \in 1 .. Len(s)
      PROVE  /\ s[i].off \in Int /\ s[i].next \in Int /\ s[i].path \in Path
             /\ Before(s, i) \in Path
             /\ s[i] = Entry(b, s[i].off, Before(s, i))
             /\ i = 1 => s[i].off = 0
             /\ i # 1 => s[i].off = s[i - 1].next
  <2>1. s[i].off \in Int /\ s[i].next \in Int /\ s[i].path \in Path
    BY <1>2 DEF TagSet
  <2>2. CASE i = 1
    <3>1. Before(s, i) = <<>> /\ <<>> \in Path
      BY <2>2 DEF Before, Path
    <3>2. s[i].off = 0
      <4>1. Entry(b, 0, <<>>).off = 0
        BY <3>1, EntryTyped
      <4> QED
        BY <1>1, <2>2, <4>1
    <3> QED
      BY <1>1, <2>1, <2>2, <3>1, <3>2
  <2>3. CASE i # 1
    <3>1. i - 1 \in 1 .. Len(s) - 1 /\ i - 1 \in 1 .. Len(s) /\ (i - 1) + 1 = i
      BY <1>1, <2>3
    <3>2. s[(i - 1) + 1] = Entry(b, s[i - 1].next, Inside(s[i - 1]))
          /\ ~Stops(s[i - 1])
      BY <1>1, <3>1
    <3>3. s[i - 1] \in TagSet /\ s[i - 1].next \in Int
      BY <1>2, <3>1 DEF TagSet
    <3>4. Before(s, i) = Inside(s[i - 1]) /\ Inside(s[i - 1]) \in Path
      BY <2>3, <3>2, <3>3, InsideTyped DEF Before
    <3>5. s[i].off = s[i - 1].next
      BY <3>1, <3>2, <3>3, <3>4, EntryTyped
    <3> QED
      BY <2>1, <2>3, <3>1, <3>2, <3>4, <3>5
  <2> QED
    BY <2>2, <2>3
<1>4. ASSUME NEW i \in 1 .. Len(s), i # Len(s)
      PROVE  /\ ~Stops(s[i]) /\ ValidTag(b, s[i].off)
             /\ i + 1 \in 1 .. Len(s) /\ s[i + 1].off = s[i].next
             /\ s[i].off + 4 <= s[i].next
             /\ s[i].next = FDT_TAGALIGN(s[i].off + TagSize(b, s[i].off))
  <2>1. i \in 1 .. Len(s) - 1 /\ i + 1 \in 1 .. Len(s) /\ i + 1 # 1
        /\ (i + 1) - 1 = i
    BY <1>1, <1>4
  <2>2. ~Stops(s[i])
    BY <1>1, <2>1
  <2>3. /\ s[i].off \in Int /\ s[i].path \in Path
        /\ Before(s, i) \in Path /\ s[i] = Entry(b, s[i].off, Before(s, i))
    BY <1>3
  <2>4. ValidTag(b, s[i].off)
    BY <2>2, <2>3, EntryTyped DEF Stops
  <2>5. s[i].off + 4 <= s[i].next
        /\ s[i].next = FDT_TAGALIGN(s[i].off + TagSize(b, s[i].off))
    BY <2>3, <2>4, EntryTyped
  <2>6. s[i + 1].off = s[i].next
    BY <1>3, <2>1
  <2> QED
    BY <2>1, <2>2, <2>4, <2>5, <2>6
<1> DEFINE P == {n \in Nat : n + 1 <= Len(s) =>
                                s[n + 1].off \in Nat /\ s[n + 1].off % 4 = 0}
<1>5. 0 \in P
  BY <1>1, <1>3
<1>6. ASSUME NEW n \in Nat, n \in P PROVE n + 1 \in P
  <2> SUFFICES ASSUME (n + 1) + 1 <= Len(s)
               PROVE  s[(n + 1) + 1].off \in Nat /\ s[(n + 1) + 1].off % 4 = 0
    OBVIOUS
  <2>1. n + 1 \in 1 .. Len(s) /\ n + 1 # Len(s)
    BY <1>1
  <2>2. s[n + 1].off \in Nat
    BY <1>6, <2>1
  <2>3. /\ ValidTag(b, s[n + 1].off) /\ s[(n + 1) + 1].off = s[n + 1].next
        /\ s[n + 1].off + 4 <= s[n + 1].next
        /\ s[n + 1].next
             = FDT_TAGALIGN(s[n + 1].off + TagSize(b, s[n + 1].off))
    BY <1>4, <2>1
  <2>4. TagSize(b, s[n + 1].off) \in Nat
    BY <2>2, <2>3, ValidWhole DEF TagWhole
  <2>5. s[n + 1].off + TagSize(b, s[n + 1].off) \in Int
    BY <2>2, <2>4
  <2>6. s[n + 1].next \in Int /\ s[n + 1].next % 4 = 0
    BY <2>3, <2>5, TagAlign
  <2> QED
    BY <2>2, <2>3, <2>6
<1>7. Nat \subseteq P
  <2> HIDE DEF P
  <2> QED
    BY <1>5, <1>6, SetInduction
<1>8. s[k].off \in Nat /\ s[k].off % 4 = 0
  <2>1. k - 1 \in Nat /\ (k - 1) + 1 = k /\ k <= Len(s)
    BY <1>1
  <2>2. k - 1 \in P
    BY <1>7, <2>1
  <2> QED
    BY <2>1, <2>2
<1>9. s[1].off = 0
  BY <1>1, <1>3
<1> HIDE DEF P
<1> QED
  BY <1>1, <1>2, <1>3, <1>4, <1>8, <1>9

\* The tags stand in the order of the walk.
LEMMA WalkOrder ==
  ASSUME NEW b, Readable(b), NEW s, Walk(b, s)
  PROVE  \A i, j \in 1 .. Len(s) : i < j => s[i].next <= s[j].off
<1>1. Len(s) \in Nat
  BY DEF Walk, WalkFrom
<1> SUFFICES ASSUME NEW i \in 1 .. Len(s)
             PROVE  \A j \in 1 .. Len(s) : i < j => s[i].next <= s[j].off
  OBVIOUS
<1> DEFINE P == {n \in Nat : i + n + 1 <= Len(s) =>
                                s[i].next <= s[i + n + 1].off}
<1>2. 0 \in P
  <2> SUFFICES ASSUME i + 1 <= Len(s) PROVE s[i].next <= s[i + 1].off
    BY <1>1
  <2>1. i # Len(s)
    BY <1>1
  <2>2. s[i + 1].off = s[i].next /\ s[i].next \in Int
    BY <2>1, WalkTag
  <2> QED
    BY <2>2
<1>3. ASSUME NEW n \in Nat, n \in P PROVE n + 1 \in P
  <2> DEFINE j == i + n + 1
  <2>1. j \in Int /\ i + (n + 1) + 1 = j + 1 /\ i < j
    BY <1>1
  <2>2. SUFFICES ASSUME j + 1 <= Len(s) PROVE s[i].next <= s[j + 1].off
    BY <2>1
  <2>3. j \in 1 .. Len(s) /\ j # Len(s)
    BY <1>1, <2>1, <2>2
  <2>4. s[i].next <= s[j].off
    BY <1>3, <2>3, <1>1
  <2> HIDE DEF j
  <2>5. /\ s[j].off \in Nat /\ s[j + 1].off = s[j].next
        /\ s[j].off + 4 <= s[j].next /\ s[j].next \in Int
    BY <2>3, WalkTag
  <2>6. s[i].next \in Int
    BY WalkTag
  <2> QED
    BY <2>4, <2>5, <2>6
<1>4. Nat \subseteq P
  <2> HIDE DEF P
  <2> QED
    BY <1>2, <1>3, SetInduction
<1>5. ASSUME NEW j \in 1 .. Len(s), i < j PROVE s[i].next <= s[j].off
  <2>1. (j - i) - 1 \in Nat /\ i + ((j - i) - 1) + 1 = j /\ j <= Len(s)
    BY <1>1, <1>5
  <2>2. (j - i) - 1 \in P
    BY <1>4, <2>1
  <2> QED
    BY <2>1, <2>2
<1> QED
  BY <1>5

\* Every tag of a walk that does not break off is whole, and in the block.
LEMMA WholeTag ==
  ASSUME NEW b, Readable(b), NEW s, Walk(b, s), s[Len(s)].next # -1,
         NEW k \in 1 .. Len(s)
  PROVE  /\ ValidTag(b, s[k].off) /\ TagWhole(b, s[k].off)
         /\ s[k].tag = Byte(b, b.off_dt_struct + s[k].off)
         /\ s[k].next = FDT_TAGALIGN(s[k].off + TagSize(b, s[k].off))
         /\ s[k].off + TagSize(b, s[k].off) <= s[k].next
         /\ s[k].off + 4 <= s[k].next
         /\ s[k].next <= BlockEnd(b) /\ s[k].next % 4 = 0
<1>1. Len(s) \in Nat /\ Len(s) \in 1 .. Len(s) /\ Stops(s[Len(s)])
  BY DEF Walk, WalkFrom
<1>2. ASSUME NEW i \in 1 .. Len(s)
      PROVE  /\ s[i].off \in Nat /\ s[i].off % 4 = 0 /\ s[i].next \in Int
             /\ Before(s, i) \in Path
             /\ s[i] = Entry(b, s[i].off, Before(s, i))
             /\ ValidTag(b, s[i].off) /\ TagWhole(b, s[i].off)
             /\ s[i].tag = Byte(b, b.off_dt_struct + s[i].off)
             /\ TagSize(b, s[i].off) \in Nat
             /\ s[i].next = FDT_TAGALIGN(s[i].off + TagSize(b, s[i].off))
             /\ s[i].off + TagSize(b, s[i].off) <= s[i].next
             /\ s[i].off + 4 <= s[i].next /\ s[i].next % 4 = 0
  <2>1. /\ s[i].off \in Nat /\ s[i].off % 4 = 0 /\ s[i].next \in Int
        /\ Before(s, i) \in Path /\ s[i] = Entry(b, s[i].off, Before(s, i))
        /\ i # Len(s) => ValidTag(b, s[i].off)
    BY WalkTag
  <2>2. ValidTag(b, s[i].off)
    BY <2>1, EntryTyped
  <2>3. TagWhole(b, s[i].off) /\ TagSize(b, s[i].off) \in Nat
    <3>1. TagWhole(b, s[i].off)
      BY <2>1, <2>2, ValidWhole
    <3> QED
      BY <3>1 DEF TagWhole
  <2>4. /\ s[i].tag = Byte(b, b.off_dt_struct + s[i].off)
        /\ s[i].next = FDT_TAGALIGN(s[i].off + TagSize(b, s[i].off))
        /\ s[i].off + 4 <= s[i].next
    BY <2>1, <2>2, EntryTyped
  <2>5. s[i].off + TagSize(b, s[i].off) \in Int
    BY <2>1, <2>3
  <2>6. s[i].off + TagSize(b, s[i].off) <= s[i].next /\ s[i].next % 4 = 0
    BY <2>4, <2>5, TagAlign
  <2> QED
    BY <2>1, <2>2, <2>3, <2>4, <2>6
<1> DEFINE e == s[Len(s)]
<1>3. e.next <= BlockEnd(b)
  <2>1. e.tag # FDT_BEGIN_NODE /\ e.tag # FDT_PROP
    BY <1>1 DEF Stops
  <2>2. TagSize(b, e.off) = FDT_TAGSIZE
    BY <1>1, <1>2, <2>1 DEF TagWhole
  <2>3. e.off + 4 <= BlockEnd(b) /\ e.off \in Nat /\ e.off % 4 = 0
        /\ e.next = FDT_TAGALIGN(e.off + 4)
    BY <1>1, <1>2, <2>2 DEF TagWhole
  <2> HIDE DEF e
  <2>4. FDT_TAGALIGN(e.off + 4) = e.off + 4
    <3>1. e.off + 4 \in Int /\ (e.off + 4) % 4 = 0
      BY <2>3
    <3> QED
      BY <3>1, TagAlign
  <2> QED
    BY <2>3, <2>4
<1>4. s[k].next <= BlockEnd(b)
  <2>1. CASE k = Len(s)
    BY <1>3, <2>1
  <2>2. CASE k # Len(s)
    <3>1. k < Len(s)
      BY <1>1, <2>2
    <3>2. s[k].next <= e.off
      BY <1>1, <3>1, WalkOrder
    <3>3. e.off + 4 <= e.next /\ e.off \in Nat /\ e.next \in Int
          /\ s[k].next \in Int
      BY <1>1, <1>2
    <3>4. BlockEnd(b) \in Nat
      BY ReadNumbers
    <3> HIDE DEF e
    <3> QED
      BY <1>3, <3>2, <3>3, <3>4
  <2> QED
    BY <2>1, <2>2
<1> QED
  BY <1>2, <1>4

\* A tag d bytes further on.
MoveTag(t, d) == [tag |-> t.tag, off |-> t.off + d, next |-> t.next + d,
                  path |-> t.path]

\* A whole tag of b stands in c, d bytes further on.
StandsAt(b, o, c, d) ==
    /\ d % 4 = 0 /\ ValidTag(b, o)
    /\ fdt_offset_ptr(c, o + d, TagSize(b, o))
    /\ Alike(b, b.off_dt_struct + o, c, c.off_dt_struct + (o + d),
             TagSize(b, o))

\* It is the same tag there, further on.
LEMMA EntryMoves ==
  ASSUME NEW b, Readable(b), NEW c, Readable(c), NEW o \in Int, NEW d \in Int,
         StandsAt(b, o, c, d), NEW p \in Path
  PROVE  Entry(c, o + d, p) = MoveTag(Entry(b, o, p), d)
<1> DEFINE byte == Byte(b, b.off_dt_struct + o)
           next == FDT_TAGALIGN(o + TagSize(b, o))
           name == NameAt(b, o + FDT_TAGSIZE)
<1>1. fdt_next_tag(b, o) = [tag |-> byte, off |-> o, next |-> next]
  <2>1. ValidTag(b, o)
    BY DEF StandsAt
  <2> QED
    BY <2>1, NextTag
<1>2. /\ fdt_next_tag(c, o + d) = [tag |-> byte, off |-> o + d, next |-> next + d]
      /\ byte = FDT_BEGIN_NODE => NameAt(c, (o + d) + FDT_TAGSIZE) = name
  BY TagMoves DEF StandsAt
<1> HIDE DEF byte, next, name
<1> DEFINE path == IF byte = FDT_BEGIN_NODE THEN Append(p, name) ELSE p
<1>3. Entry(b, o, p) = [tag |-> byte, off |-> o, next |-> next, path |-> path]
  BY <1>1 DEF Entry, name
<1>4. Entry(c, o + d, p)
        = [tag |-> byte, off |-> o + d, next |-> next + d, path |-> path]
  BY SMTT(60), <1>2 DEF Entry
<1> HIDE DEF path
<1> QED
  BY <1>3, <1>4 DEF MoveTag

\* The tags behind the j-th, moved.
MovedTags(s, j, d) == [i \in 1 .. Len(s) - j |-> MoveTag(s[j + i], d)]

\* A walk with other tags for those from the k-th, without it, to the j-th.
Replaced(s, k, j, ns, d) == SubSeq(s, 1, k) \o ns \o MovedTags(s, j, d)

ReplacedAre(s, k, j, ns, d, us) ==
    /\ us \in Seq(TagSet) /\ Len(us) = k + Len(ns) + (Len(s) - j)
    /\ \A i \in 1 .. k : us[i] = s[i]
    /\ \A i \in 1 .. Len(ns) : us[k + i] = ns[i]
    /\ \A i \in 1 .. Len(s) - j : us[k + Len(ns) + i] = MoveTag(s[j + i], d)

\* What such a walk consists of.
LEMMA ReplacedTags ==
  ASSUME NEW s \in Seq(TagSet), NEW k \in 0 .. Len(s), NEW j \in k .. Len(s),
         NEW ns \in Seq(TagSet), NEW d \in Int
  PROVE  ReplacedAre(s, k, j, ns, d, Replaced(s, k, j, ns, d))
<1> DEFINE front == SubSeq(s, 1, k)
           back == MovedTags(s, j, d)
           us == front \o ns \o back
           l == k + Len(ns)
           e == l + (Len(s) - j)
<1>1. Len(s) \in Nat /\ Len(ns) \in Nat /\ k \in Nat /\ j \in Nat
      /\ Len(s) - j \in Nat
  OBVIOUS
<1>2. /\ front \in Seq(TagSet) /\ Len(front) = k
      /\ \A i \in 1 .. k : front[i] = s[i]
  <2>1. \A i \in 1 .. k : s[i] \in TagSet
    BY <1>1
  <2>2. /\ front \in Seq(TagSet)
        /\ Len(front) = IF 1 <= k THEN k - 1 + 1 ELSE 0
        /\ \A i \in 1 .. k - 1 + 1 : front[i] = s[1 + i - 1]
    BY <1>1, <2>1, SubSeqProperties
  <2>3. k - 1 + 1 = k /\ \A i \in 1 .. k : 1 + i - 1 = i
    BY <1>1
  <2> HIDE DEF front
  <2> QED
    BY <1>1, <2>2, <2>3
<1>3. /\ back \in Seq(TagSet) /\ Len(back) = Len(s) - j
      /\ \A i \in 1 .. Len(s) - j : back[i] = MoveTag(s[j + i], d)
  <2>1. ASSUME NEW i \in 1 .. Len(s) - j PROVE MoveTag(s[j + i], d) \in TagSet
    <3>1. j + i \in 1 .. Len(s)
      BY <1>1
    <3>2. s[j + i] \in TagSet
      BY <3>1
    <3> QED
      BY <3>2 DEF MoveTag, TagSet
  <2>2. back \in [1 .. Len(s) - j -> TagSet]
    BY <2>1 DEF MovedTags
  <2>3. \A i \in 1 .. Len(s) - j : back[i] = MoveTag(s[j + i], d)
    BY DEF MovedTags
  <2> HIDE DEF back
  <2>4. back \in Seq(TagSet) /\ Len(back) = Len(s) - j
    <3> HIDE DEF TagSet
    <3> QED
      BY <1>1, <2>2
  <2> QED
    BY <2>3, <2>4
<1>4. Joined(us, TagSet, front, ns, back, k, l, e)
  <2>1. k = Len(front) /\ l = k + Len(ns) /\ e = l + Len(back)
    BY <1>2, <1>3
  <2> HIDE DEF front, back, l, e
  <2> QED
    BY <1>2, <1>3, <2>1, Concat3, Zenon
<1>5. us = Replaced(s, k, j, ns, d)
  BY DEF Replaced
<1> HIDE DEF front, back, us
<1>6. us \in Seq(TagSet) /\ Len(us) = k + Len(ns) + (Len(s) - j)
  BY <1>4 DEF Joined
<1>7. ASSUME NEW i \in 1 .. k PROVE us[i] = s[i]
  BY <1>2, <1>4 DEF Joined
<1>8. ASSUME NEW i \in 1 .. Len(ns) PROVE us[k + i] = ns[i]
  <2>1. k + i \in k + 1 .. l /\ (k + i) - k = i
    BY <1>1
  <2> QED
    BY <1>4, <2>1 DEF Joined
<1>9. ASSUME NEW i \in 1 .. Len(s) - j
      PROVE  us[k + Len(ns) + i] = MoveTag(s[j + i], d)
  <2>1. l + i \in l + 1 .. e /\ (l + i) - l = i
    BY <1>1
  <2>2. us[l + i] = back[i]
    BY <1>4, <2>1 DEF Joined
  <2> QED
    BY <2>2, <1>3
<1> QED
  BY <1>5, <1>6, <1>7, <1>8, <1>9 DEF ReplacedAre

\* Tags that stand in c from lo to hi, in a walk that comes there in node p and
\* leaves in node q.
NewTags(c, lo, hi, p, q, ns) ==
    /\ ns \in Seq(TagSet) /\ Len(ns) # 0
    /\ ns[1] = Entry(c, lo, p)
    /\ \A i \in 1 .. Len(ns) - 1 :
           ns[i + 1] = Entry(c, ns[i].next, Inside(ns[i]))
    /\ \A i \in 1 .. Len(ns) : ~Stops(ns[i])
    /\ ns[Len(ns)].next = hi /\ Inside(ns[Len(ns)]) = q

\* Room for what stands before a change, and behind it.
LEMMA FrontFits ==
  ASSUME NEW S \in Nat, NEW o \in Nat, NEW size \in Nat, NEW lo \in Nat,
         NEW old \in Nat, NEW new \in Nat, NEW block \in Nat, NEW data \in Nat,
         NEW total \in Nat, o + size <= lo, lo + old <= block,
         S + block <= data, data + new - old <= total
  PROVE  /\ o >= 0 /\ S + o + size <= total
         /\ o + size <= block + new - old
  OBVIOUS

\* The bytes behind a change are moved within the tree.
LEMMA BackFits ==
  ASSUME NEW S \in Nat, NEW o \in Nat, NEW size \in Nat, NEW lo \in Nat,
         NEW old \in Nat, NEW new \in Nat, NEW block \in Nat, NEW data \in Nat,
         NEW total \in Nat, lo + old <= o, o + size <= block,
         S + block <= data, data + new - old <= total
  PROVE  /\ o + (new - old) >= 0
         /\ S + (o + (new - old)) + size <= total
         /\ o + (new - old) + size <= block + new - old
         /\ \A x \in 0 .. size - 1 :
               /\ S + o + x \in S + lo + old .. data - 1
               /\ S + (o + (new - old)) + x = (S + o + x) + (new - old)
  OBVIOUS

\* A tag before a change is read as before.
LEMMA EntryKept ==
  ASSUME NEW b, Readable(b), NEW c, Readable(c), NEW lo \in Nat,
         c.off_dt_struct = b.off_dt_struct, Kept(b, c, b.off_dt_struct + lo),
         NEW o \in Nat, ValidTag(b, o), o + TagSize(b, o) <= lo,
         fdt_offset_ptr(c, o, TagSize(b, o)), NEW p \in Path
  PROVE  Entry(c, o, p) = Entry(b, o, p)
<1> DEFINE size == TagSize(b, o)
           S == b.off_dt_struct
<1>1. S \in Nat /\ HeaderSize <= S
  BY ReadNumbers
<1>2. size \in Nat
  BY ValidWhole DEF TagWhole
<1>3. ASSUME NEW x \in 0 .. size - 1
      PROVE  Byte(c, S + (o + 0) + x) = Byte(b, S + o + x)
  <2> HIDE DEF S, size
  <2>1. o + size <= lo
    BY DEF size
  <2>2. S + o + x \in HeaderSize .. (S + lo) - 1
        /\ S + (o + 0) + x = S + o + x
    BY <1>1, <1>2, <2>1
  <2> QED
    BY <2>2 DEF Kept, S
<1>4. Alike(b, b.off_dt_struct + o, c, c.off_dt_struct + (o + 0), size)
  BY <1>3 DEF Alike
<1>5. o + 0 = o
  OBVIOUS
<1>6. 0 \in Int /\ 0 % 4 = 0 /\ o \in Int
  OBVIOUS
<1>7. fdt_offset_ptr(c, o + 0, size)
  BY <1>5
<1>8. Entry(c, o + 0, p) = MoveTag(Entry(b, o, p), 0)
  <2>1. StandsAt(b, o, c, 0)
    BY <1>4, <1>6, <1>7 DEF StandsAt
  <2> QED
    BY <1>6, <2>1, EntryMoves
<1>9. Entry(b, o, p) \in TagSet
  BY <1>6, EntryTyped
<1>10. MoveTag(Entry(b, o, p), 0) = Entry(b, o, p)
  <2> HIDE DEF size, S
  <2>1. \A t \in TagSet : MoveTag(t, 0) = t
    BY DEF MoveTag, TagSet
  <2> QED
    BY <1>9, <2>1
<1> QED
  BY <1>5, <1>8, <1>10

\* A tag behind a change is read as before, further on.
Behind(b, lo, old, o) ==
    /\ ValidTag(b, o) /\ lo + old <= o
    /\ o + TagSize(b, o) <= b.size_dt_struct

\* Behind a change of whole words tags are moved.
LEMMA EntryShifts ==
  ASSUME NEW b, LaidOut(b), NEW c, LaidOut(c),
         NEW lo \in Nat, NEW old \in Nat, NEW new \in Nat,
         Edited(b, c, lo, old, new), (new - old) % 4 = 0,
         NEW o \in Nat, Behind(b, lo, old, o), NEW p \in Path
  PROVE  Entry(c, o + (new - old), p) = MoveTag(Entry(b, o, p), new - old)
<1> DEFINE size == TagSize(b, o)
           S == b.off_dt_struct
           d == new - old
<1>1. Readable(b) /\ Readable(c)
  BY LaidOutReadable
<1>2. size \in Nat
  BY <1>1, ValidWhole DEF TagWhole, Behind
<1>3. /\ S \in Nat /\ b.size_dt_struct \in Nat /\ HeaderSize <= S
      /\ S + b.size_dt_struct <= fdt_data_size_(b) /\ fdt_data_size_(b) \in Nat
      /\ b.totalsize \in Nat
  BY LaidNumbers
<1>4. /\ c.off_dt_struct = S /\ c.size_dt_struct = b.size_dt_struct + new - old
      /\ c.totalsize = b.totalsize
      /\ Moved(b, c, S + lo + old, new - old)
      /\ fdt_data_size_(b) + new - old <= b.totalsize
  BY DEF Edited
<1>5. /\ o + d >= 0
      /\ S + (o + d) + size <= b.totalsize
      /\ o + d + size <= b.size_dt_struct + new - old
      /\ \A x \in 0 .. size - 1 :
            /\ S + o + x \in S + lo + old .. fdt_data_size_(b) - 1
            /\ S + (o + d) + x = (S + o + x) + (new - old)
  <2>1. lo + old <= o /\ o + size <= b.size_dt_struct
    BY DEF Behind
  <2> QED
    BY <1>2, <1>3, <1>4, <2>1, BackFits
<1>6. fdt_offset_ptr(c, o + d, size)
  BY <1>4, <1>5 DEF fdt_offset_ptr
<1>7. Alike(b, b.off_dt_struct + o, c, c.off_dt_struct + (o + d), size)
  <2>1. ASSUME NEW x \in 0 .. size - 1
        PROVE  Byte(c, S + (o + d) + x) = Byte(b, S + o + x)
    <3>1. /\ S + o + x \in S + lo + old .. fdt_data_size_(b) - 1
          /\ S + (o + d) + x = (S + o + x) + (new - old)
      BY <1>5
    <3> QED
      BY <1>4, <3>1 DEF Moved
  <2> QED
    BY <1>4, <2>1 DEF Alike
<1>8. d \in Int /\ d % 4 = 0 /\ o \in Int
  OBVIOUS
<1> HIDE DEF d
<1>9. StandsAt(b, o, c, d)
  BY <1>6, <1>7, <1>8 DEF StandsAt, Behind
<1>10. Entry(c, o + d, p) = MoveTag(Entry(b, o, p), d)
  <2>1. d \in Int /\ o \in Int
    BY <1>8
  <2> QED
    BY <1>1, <1>9, <2>1, EntryMoves
<1> QED
  BY <1>10 DEF d

\* c is b with whole tags for the ones from the k-th, without it, to the j-th.
Changed(b, s, k, j, lo, old, new, c, ns) ==
    /\ LaidOut(b) /\ Walk(b, s) /\ s[Len(s)].next # -1
    /\ k \in 1 .. Len(s) - 1 /\ j \in k .. Len(s) - 1
    /\ s[k].next = lo /\ s[j].next = lo + old /\ (new - old) % 4 = 0
    /\ Edited(b, c, lo, old, new)
    /\ NewTags(c, lo, lo + new, Inside(s[k]), Inside(s[j]), ns)

\* After a change of whole tags to whole tags the walk has the new ones in the
\* place of the old.
LEMMA ReplaceWalk ==
  ASSUME NEW b, NEW s, NEW k, NEW j,
         NEW lo \in Nat, NEW old \in Nat, NEW new \in Nat, NEW c, NEW ns,
         Changed(b, s, k, j, lo, old, new, c, ns)
  PROVE  /\ Walk(c, Replaced(s, k, j, ns, new - old))
         /\ lo + old <= b.size_dt_struct
<1> DEFINE d == new - old
           us == Replaced(s, k, j, ns, d)
           n == Len(s)
           m == Len(ns)
           S == b.off_dt_struct
<1>0. /\ LaidOut(b) /\ Walk(b, s) /\ s[n].next # -1
      /\ k \in 1 .. n - 1 /\ j \in k .. n - 1
      /\ s[k].next = lo /\ s[j].next = lo + old
      /\ Edited(b, c, lo, old, new)
      /\ NewTags(c, lo, lo + new, Inside(s[k]), Inside(s[j]), ns)
  BY DEF Changed
<1>1. Readable(b) /\ BlockEnd(b) = b.size_dt_struct
  BY <1>0, LaidOutReadable
<1>2. n \in Nat /\ s \in Seq(TagSet) /\ n # 0
  BY <1>0 DEF Walk, WalkFrom
<1>3. m \in Nat /\ ns \in Seq(TagSet) /\ m # 0
  BY <1>0 DEF NewTags
<1>4. k \in 1 .. n /\ j \in 1 .. n /\ k # n /\ j # n /\ k \in Nat /\ j \in Nat
      /\ k <= j
  BY <1>0, <1>2
<1>5. lo + old <= b.size_dt_struct
  BY <1>0, <1>1, <1>4, WholeTag
<1>6. LaidOut(c) /\ fdt_data_size_(c) = fdt_data_size_(b) + new - old
  BY <1>0, <1>5, EditedLaidOut
<1>7. Readable(c) /\ BlockEnd(c) = c.size_dt_struct
  BY <1>6, LaidOutReadable
<1>8. /\ c.off_dt_struct = S /\ c.size_dt_struct = b.size_dt_struct + new - old
      /\ c.totalsize = b.totalsize /\ c.version = 17
      /\ Kept(b, c, S + lo) /\ Moved(b, c, S + lo + old, new - old)
  <2>1. c.version = 17
    BY <1>0, LaidNumbers DEF Edited
  <2> QED
    BY <1>0, <2>1 DEF Edited
<1>9. /\ S \in Nat /\ b.size_dt_struct \in Nat /\ HeaderSize <= S
      /\ S + b.size_dt_struct <= fdt_data_size_(b) /\ fdt_data_size_(b) \in Nat
      /\ fdt_data_size_(b) + new - old <= b.totalsize /\ b.totalsize \in Nat
  <2>1. fdt_data_size_(b) + new - old <= b.totalsize
    BY <1>0 DEF Edited
  <2>2. /\ S \in Nat /\ b.size_dt_struct \in Nat /\ HeaderSize <= S
        /\ S + b.size_dt_struct <= fdt_data_size_(b)
        /\ fdt_data_size_(b) \in Nat
        /\ b.totalsize \in Nat
    BY <1>0, LaidNumbers
  <2> QED
    BY <2>1, <2>2
<1>a. s[k].next = lo /\ s[j].next = lo + old /\ lo \in Nat /\ old \in Nat
      /\ new \in Nat
  BY <1>0
<1>b. (new - old) % 4 = 0
  BY DEF Changed
<1> HIDE DEF S
<1>10. ASSUME NEW i \in 1 .. k
       PROVE  s[i] = Entry(c, s[i].off, Before(s, i))
  <2> DEFINE o == s[i].off
             size == TagSize(b, o)
  <2>1. i \in 1 .. n
    BY <1>2, <1>4
  <2>2. /\ o \in Nat /\ Before(s, i) \in Path
        /\ s[i] = Entry(b, o, Before(s, i))
        /\ s[i].next \in Int
    BY SMTT(60), <1>0, <1>1, <2>1, WalkTag
  <2>3. ValidTag(b, o) /\ o + size <= s[i].next
    BY <1>0, <1>1, <2>1, WholeTag
  <2>4. s[i].next <= lo
    <3>1. CASE i = k
      <4>1. s[i].next = lo
        BY <1>a, <3>1
      <4> QED
        BY <4>1
    <3>2. CASE i # k
      <4>1. i < k
        BY <1>4, <3>2
      <4>2. s[i].next <= s[k].off
        BY <1>0, <1>1, <1>4, <2>1, <4>1, WalkOrder
      <4>3. s[k].off + 4 <= lo /\ s[k].off \in Nat
        BY <1>0, <1>1, <1>4, WalkTag
      <4> DEFINE x == s[i].next
                 y == s[k].off
      <4>4. x \in Int /\ y \in Nat /\ x <= y /\ y + 4 <= lo
        BY <2>2, <4>2, <4>3
      <4>5. x <= lo
        <5> HIDE DEF x, y, o, size
        <5> QED
          BY <4>4
      <4> QED
        BY <4>5
    <3> QED
      BY <3>1, <3>2
  <2>5. size \in Nat
    BY <1>1, <2>2, <2>3, ValidWhole DEF TagWhole
  <2>6. o + size <= lo
    <3>1. /\ o \in Nat /\ s[i].next \in Int /\ o + size <= s[i].next
          /\ s[i].next <= lo /\ size \in Nat
      BY <2>2, <2>3, <2>4, <2>5
    <3> HIDE DEF o, size
    <3> QED
      BY <3>1
  <2>7. /\ o >= 0 /\ S + o + size <= b.totalsize
        /\ o + size <= b.size_dt_struct + new - old
    <3>1. /\ S \in Nat /\ b.size_dt_struct \in Nat /\ o \in Nat
          /\ S + b.size_dt_struct <= fdt_data_size_(b)
          /\ fdt_data_size_(b) \in Nat /\ b.totalsize \in Nat
          /\ fdt_data_size_(b) + new - old <= b.totalsize
      BY <1>9, <2>2
    <3>2. size \in Nat /\ o + size <= lo
      BY <2>5, <2>6
    <3> HIDE DEF o, size
    <3> QED
      BY <1>5, <3>1, <3>2, <1>a
  <2>8. fdt_offset_ptr(c, o, size)
    BY <1>8, <2>7 DEF fdt_offset_ptr
  <2>9. Kept(b, c, b.off_dt_struct + lo) /\ c.off_dt_struct = b.off_dt_struct
    BY <1>8 DEF S
  <2> QED
    BY <1>1, <1>7, <2>2, <2>3, <2>6, <2>8, <2>9, EntryKept
<1>11. ASSUME NEW i \in j + 1 .. n
       PROVE  MoveTag(s[i], d) = Entry(c, s[i].off + d, Before(s, i))
  <2> DEFINE o == s[i].off
             size == TagSize(b, o)
  <2>1. i \in 1 .. n /\ j < i
    BY <1>2, <1>4
  <2>2. /\ o \in Nat /\ Before(s, i) \in Path
        /\ s[i] = Entry(b, o, Before(s, i))
        /\ s[i].next \in Int
    BY <1>0, <1>1, <2>1, WalkTag
  <2>3. ValidTag(b, o) /\ o + size <= s[i].next
        /\ s[i].next <= b.size_dt_struct
    BY <1>0, <1>1, <2>1, WholeTag
  <2>4. lo + old <= o
    BY <1>0, <1>1, <1>4, <2>1, WalkOrder
  <2>5. size \in Nat
    BY <1>1, <1>9, <2>2, <2>3, ValidWhole DEF TagWhole
  <2>6. o + size <= b.size_dt_struct
    <3>1. /\ o \in Nat /\ s[i].next \in Int /\ o + size <= s[i].next
          /\ s[i].next <= b.size_dt_struct /\ size \in Nat
          /\ b.size_dt_struct \in Nat
      BY <1>9, <2>2, <2>3, <2>5
    <3> HIDE DEF o, size
    <3> QED
      BY <3>1
  <2>7. Entry(c, o + (new - old), Before(s, i))
            = MoveTag(Entry(b, o, Before(s, i)), new - old)
    <3>1. Behind(b, lo, old, o)
      BY <2>3, <2>4, <2>6 DEF Behind
    <3>2. /\ LaidOut(b) /\ LaidOut(c) /\ Edited(b, c, lo, old, new)
          /\ o \in Nat /\ Before(s, i) \in Path
      BY <1>0, <1>6, <2>2
    <3> HIDE DEF o, size
    <3> QED
      BY <1>b, <3>1, <3>2, EntryShifts
  <2> QED
    BY <2>2, <2>7
<1>12. ReplacedAre(s, k, j, ns, d, us)
  <2>1. k \in 0 .. Len(s) /\ j \in k .. Len(s) /\ d \in Int
    BY <1>2, <1>4
  <2> HIDE DEF d
  <2> QED
    BY <1>2, <1>3, <2>1, ReplacedTags
<1> DEFINE N == k + m + (n - j)
<1>13. /\ us \in Seq(TagSet) /\ Len(us) = N
       /\ \A i \in 1 .. k : us[i] = s[i]
       /\ \A i \in 1 .. m : us[k + i] = ns[i]
       /\ \A i \in 1 .. n - j : us[k + m + i] = MoveTag(s[j + i], d)
  BY <1>12 DEF ReplacedAre
<1>14. \A i \in 1 .. n - 1 : /\ s[i + 1].off = s[i].next
                           /\ ~Stops(s[i])
                           /\ Before(s, i + 1) = Inside(s[i])
  <2> SUFFICES ASSUME NEW i \in 1 .. n - 1
               PROVE  /\ s[i + 1].off = s[i].next /\ ~Stops(s[i])
                      /\ Before(s, i + 1) = Inside(s[i])
    OBVIOUS
  <2>1. i \in 1 .. n /\ i # n /\ i + 1 # 1 /\ (i + 1) - 1 = i
    BY <1>2
  <2>2. s[i + 1].off = s[i].next /\ ~Stops(s[i])
    BY <1>0, <1>1, <2>1, WalkTag
  <2>3. Before(s, i + 1) = Inside(s[i])
    BY <2>1 DEF Before
  <2> QED
    BY <2>2, <2>3
<1>15. \A t : Stops(MoveTag(t, d)) = Stops(t) /\ Inside(MoveTag(t, d)) = Inside(t)
             /\ MoveTag(t, d).next = t.next + d
  BY DEF Stops, Inside, MoveTag
<1>16. /\ ns[1] = Entry(c, lo, Inside(s[k]))
       /\ \A i \in 1 .. m - 1 : ns[i + 1] = Entry(c, ns[i].next, Inside(ns[i]))
       /\ \A i \in 1 .. m : ~Stops(ns[i])
       /\ ns[m].next = lo + new /\ Inside(ns[m]) = Inside(s[j])
  BY <1>0 DEF NewTags
<1>17. us[1] = Entry(c, 0, <<>>)
  <2>1. 1 \in 1 .. k /\ 1 \in 1 .. n
    BY <1>4, <1>2
  <2>2. s[1].off = 0 /\ Before(s, 1) = <<>>
    BY <1>0, <1>1, <2>1, WalkTag DEF Before
  <2> QED
    BY <1>10, <1>13, <2>1, <2>2
<1>18. Stops(us[N])
  <2>1. n \in 1 .. n /\ n - j \in 1 .. n - j /\ j + (n - j) = n
    BY <1>2, <1>4
  <2>2. Stops(s[n])
    BY <1>0, <1>1, <2>1, WalkTag
  <2>3. us[k + m + (n - j)] = MoveTag(s[j + (n - j)], d)
    BY <1>13, <2>1
  <2> HIDE DEF us, d
  <2> QED
    BY <1>15, <2>1, <2>2, <2>3
<1>19. ASSUME NEW i \in 1 .. N - 1
       PROVE  ~Stops(us[i]) /\ us[i + 1] = Entry(c, us[i].next, Inside(us[i]))
  <2> HIDE DEF us, d
  <2>1. CASE i < k
    <3>1. i \in 1 .. k /\ i + 1 \in 1 .. k /\ i \in 1 .. n - 1
      BY <1>2, <1>4, <2>1
    <3>2. us[i] = s[i] /\ us[i + 1] = s[i + 1]
      BY <1>13, <3>1
    <3>3. s[i + 1] = Entry(c, s[i + 1].off, Before(s, i + 1))
      BY <1>10, <3>1
    <3> QED
      BY <1>14, <3>1, <3>2, <3>3
  <2>2. CASE i = k
    <3>1. k \in 1 .. k /\ k \in 1 .. n - 1 /\ 1 \in 1 .. m
      BY <1>2, <1>3, <1>4
    <3>2. us[k] = s[k] /\ us[k + 1] = ns[1]
      BY <1>13, <3>1
    <3>3. ~Stops(s[k])
      BY <1>14, <3>1
    <3> QED
      BY <1>16, <1>a, <2>2, <3>2, <3>3
  <2>3. CASE k < i /\ i < k + m
    <3> DEFINE x == i - k
    <3>1. x \in 1 .. m /\ x \in 1 .. m - 1 /\ x + 1 \in 1 .. m
          /\ i = k + x /\ i + 1 = k + (x + 1)
      BY <1>3, <1>4, <2>3
    <3> HIDE DEF x
    <3>2. us[i] = ns[x] /\ us[i + 1] = ns[x + 1]
      BY <1>13, <3>1
    <3> QED
      BY <1>16, <3>1, <3>2
  <2>4. CASE i = k + m
    <3>1. m \in 1 .. m /\ 1 \in 1 .. n - j /\ j \in 1 .. n - 1
          /\ j + 1 \in j + 1 .. n /\ i + 1 = k + m + 1
      BY <1>2, <1>3, <1>4, <2>4
    <3>2. us[i] = ns[m] /\ us[i + 1] = MoveTag(s[j + 1], d)
      BY <1>13, <2>4, <3>1
    <3>3. MoveTag(s[j + 1], d) = Entry(c, s[j + 1].off + d, Before(s, j + 1))
      BY <1>11, <3>1
    <3>4. s[j + 1].off = lo + old /\ Before(s, j + 1) = Inside(s[j])
      BY <1>14, <1>a, <3>1
    <3>5. (lo + old) + d = lo + new
      BY <1>a DEF d
    <3> QED
      BY <1>16, <3>1, <3>2, <3>3, <3>4, <3>5
  <2>5. CASE k + m < i
    <3> DEFINE x == i - (k + m)
    <3>1. /\ x \in 1 .. n - j /\ x + 1 \in 1 .. n - j /\ j + x \in 1 .. n - 1
          /\ j + (x + 1) \in j + 1 .. n /\ i = k + m + x
          /\ i + 1 = k + m + (x + 1) /\ j + (x + 1) = (j + x) + 1
      BY <1>2, <1>3, <1>4, <2>5
    <3> HIDE DEF x
    <3>2. us[i] = MoveTag(s[j + x], d)
          /\ us[i + 1] = MoveTag(s[(j + x) + 1], d)
      BY <1>13, <3>1
    <3>3. MoveTag(s[(j + x) + 1], d)
              = Entry(c, s[(j + x) + 1].off + d, Before(s, (j + x) + 1))
      BY <1>11, <3>1
    <3>4. /\ s[(j + x) + 1].off = s[j + x].next /\ ~Stops(s[j + x])
          /\ Before(s, (j + x) + 1) = Inside(s[j + x])
      BY <1>14, <3>1
    <3> QED
      BY <1>15, <3>2, <3>3, <3>4
  <2>6. i < k \/ i = k \/ (k < i /\ i < k + m) \/ i = k + m \/ k + m < i
    BY <1>3, <1>4
  <2> QED
    BY <2>1, <2>2, <2>3, <2>4, <2>5, <2>6
<1>20. Len(us) # 0
  BY <1>2, <1>3, <1>4, <1>13
<1>21. Walk(c, us)
  <2> HIDE DEF us
  <2> QED
    BY <1>13, <1>17, <1>18, <1>19, <1>20 DEF Walk, WalkFrom
<1> QED
  BY <1>5, <1>21

\* The tags of a walk lie behind each other.
Apart(T) ==
    /\ T \subseteq TagSet
    /\ \A t \in T : /\ t.off \in Nat /\ t.off % 4 = 0 /\ t.next \in Int
                    /\ t.path \in Path
    /\ \A t, u \in T : t.off = u.off => t = u
    /\ \A t, u \in T : t.off < u.off => t.off + 4 <= t.next /\ t.next <= u.off

\* The tags of a walk are apart from each other.
LEMMA WalkSet ==
  ASSUME NEW b, Readable(b), NEW s, Walk(b, s)
  PROVE  Apart(ToSet(s))
<1>1. Len(s) \in Nat /\ s \in Seq(TagSet)
  BY DEF Walk, WalkFrom
<1>2. \A t \in ToSet(s) : \E i \in 1 .. Len(s) : t = s[i]
  BY <1>1 DEF ToSet
<1>3. \A i \in 1 .. Len(s) : /\ s[i] \in TagSet /\ s[i].off \in Nat
                             /\ s[i].off % 4 = 0 /\ s[i].next \in Int
                             /\ s[i].path \in Path
  BY WalkTag
<1>4. \A i, j \in 1 .. Len(s) :
          i < j => s[i].off + 4 <= s[i].next /\ s[i].next <= s[j].off
  <2> SUFFICES ASSUME NEW i \in 1 .. Len(s), NEW j \in 1 .. Len(s), i < j
               PROVE  s[i].off + 4 <= s[i].next /\ s[i].next <= s[j].off
    OBVIOUS
  <2>1. i # Len(s)
    BY <1>1
  <2>2. s[i].off + 4 <= s[i].next
    BY <2>1, WalkTag
  <2> QED
    BY <2>2, WalkOrder
<1>5. \A i, j \in 1 .. Len(s) : s[i].off < s[j].off => i < j
  <2> SUFFICES ASSUME NEW i \in 1 .. Len(s), NEW j \in 1 .. Len(s),
                      s[i].off < s[j].off, ~(i < j)
               PROVE  FALSE
    OBVIOUS
  <2>1. s[i].off \in Nat /\ s[j].off \in Nat /\ s[j].next \in Int
    BY <1>3
  <2>2. j = i \/ j < i
    BY <1>1
  <2>3. CASE j < i
    <3>1. s[j].off + 4 <= s[j].next /\ s[j].next <= s[i].off
      BY <1>4, <2>3
    <3> QED
      BY <2>1, <3>1
  <2> QED
    BY <2>1, <2>2, <2>3
<1>6. \A i, j \in 1 .. Len(s) : s[i].off = s[j].off => i = j
  <2> SUFFICES ASSUME NEW i \in 1 .. Len(s), NEW j \in 1 .. Len(s),
                      s[i].off = s[j].off, i < j
               PROVE  FALSE
    BY <1>1
  <2>1. s[i].off \in Nat /\ s[j].off \in Nat /\ s[i].next \in Int
    BY <1>3
  <2>2. s[i].off + 4 <= s[i].next /\ s[i].next <= s[j].off
    BY <1>4
  <2> QED
    BY <2>1, <2>2
<1>7. ASSUME NEW t \in ToSet(s), NEW u \in ToSet(s)
      PROVE  /\ t.off = u.off => t = u
             /\ t.off < u.off => t.off + 4 <= t.next /\ t.next <= u.off
  <2>1. PICK i \in 1 .. Len(s) : t = s[i]
    BY <1>2
  <2>2. PICK j \in 1 .. Len(s) : u = s[j]
    BY <1>2
  <2> QED
    BY <1>4, <1>5, <1>6, <2>1, <2>2
<1>8. \A t \in ToSet(s) : t \in TagSet /\ t.off \in Nat /\ t.off % 4 = 0
                          /\ t.next \in Int /\ t.path \in Path
  BY <1>2, <1>3
<1> QED
  BY <1>7, <1>8 DEF Apart

\* The tags U are those of T with X for the ones from lo to lo + old, the ones
\* behind them d bytes further on.
Exchanged(T, U, lo, old, d, X) ==
    /\ \A t \in T : t.off < lo => t \in U
    /\ \A t \in T : lo + old <= t.off => MoveTag(t, d) \in U
    /\ X \subseteq U
    /\ \A u \in U : \/ u \in T /\ u.off < lo
                    \/ u \in X
                    \/ \E t \in T : lo + old <= t.off /\ u = MoveTag(t, d)

\* A walk with other tags is an exchange of tags.
LEMMA ReplacedSet ==
  ASSUME NEW b, NEW s, NEW k, NEW j,
         NEW lo \in Nat, NEW old \in Nat, NEW new \in Nat, NEW c, NEW ns,
         Changed(b, s, k, j, lo, old, new, c, ns),
         NEW us, us = Replaced(s, k, j, ns, new - old)
  PROVE  /\ Exchanged(ToSet(s), ToSet(us), lo, old, new - old, ToSet(ns))
         /\ us[Len(us)].next = s[Len(s)].next + (new - old)
         /\ us[1] = s[1]
<1> DEFINE d == new - old
           n == Len(s)
           m == Len(ns)
<1>0. /\ LaidOut(b) /\ Walk(b, s) /\ s[n].next # -1
      /\ k \in 1 .. n - 1 /\ j \in k .. n - 1
      /\ s[k].next = lo /\ s[j].next = lo + old
      /\ NewTags(c, lo, lo + new, Inside(s[k]), Inside(s[j]), ns)
  BY DEF Changed
<1>1. Readable(b)
  BY <1>0, LaidOutReadable
<1>2. n \in Nat /\ s \in Seq(TagSet) /\ n # 0
  BY <1>0 DEF Walk, WalkFrom
<1>3. m \in Nat /\ ns \in Seq(TagSet) /\ m # 0
  BY <1>0 DEF NewTags
<1>4. k \in 1 .. n /\ j \in 1 .. n /\ k # n /\ j # n /\ k \in Nat /\ j \in Nat
      /\ k <= j
  BY <1>0, <1>2
<1>5. ReplacedAre(s, k, j, ns, d, us)
  <2>1. k \in 0 .. Len(s) /\ j \in k .. Len(s) /\ d \in Int
    BY <1>2, <1>4
  <2> HIDE DEF d
  <2>2. us = Replaced(s, k, j, ns, d)
    BY DEF d
  <2> QED
    BY <1>2, <1>3, <2>1, <2>2, ReplacedTags
<1> HIDE DEF d
<1>6. /\ us \in Seq(TagSet) /\ Len(us) = k + m + (n - j)
      /\ \A i \in 1 .. k : us[i] = s[i]
      /\ \A i \in 1 .. m : us[k + i] = ns[i]
      /\ \A i \in 1 .. n - j : us[k + m + i] = MoveTag(s[j + i], d)
  BY <1>5 DEF ReplacedAre
<1>7. \A t : t \in ToSet(s) <=> \E i \in 1 .. n : t = s[i]
  BY <1>2 DEF ToSet
<1>8. \A t : t \in ToSet(ns) <=> \E i \in 1 .. m : t = ns[i]
  BY <1>3 DEF ToSet
<1>9. \A t : t \in ToSet(us) <=> \E i \in 1 .. k + m + (n - j) : t = us[i]
  BY <1>6 DEF ToSet
<1>10. ASSUME NEW i \in 1 .. n
       PROVE  /\ s[i].off < lo <=> i <= k
              /\ lo + old <= s[i].off <=> j < i
  <2>1. /\ s[i].off \in Nat /\ s[i].next \in Int /\ s[i].off < s[i].next
        /\ s[k].next \in Int /\ s[j].next \in Int
    <3>1. /\ s[i].off \in Nat /\ s[i].next \in Int
          /\ s[k].next \in Int /\ s[j].next \in Int
      BY <1>0, <1>1, <1>4, WalkTag
    <3>2. s[i].off + 4 <= s[i].next
      BY <1>0, <1>1, WholeTag
    <3> QED
      BY <3>1, <3>2
  <2>2. /\ i < k => s[i].next <= s[k].off
        /\ k < i => s[k].next <= s[i].off
        /\ i < j => s[i].next <= s[j].off
        /\ j < i => s[j].next <= s[i].off
    BY <1>0, <1>1, <1>4, WalkOrder
  <2>3. /\ s[k].off \in Nat /\ s[k].off + 4 <= s[k].next
        /\ s[j].off \in Nat /\ s[j].off + 4 <= s[j].next
    BY <1>0, <1>1, <1>4, WalkTag
  <2>4. i < k \/ i = k \/ k < i
    BY <1>4
  <2>5. i < j \/ i = j \/ j < i
    BY <1>4
  <2>6. s[i].off < lo <=> i <= k
    <3> DEFINE x == s[i].off
               y == s[i].next
               z == s[k].off
    <3>1. /\ x \in Nat /\ y \in Int /\ x < y /\ z \in Nat /\ z + 4 <= lo
          /\ i < k => y <= z
          /\ k < i => lo <= x
          /\ i = k => x = z
      BY <1>0, <2>1, <2>2, <2>3
    <3> HIDE DEF x, y, z
    <3>2. x < lo <=> i <= k
      BY <1>4, <2>4, <3>1
    <3> QED
      BY <3>2 DEF x
  <2>7. lo + old <= s[i].off <=> j < i
    <3> DEFINE x == s[i].off
               y == s[i].next
               z == s[j].off
    <3>1. /\ x \in Nat /\ y \in Int /\ x < y /\ z \in Nat /\ z + 4 <= lo + old
          /\ i < j => y <= z
          /\ j < i => lo + old <= x
          /\ i = j => x = z
      BY <1>0, <2>1, <2>2, <2>3
    <3> HIDE DEF x, y, z
    <3>2. lo + old <= x <=> j < i
      BY <1>4, <2>5, <3>1
    <3> QED
      BY <3>2 DEF x
  <2> QED
    BY <2>6, <2>7
<1>11. ASSUME NEW t \in ToSet(s), t.off < lo
       PROVE  t \in ToSet(us)
  <2>1. PICK i \in 1 .. n : t = s[i]
    BY <1>7
  <2>2. i \in 1 .. k /\ i \in 1 .. k + m + (n - j)
    BY <1>2, <1>3, <1>4, <1>10, <1>11, <2>1
  <2> QED
    BY <1>6, <1>9, <2>1, <2>2
<1>12. ASSUME NEW t \in ToSet(s), lo + old <= t.off
       PROVE  MoveTag(t, d) \in ToSet(us)
  <2>1. PICK i \in 1 .. n : t = s[i]
    BY <1>7
  <2>2. j < i
    BY <1>10, <1>12, <2>1
  <2>3. /\ i - j \in 1 .. n - j /\ j + (i - j) = i
        /\ k + m + (i - j) \in 1 .. k + m + (n - j)
    BY <1>2, <1>3, <1>4, <2>2
  <2>4. us[k + m + (i - j)] = MoveTag(s[j + (i - j)], d)
    BY <1>6, <2>3
  <2> QED
    BY <1>9, <2>1, <2>3, <2>4
<1>13. ToSet(ns) \subseteq ToSet(us)
  <2> SUFFICES ASSUME NEW t \in ToSet(ns)
               PROVE  t \in ToSet(us)
    OBVIOUS
  <2>1. PICK i \in 1 .. m : t = ns[i]
    BY <1>8
  <2>2. k + i \in 1 .. k + m + (n - j)
    BY <1>2, <1>3, <1>4
  <2> QED
    BY <1>6, <1>9, <2>1, <2>2
<1>14. ASSUME NEW u \in ToSet(us)
       PROVE  \/ u \in ToSet(s) /\ u.off < lo
              \/ u \in ToSet(ns)
              \/ \E t \in ToSet(s) : lo + old <= t.off /\ u = MoveTag(t, d)
  <2>1. PICK i \in 1 .. k + m + (n - j) : u = us[i]
    BY <1>9
  <2>2. CASE i <= k
    <3>1. i \in 1 .. k /\ i \in 1 .. n
      BY <1>2, <1>4, <2>2
    <3> QED
      BY <1>6, <1>7, <1>10, <2>1, <2>2, <3>1
  <2>3. CASE k < i /\ i <= k + m
    <3>1. i - k \in 1 .. m /\ k + (i - k) = i
      BY <1>3, <1>4, <2>3
    <3>2. us[k + (i - k)] = ns[i - k]
      BY <1>6, <3>1
    <3> QED
      BY <1>8, <2>1, <3>1, <3>2
  <2>4. CASE k + m < i
    <3> DEFINE x == i - (k + m)
    <3>1. x \in 1 .. n - j /\ k + m + x = i /\ j + x \in 1 .. n /\ j < j + x
      BY <1>2, <1>3, <1>4, <2>4
    <3> HIDE DEF x
    <3>2. us[k + m + x] = MoveTag(s[j + x], d)
      BY <1>6, <3>1
    <3>3. lo + old <= s[j + x].off /\ s[j + x] \in ToSet(s)
      BY <1>7, <1>10, <3>1
    <3> QED
      BY <2>1, <3>1, <3>2, <3>3
  <2>5. i <= k \/ (k < i /\ i <= k + m) \/ k + m < i
    BY <1>3, <1>4
  <2> QED
    BY <2>2, <2>3, <2>4, <2>5
<1>15. us[Len(us)].next = s[n].next + d
  <2>1. n - j \in 1 .. n - j /\ j + (n - j) = n
    BY <1>2, <1>4
  <2>2. us[k + m + (n - j)] = MoveTag(s[j + (n - j)], d)
    BY <1>6, <2>1
  <2>3. us[Len(us)] = MoveTag(s[n], d)
    BY <1>6, <2>1, <2>2
  <2> QED
    BY <2>3 DEF MoveTag
<1>16. us[1] = s[1]
  BY <1>4, <1>6
<1> QED
  BY <1>11, <1>12, <1>13, <1>14, <1>15, <1>16 DEF Exchanged, d

------------------------------------------------------------------------------
\* Offsets within the block of an editable tree may be read.
LEMMA MayRead ==
  ASSUME NEW c, LaidOut(c), NEW o \in Nat, NEW n \in Nat,
         o + n <= c.size_dt_struct
  PROVE  fdt_offset_ptr(c, o, n)
<1> DEFINE S == c.off_dt_struct
           block == c.size_dt_struct
           dsize == fdt_data_size_(c)
           total == c.totalsize
<1>1. /\ S \in Nat /\ block \in Nat /\ dsize \in Nat /\ total \in Nat
      /\ S + block <= dsize /\ dsize <= total
  BY LaidNumbers
<1>2. o + n <= block
  OBVIOUS
<1> HIDE DEF S, block, dsize, total
<1>3. o >= 0 /\ S + o + n <= total
  BY <1>1, <1>2
<1> QED
  BY <1>2, <1>3 DEF fdt_offset_ptr, S, block, total

\* A property's words read as its tag.
LEMMA PropTag ==
  ASSUME NEW c, LaidOut(c), NEW lo \in Nat, lo % 4 = 0, NEW len \in Nat,
         Byte(c, c.off_dt_struct + lo) = FDT_PROP,
         Byte(c, c.off_dt_struct + lo + 4) = len,
         lo + (PropertySize + FDT_TAGALIGN(len)) <= c.size_dt_struct,
         NEW p
  PROVE  Entry(c, lo, p) =
            [tag |-> FDT_PROP, off |-> lo,
             next |-> lo + (PropertySize + FDT_TAGALIGN(len)), path |-> p]
<1> DEFINE S == c.off_dt_struct
           al == FDT_TAGALIGN(len)
<1>1. Byte(c, S + lo) = FDT_PROP /\ Byte(c, S + lo + FDT_TAGSIZE) = len
  OBVIOUS
<1>2. al \in Int /\ len <= al
  BY TagAlign
<1>3. lo + 4 <= c.size_dt_struct /\ lo + 4 + 4 <= c.size_dt_struct
      /\ lo + (12 + len) <= c.size_dt_struct
  <2>1. c.size_dt_struct \in Nat /\ lo + (12 + al) <= c.size_dt_struct
    BY LaidNumbers
  <2> HIDE DEF al
  <2> QED
    BY <1>2, <2>1
<1>4. TagSize(c, lo) = 12 + len
  <2> HIDE DEF S
  <2> QED
    BY <1>1 DEF TagSize, S
<1>5. ValidTag(c, lo)
  <2>1. fdt_offset_ptr(c, lo, FDT_TAGSIZE)
    BY <1>3, MayRead
  <2>2. fdt_offset_ptr(c, lo + FDT_TAGSIZE, FDT_TAGSIZE)
    BY <1>3, MayRead
  <2>3. fdt_offset_ptr(c, lo, TagSize(c, lo))
    <3>1. 12 + len \in Nat
      OBVIOUS
    <3>2. fdt_offset_ptr(c, lo, 12 + len)
      BY <1>3, <3>1, MayRead
    <3> QED
      BY <1>4, <3>2
  <2>4. Byte(c, c.off_dt_struct + lo) \in
           {FDT_BEGIN_NODE, FDT_END_NODE, FDT_PROP, FDT_NOP, FDT_END}
    BY <1>1
  <2> QED
    BY <2>1, <2>2, <2>3, <2>4 DEF ValidTag
<1>6. FDT_TAGALIGN(lo + (12 + len)) = lo + (12 + al)
  <2>1. (12 + lo) % 4 = 0 /\ 12 + lo \in Int
        /\ lo + (12 + len) = len + (12 + lo)
    OBVIOUS
  <2>2. FDT_TAGALIGN(len + (12 + lo)) = al + (12 + lo)
    BY <2>1, TagAlign
  <2> HIDE DEF al
  <2> QED
    BY <1>2, <2>1, <2>2
<1>7. fdt_next_tag(c, lo) = [tag |-> FDT_PROP, off |-> lo, next |-> lo + (12 + al)]
  BY <1>1, <1>4, <1>5, <1>6, NextTag
<1> QED
  BY <1>7 DEF Entry

\* A new node's words, its name among them, stand from lo on.
NodeReads(c, lo, name, hi) ==
    /\ Byte(c, c.off_dt_struct + lo) = FDT_BEGIN_NODE
    /\ StringOf(c, c.off_dt_struct + (lo + 4), Len(name))
    /\ Bytes(c, c.off_dt_struct + (lo + 4), Len(name)) = name
    /\ hi = lo + (4 + FDT_TAGALIGN(Len(name) + 1))
    /\ Byte(c, c.off_dt_struct + hi) = FDT_END_NODE
    /\ hi + 4 <= c.size_dt_struct
NodeGives(c, lo, name, hi, p) ==
    /\ Entry(c, lo, p) = [tag |-> FDT_BEGIN_NODE, off |-> lo,
                          next |-> hi, path |-> Append(p, name)]
    /\ \A q : Entry(c, hi, q) = [tag |-> FDT_END_NODE, off |-> hi,
                                 next |-> hi + 4, path |-> q]
\* They read as its tags.
LEMMA NodeTags ==
  ASSUME NEW c, LaidOut(c), NEW lo \in Nat, lo % 4 = 0, NEW name, NEW hi,
         NodeReads(c, lo, name, hi), NEW p
  PROVE  NodeGives(c, lo, name, hi, p)
<1> SUFFICES
      ASSUME Byte(c, c.off_dt_struct + lo) = FDT_BEGIN_NODE,
             StringOf(c, c.off_dt_struct + (lo + 4), Len(name)),
             Bytes(c, c.off_dt_struct + (lo + 4), Len(name)) = name,
             hi = lo + (4 + FDT_TAGALIGN(Len(name) + 1)),
             Byte(c, c.off_dt_struct + hi) = FDT_END_NODE,
             hi + 4 <= c.size_dt_struct
      PROVE  /\ Entry(c, lo, p) = [tag |-> FDT_BEGIN_NODE, off |-> lo,
                                   next |-> hi, path |-> Append(p, name)]
             /\ \A q : Entry(c, hi, q) = [tag |-> FDT_END_NODE, off |-> hi,
                                          next |-> hi + 4, path |-> q]
  BY Zenon DEF NodeReads, NodeGives
<1> DEFINE S == c.off_dt_struct
           n == Len(name)
           al == FDT_TAGALIGN(n + 1)
<1>1. n \in Nat
  BY DEF StringOf
<1>2. al \in Int /\ n + 1 <= al /\ al % 4 = 0
  BY <1>1, TagAlign
<1>3. /\ hi \in Nat /\ hi % 4 = 0 /\ c.size_dt_struct \in Nat /\ S \in Nat
      /\ lo + 4 <= c.size_dt_struct /\ lo + (4 + n + 1) <= c.size_dt_struct
      /\ S + (lo + 4) + n < S + c.size_dt_struct
  <2>1. c.size_dt_struct \in Nat /\ S \in Nat /\ hi = lo + (4 + al)
    BY LaidNumbers
  <2> HIDE DEF al, S, n
  <2> QED
    BY SMTT(60), <1>1, <1>2, <2>1
<1>4. NameAt(c, lo + FDT_TAGSIZE) = name
  <2>1. c.version = 17
    BY LaidNumbers
  <2>2. NameAt(c, lo + 4) = CString(c, S + (lo + 4), S + c.size_dt_struct)
    BY <2>1 DEF NameAt
  <2>3. StringOf(c, S + (lo + 4), n) /\ Bytes(c, S + (lo + 4), n) = name
    OBVIOUS
  <2>4. S + (lo + 4) \in Nat /\ S + c.size_dt_struct \in Int
    <3> DEFINE z == c.size_dt_struct
    <3>1. z \in Nat /\ S \in Nat
      BY <1>3
    <3> HIDE DEF S, z
    <3>2. S + (lo + 4) \in Nat /\ S + z \in Int
      BY <3>1
    <3> QED
      BY <3>2 DEF z
  <2>5. CString(c, S + (lo + 4), S + c.size_dt_struct) = Bytes(c, S + (lo + 4), n)
    <3> HIDE DEF S, n
    <3> QED
      BY SMTT(60), <1>1, <1>3, <2>3, <2>4, StringIs
  <2> QED
    BY <2>2, <2>3, <2>5
<1>5. TagSize(c, lo) = 4 + n + 1
  <2>1. Byte(c, c.off_dt_struct + lo) = FDT_BEGIN_NODE
    OBVIOUS
  <2> QED
    BY <1>4, <2>1 DEF TagSize
<1>6. ValidTag(c, lo)
  <2>1. fdt_offset_ptr(c, lo, FDT_TAGSIZE)
    BY <1>3, MayRead
  <2>2. fdt_offset_ptr(c, lo, TagSize(c, lo))
    <3>1. 4 + n + 1 \in Nat
      BY <1>1
    <3>2. fdt_offset_ptr(c, lo, 4 + n + 1)
      BY <1>3, <3>1, MayRead
    <3> QED
      BY <1>5, <3>2
  <2> QED
    BY <2>1, <2>2 DEF ValidTag
<1>7. FDT_TAGALIGN(lo + (4 + n + 1)) = hi
  <2>1. (4 + lo) % 4 = 0 /\ 4 + lo \in Int
        /\ lo + (4 + n + 1) = (n + 1) + (4 + lo)
    BY <1>1
  <2>2. FDT_TAGALIGN((n + 1) + (4 + lo)) = al + (4 + lo)
    BY <1>1, <2>1, TagAlign
  <2>3. hi = lo + (4 + al)
    OBVIOUS
  <2> HIDE DEF al
  <2> QED
    BY <1>2, <2>1, <2>2, <2>3
<1>8. fdt_next_tag(c, lo) = [tag |-> FDT_BEGIN_NODE, off |-> lo, next |-> hi]
  BY <1>5, <1>6, <1>7, NextTag
<1>9. TagSize(c, hi) = 4
  BY DEF TagSize
<1>10. ValidTag(c, hi)
  <2>1. fdt_offset_ptr(c, hi, FDT_TAGSIZE)
    BY <1>3, MayRead
  <2> QED
    BY <1>9, <2>1 DEF ValidTag
<1>11. FDT_TAGALIGN(hi + 4) = hi + 4
  <2>1. hi + 4 \in Int /\ (hi + 4) % 4 = 0
    BY SMTT(60), <1>3
  <2> QED
    BY <2>1, TagAlign
<1>12. fdt_next_tag(c, hi) = [tag |-> FDT_END_NODE, off |-> hi, next |-> hi + 4]
  BY <1>9, <1>10, <1>11, NextTag
<1> QED
  BY SMTT(60), <1>4, <1>8, <1>12 DEF Entry

------------------------------------------------------------------------------
\* The same bytes in two places are the same memory.
LEMMA BytesAlike ==
  ASSUME NEW b \in Blob, NEW c \in Blob, NEW x \in Nat, NEW y \in Nat,
         NEW n \in Nat, HeaderSize <= x, HeaderSize <= y,
         x + n <= End(b), y + n <= End(c), Alike(b, x, c, y, n)
  PROVE  Bytes(c, y, n) = Bytes(b, x, n)
<1> DEFINE s == Bytes(b, x, n)
           t == Bytes(c, y, n)
<1>1. /\ s \in Seq(Cell) /\ Len(s) = n
      /\ \A i \in 1 .. n : s[i] = Byte(b, (x + i) - 1)
  <2>1. x \in Int
    OBVIOUS
  <2> QED
    BY <2>1, BytesOf
<1>2. /\ t \in Seq(Cell) /\ Len(t) = n
      /\ \A i \in 1 .. n : t[i] = Byte(c, (y + i) - 1)
  <2>1. y \in Int
    OBVIOUS
  <2> QED
    BY <2>1, BytesOf
<1> HIDE DEF s, t
<1>3. ASSUME NEW i \in 1 .. n PROVE t[i] = s[i]
  <2>1. i - 1 \in 0 .. n - 1 /\ (x + i) - 1 = x + (i - 1)
        /\ (y + i) - 1 = y + (i - 1)
    OBVIOUS
  <2>2. Byte(c, y + (i - 1)) = Byte(b, x + (i - 1))
    BY <2>1 DEF Alike
  <2> QED
    BY <1>1, <1>2, <2>1, <2>2
<1>4. t = s
  BY <1>1, <1>2, <1>3
<1> QED
  BY <1>4 DEF s, t

\* A tree whose tags and strings can be read.
Standing(b) ==
    /\ Readable(b) /\ HeaderSize <= b.off_dt_strings
    /\ b.off_dt_strings + b.size_dt_strings <= End(b)

\* The numbers of a tree whose tags and strings can be read.
LEMMA StandNumbers ==
  ASSUME NEW b, Standing(b)
  PROVE  /\ b \in Blob /\ b.off_dt_strings \in Nat /\ b.size_dt_strings \in Nat
         /\ HeaderSize <= b.off_dt_strings /\ End(b) \in Nat
         /\ b.off_dt_strings + b.size_dt_strings <= End(b)
<1>1. b \in Blob /\ End(b) \in Nat
  BY ReadNumbers DEF Standing
<1> QED
  BY <1>1 DEF Blob, Standing

\* Those of a tree that can be edited can.
LEMMA LaidOutStanding ==
  ASSUME NEW b, LaidOut(b)
  PROVE  Standing(b)
<1>1. Readable(b)
  BY LaidOutReadable
<1>2. HeaderSize <= b.off_dt_strings
  <2>1. /\ HeaderSize <= b.off_dt_struct /\ b.off_dt_struct \in Nat
        /\ b.size_dt_struct \in Nat /\ b.off_dt_strings \in Nat
        /\ b.off_dt_struct + b.size_dt_struct <= b.off_dt_strings
    BY LaidNumbers
  <2> QED
    BY <2>1
<1>3. b.off_dt_strings + b.size_dt_strings <= End(b)
  BY DEF LaidOut, fdt_data_size_
<1> QED
  BY <1>1, <1>2, <1>3 DEF Standing

\* c has the strings of b, and perhaps more.
StringsKept(b, c) ==
    /\ b.size_dt_strings <= c.size_dt_strings
    /\ \A i \in 0 .. b.size_dt_strings - 1 :
          Byte(c, c.off_dt_strings + i) = Byte(b, b.off_dt_strings + i)

\* The string at an offset of the strings block.
StringHere(b, off) == CString(b, b.off_dt_strings + off,
                              b.off_dt_strings + b.size_dt_strings)

\* A name found whole in the strings is found in them later.
LEMMA NameKept ==
  ASSUME NEW b, Standing(b), NEW c, Standing(c), StringsKept(b, c),
         NEW off \in 0 .. b.size_dt_strings - 1,
         NEW s, s = StringHere(b, off), StringAt(b, off, s)
  PROVE  StringHere(c, off) = s /\ StringAt(c, off, s)
<1> DEFINE x == b.off_dt_strings + off
           y == c.off_dt_strings + off
           n == Len(s)
           X == b.off_dt_strings + b.size_dt_strings
           Y == c.off_dt_strings + c.size_dt_strings
<1>1. /\ b \in Blob /\ c \in Blob
      /\ b.off_dt_strings \in Nat /\ b.size_dt_strings \in Nat
      /\ c.off_dt_strings \in Nat /\ c.size_dt_strings \in Nat
      /\ HeaderSize <= b.off_dt_strings /\ HeaderSize <= c.off_dt_strings
      /\ X <= End(b) /\ Y <= End(c) /\ End(b) \in Nat /\ End(c) \in Nat
  BY StandNumbers
<1>2. off + n < b.size_dt_strings /\ Bytes(b, x, n + 1) = Append(s, NUL)
  BY DEF StringAt
<1>3. b.size_dt_strings <= c.size_dt_strings
  BY DEF StringsKept
<1>4. s = CString(b, x, X)
  BY DEF StringHere
<1>5. n \in Nat /\ s \in Seq(Cell) /\ (x + n < X => StringOf(b, x, n))
  <2>1. x \in Nat /\ X \in Nat /\ HeaderSize <= x /\ x <= X
    BY <1>1
  <2> HIDE DEF x, X, n
  <2>2. /\ s \in Seq(Cell) /\ Len(s) \in Nat
        /\ x + Len(s) < X => StringOf(b, x, Len(s))
    BY <1>1, <1>4, <2>1, StringRead
  <2> QED
    BY <2>2 DEF n
<1>6. /\ x \in Nat /\ y \in Nat /\ X \in Int /\ Y \in Int
      /\ HeaderSize <= x /\ HeaderSize <= y /\ x + n < X /\ y + n < Y
      /\ x + n < End(b) /\ y + n < End(c)
  <2> DEFINE bs == b.off_dt_strings
             bz == b.size_dt_strings
             cs == c.off_dt_strings
             cz == c.size_dt_strings
             eb == End(b)
             ec == End(c)
  <2>1. /\ bs \in Nat /\ bz \in Nat /\ cs \in Nat /\ cz \in Nat
        /\ HeaderSize <= bs /\ HeaderSize <= cs /\ bs + bz <= eb
        /\ cs + cz <= ec /\ eb \in Nat /\ ec \in Nat /\ off \in Nat
        /\ off + n < bz /\ bz <= cz /\ n \in Nat
    BY <1>1, <1>2, <1>3, <1>5
  <2> HIDE DEF n, bs, bz, cs, cz, eb, ec
  <2>2. /\ bs + off \in Nat /\ cs + off \in Nat /\ bs + bz \in Int
        /\ cs + cz \in Int /\ HeaderSize <= bs + off
        /\ HeaderSize <= cs + off
        /\ bs + off + n < bs + bz /\ cs + off + n < cs + cz
        /\ bs + off + n < eb /\ cs + off + n < ec
    BY <2>1
  <2> QED
    BY <2>2 DEF bs, bz, cs, cz, eb, ec
<1>7. StringOf(b, x, n)
  BY <1>5, <1>6
<1>8. Alike(b, x, c, y, n + 1)
  <2>1. ASSUME NEW i \in 0 .. (n + 1) - 1
        PROVE  Byte(c, y + i) = Byte(b, x + i)
    <3> DEFINE bs == b.off_dt_strings
               bz == b.size_dt_strings
               cs == c.off_dt_strings
    <3>0. /\ bs \in Nat /\ bz \in Nat /\ cs \in Nat /\ off \in Nat
          /\ off + n < bz /\ n \in Nat
      BY <1>1, <1>2, <1>5
    <3> HIDE DEF n, bs, bz, cs
    <3>1. /\ off + i \in 0 .. bz - 1
          /\ (cs + off) + i = cs + (off + i)
          /\ (bs + off) + i = bs + (off + i)
      BY <3>0
    <3>2. /\ off + i \in 0 .. b.size_dt_strings - 1
          /\ y + i = c.off_dt_strings + (off + i)
          /\ x + i = b.off_dt_strings + (off + i)
      BY <3>1 DEF bs, bz, cs
    <3> HIDE DEF x, y
    <3> QED
      BY <3>2 DEF StringsKept
  <2> QED
    BY <2>1 DEF Alike
<1> HIDE DEF x, y, n, X, Y
<1>9. StringOf(c, y, n) /\ Bytes(c, y, n) = Bytes(b, x, n)
  BY <1>1, <1>5, <1>6, <1>7, <1>8, StringMoves
<1>10. s = Bytes(b, x, n)
  BY <1>4, <1>5, <1>6, <1>7, StringIs
<1>11. CString(c, y, Y) = Bytes(c, y, n)
  BY <1>5, <1>6, <1>9, StringIs
<1>12. StringHere(c, off) = s
  BY <1>9, <1>10, <1>11 DEF StringHere, y, Y
<1>13. Bytes(c, y, n + 1) = Bytes(b, x, n + 1)
  <2>1. n + 1 \in Nat /\ x + (n + 1) <= End(b) /\ y + (n + 1) <= End(c)
    BY SMTT(60), <1>1, <1>5, <1>6
  <2> QED
    BY <1>1, <1>6, <1>8, <2>1, BytesAlike
<1>14. StringAt(c, off, s)
  <2>1. off + Len(s) < c.size_dt_strings
    <3>1. off + n < b.size_dt_strings
      BY <1>2 DEF n
    <3>2. off + n < c.size_dt_strings
      BY <1>1, <1>3, <1>5, <3>1
    <3> QED
      BY <3>2 DEF n
  <2>2. Bytes(c, c.off_dt_strings + off, Len(s) + 1) = Append(s, NUL)
    BY <1>2, <1>13 DEF x, y, n
  <2> QED
    BY <2>1, <2>2 DEF StringAt
<1> QED
  BY <1>12, <1>14

\* An edit of the structure block leaves the strings.
LEMMA EditedStrings ==
  ASSUME NEW b, LaidOut(b), NEW lo \in Nat, NEW old \in Nat, NEW new \in Nat,
         NEW c, Edited(b, c, lo, old, new), lo + old <= b.size_dt_struct
  PROVE  StringsKept(b, c)
<1> DEFINE S == b.off_dt_struct
           block == b.size_dt_struct
           bs == b.off_dt_strings
           bz == b.size_dt_strings
           dsize == fdt_data_size_(b)
<1>1. /\ S \in Nat /\ block \in Nat /\ bs \in Nat /\ bz \in Nat
      /\ S + block <= bs /\ dsize = bs + bz
  BY LaidNumbers
<1>2. /\ c.size_dt_strings = bz /\ c.off_dt_strings = bs + new - old
      /\ Moved(b, c, S + lo + old, new - old)
  BY DEF Edited
<1>3. lo + old <= block
  OBVIOUS
<1>4. ASSUME NEW i \in 0 .. bz - 1
      PROVE  Byte(c, c.off_dt_strings + i) = Byte(b, bs + i)
  <2> HIDE DEF S, block, bs, bz, dsize
  <2>1. /\ bs + i \in S + lo + old .. dsize - 1
        /\ (bs + new - old) + i = (bs + i) + (new - old)
    BY <1>1, <1>3
  <2> QED
    BY <1>2, <2>1 DEF Moved, dsize
<1>5. bz <= c.size_dt_strings
  BY <1>1, <1>2
<1> QED
  BY <1>2, <1>4, <1>5 DEF StringsKept
==============================================================================
