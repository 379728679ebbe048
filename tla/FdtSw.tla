-------------------------------- MODULE FdtSw --------------------------------
(***************************************************************************)
(* The half of libfdt that writes a tree from its beginning to its end     *)
(* (src/lib/libfdt/fdt_sw.c), as functions from a blob to the return value *)
(* and the blob the call leaves.                                           *)
(*                                                                         *)
(* While it is written, a blob fills its buffer from both ends: the header,*)
(* the reservation map and the structure block from below, the strings     *)
(* block from above.  A property names its string by the offset, below     *)
(* zero, from the end of the buffer.  The state is kept in the header:     *)
(* the magic number is FDT_SW_MAGIC until fdt_finish, off_dt_strings is 0  *)
(* while regions are reserved and totalsize while the structure is written.*)
(***************************************************************************)
EXTENDS FdtRw

NO_NAME_DEDUP == "FDT_CREATE_FLAG_NO_NAME_DEDUP"
FDT_CREATE_FLAGS_ALL == {NO_NAME_DEDUP}

\* The header with the padding that makes it whole reservation entries.
hdrsize == FDT_ALIGN(HeaderSize, ReserveSize)
------------------------------------------------------------------------------
fdt_sw_probe_(b) == CASE b.magic = FDT_MAGIC    -> BadState
                      [] b.magic = FDT_SW_MAGIC -> Done
                      [] OTHER                  -> BadMagic

\* What a call answers that is allowed in one state only.
Unless(b, allowed) == IF fdt_sw_probe_(b) # Done THEN fdt_sw_probe_(b)
                      ELSE IF allowed THEN Done ELSE BadState

fdt_sw_probe_memrsv_(b) == Unless(b, b.off_dt_strings = 0)
fdt_sw_probe_struct_(b) == Unless(b, b.off_dt_strings = b.totalsize)

\* len more bytes for the structure block.
fdt_grab_space_(b, len) ==
    IF b.size_dt_struct + len
           > b.totalsize - b.off_dt_struct - b.size_dt_strings
    THEN Result(NoSpace, b)
    ELSE Result(Done, [b EXCEPT !.size_dt_struct = @ + len])

StructTop(b) == b.off_dt_struct + b.size_dt_struct

\* bytes where the structure block ends, in len bytes of room.
Write(b, bytes, len) ==
    IF fdt_sw_probe_struct_(b) # Done THEN Result(fdt_sw_probe_struct_(b), b)
    ELSE AndThen(fdt_grab_space_(b, len),
                 LAMBDA c : Result(Done, Store(c, StructTop(b), bytes)))
------------------------------------------------------------------------------
fdt_create_with_flags(b, bufsize, flags) ==
    IF bufsize < hdrsize THEN Result(NoSpace, b)
    ELSE IF flags \ FDT_CREATE_FLAGS_ALL # {} THEN Result(BadFlags, b)
    ELSE Result(Done, [magic |-> FDT_SW_MAGIC, version |-> 17, flags |-> flags,
             totalsize |-> bufsize, off_mem_rsvmap |-> hdrsize,
             off_dt_struct |-> hdrsize, size_dt_struct |-> 0,
             off_dt_strings |-> 0, size_dt_strings |-> 0,
             mem |-> Zeros(bufsize - HeaderSize)])

\* memmove within the bytes at addresses lo, lo + 1, ...
Moved(bytes, lo, dst, src, n) ==
    [i \in DOMAIN bytes |->
        IF i + lo - 1 \in dst .. dst + n - 1 THEN bytes[i + src - dst]
        ELSE bytes[i]]

\* Mutant: the tail always moves last.
MoveParts_HeadFirst(bytes, lo, to, head, tail, newtail, oldtail) ==
    Moved(Moved(bytes, lo, to, 0, head), lo, newtail, oldtail, tail)

\* Head and tail of a tree at address 0 to a buffer at address `to', in the
\* order that spoils neither where the buffers overlap.
MoveParts(bytes, lo, to, head, tail, newtail, oldtail) ==
    IF to <= 0
    THEN Moved(Moved(bytes, lo, to, 0, head), lo, newtail, oldtail, tail)
    ELSE Moved(Moved(bytes, lo, newtail, oldtail, tail), lo, to, 0, head)

\* Mutant: the mark keeps the old size.
StringsMark_Kept(b, bufsize) == b.off_dt_strings

\* off_dt_strings in a buffer of that size: it keeps the state.
StringsMark(b, bufsize) == IF b.off_dt_strings = 0 THEN 0 ELSE bufsize

\* To a buffer of bufsize bytes that begins `to' bytes behind the tree.  A
\* header the moves have spoilt is no header.
fdt_resize(b, to, bufsize) ==
    LET head    == StructTop(b)
        tail    == b.size_dt_strings
        lo      == Min({0, to})
        header  == [i \in 1 .. HeaderSize |-> <<"header", i>>]
        arena   == [i \in 1 .. Max({b.totalsize, to + bufsize}) - lo |->
                       LET x == i + lo - 1
                       IN  IF x \in 0 .. HeaderSize - 1 THEN header[x + 1]
                           ELSE IF x \in HeaderSize .. b.totalsize - 1
                           THEN <<"byte", Byte(b, x)>> ELSE <<"byte", Junk>>]
        moved   == MoveParts(arena, lo, to, head, tail,
                             to + bufsize - tail, b.totalsize - tail)
        At_(x)  == moved[to + x - lo + 1]
    IN  IF fdt_sw_probe_(b) # Done THEN Result(fdt_sw_probe_(b), b)
        ELSE IF head + tail > bufsize THEN Result(NoSpace, b)
        ELSE Result(Done, [b EXCEPT
                 !.magic = IF \A x \in 1 .. HeaderSize :
                                 At_(x - 1) = header[x] THEN @ ELSE "spoilt",
                 !.totalsize = bufsize,
                 !.off_dt_strings = StringsMark(b, bufsize),
                 !.mem = [i \in 1 .. bufsize - HeaderSize |->
                             At_(HeaderSize + i - 1)[2]]])

fdt_add_reservemap_entry(b, addr, size) ==
    IF fdt_sw_probe_memrsv_(b) # Done THEN Result(fdt_sw_probe_memrsv_(b), b)
    ELSE IF b.off_dt_struct + ReserveSize > b.totalsize THEN Result(NoSpace, b)
    ELSE Result(Done, Store([b EXCEPT !.off_dt_struct = @ + ReserveSize],
                 b.off_dt_struct, <<addr>> \o Zeros(7) \o <<size>> \o Zeros(7)))

fdt_finish_reservemap(b) ==
    AndThen(fdt_add_reservemap_entry(b, 0, 0),
            LAMBDA c : Result(Done, [c EXCEPT !.off_dt_strings = c.totalsize]))
------------------------------------------------------------------------------
fdt_begin_node(b, name) ==
    Write(b, Word(FDT_BEGIN_NODE) \o Append(name, NUL),
          FDT_TAGSIZE + FDT_TAGALIGN(Len(name) + 1))

fdt_end_node(b) == Write(b, Word(FDT_END_NODE), FDT_TAGSIZE)

\* The strings block with s at its low end.  The difference is unsigned: for a
\* string longer than what precedes the strings block it is a large number.
fdt_add_string_(b, s) ==
    LET offset == b.size_dt_strings + Len(s) + 1
    IN  IF /\ offset <= b.totalsize
           /\ b.totalsize - offset < StructTop(b)
        THEN Result(NoSpace, b)
        ELSE Result(Done, [Store(b, b.totalsize - offset, Append(s, NUL))
                           EXCEPT !.size_dt_strings = offset])

\* Must only be used to roll back.
fdt_sw_del_last_string_(b, s) ==
    [b EXCEPT !.size_dt_strings = @ - (Len(s) + 1)]

\* Where s is in the strings block, from its end; 0 if it is nowhere.
fdt_sw_find_string_(b, s) ==
    LET p == fdt_find_string_len_(
                 [b EXCEPT !.off_dt_strings = b.totalsize - b.size_dt_strings],
                 s)
    IN  IF p < 0 THEN 0 ELSE p - b.size_dt_strings

\* A name found again is used again, unless the flag forbids to look for it.
Known(b, name) == /\ NO_NAME_DEDUP \notin b.flags
                  /\ fdt_sw_find_string_(b, name) # 0

\* Mutant: the name stays.
Rollback_Never(b, named, name) == named

\* The blob before a property whose name is in it already, or was added to b.
Rollback(b, named, name) == IF Known(b, name) THEN named
                            ELSE fdt_sw_del_last_string_(named, name)

\* The name goes to the strings block first, and is taken back when there is
\* no room for the property.
fdt_property(b, name, val) ==
    LET named   == IF Known(b, name) THEN Result(Done, b)
                   ELSE fdt_add_string_(b, name)
        nameoff == IF Known(b, name) THEN fdt_sw_find_string_(b, name)
                   ELSE -named.b.size_dt_strings
        written == Write(named.b, Word(FDT_PROP) \o Word(Len(val))
                                  \o Word(nameoff) \o val,
                         PropertySize + FDT_TAGALIGN(Len(val)))
    IN  IF fdt_sw_probe_struct_(b) # Done
        THEN Result(fdt_sw_probe_struct_(b), b)
        ELSE IF named.ret # Done THEN named
        ELSE IF written.ret = Done THEN written
        ELSE Result(written.ret, Rollback(b, named.b, name))
------------------------------------------------------------------------------
\* The strings block moves down to the structure block; what lies behind it is
\* never read again.
RelocateStrings(b) ==
    LET new == StructTop(b)
        old == b.totalsize - b.size_dt_strings
    IN  [b EXCEPT !.off_dt_strings = new,
                  !.mem = Bytes(b, HeaderSize, new - HeaderSize)
                          \o Bytes(b, old, b.size_dt_strings)]

\* Names are counted from the beginning of the strings block from now on.
CorrectNames(b) ==
    FoldSet(LAMBDA t, c :
                IF t.tag = FDT_PROP
                THEN Store(c, c.off_dt_struct + t.off + 8,
                           Word(PropNameOff(c, t) + c.size_dt_strings))
                ELSE c,
            b, ToSet(Tags(b)))

fdt_finish(b) ==
    AndThen(Write(b, Word(FDT_END), FDT_TAGSIZE), LAMBDA c :
        LET r == CorrectNames(RelocateStrings(c))
        IN  IF Last(Tags(r)).next < 0 THEN Result(BadStructure, r)
            ELSE Result(Done, [r EXCEPT !.magic = FDT_MAGIC, !.flags = {},
                     !.totalsize = r.off_dt_strings + r.size_dt_strings]))
==============================================================================
