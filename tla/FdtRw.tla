-------------------------------- MODULE FdtRw --------------------------------
(***************************************************************************)
(* The half of libfdt that edits a flattened device tree in place          *)
(* (src/lib/libfdt/fdt_rw.c, fdt_wip.c), as functions from a blob, and     *)
(* the tags Tags finds in it, to the return value and the blob the call    *)
(* leaves: [ret |-> ..., b |-> ...].                                       *)
(***************************************************************************)
EXTENDS FdtRo

Result(ret, b) == [ret |-> ret, b |-> b]

\* op(b) if the call so far has succeeded, its error if not.
AndThen(r, op(_)) == IF r.ret = Done THEN op(r.b) ELSE r

\* n bytes the code has made room for and not written.
Room(n) == [i \in 1 .. n |-> Junk]
Zeros(n) == [i \in 1 .. n |-> NUL]
Word(w) == <<w, Junk, Junk, Junk>>

\* memcpy of a few bytes to an address of the blob.
Store(b, x, bytes) ==
    [b EXCEPT !.mem = Bytes(b, HeaderSize, x - HeaderSize) \o bytes
                      \o Bytes(b, x + Len(bytes), End(b) - x - Len(bytes))]

fdt_blocks_misordered_(b, mem_rsv_size, struct_size) ==
    \/ b.off_mem_rsvmap < FDT_ALIGN(HeaderSize, 8)
    \/ b.off_dt_struct < b.off_mem_rsvmap + mem_rsv_size
    \/ b.off_dt_strings < b.off_dt_struct + struct_size
    \/ b.totalsize < b.off_dt_strings + b.size_dt_strings

\* FDT_RW_PROBE, and an edit behind it.
fdt_rw_probe_(b) ==
    IF b.version < 17 THEN Result(BadVersion, b)
    ELSE IF fdt_blocks_misordered_(b, ReserveSize, b.size_dt_struct)
         THEN Result(BadLayout, b)
    ELSE Result(Done, b)

Probed(b, op(_)) == AndThen(fdt_rw_probe_(b), op)

fdt_data_size_(b) == b.off_dt_strings + b.size_dt_strings

\* Mutant: the room is checked for the data as it is before the edit.
Splice_OldSize(b, at, oldlen, newlen) ==
    LET dsize == fdt_data_size_(b)
        kept  == Min({oldlen, newlen})
    IN  IF at + oldlen > dsize THEN Result(BadOffset, b)
        ELSE IF dsize > b.totalsize THEN Result(NoSpace, b)
        ELSE Result(Done, [b EXCEPT !.mem =
                 Bytes(b, HeaderSize, at + kept - HeaderSize)
                 \o Room(newlen - kept)
                 \o Bytes(b, at + oldlen, dsize - at - oldlen)])

\* Replaces oldlen bytes at an address by newlen; what stood in both stays.
fdt_splice_(b, at, oldlen, newlen) ==
    LET dsize == fdt_data_size_(b)
        kept  == Min({oldlen, newlen})
    IN  IF at + oldlen > dsize THEN Result(BadOffset, b)
        ELSE IF dsize - oldlen + newlen > b.totalsize THEN Result(NoSpace, b)
        ELSE Result(Done, [b EXCEPT !.mem =
                 Bytes(b, HeaderSize, at + kept - HeaderSize)
                 \o Room(newlen - kept)
                 \o Bytes(b, at + oldlen, dsize - at - oldlen)])

fdt_splice_mem_rsv_(b, n, oldn, newn) ==
    LET delta == (newn - oldn) * ReserveSize
    IN  AndThen(fdt_splice_(b, b.off_mem_rsvmap + n * ReserveSize,
                            oldn * ReserveSize, newn * ReserveSize),
                LAMBDA c : Result(Done, [c EXCEPT !.off_dt_struct = @ + delta,
                                                  !.off_dt_strings = @ + delta]))

fdt_splice_struct_(b, offset, oldlen, newlen) ==
    LET delta == newlen - oldlen
    IN  AndThen(fdt_splice_(b, b.off_dt_struct + offset, oldlen, newlen),
                LAMBDA c : Result(Done, [c EXCEPT !.size_dt_struct = @ + delta,
                                                  !.off_dt_strings = @ + delta]))

fdt_splice_string_(b, newlen) ==
    AndThen(fdt_splice_(b, fdt_data_size_(b), 0, newlen),
            LAMBDA c : Result(Done, [c EXCEPT !.size_dt_strings = @ + newlen]))

\* The blob without what lies behind its data: nothing reads it again.
Trimmed(b) == [b EXCEPT !.mem = SubSeq(@, 1, fdt_data_size_(b) - HeaderSize)]

\* Mutant: the NUL stays.
DelLastString_NoNul(b, s) ==
    Trimmed([b EXCEPT !.size_dt_strings = @ - Len(s)])

fdt_del_last_string_(b, s) ==
    Trimmed([b EXCEPT !.size_dt_strings = @ - (Len(s) + 1)])

\* The blob with s in its strings block.
fdt_find_add_string_(b, s) ==
    IF fdt_find_string_len_(b, s) >= 0 THEN Result(Done, b)
    ELSE AndThen(fdt_splice_string_(b, Len(s) + 1),
                 LAMBDA c : Result(Done, Store(c, fdt_data_size_(b),
                                               Append(s, NUL))))
------------------------------------------------------------------------------
fdt_add_mem_rsv(b, address, size) ==
    Probed(b, LAMBDA p :
        LET n == fdt_num_mem_rsv(p)
        IN  AndThen(fdt_splice_mem_rsv_(p, n, 0, 1), LAMBDA c :
                Result(Done, Store(c, c.off_mem_rsvmap + n * ReserveSize,
                    <<address>> \o Room(7) \o <<size>> \o Room(7)))))

fdt_del_mem_rsv(b, n) ==
    Probed(b, LAMBDA p : IF n >= fdt_num_mem_rsv(p) THEN Result(NotFound, p)
                         ELSE fdt_splice_mem_rsv_(p, n, 1, 0))
------------------------------------------------------------------------------
\* The length word of the property at an offset, written after the splice.
SetLen(b, prop, len) == Store(b, b.off_dt_struct + prop + 4, Word(len))

SetData(b, prop, from, val) ==
    Store(b, b.off_dt_struct + prop + PropertySize + from, val)

Resized(b, prop, oldlen, len) ==
    AndThen(fdt_splice_struct_(b, prop + PropertySize, FDT_TAGALIGN(oldlen),
                               FDT_TAGALIGN(len)),
            LAMBDA c : Result(Done, SetLen(c, prop, len)))

\* A new property, before the node's others; its name goes first to the
\* strings block, and is taken back when there is no room for the property.
fdt_add_property_(b, tags, node, name, len) ==
    LET prop   == NodeAt(tags, node).next
        absent == fdt_find_string_len_(b, name) < 0
    IN  AndThen(fdt_find_add_string_(b, name), LAMBDA c :
            LET r == fdt_splice_struct_(c, prop, 0,
                                        PropertySize + FDT_TAGALIGN(len))
            IN  IF r.ret # Done
                THEN Result(r.ret, IF absent THEN fdt_del_last_string_(c, name)
                                   ELSE c)
                ELSE Result(Done, Store(r.b, r.b.off_dt_struct + prop,
                        Word(FDT_PROP) \o Word(len)
                        \o Word(fdt_find_string_len_(c, name)))))

\* Resizes the property or adds it.
fdt_setprop_placeholder(b, tags, node, name, len) ==
    LET prop == fdt_get_property(b, tags, node, name)
    IN  IF ~IsNode(tags, node) THEN Result(BadOffset, b)
        ELSE IF prop < 0 THEN fdt_add_property_(b, tags, node, name, len)
        ELSE Resized(b, prop, PropLen(b, TagAt(tags, prop)), len)

\* Where the property is found after that, and the length it had before.
Placed(b, tags, node, name) ==
    LET prop == fdt_get_property(b, tags, node, name)
    IN  IF prop < 0 THEN [off |-> NodeAt(tags, node).next, len |-> 0]
        ELSE [off |-> prop, len |-> PropLen(b, TagAt(tags, prop))]

fdt_setprop(b, tags, node, name, val) ==
    Probed(b, LAMBDA p :
        AndThen(fdt_setprop_placeholder(p, tags, node, name, Len(val)),
                LAMBDA c : Result(Done, SetData(c,
                    Placed(p, tags, node, name).off, 0, val))))

fdt_appendprop(b, tags, node, name, val) ==
    Probed(b, LAMBDA p :
        LET old == Placed(p, tags, node, name)
        IN  AndThen(fdt_setprop_placeholder(p, tags, node, name,
                                            old.len + Len(val)),
                LAMBDA c : Result(Done, SetData(c, old.off, old.len, val))))

fdt_delprop(b, tags, node, name) ==
    Probed(b, LAMBDA p :
        LET prop == fdt_get_property(p, tags, node, name)
        IN  IF prop < 0 THEN Result(NotFound, p)
            ELSE fdt_splice_struct_(p, prop, PropertySize
                     + FDT_TAGALIGN(PropLen(p, TagAt(tags, prop))), 0))

fdt_setprop_inplace(b, tags, node, name, val) ==
    LET prop == fdt_get_property(b, tags, node, name)
    IN  IF prop < 0 THEN Result(NotFound, b)
        ELSE IF PropLen(b, TagAt(tags, prop)) # Len(val)
        THEN Result(NoSpace, b)
        ELSE Result(Done, SetData(b, prop, 0, val))
------------------------------------------------------------------------------
fdt_set_name(b, node, name) ==
    Probed(b, LAMBDA p :
        LET old == Len(NameAt(p, node + FDT_TAGSIZE))
        IN  AndThen(fdt_splice_struct_(p, node + FDT_TAGSIZE,
                        FDT_TAGALIGN(old + 1), FDT_TAGALIGN(Len(name) + 1)),
                    LAMBDA c : Result(Done,
                        Store(c, c.off_dt_struct + node + FDT_TAGSIZE,
                              Append(name, NUL)))))

\* A new node goes behind its parent's properties, before its other children.
NewNode(tags, parent) ==
    Min({t.off : t \in {u \in ToSet(tags) : /\ u.off > parent
                                            /\ u.tag \notin {FDT_PROP, FDT_NOP}}})

fdt_add_subnode(b, tags, parent, name) ==
    Probed(b, LAMBDA p :
        LET offset  == NewNode(tags, parent)
            namelen == FDT_TAGALIGN(Len(name) + 1)
        IN  IF ~IsNode(tags, parent) THEN Result(BadOffset, p)
            ELSE IF fdt_subnode_offset(tags, parent, name) >= 0
            THEN Result(Exists, p)
            ELSE AndThen(fdt_splice_struct_(p, offset, 0,
                             FDT_TAGSIZE + namelen + FDT_TAGSIZE),
                    LAMBDA c : Result(Done, Store(c, c.off_dt_struct + offset,
                        Word(FDT_BEGIN_NODE) \o name
                        \o Zeros(namelen - Len(name)) \o Word(FDT_END_NODE)))))

fdt_del_node(b, tags, node) ==
    Probed(b, LAMBDA p :
        fdt_splice_struct_(p, node,
            fdt_node_end_offset_(tags, node) - node, 0))

\* Words of FDT_NOP over len bytes of the structure block.
fdt_nop_region_(b, offset, len) ==
    Store(b, b.off_dt_struct + offset,
          [i \in 1 .. FDT_TAGALIGN(len) |->
              IF i % FDT_TAGSIZE = 1 THEN FDT_NOP ELSE Junk])

fdt_nop_property(b, tags, node, name) ==
    LET prop == fdt_get_property(b, tags, node, name)
    IN  IF prop < 0 THEN Result(NotFound, b)
        ELSE Result(Done, fdt_nop_region_(b, prop, PropertySize
                                          + PropLen(b, TagAt(tags, prop))))

fdt_nop_node(b, tags, node) ==
    Result(Done, fdt_nop_region_(b, node,
                     fdt_node_end_offset_(tags, node) - node))
------------------------------------------------------------------------------
\* The three blocks behind each other, from the header on.
fdt_packblocks_(b, mem_rsv_size, struct_size, strings_size) ==
    LET rsv  == FDT_ALIGN(HeaderSize, 8)
        strc == rsv + mem_rsv_size
    IN  [b EXCEPT !.off_mem_rsvmap  = rsv,
                  !.off_dt_struct   = strc,
                  !.size_dt_struct  = struct_size,
                  !.off_dt_strings  = strc + struct_size,
                  !.mem = Bytes(b, b.off_mem_rsvmap, mem_rsv_size)
                          \o Bytes(b, b.off_dt_struct, struct_size)
                          \o Bytes(b, b.off_dt_strings, strings_size)]

ReserveMapSize(b) == (fdt_num_mem_rsv(b) + 1) * ReserveSize

\* Makes an editable tree of bufsize bytes, in the tree's own buffer or in
\* another.  Blocks in another order are packed anew: behind the old tree,
\* when the buffer is its own, and then moved to the beginning.
fdt_open_into(b, tags, own, bufsize) ==
    LET rsv     == ReserveMapSize(b)
        strc    == IF b.version >= 17 THEN b.size_dt_struct
                   ELSE Last(tags).next
        newsize == HeaderSize + rsv + strc + b.size_dt_strings
        opened(c) == Result(Done, [c EXCEPT !.version = 17,
                                            !.size_dt_struct = strc,
                                            !.totalsize = bufsize])
    IN  IF ~fdt_blocks_misordered_(b, rsv, strc)
        THEN IF b.totalsize > bufsize THEN Result(NoSpace, b) ELSE opened(b)
        ELSE IF \/ bufsize < newsize
                \/ own /\ b.totalsize + newsize > bufsize
        THEN Result(NoSpace, b)
        ELSE opened(fdt_packblocks_(b, rsv, strc, b.size_dt_strings))

\* Copies the tree as it is to a buffer.
fdt_move(b, bufsize) == Result(IF b.totalsize > bufsize THEN NoSpace ELSE Done, b)

fdt_pack(b) ==
    Probed(b, LAMBDA p :
        LET q == fdt_packblocks_(p, ReserveMapSize(p), p.size_dt_struct,
                                 p.size_dt_strings)
        IN  Result(Done, [q EXCEPT !.totalsize = fdt_data_size_(q)]))
==============================================================================
