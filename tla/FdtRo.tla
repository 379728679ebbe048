-------------------------------- MODULE FdtRo --------------------------------
(***************************************************************************)
(* A flattened device tree in memory and the half of libfdt that reads it  *)
(* (src/lib/libfdt/fdt.c, fdt_ro.c).                                       *)
(*                                                                         *)
(* A blob is a record of the header fields libfdt uses and of the bytes    *)
(* behind the header.  A 32-bit word stands in the first of its four       *)
(* bytes.  A byte nobody has written, or that memmove has left behind, is  *)
(* Junk: no field that is read may hold it.  Names are sequences of        *)
(* character codes.  Offsets of nodes, properties and strings are the      *)
(* code's own, in bytes from the beginning of their block.                 *)
(*                                                                         *)
(* Trees of version 16 and 17 with the right magic number at an aligned    *)
(* address are modelled, so that fdt_ro_probe_ succeeds.                   *)
(***************************************************************************)
EXTENDS Integers, Sequences, SequencesExt, FiniteSetsExt

FDT_BEGIN_NODE == 1
FDT_END_NODE   == 2
FDT_PROP       == 3
FDT_NOP        == 4
FDT_END        == 9

\* The magic number of a tree, and of one that is being written.
FDT_MAGIC    == "FDT_MAGIC"
FDT_SW_MAGIC == "FDT_SW_MAGIC"

FDT_TAGSIZE  == 4
HeaderSize   == 40
ReserveSize  == 16
PropertySize == 12

NUL  == 0
At   == 64       \* '@'
Junk == -1

\* Error codes of libfdt; Done is the return value 0.
Done            == "OK"
NotFound        == "FDT_ERR_NOTFOUND"
Exists          == "FDT_ERR_EXISTS"
NoSpace         == "FDT_ERR_NOSPACE"
BadOffset       == "FDT_ERR_BADOFFSET"
BadVersion      == "FDT_ERR_BADVERSION"
BadLayout       == "FDT_ERR_BADLAYOUT"
BadMagic        == "FDT_ERR_BADMAGIC"
BadState        == "FDT_ERR_BADSTATE"
BadFlags        == "FDT_ERR_BADFLAGS"
BadStructure    == "FDT_ERR_BADSTRUCTURE"
BadPath         == "FDT_ERR_BADPATH"
BadValue        == "FDT_ERR_BADVALUE"
BadPhandle      == "FDT_ERR_BADPHANDLE"
NoPhandles      == "FDT_ERR_NOPHANDLES"
Truncated       == "FDT_ERR_TRUNCATED"

FDT_ALIGN(n, a) == ((n + a - 1) \div a) * a
FDT_TAGALIGN(n) == FDT_ALIGN(n, FDT_TAGSIZE)

\* The header fields and the bytes of any blob.
Blob == [version : {16, 17}, totalsize : Nat, off_mem_rsvmap : Nat,
         off_dt_struct : Nat, size_dt_struct : Nat, off_dt_strings : Nat,
         size_dt_strings : Nat, mem : Seq(Nat \cup {Junk})]

\* The byte at an address of the blob, and the n bytes from there on.
Byte(b, x)     == b.mem[x - HeaderSize + 1]
Bytes(b, x, n) == SubSeq(b.mem, x - HeaderSize + 1, x - HeaderSize + n)
End(b)         == HeaderSize + Len(b.mem)

\* The characters from address x up to the NUL, or up to the limit.
CString(b, x, limit) ==
    LET nul == {i \in x .. limit - 1 : Byte(b, i) = NUL}
    IN  Bytes(b, x, (IF nul = {} THEN limit ELSE Min(nul)) - x)
------------------------------------------------------------------------------
check_off_(hdrsize, totalsize, off) == hdrsize <= off /\ off <= totalsize

check_block_(hdrsize, totalsize, base, size) ==
    /\ check_off_(hdrsize, totalsize, base)
    /\ check_off_(hdrsize, totalsize, base + size)

\* The bounds and alignments a reader may rely on; a header before version 17
\* has no size_dt_struct and is a word shorter.
fdt_check_header(b) ==
    LET hdrsize == IF b.version >= 17 THEN HeaderSize ELSE HeaderSize - 4
    IN  /\ b.totalsize >= hdrsize
        /\ b.off_mem_rsvmap % 8 = 0
        /\ b.off_dt_struct % FDT_TAGSIZE = 0
        /\ check_off_(hdrsize, b.totalsize, b.off_mem_rsvmap)
        /\ check_block_(hdrsize, b.totalsize, b.off_dt_struct,
                        IF b.version >= 17 THEN b.size_dt_struct ELSE 0)
        /\ check_block_(hdrsize, b.totalsize, b.off_dt_strings,
                        b.size_dt_strings)

\* Whether len bytes at an offset of the structure block may be read.
fdt_offset_ptr(b, offset, len) ==
    /\ offset >= 0
    /\ b.off_dt_struct + offset + len <= b.totalsize
    /\ b.version >= 17 => offset + len <= b.size_dt_struct

\* The node name that begins at an offset of the structure block.
NameAt(b, offset) ==
    LET block == IF b.version >= 17 THEN b.size_dt_struct
                 ELSE End(b) - b.off_dt_struct
    IN  CString(b, b.off_dt_struct + offset, b.off_dt_struct + block)

\* The bytes the tag at an offset takes.
TagSize(b, offset) ==
    LET here == b.off_dt_struct + offset
    IN  CASE Byte(b, here) = FDT_BEGIN_NODE ->
                 FDT_TAGSIZE + Len(NameAt(b, offset + FDT_TAGSIZE)) + 1
          [] Byte(b, here) = FDT_PROP ->
                 PropertySize + Byte(b, here + FDT_TAGSIZE)
          [] OTHER -> FDT_TAGSIZE

\* The tag at an offset, where its bytes end and, aligned, where the next one
\* is; a tag that is none or not whole reads as FDT_END and has no next.
fdt_next_tag(b, offset) ==
    IF /\ fdt_offset_ptr(b, offset, FDT_TAGSIZE)
       /\ Byte(b, b.off_dt_struct + offset) \in
              {FDT_BEGIN_NODE, FDT_END_NODE, FDT_PROP, FDT_NOP, FDT_END}
       /\ \/ Byte(b, b.off_dt_struct + offset) # FDT_PROP
          \/ fdt_offset_ptr(b, offset + FDT_TAGSIZE, FDT_TAGSIZE)
       /\ fdt_offset_ptr(b, offset, TagSize(b, offset))
    THEN [tag |-> Byte(b, b.off_dt_struct + offset), off |-> offset,
          next |-> FDT_TAGALIGN(offset + TagSize(b, offset))]
    ELSE [tag |-> FDT_END, off |-> offset, next |-> -1]

(***************************************************************************)
(* The walk every function of fdt_ro.c makes with fdt_next_tag, from the   *)
(* root to FDT_END, as a sequence of tags; each has the path of the node   *)
(* it belongs to, the names from the root down.  The loops that count the  *)
(* depth become questions about this sequence.                             *)
(***************************************************************************)

\* The tag at an offset, met in the node of that path.
Entry(b, offset, path) ==
    LET t == fdt_next_tag(b, offset)
    IN  [tag |-> t.tag, off |-> t.off, next |-> t.next,
         path |-> IF t.tag = FDT_BEGIN_NODE
                  THEN Append(path, NameAt(b, offset + FDT_TAGSIZE))
                  ELSE path]

\* The walk ends at FDT_END, and where more nodes end than have begun.
Stops(t) ==
    \/ t.tag = FDT_END
    \/ t.tag = FDT_END_NODE /\ t.path = <<>>

\* The node the walk is in behind a tag.
Inside(t) == IF t.tag = FDT_END_NODE THEN Front(t.path) ELSE t.path

Tags(b) ==
    LET walk[offset \in 0 .. b.totalsize] ==
            [path \in Seq(Seq(Int)) |->
                LET t == Entry(b, offset, path)
                IN  <<t>> \o IF Stops(t) THEN <<>> ELSE walk[t.next][Inside(t)]]
    IN  walk[0][<<>>]

Nodes(tags) == {t \in ToSet(tags) : t.tag = FDT_BEGIN_NODE}

IsNode(tags, offset) == \E t \in Nodes(tags) : t.off = offset
NodeAt(tags, offset) == CHOOSE t \in Nodes(tags) : t.off = offset

\* The offset behind a node's FDT_END_NODE.
fdt_node_end_offset_(tags, offset) ==
    LET depth  == Len(NodeAt(tags, offset).path)
        closes == {t \in ToSet(tags) : /\ t.tag = FDT_END_NODE
                                       /\ t.off > offset
                                       /\ Len(t.path) = depth}
    IN  Min({t.next : t \in closes})

Subnodes(tags, offset) ==
    {t \in Nodes(tags) :
        /\ offset < t.off /\ t.off < fdt_node_end_offset_(tags, offset)
        /\ Len(t.path) = Len(NodeAt(tags, offset).path) + 1}

\* The properties of a node: what nextprop_ finds before it meets a tag that
\* is neither a property nor a FDT_NOP.
Properties(tags, offset) ==
    {t \in ToSet(tags) :
        /\ t.tag = FDT_PROP
        /\ offset < t.off
        /\ \A u \in ToSet(tags) :
               offset < u.off /\ u.off < t.off => u.tag \in {FDT_PROP, FDT_NOP}}
------------------------------------------------------------------------------
\* The name s, with its NUL, stands at an offset of the strings block.
StringAt(b, stroffset, s) ==
    /\ stroffset + Len(s) < b.size_dt_strings
    /\ Bytes(b, b.off_dt_strings + stroffset, Len(s) + 1) = Append(s, NUL)

\* Where it is found, the end of a longer name included; -1 if nowhere.
fdt_find_string_len_(b, s) ==
    LET found == {p \in 0 .. b.size_dt_strings - 1 : StringAt(b, p, s)}
    IN  IF found = {} THEN -1 ELSE Min(found)

PropLen(b, p)     == Byte(b, b.off_dt_struct + p.off + 4)
PropNameOff(b, p) == Byte(b, b.off_dt_struct + p.off + 8)
PropData(b, p)    == Bytes(b, b.off_dt_struct + p.off + PropertySize,
                           PropLen(b, p))

\* The offset of a node's first property of that name, or -1.
fdt_get_property(b, tags, node, name) ==
    LET found == {p \in Properties(tags, node) :
                      StringAt(b, PropNameOff(b, p), name)}
    IN  IF found = {} THEN -1 ELSE Min({p.off : p \in found})

TagAt(tags, offset) == CHOOSE t \in ToSet(tags) : t.off = offset

\* Mutant: a unit address is never left out.
NodenameEq_Exact(nodename, s) == nodename = s

\* s names a node called s, and one called s@unit if s itself has no unit.
fdt_nodename_eq_(nodename, s) ==
    /\ IsPrefix(s, nodename)
    /\ \/ Len(nodename) = Len(s)
       \/ /\ nodename[Len(s) + 1] = At
          /\ ~Contains(s, At)

\* The offset of a node's first child of that name, or -1.
fdt_subnode_offset(tags, parent, name) ==
    LET found == {t \in Subnodes(tags, parent) :
                      fdt_nodename_eq_(Last(t.path), name)}
    IN  IF found = {} THEN -1 ELSE Min({t.off : t \in found})

\* The node a path designates, given as the sequence of its components
\* behind the first "/".
fdt_path_offset(tags, components) ==
    LET offset[n \in 0 .. Len(components)] ==
            IF n = 0 THEN 0
            ELSE IF offset[n - 1] < 0 THEN offset[n - 1]
            ELSE fdt_subnode_offset(tags, offset[n - 1], components[n])
    IN  offset[Len(components)]

\* The entries of the reservation map before the one of size 0.
fdt_num_mem_rsv(b) ==
    Min({n \in 0 .. b.totalsize \div ReserveSize :
            /\ b.off_mem_rsvmap + (n + 1) * ReserveSize <= End(b)
            /\ Byte(b, b.off_mem_rsvmap + n * ReserveSize + 8) = 0})
------------------------------------------------------------------------------
\* What the blob means: the nodes by path, and the properties of each by name.
PropName(b, p) ==
    CString(b, b.off_dt_strings + PropNameOff(b, p),
            b.off_dt_strings + b.size_dt_strings)

Tree(b, tags) ==
    [path \in {t.path : t \in Nodes(tags)} |->
        LET node  == CHOOSE t \in Nodes(tags) : t.path = path
            props == Properties(tags, node.off)
        IN  [name \in {PropName(b, p) : p \in props} |->
                PropData(b, CHOOSE p \in props : PropName(b, p) = name)]]

\* What the reservation map means.
ReserveMap(b) ==
    [n \in 1 .. fdt_num_mem_rsv(b) |->
        LET entry == b.off_mem_rsvmap + (n - 1) * ReserveSize
        IN  <<Byte(b, entry), Byte(b, entry + 8)>>]
==============================================================================
