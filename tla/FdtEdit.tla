------------------------------- MODULE FdtEdit -------------------------------
(***************************************************************************)
(* A client that edits a flattened device tree: any sequence of the calls  *)
(* of src/lib/libfdt/fdt_rw.c and fdt_wip.c, on nodes of the tree as it    *)
(* is at the time of the call.                                             *)
(***************************************************************************)
EXTENDS FdtRw

CONSTANTS
    Blobs,      \* the trees a client may start from
    NodeNames, PropNames, Values,
    Regions,    \* <<address, size>> pairs to reserve
    Buffers,    \* sizes given to fdt_open_into and fdt_move
    MaxData     \* the client adds to a tree below this size only

\* A name has no NUL in it, and a region is not the end marker.
ASSUME ArgumentsAssumption ==
    /\ \A name \in NodeNames \cup PropNames : name # <<>> /\ ~Contains(name, NUL)
    /\ \A region \in Regions : region[2] > 0
    /\ \A val \in Values : \A i \in 1 .. Len(val) : val[i] \in 0 .. 255

VARIABLES
    blob,       \* the tree's header fields and bytes
    call,       \* the last call, as FdtTree records it
    ret,        \* its return value
    tags,       \* what is in the blob, decoded once a step: its tags,
    tree,       \* the tree,
    reserved    \* and the reservation map

vars == <<blob, call, ret, tags, tree, reserved>>

NoCall == [op |-> "none", path |-> <<>>, name |-> <<>>, val |-> <<>>]

Init ==
    /\ blob \in Blobs
    /\ call = NoCall
    /\ ret = Done
    /\ tags = Tags(blob)
    /\ tree = Tree(blob, tags)
    /\ reserved = ReserveMap(blob)

\* What the blob means after the step.
Decode ==
    /\ tags' = Tags(blob')
    /\ tree' = Tree(blob', tags')
    /\ reserved' = ReserveMap(blob')

\* A call returns r: the client sees its value, and the blob is r's.
Return(op, path, name, val, r) ==
    /\ blob' = r.b
    /\ ret' = r.ret
    /\ call' = [op |-> op, path |-> path, name |-> name, val |-> val]
    /\ Decode

AllNodes  == Nodes(tags)
Unrooted  == {t \in AllNodes : Len(t.path) > 1}
Growing   == fdt_data_size_(blob) < MaxData
------------------------------------------------------------------------------
Setprop == Growing /\ \E t \in AllNodes, name \in PropNames, val \in Values :
    Return("fdt_setprop", t.path, name, val,
           fdt_setprop(blob, tags, t.off, name, val))

Appendprop == Growing /\ \E t \in AllNodes, name \in PropNames, val \in Values :
    Return("fdt_appendprop", t.path, name, val,
           fdt_appendprop(blob, tags, t.off, name, val))

SetpropInplace == \E t \in AllNodes, name \in PropNames, val \in Values :
    Return("fdt_setprop_inplace", t.path, name, val,
           fdt_setprop_inplace(blob, tags, t.off, name, val))

Delprop == \E t \in AllNodes, name \in PropNames :
    Return("fdt_delprop", t.path, name, <<>>, fdt_delprop(blob, tags, t.off, name))

NopProperty == \E t \in AllNodes, name \in PropNames :
    Return("fdt_nop_property", t.path, name, <<>>,
           fdt_nop_property(blob, tags, t.off, name))

AddSubnode == Growing /\ \E t \in AllNodes, name \in NodeNames :
    Return("fdt_add_subnode", t.path, name, <<>>,
           fdt_add_subnode(blob, tags, t.off, name))

DelNode == \E t \in Unrooted :
    Return("fdt_del_node", t.path, <<>>, <<>>, fdt_del_node(blob, tags, t.off))

NopNode == \E t \in Unrooted :
    Return("fdt_nop_node", t.path, <<>>, <<>>, fdt_nop_node(blob, tags, t.off))

\* The client keeps siblings' names apart; the code does not look.
SetName == Growing /\ \E t \in Unrooted, name \in NodeNames :
    /\ \A u \in AllNodes : u.path # Append(Front(t.path), name)
    /\ Return("fdt_set_name", t.path, name, <<>>,
              fdt_set_name(blob, t.off, name))

AddMemRsv == Growing /\ \E region \in Regions :
    Return("fdt_add_mem_rsv", <<>>, <<>>, region,
           fdt_add_mem_rsv(blob, region[1], region[2]))

DelMemRsv == \E n \in 0 .. fdt_num_mem_rsv(blob) :
    Return("fdt_del_mem_rsv", <<>>, <<>>, <<n>>, fdt_del_mem_rsv(blob, n))

OpenInto == \E own \in BOOLEAN, bufsize \in Buffers :
    Return("fdt_open_into", <<>>, <<>>, <<>>, fdt_open_into(blob, tags, own, bufsize))

Move == \E bufsize \in Buffers :
    Return("fdt_move", <<>>, <<>>, <<>>, fdt_move(blob, bufsize))

Pack == Return("fdt_pack", <<>>, <<>>, <<>>, fdt_pack(blob))

Next ==
    \/ Setprop \/ Appendprop \/ SetpropInplace \/ Delprop \/ NopProperty
    \/ AddSubnode \/ DelNode \/ NopNode \/ SetName
    \/ AddMemRsv \/ DelMemRsv
    \/ OpenInto \/ Move \/ Pack

Spec == Init /\ [][Next]_vars
------------------------------------------------------------------------------
Promise == INSTANCE FdtTree

\* No call on a node of the tree is answered BADOFFSET (fdt_rw.c:66); the
\* header's numbers and the bytes have the right types.
TypeOK ==
    /\ blob \in [version : {16, 17}, totalsize : Nat,
                 off_mem_rsvmap : Nat, off_dt_struct : Nat,
                 size_dt_struct : Nat, off_dt_strings : Nat,
                 size_dt_strings : Nat, mem : Seq(Int)]
    /\ ret \in {Done, NotFound, Exists, NoSpace, BadVersion, BadLayout}
    /\ call \in Promise!Call

Editable == blob.version = 17
            /\ ~fdt_blocks_misordered_(blob, ReserveSize, blob.size_dt_struct)

\* After any sequence of edits (fdt_rw.c) the header describes what is in
\* memory and passes fdt_check_header: the three blocks follow each other within totalsize, the walk over
\* the structure block ends at its FDT_END with every node closed, every
\* property's name is a string of the strings block, and no tag, length, name
\* or value is a byte an edit has made room for and not written.
HeaderDescribesBlocks ==
    LET stop == Last(tags)
    IN  /\ fdt_check_header(blob)
        /\ stop.tag = FDT_END /\ stop.path = <<>>
        /\ Editable =>
             /\ End(blob) = fdt_data_size_(blob)
             /\ fdt_data_size_(blob) <= blob.totalsize
             /\ ReserveMapSize(blob) <= blob.off_dt_struct - blob.off_mem_rsvmap
             /\ stop.next = blob.size_dt_struct
        /\ \A t \in ToSet(tags) : t.tag = FDT_PROP =>
             /\ StringAt(blob, PropNameOff(blob, t), PropName(blob, t))
             /\ Junk \notin ToSet(PropName(blob, t)) \cup ToSet(PropData(blob, t))
        /\ \A t \in Nodes(tags) : Junk \notin ToSet(Last(t.path))

\* After any sequence of edits the blob is one that libfdt can read.
BlobSound == TypeOK /\ HeaderDescribesBlocks

\* A call that fails leaves every byte and every header field as it was, also
\* when it had already put a name into the strings block (fdt_rw.c:224-237).
FailureLeavesBlob == [][ret' # Done => blob' = blob]_vars

\* Each call that succeeds makes the change its caller asked for and no other,
\* wherever memmove has carried the rest of the tree.
EditsAsAsked == Promise!Spec
==============================================================================
