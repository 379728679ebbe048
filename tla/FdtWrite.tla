------------------------------- MODULE FdtWrite -------------------------------
(***************************************************************************)
(* A client that writes a tree with fdt_sw.c, in a buffer that is often    *)
(* too small and is exchanged meanwhile, makes calls out of turn, and asks *)
(* the finished tree the questions of fdt_ro.c.                            *)
(*                                                                         *)
(* Nesting is the client's own matter, libfdt does not look at it: one     *)
(* root, properties before children, names that differ, as many ends as    *)
(* beginnings.                                                             *)
(***************************************************************************)
EXTENDS FdtSw, FdtQuery

CONSTANTS
    NodeNames,
    PropValues,  \* <<name, value>> pairs
    Regions,     \* <<address, size>> pairs to reserve
    Buffers,     \* sizes of buffers
    Offsets,     \* where a new buffer begins, from the old one
    MaxRegions,  \* regions the client reserves, at most
    Given,       \* finished trees a client may have got elsewhere
    Asked        \* the strings it asks a finished tree for

\* No name is so long that the unsigned difference in fdt_add_string_ wraps.
ASSUME ClientAssumption ==
    /\ \A p \in PropValues :
           /\ p[1] # <<>> /\ ~Contains(p[1], NUL)
           /\ Len(p[1]) < hdrsize + ReserveSize
    /\ \A name \in NodeNames : name # <<>> /\ ~Contains(name, NUL)
    /\ \A region \in Regions : region[2] > 0

VARIABLES
    blob,
    ret,
    stage,      \* history: the calls made so far, see FdtSw
    written,    \* history: path -> (property name -> value)
    open,       \* history: the path of the node being written
    reserved,   \* history: the regions reserved
    tags        \* the tags of the blob, once one can be read

vars == <<blob, ret, stage, written, open, reserved, tags>>
tree == <<written, open, reserved>>

\* Memory that holds no tree.
Raw == [magic |-> "none", version |-> 0, flags |-> {}, totalsize |-> HeaderSize,
        off_mem_rsvmap |-> 0, off_dt_struct |-> 0, size_dt_struct |-> 0,
        off_dt_strings |-> 0, size_dt_strings |-> 0, mem |-> <<>>]

Init ==
    /\ ret = Done /\ open = <<>> /\ reserved = <<>>
    /\ \/ /\ blob = Raw /\ stage = "raw"
          /\ written = <<>> /\ tags = <<>>
       \/ /\ blob \in Given /\ stage = "complete"
          /\ tags = Tags(blob)
          /\ written = Tree(blob, tags)

\* A call returns r; if it succeeds the client's record changes to new.
Return(r, new) ==
    /\ blob' = r.b
    /\ ret' = r.ret
    /\ tags' = IF fdt_ro_probe_(r.b) = Done THEN Tags(r.b) ELSE <<>>
    /\ LET now == IF r.ret = Done THEN new
                  ELSE <<stage, written, open, reserved>>
       IN  /\ stage' = now[1] /\ written' = now[2]
           /\ open' = now[3] /\ reserved' = now[4]

\* In another state a call may be made as well, in any order.
OutOfTurn == stage # "struct"

Create == stage = "raw" /\ \E size \in Buffers,
                              flags \in SUBSET {NO_NAME_DEDUP, "unknown"} :
    Return(fdt_create_with_flags(blob, size, flags),
           <<"memrsv", <<>>, <<>>, <<>>>>)

Resize == \E size \in Buffers, to \in Offsets :
    Return(fdt_resize(blob, to, size), <<stage, written, open, reserved>>)

AddReservemapEntry == Len(reserved) < MaxRegions /\ \E region \in Regions :
    Return(fdt_add_reservemap_entry(blob, region[1], region[2]),
           <<stage, written, open, Append(reserved, region)>>)

FinishReservemap ==
    Return(fdt_finish_reservemap(blob), <<"struct", written, open, reserved>>)

WithNode(path) == [p \in DOMAIN written \cup {path} |->
                      IF p = path THEN <<>> ELSE written[p]]

BeginNode == \E name \in NodeNames \cup {<<>>} :
    LET path == Append(open, name)
    IN  /\ \/ OutOfTurn
           \/ path \notin DOMAIN written /\ (name = <<>>) = (open = <<>>)
        /\ Return(fdt_begin_node(blob, name),
                  <<stage, WithNode(path), path, reserved>>)

\* The client has not begun a child of the open node yet.
AtProperties == open # <<>> /\ \A p \in DOMAIN written :
                                   p # <<>> => Front(p) # open

WithProp(name, val) ==
    [written EXCEPT ![open] = [n \in DOMAIN @ \cup {name} |->
                                  IF n = name THEN val ELSE @[n]]]

Property == \E p \in PropValues :
    /\ OutOfTurn \/ (AtProperties /\ p[1] \notin DOMAIN written[open])
    /\ Return(fdt_property(blob, p[1], p[2]),
              <<stage, WithProp(p[1], p[2]), open, reserved>>)

EndNode ==
    /\ OutOfTurn \/ open # <<>>
    /\ Return(fdt_end_node(blob), <<stage, written, Front(open), reserved>>)

Finish ==
    /\ OutOfTurn \/ (open = <<>> /\ written # <<>>)
    /\ Return(fdt_finish(blob), <<"complete", written, open, reserved>>)

Next == \/ Create \/ Resize
        \/ AddReservemapEntry \/ FinishReservemap
        \/ BeginNode \/ Property \/ EndNode \/ Finish

Spec == Init /\ [][Next]_vars
------------------------------------------------------------------------------
TypeOK ==
    /\ stage \in {"raw", "memrsv", "struct", "complete"}
    /\ ret \in {Done, NoSpace, BadState, BadMagic, BadFlags}
    /\ blob.magic \in {"none", FDT_MAGIC, FDT_SW_MAGIC}
    /\ blob.size_dt_strings \in Nat /\ blob.size_dt_struct \in Nat
    /\ Len(blob.mem) = blob.totalsize - HeaderSize
    \* The two ends of a buffer that is being filled never meet (fdt_sw.c:95-108).
    /\ stage # "raw" => StructTop(blob) + blob.size_dt_strings <= blob.totalsize

\* What can be read of a blob, the unfinished one included.
Contents ==
    [path \in {t.path : t \in Nodes(tags)} |->
        LET node    == CHOOSE t \in Nodes(tags) : t.path = path
            props   == Properties(tags, node.off)
            Name(p) == fdt_get_string(blob, PropNameOff(blob, p)).val
        IN  [name \in {Name(p) : p \in props} |->
                PropData(blob, CHOOSE p \in props : Name(p) = name)]]

\* At every point the blob holds the nodes, properties and values written so
\* far and no other, whichever names it shares, however often its two ends
\* have moved apart or its strings have moved down (fdt_sw.c:149-187,
\* 294-317, 351-371).
HoldsWhatWasWritten == tags # <<>> => Contents = written

\* What fdt_finish returns is a tree for the rest of libfdt: the header
\* passes fdt_check_header, the blocks are in order and fill totalsize, and
\* the reservation map is the client's (fdt_sw.c:338-385).
FinishedIsWellFormed ==
    stage = "complete" =>
        /\ fdt_check_header(blob)
        /\ fdt_rw_probe_(blob).ret = Done
        /\ fdt_data_size_(blob) = blob.totalsize
        /\ Last(tags).tag = FDT_END /\ Last(tags).next = blob.size_dt_struct
        /\ ReserveMap(blob) = reserved

\* The state kept in off_dt_strings is the state of the calls, also after the
\* buffer was exchanged: a call out of turn is refused and one in turn is not
\* (fdt_sw.c:39-82, 183-184).
StageKept ==
    /\ fdt_sw_probe_memrsv_(blob) = Done <=> stage = "memrsv"
    /\ fdt_sw_probe_struct_(blob) = Done <=> stage = "struct"

\* What a reader or a later call can see of a blob that is being written.
Live(b) == <<[b EXCEPT !.mem = <<>>],
             Bytes(b, HeaderSize, StructTop(b) - HeaderSize),
             Bytes(b, b.totalsize - b.size_dt_strings, b.size_dt_strings)>>

\* A call that is refused changes nothing that counts: fdt_property has written
\* a name by then, and takes back only what it wrote (fdt_sw.c:294-317).
RefusalKeepsBlob ==
    [][ret' # Done => IF stage \in {"memrsv", "struct"}
                      THEN Live(blob') = Live(blob) ELSE blob' = blob]_vars
------------------------------------------------------------------------------
(* The finished tree answers what its paths and properties say. *)

NodeOf(path)  == CHOOSE t \in Nodes(tags) : t.path = path
Text(path)    == IF Len(path) = 1 THEN <<Slash>>
                 ELSE FoldLeft(LAMBDA p, name : p \o <<Slash>> \o name,
                               <<>>, Tail(path))
Stem(name)    == SelectInSeq(name, LAMBDA c : c = At)
\* A sibling in front of the node goes by the same name without its unit.
Shadowed(path) ==
    \E u \in DOMAIN written : /\ Len(u) = Len(path) /\ Front(u) = Front(path)
                             /\ NodeOf(u).off < NodeOf(path).off
                             /\ Stem(Last(u)) = Len(Last(path)) + 1
                             /\ IsPrefix(Last(path), Last(u))
LongestPath == Max({Len(Text(path)) : path \in DOMAIN written})

\* A node's path leads back to the node, unless a sibling's name hides one on
\* the way; fdt_get_path answers it just when it fits the buffer with its NUL,
\* whatever longer path the buffer held before; and the node at each depth
\* above a node is the beginning of its path (fdt_ro.c:251-302, 572-682).
PathsAgree ==
    stage = "complete" => \A path \in DOMAIN written :
        LET node == NodeOf(path).off
            text == Text(path)
        IN  /\ \A buflen \in 0 .. LongestPath + 2 :
                   fdt_get_path(tags, node, buflen) =
                       IF buflen > Len(text) /\ buflen > 1 THEN Value(text)
                       ELSE Error(NoSpace)
            /\ \A depth \in 0 .. Len(path) :
                   fdt_supernode_atdepth_offset(tags, node, depth) =
                       IF depth = Len(path) THEN Error(NotFound)
                       ELSE Value(NodeOf(SubSeq(path, 1, depth + 1)).off)
            /\ fdt_parent_offset(tags, node) =
                   IF Len(path) = 1 THEN Error(NotFound)
                   ELSE Value(NodeOf(Front(path)).off)
            /\ (\A n \in 2 .. Len(path) : ~Shadowed(SubSeq(path, 1, n)))
                   => fdt_path_offset_namelen(blob, tags, text) = Value(node)

\* The subnodes are the children, each once and in their order (fdt.c:296-322).
SubnodesAgree ==
    stage = "complete" => \A path \in DOMAIN written :
        LET subs == {NodeOf(u).off : u \in {v \in DOMAIN written :
                                           Len(v) > 1 /\ Front(v) = path}}
            next(o) == IF o = -1 THEN fdt_first_subnode(tags, NodeOf(path).off)
                       ELSE fdt_next_subnode(tags, o)
        IN  \A o \in subs \cup {-1} :
                next(o) = IF \A u \in subs : u <= o THEN Error(NotFound)
                          ELSE Value(Min({u \in subs : u > o}))

\* A node's phandle, by either of its two names; the new one counts.
PhandleOf(props) ==
    IF phandle \in DOMAIN props /\ Len(props[phandle]) = 4
    THEN props[phandle][1]
    ELSE IF linux_phandle \in DOMAIN props /\ Len(props[linux_phandle]) = 4
    THEN props[linux_phandle][1] ELSE 0
Phandles == {PhandleOf(written[path]) : path \in DOMAIN written}

\* A phandle leads to a node that has it, if one has, and a generated one is
\* a number a node may have and none has yet, at the upper end as well, as
\* long as no node has the reserved number (fdt_ro.c:115-159, 684-734).
PhandlesAgree ==
    stage = "complete" =>
        /\ \A number \in 1 .. FDT_MAX_PHANDLE :
               LET answer == fdt_node_offset_by_phandle(blob, tags, number)
               IN  IF number \in Phandles
                   THEN PhandleOf(written[NodeAt(tags, answer.val).path]) = number
                   ELSE answer = Error(NotFound)
        /\ (\A path \in DOMAIN written : linux_phandle \notin DOMAIN written[path])
           => \A number \in 1 .. FDT_MAX_PHANDLE :
                  fdt_node_offset_by_prop_value(blob, tags, -1, phandle,
                                                Word(number))
                      = fdt_node_offset_by_phandle(blob, tags, number)
        /\ FDT_MAX_PHANDLE + 1 \notin Phandles =>
               LET new == fdt_generate_phandle(blob, tags)
               IN  IF FDT_MAX_PHANDLE \in Phandles
                   THEN new = Error(NoPhandles)
                   ELSE new.val \in (1 .. FDT_MAX_PHANDLE) \ Phandles

\* An alias stands for the path it holds, at the beginning of a path only; one
\* that is no absolute path, terminated within the property, is refused
\* (fdt_ro.c:251-302, 541-559).
AliasesAgree ==
    LET node == <<<<>>, aliases>>
    IN  stage = "complete" /\ node \in DOMAIN written =>
            \A name \in DOMAIN written[node], rest \in {<<>>, <<Slash>>}
                     \cup {<<Slash>> \o c : c \in Asked} :
                LET val == written[node][name]
                IN  fdt_path_offset_namelen(blob, tags, name \o rest) =
                        IF val # <<>> /\ Last(val) = NUL /\ Head(val) = Slash
                        THEN fdt_path_offset_namelen(blob, tags,
                                                     Front(val) \o rest)
                        ELSE Error(BadPath)

\* The four readers of a list of strings tell the same of it: what is found is
\* at the place it is found at and is what is got from there.  They part only
\* on a last string without NUL, which ends the three that count and is one
\* more string to the fourth (fdt_ro.c:736-889).
ListsAgree ==
    stage = "complete" => \A path \in DOMAIN written :
        compatible \in DOMAIN written[path] =>
            LET list  == written[path][compatible]
                whole == list = <<>> \/ Last(list) = NUL
                nuls  == Cardinality({i \in DOMAIN list : list[i] = NUL})
                Got(i) == fdt_stringlist_get(list, i)
            IN  /\ fdt_stringlist_count(list) = IF whole THEN Value(nuls)
                                                ELSE Error(BadValue)
                /\ \A i \in 0 .. nuls - 1 :
                       LET at == fdt_stringlist_search(list, Got(i).val)
                       IN  /\ Got(i).ret = Done
                           /\ at.ret = Done /\ Got(at.val) = Got(i)
                           /\ fdt_stringlist_contains(list, Got(i).val)
                /\ Got(nuls).ret = IF whole THEN NotFound ELSE BadValue
                /\ \A s \in Asked :
                       fdt_stringlist_contains(list, s) <=>
                           \/ fdt_stringlist_search(list, s).ret = Done
                           \/ /\ ~whole
                              /\ \E i \in ListStarts(list) :
                                     SubSeq(list, i, Len(list)) = s
                /\ \A s \in Asked :
                       LET found == fdt_node_offset_by_compatible(blob, tags,
                                                                  -1, s)
                       IN  fdt_stringlist_contains(list, s) =>
                               /\ found.val <= NodeOf(path).off
                               /\ fdt_node_check_compatible(blob, tags,
                                      found.val, s) = Value(TRUE)

\* Between calls the blob is what its stage asks for, and a finished one is a
\* tree (fdt_sw.c:39-108, 183-184, 338-385).
StagesSound == TypeOK /\ StageKept /\ FinishedIsWellFormed

\* Every query answers what the tree says (fdt_ro.c:115-302, 541-889,
\* fdt.c:296-322).
QueriesAgree ==
    PathsAgree /\ SubnodesAgree /\ PhandlesAgree /\ AliasesAgree /\ ListsAgree
==============================================================================
