------------------------------- MODULE FdtQuery -------------------------------
(***************************************************************************)
(* The queries of libfdt (src/lib/libfdt/fdt_ro.c): names, paths, parents, *)
(* phandles, aliases, lists of strings.  They look at a blob and at the    *)
(* tags FdtRo finds in it, and answer an error of libfdt or a value:       *)
(* [ret |-> ..., val |-> ...].                                             *)
(*                                                                         *)
(* A name, here, is a sequence of characters; the names libfdt itself      *)
(* looks for are constants.                                                *)
(***************************************************************************)
EXTENDS FdtRo

CONSTANTS phandle, linux_phandle, compatible, aliases,
          FDT_MAX_PHANDLE     \* the largest number a phandle may have

Slash == 47

Value(v) == [ret |-> Done, val |-> v]
Error(e) == [ret |-> e]

\* A blob can be read when it is complete, or holds at least one tag.
fdt_ro_probe_(b) ==
    CASE b.magic = FDT_MAGIC -> IF b.version < 2 THEN BadVersion ELSE Done
      [] b.magic = FDT_SW_MAGIC ->
             IF b.size_dt_struct = 0 THEN BadState ELSE Done
      [] OTHER -> BadMagic

\* The string at an offset of the strings block; in a blob that is being
\* written, at an offset below zero from its end.
fdt_get_string(b, stroffset) ==
    LET abs   == b.off_dt_strings + stroffset
        inside == IF b.magic = FDT_MAGIC
                  THEN /\ 0 <= stroffset
                       /\ b.version >= 17 => stroffset < b.size_dt_strings
                  ELSE -b.size_dt_strings <= stroffset /\ stroffset < 0
        limit == IF b.magic # FDT_MAGIC THEN b.off_dt_strings
                 ELSE IF b.version < 17 THEN b.totalsize
                 ELSE Min({b.totalsize, b.off_dt_strings + b.size_dt_strings})
    IN  IF fdt_ro_probe_(b) # Done THEN Error(fdt_ro_probe_(b))
        ELSE IF ~inside \/ abs >= b.totalsize THEN Error(BadOffset)
        ELSE IF \A x \in abs .. limit - 1 : Byte(b, x) # NUL
        THEN Error(Truncated)
        ELSE Value(CString(b, abs, limit))
------------------------------------------------------------------------------
\* The offset of the property whose name, found through fdt_get_string, is
\* that name; -1 if there is none.
PropertyOf(b, tags, node, name) ==
    LET found == {p \in Properties(tags, node) :
                      fdt_get_string(b, PropNameOff(b, p)) = Value(name)}
    IN  IF found = {} THEN -1 ELSE Min({p.off : p \in found})

fdt_getprop(b, tags, node, name) ==
    LET prop == PropertyOf(b, tags, node, name)
    IN  IF ~IsNode(tags, node) THEN Error(BadOffset)
        ELSE IF prop < 0 THEN Error(NotFound)
        ELSE Value(PropData(b, TagAt(tags, prop)))

\* The number in a property of one word, or 0.
WordIn(answer) == IF answer.ret = Done /\ Len(answer.val) = 4
                  THEN answer.val[1] ELSE 0

fdt_get_phandle(b, tags, node) ==
    LET new == fdt_getprop(b, tags, node, phandle)
    IN  IF new.ret = Done /\ Len(new.val) = 4 THEN WordIn(new)
        ELSE WordIn(fdt_getprop(b, tags, node, linux_phandle))

fdt_find_max_phandle(b, tags) ==
    Max({0} \cup {fdt_get_phandle(b, tags, t.off) : t \in Nodes(tags)})

\* Mutant: the largest number is not looked for.
GeneratePhandle_NoMax(b, tags) ==
    Value((fdt_find_max_phandle(b, tags) + 1) % (FDT_MAX_PHANDLE + 2))

fdt_generate_phandle(b, tags) ==
    LET max == fdt_find_max_phandle(b, tags)
    IN  IF max = FDT_MAX_PHANDLE THEN Error(NoPhandles)
         ELSE Value((max + 1) % (FDT_MAX_PHANDLE + 2))

\* The first node, behind an offset, with that property.
FirstNode(tags, start, Test(_)) ==
    LET found == {t \in Nodes(tags) : t.off > start /\ Test(t.off)}
    IN  IF found = {} THEN Error(NotFound) ELSE Value(Min({t.off : t \in found}))

fdt_node_offset_by_prop_value(b, tags, start, name, val) ==
    FirstNode(tags, start,
              LAMBDA node : fdt_getprop(b, tags, node, name) = Value(val))

fdt_node_offset_by_phandle(b, tags, number) ==
    IF number \in {0, FDT_MAX_PHANDLE + 1} THEN Error(BadPhandle)
    ELSE FirstNode(tags, -1,
                   LAMBDA node : fdt_get_phandle(b, tags, node) = number)
------------------------------------------------------------------------------
\* The first subnode, and the next one behind a node that is one.
fdt_first_subnode(tags, node) ==
    LET subs == {t.off : t \in Subnodes(tags, node)}
    IN  IF subs = {} THEN Error(NotFound) ELSE Value(Min(subs))

fdt_next_subnode(tags, node) ==
    LET path == NodeAt(tags, node).path
        next == {t.off : t \in {u \in Nodes(tags) : /\ u.off > node
                                                   /\ Front(u.path) = Front(path)}}
    IN  IF next = {} THEN Error(NotFound) ELSE Value(Min(next))

\* The nodes the walk passes before it reaches a node, with their depths.
Passed(tags, node) == {t \in Nodes(tags) : t.off <= node}

\* The last node of that depth the walk passes is the one the node lies in.
fdt_supernode_atdepth_offset(tags, node, depth) ==
    LET at == {t.off : t \in {u \in Passed(tags, node) :
                                  Len(u.path) = depth + 1}}
    IN  IF ~IsNode(tags, node) THEN Error(BadOffset)
        ELSE IF depth < 0 \/ depth > Len(NodeAt(tags, node).path) - 1
        THEN Error(NotFound)
        ELSE Value(Max(at))

fdt_node_depth(tags, node) == Len(NodeAt(tags, node).path) - 1

fdt_parent_offset(tags, node) ==
    fdt_supernode_atdepth_offset(tags, node, fdt_node_depth(tags, node) - 1)

\* Takes the last component off a path that ends in '/'.
DropComponent(p) ==
    LET slashes == {i \in 1 .. Len(p) - 1 : p[i] = Slash}
    IN  SubSeq(p, 1, Max(slashes))

Fits(p, name, buflen) == Len(p) + Len(name) + 1 <= buflen

\* One node of fdt_get_path's walk.  The buffer holds the path, each component
\* followed by '/', down to depth pdepth; a name that does not fit is left
\* out, and what is below it too.
PathStep(s, t, buflen) ==
    LET depth  == Len(t.path) - 1
        drop[n \in Nat] == IF n = 0 THEN s.p ELSE DropComponent(drop[n - 1])
        over   == Max({0, s.pdepth - depth})
        p      == drop[over]
        pdepth == s.pdepth - over
    IN  IF pdepth >= depth /\ Fits(p, Last(t.path), buflen)
        THEN [p |-> p \o Last(t.path) \o <<Slash>>, pdepth |-> pdepth + 1]
        ELSE [p |-> p, pdepth |-> pdepth]

fdt_get_path(tags, node, buflen) ==
    LET passed == SelectSeq(tags, LAMBDA t : t.tag = FDT_BEGIN_NODE
                                             /\ t.off <= node)
        end    == FoldLeft(LAMBDA s, t : PathStep(s, t, buflen),
                           [p |-> <<>>, pdepth |-> 0], passed)
    IN  IF buflen < 2 THEN Error(NoSpace)
        ELSE IF ~IsNode(tags, node) THEN Error(BadOffset)
        ELSE IF end.pdepth < Len(NodeAt(tags, node).path) THEN Error(NoSpace)
        ELSE Value(IF Len(end.p) > 1 THEN Front(end.p) ELSE end.p)
------------------------------------------------------------------------------
\* The names between the slashes of a path.
Components(path) ==
    LET name[i \in 1 .. Len(path) + 1] ==
            IF i > Len(path) \/ path[i] = Slash THEN <<>>
            ELSE <<path[i]>> \o name[i + 1]
        starts == {i \in 1 .. Len(path) :
                       path[i] # Slash /\ (i = 1 \/ path[i - 1] = Slash)}
    IN  [n \in 1 .. Cardinality(starts) |->
            name[SetToSortSeq(starts, <)[n]]]

\* The node those names lead to; negative if there is none.
Follow(tags, offset, components) ==
    FoldLeft(LAMBDA o, name : IF o < 0 THEN o
                              ELSE fdt_subnode_offset(tags, o, name),
             offset, components)

\* An alias is a path, that is it begins with '/' and ends with a NUL.
IsAlias(val) == val # <<>> /\ Head(val) = Slash /\ Last(val) = NUL

fdt_get_alias(b, tags, name) ==
    LET node  == fdt_path_offset(tags, <<aliases>>)
        alias == fdt_getprop(b, tags, node, name)
    IN  IF node < 0 THEN Error(BadPath)
        ELSE IF alias.ret # Done THEN Error(BadPath)
        ELSE IF ~IsAlias(alias.val) THEN Error(BadPath)
        ELSE Value(SubSeq(alias.val, 1, SelectInSeq(alias.val,
                                            LAMBDA c : c = NUL) - 1))

\* The node a path in characters designates; one that does not begin with '/'
\* begins with an alias.
fdt_path_offset_namelen(b, tags, path) ==
    LET first  == Head(Components(path))
        alias  == fdt_get_alias(b, tags, first)
        node   == IF path # <<>> /\ Head(path) = Slash
                  THEN Follow(tags, 0, Components(path))
                  ELSE Follow(tags, Follow(tags, 0, Components(alias.val)),
                              Tail(Components(path)))
    IN  IF path = <<>> THEN Error(BadPath)
        ELSE IF Head(path) # Slash /\ alias.ret # Done THEN Error(BadPath)
        ELSE IF node < 0 THEN Error(NotFound) ELSE Value(node)
------------------------------------------------------------------------------
\* Where the strings of a list begin.
ListStarts(list) ==
    {i \in 1 .. Len(list) : i = 1 \/ list[i - 1] = NUL}

\* The strings from the first to the last that is terminated, in order.
Strings(list) ==
    LET char[i \in 1 .. Len(list)] ==
            IF list[i] = NUL THEN <<>> ELSE <<list[i]>> \o char[i + 1]
        starts == SetToSortSeq({i \in ListStarts(list) :
                      \E j \in i .. Len(list) : list[j] = NUL}, <)
    IN  [n \in DOMAIN starts |-> char[starts[n]]]

Terminated(list) == list = <<>> \/ Last(list) = NUL

\* The loops of fdt_stringlist_* give up at a string that is not terminated,
\* when they come to it.
fdt_stringlist_count(list) ==
    IF Terminated(list) THEN Value(Len(Strings(list))) ELSE Error(BadValue)

fdt_stringlist_search(list, s) ==
    LET n == SelectInSeq(Strings(list), LAMBDA t : t = s)
    IN  IF n > 0 THEN Value(n - 1)
        ELSE IF Terminated(list) THEN Error(NotFound) ELSE Error(BadValue)

fdt_stringlist_get(list, idx) ==
    IF idx < Len(Strings(list)) THEN Value(Strings(list)[idx + 1])
    ELSE IF Terminated(list) THEN Error(NotFound) ELSE Error(BadValue)

\* memcmp compares the NUL as well, also where the list ends before it: there
\* it meets padding, cleared by fdt_create, or the first byte of the next tag,
\* which is 0.
fdt_stringlist_contains(list, s) ==
    \E i \in ListStarts(list) :
        /\ i + Len(s) - 1 <= Len(list)
        /\ SubSeq(Append(list, NUL), i, i + Len(s)) = Append(s, NUL)

fdt_node_check_compatible(b, tags, node, s) ==
    LET list == fdt_getprop(b, tags, node, compatible)
    IN  IF list.ret # Done THEN list
        ELSE Value(fdt_stringlist_contains(list.val, s))

fdt_node_offset_by_compatible(b, tags, start, s) ==
    FirstNode(tags, start,
              LAMBDA n : fdt_node_check_compatible(b, tags, n, s) = Value(TRUE))
==============================================================================
