------------------------------ MODULE MCFdtWrite ------------------------------
(* Trees of a root and a few nodes in buffers around the size they need,    *)
(* with a name that is the end of another and one that is found twice; and  *)
(* finished trees whose properties libfdt's queries look for.               *)
EXTENDS FdtWrite

\* The characters of the names and values below.
a == 97
b == 98
n == 110
x == 120
y == 121
one == 49

MCphandle       == <<112>>
MClinux_phandle == <<108>>
MCcompatible    == <<99>>
MCaliases       == <<a, a>>

MCNodeNames  == {<<n>>}
MCAsked      == {<<n>>, <<x>>, <<y>>}
MCPropValues == {<<<<b, a>>, <<>>>>, <<<<a>>, <<7, 8, 9>>>>}
MCRegions    == {<<5, 1>>}
MCOffsets    == {-20, 0, 20}

\* A finished tree: a root, below it n with a child of its own, n@1 in front
\* of it or behind it, and the aliases.
Enough == fdt_finish_reservemap(fdt_create_with_flags(Raw, 400, {}).b).b

Node(name, props, inner) ==
    << <<"begin", name>> >> \o props \o inner \o << <<"end">> >>
Prop(name, val) == << <<"prop", name, val>> >>

Built(calls) ==
    fdt_finish(FoldLeft(LAMBDA c, call :
        CASE call[1] = "begin" -> fdt_begin_node(c, call[2]).b
          [] call[1] = "prop"  -> fdt_property(c, call[2], call[3]).b
          [] call[1] = "end"   -> fdt_end_node(c).b, Enough, calls)).b

ListProps == {<<>>, Prop(MCcompatible, <<x, NUL, y, x, NUL>>),
              Prop(MCcompatible, <<y, x, NUL, x>>)}
NewProps  == {<<>>, Prop(MCphandle, Word(1)), Prop(MClinux_phandle, Word(2)),
              Prop(MCphandle, <<7, 8, 9>>) \o Prop(MClinux_phandle, Word(2))}
HighProps == {<<>>, Prop(MCphandle, Word(1)), Prop(MCphandle, Word(3))}
LastProps == {<<>>, Prop(MCphandle, Word(4)),
              Prop(MCcompatible, <<y, x, NUL>>)}
AliasProps == {<<>>, Prop(<<a>>, <<Slash, n, NUL>>),
               Prop(<<a>>, <<Slash, n>>), Prop(<<a>>, <<n, NUL>>),
               Prop(<<b, a>>, <<Slash, n, Slash, x, NUL>>)}

MCGiven ==
    {LET inner == Node(<<n>>, q, Node(<<x>>, r, <<>>))
         unit  == Node(<<n, At, one>>, s,
                       IF first THEN Node(<<y>>, <<>>, <<>>) ELSE <<>>)
         alias == Node(MCaliases, t, <<>>)
     IN  Built(Node(<<>>, p, (IF first THEN unit \o inner ELSE inner \o unit)
                             \o alias)) :
        p \in ListProps, q \in NewProps, r \in HighProps, s \in LastProps,
        t \in AliasProps, first \in BOOLEAN}

\* The rest of the memory, between the structure and the strings, is written
\* before it is read, or becomes the padding behind a name or a value.
MCView == <<Live(blob), stage, written, open, reserved, tags>>
==============================================================================
