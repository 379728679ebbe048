------------------------------ MODULE MCBootFdt ------------------------------
(***************************************************************************)
(* Trees as dtc writes them: with and without /chosen, with and without    *)
(* bootargs of several lengths, the names of the properties to come in the *)
(* strings block or not; command lines up to the longest the field holds.  *)
(***************************************************************************)
EXTENDS BootFdt

CONSTANTS ArgLengths, CmdLengths

Text(n) == [i \in 1 .. n |-> 97 + (i % 7)]
Aligned(s) == s \o Zeros(FDT_TAGALIGN(Len(s)) - Len(s))

NodeOf(name, inside) ==
    Word(FDT_BEGIN_NODE) \o Aligned(Append(name, NUL)) \o inside
    \o Word(FDT_END_NODE)

Prop(off, val) == Word(FDT_PROP) \o Word(Len(val)) \o Word(off) \o Aligned(val)

\* A property "m" of the root, and a node behind /chosen.
Model   == Prop(0, <<1, 2, 3>>)
Cpu   == NodeOf(<<99, 112, 117>>, Prop(0, <<4>>))
Strings == {<<109, NUL>> \o Append(Bootargs, NUL),
            <<109, NUL>> \o Append(Bootargs, NUL) \o Append(InitrdEnd, NUL)
                         \o Append(InitrdStart, NUL)}

\* The name of an existing /chosen, with and without a unit address.
ChosenNodes ==
    {NodeOf(name, inside) :
        name  \in {ChosenName, ChosenName \o <<At, 48>>},
        inside \in {<<>>} \cup {Prop(2, Append(Text(n), NUL)) : n \in ArgLengths}}

Dtb(version, strc, strs) ==
    [version |-> version,
     totalsize |-> HeaderSize + 2 * ReserveSize + Len(strc) + Len(strs),
     off_mem_rsvmap  |-> HeaderSize,
     off_dt_struct   |-> HeaderSize + 2 * ReserveSize,
     size_dt_struct  |-> IF version = 17 THEN Len(strc) ELSE 0,
     off_dt_strings  |-> HeaderSize + 2 * ReserveSize + Len(strc),
     size_dt_strings |-> Len(strs),
     mem |-> <<3>> \o Zeros(7) \o <<1>> \o Zeros(7) \o Zeros(ReserveSize)
             \o strc \o strs]

MCDtbs ==
    {Dtb(version, NodeOf(<<>>, Model \o node \o Cpu) \o Word(FDT_END), strs) :
        version \in {16, 17}, node \in {<<>>} \cup ChosenNodes, strs \in Strings}

MCCmdlines == {Text(n) : n \in CmdLengths}
==============================================================================
