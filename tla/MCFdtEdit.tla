------------------------------ MODULE MCFdtEdit ------------------------------
(***************************************************************************)
(* Small trees for FdtEdit: a root with one child,   *)
(* its blocks in the order dtc writes them, in another, and as version 16. *)
(***************************************************************************)
EXTENDS FdtEdit

CONSTANTS Versions, Slack, Growth

\* Property "a", found at the end of the string "ba", and the new name "c";
\* nodes "n" and "n@1".
MCPropNames == {<<97>>, <<99>>}
MCNodeNames == {<<110>>, <<110, At, 49>>}
MCValues    == {<<>>, <<7, 8, 9>>}
MCRegions   == {<<5, 1>>}

Reserve == Zeros(ReserveSize)
Struct  == Word(FDT_BEGIN_NODE) \o Zeros(4)
           \o Word(FDT_BEGIN_NODE) \o <<110, NUL, NUL, NUL>>
           \o Word(FDT_END_NODE)
           \o Word(FDT_END_NODE) \o Word(FDT_END)
Strings == <<98, 97, NUL>>

DataSize == HeaderSize + Len(Reserve) + Len(Struct) + Len(Strings)

Ordered(version) ==
    [version |-> version, totalsize |-> DataSize,
     off_mem_rsvmap |-> HeaderSize,
     off_dt_struct  |-> HeaderSize + Len(Reserve),
     size_dt_struct |-> IF version = 17 THEN Len(Struct) ELSE 0,
     off_dt_strings |-> HeaderSize + Len(Reserve) + Len(Struct),
     size_dt_strings |-> Len(Strings),
     mem |-> Reserve \o Struct \o Strings]

\* The strings block first, and a gap before the structure block.
Misordered ==
    [Ordered(17) EXCEPT !.totalsize = DataSize + 5,
        !.off_dt_strings = HeaderSize + Len(Reserve),
        !.off_dt_struct  = HeaderSize + Len(Reserve) + Len(Strings) + 5,
        !.mem = Reserve \o Strings \o Room(5) \o Struct]

MCBlobs == {Ordered(v) : v \in Versions} \cup {Misordered}
MCMaxData == DataSize + Growth
MCBuffers == {DataSize, DataSize + Slack, 2 * DataSize + 5}

\* What a call does depends on the blob alone.
MCView == <<blob, ret>>
==============================================================================
