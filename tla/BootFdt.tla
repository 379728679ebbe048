------------------------------- MODULE BootFdt -------------------------------
(***************************************************************************)
(* The device tree the kernel gets: boot_v2_bootimg's calls of libfdt      *)
(* (src/boot/boot.c), with the sizes they really have.  The image's tree   *)
(* is opened with some room to grow, /chosen is found or made, the tree's  *)
(* own bootargs and the image's command line are joined, and the ramdisk's *)
(* addresses are noted.  No result but that of fdt_open_into is looked at, *)
(* and that only to print a message.                                       *)
(***************************************************************************)
EXTENDS FdtRw

CONSTANTS
    Dtbs,           \* trees found in boot images
    Cmdlines,       \* command lines found in boot images
    RamdiskStart, RamdiskEnd    \* physical addresses

\* BOOT_ARGS_SIZE: the command line's field, with its NUL.
CmdlineField == 512

ASSUME CmdlineAssumption == \A c \in Cmdlines :
           c \in Seq(Nat) /\ Len(c) < CmdlineField /\ ~Contains(c, NUL)

ASSUME RamdiskAssumption == RamdiskStart \in Nat /\ RamdiskEnd \in Nat

\* The blocks lie behind each other, and the reservation map has its end.
BlocksInOrder(d) ==
    LET room == (d.off_dt_struct - d.off_mem_rsvmap) \div ReserveSize
        strc == IF d.version >= 17 THEN d.size_dt_struct ELSE Last(Tags(d)).next
    IN  /\ \E n \in 0 .. room - 1 :
               Byte(d, d.off_mem_rsvmap + n * ReserveSize + 8) = 0
        /\ ~fdt_blocks_misordered_(d, ReserveMapSize(d), strc)

\* One node is the root; FDT_END follows its end.
OneRoot(ts) ==
    \E close \in ToSet(ts) :
        /\ close.tag = FDT_END_NODE /\ Len(close.path) = 1
        /\ \A t \in ToSet(ts) :
               /\ t.off > close.off => t.tag = FDT_END
               /\ Len(t.path) = 1 => /\ t.tag = FDT_BEGIN_NODE => t.off = 0
                                     /\ t.tag = FDT_END_NODE => t = close

NodesApart(ts) == \A t, u \in Nodes(ts) : t.path = u.path => t = u

PropertiesApart(d, ts) ==
    \A t \in Nodes(ts) : \A p, q \in Properties(ts, t.off) :
        PropName(d, p) = PropName(d, q) => p = q

\* A property's words are there, its name is a string of the strings block.
PropertyWhole(d, p) ==
    /\ PropLen(d, p) # Junk
    /\ PropNameOff(d, p) \in 0 .. d.size_dt_strings - 1
    /\ StringAt(d, PropNameOff(d, p), PropName(d, p))

\* A tree as dtc writes it.
WellFormed(d) ==
    LET ts == Tags(d)
    IN  /\ d \in Blob
        /\ fdt_check_header(d)
        /\ End(d) = d.totalsize
        /\ BlocksInOrder(d)
        /\ \A t \in ToSet(ts) : t.next # -1
        /\ ts[1].tag = FDT_BEGIN_NODE
        /\ OneRoot(ts)
        /\ NodesApart(ts)
        /\ PropertiesApart(d, ts)
        /\ \A t \in ToSet(ts) : t.tag = FDT_PROP => PropertyWhole(d, t)

ASSUME DtbAssumption == \A d \in Dtbs : WellFormed(d)

VARIABLES
    pc,
    blob, tags,     \* the tree behind the ramdisk, and its tags
    chosen,         \* the offset the program holds, negative for none
    args,           \* final_cmdline
    failed,         \* the calls that have failed, nobody looks
    dtb, cmdline    \* what the image holds

vars == <<pc, blob, tags, chosen, args, failed, dtb, cmdline>>

ChosenName  == <<99, 104, 111, 115, 101, 110>>
Bootargs    == <<98, 111, 111, 116, 97, 114, 103, 115>>
InitrdStart == <<108, 105, 110, 117, 120, 44, 105, 110, 105, 116, 114, 100,
                 45, 115, 116, 97, 114, 116>>
InitrdEnd   == <<108, 105, 110, 117, 120, 44, 105, 110, 105, 116, 114, 100,
                 45, 101, 110, 100>>
Blank       == 32

\* Mutant: half the room.
FdtSlack_Half == 512

FdtSlack == 1024

FinalCmdlineSize == 1024

\* npf_snprintf("%s %s"): a NULL prints nothing, and what does not fit before
\* the final NUL is dropped.
SnprintfArgs(bootargs, line) ==
    LET all == bootargs \o <<Blank>> \o line
    IN  SubSeq(all, 1, Min({Len(all), FinalCmdlineSize - 1}))

\* A node's property up to its first NUL; nothing if there is none.
StringProp(b, ts, node, name) ==
    LET prop == fdt_get_property(b, ts, node, name)
        data == PropData(b, TagAt(ts, prop))
    IN  IF ~IsNode(ts, node) \/ prop < 0 THEN <<>>
        ELSE SubSeq(data, 1, SelectInSeq(Append(data, NUL),
                                         LAMBDA c : c = NUL) - 1)

U32(w) == <<w, NUL, NUL, NUL>>
------------------------------------------------------------------------------
Init ==
    /\ pc = "open"
    /\ dtb \in Dtbs
    /\ cmdline \in Cmdlines
    /\ blob = dtb
    /\ tags = Tags(dtb)
    /\ chosen = -1
    /\ args = <<>>
    /\ failed = {}

\* Goes on from one call to the next whatever the call returns.
Step(here, next, r) ==
    /\ pc = here
    /\ pc' = next
    /\ blob' = r.b
    /\ tags' = Tags(blob')
    /\ failed' = failed \cup {p \in {here} : r.ret # Done}
    /\ UNCHANGED <<dtb, cmdline>>

Open ==
    /\ Step("open", "find",
            fdt_open_into(blob, tags, TRUE, blob.totalsize + FdtSlack))
    /\ UNCHANGED <<chosen, args>>

Find ==
    /\ chosen' = fdt_path_offset(tags, <<ChosenName>>)
    /\ Step("find", IF chosen' < 0 THEN "add" ELSE "bootargs",
            Result(Done, blob))
    /\ UNCHANGED args

\* Mutant: the offset of the new node is not kept.
Add_OffsetLost ==
    LET r == fdt_add_subnode(blob, tags, 0, ChosenName)
    IN  /\ Step("add", "bootargs", r)
        /\ UNCHANGED <<args, chosen>>

Add ==
    LET r == fdt_add_subnode(blob, tags, 0, ChosenName)
    IN  /\ Step("add", "bootargs", r)
        /\ chosen' = IF r.ret = Done THEN NewNode(tags, 0) ELSE -1
        /\ UNCHANGED args

\* fdt_setprop_string stores the string with its NUL.  Mutant: without.
SetBootargs_NoNul ==
    /\ args' = SnprintfArgs(StringProp(blob, tags, chosen, Bootargs), cmdline)
    /\ Step("bootargs", "start",
            fdt_setprop(blob, tags, chosen, Bootargs, args'))
    /\ UNCHANGED chosen

SetBootargs ==
    /\ args' = SnprintfArgs(StringProp(blob, tags, chosen, Bootargs), cmdline)
    /\ Step("bootargs", "start",
            fdt_setprop(blob, tags, chosen, Bootargs, Append(args', NUL)))
    /\ UNCHANGED chosen

SetStart ==
    /\ Step("start", "end",
            fdt_setprop(blob, tags, chosen, InitrdStart, U32(RamdiskStart)))
    /\ UNCHANGED <<chosen, args>>

SetEnd ==
    /\ Step("end", "kernel",
            fdt_setprop(blob, tags, chosen, InitrdEnd, U32(RamdiskEnd)))
    /\ UNCHANGED <<chosen, args>>

Next == Open \/ Find \/ Add \/ SetBootargs \/ SetStart \/ SetEnd

Spec == Init /\ [][Next]_vars
------------------------------------------------------------------------------
\* The state is well typed; final_cmdline and its NUL fit the buffer
\* (boot.c:169).
TypeOK ==
    /\ pc \in {"open", "find", "add", "bootargs", "start", "end", "kernel"}
    /\ chosen \in -1 .. blob.totalsize
    /\ Len(args) + 1 <= FinalCmdlineSize
    /\ failed \subseteq {"open", "add", "bootargs", "start", "end"}

\* The room fdt_open_into is given (boot.c:153) is enough for every edit that
\* follows, so the results nobody looks at are all 0.
SlackSuffices == failed = {}

\* There is room for all of it: for the edits, and for the command lines in
\* final_cmdline (boot.c:153-176).
RoomSuffices == TypeOK /\ SlackSuffices

\* From its finding or making on, the offset in `chosen' designates the node
\* /chosen, although each edit moves what lies behind it (boot.c:157-176).
ChosenStays ==
    pc \in {"bootargs", "start", "end", "kernel"} =>
        /\ IsNode(tags, chosen)
        /\ fdt_path_offset(tags, <<ChosenName>>) = chosen

\* The kernel gets a valid tree, the image's with exactly three properties set in
\* /chosen: both command lines, the tree's first, and the ramdisk's ends.
HandedOver ==
    pc = "kernel" =>
        LET before == Tags(dtb)
            old    == fdt_path_offset(before, <<ChosenName>>)
            path   == NodeAt(tags, chosen).path
            was    == Tree(dtb, before)
            line   == StringProp(dtb, before, old, Bootargs)
                      \o <<Blank>> \o cmdline
            fits   == Min({Len(line), FinalCmdlineSize - 1})
            kept   == IF old < 0 THEN <<>> ELSE was[path]
        IN  /\ fdt_check_header(blob)
            /\ ReserveMap(blob) = ReserveMap(dtb)
            /\ Tree(blob, tags) =
                   [p \in DOMAIN was \cup {path} |->
                       IF p # path THEN was[p]
                       ELSE [name \in DOMAIN kept
                                      \cup {Bootargs, InitrdStart, InitrdEnd} |->
                           CASE name = Bootargs ->
                                    Append(SubSeq(line, 1, fits), NUL)
                             [] name = InitrdStart -> U32(RamdiskStart)
                             [] name = InitrdEnd   -> U32(RamdiskEnd)
                             [] OTHER -> kept[name]]]
==============================================================================
