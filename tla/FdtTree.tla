------------------------------- MODULE FdtTree -------------------------------
(***************************************************************************)
(* What libfdt's editing functions promise (src/include/lib/libfdt.h): a   *)
(* tree of named nodes with named properties and a list of reserved        *)
(* regions.  A call that succeeds makes exactly the change it is asked     *)
(* for; a call that fails changes nothing.                                 *)
(*                                                                         *)
(* A node is designated by its path, the sequence of names from the root   *)
(* (whose name is empty) down.                                             *)
(***************************************************************************)
EXTENDS Integers, Sequences, SequencesExt

VARIABLES
    tree,       \* path -> (property name -> value)
    reserved,   \* sequence of <<address, size>>
    call,       \* the last call: function, path, name, value
    ret         \* what it returned

vars == <<tree, reserved, call, ret>>

Name == Seq(Int)
Call == [op : STRING, path : Seq(Name), name : Name, val : Seq(Int)]

\* Reasons to refuse any call: no room, or a tree that is not editable yet.
Refusals == {"FDT_ERR_NOSPACE", "FDT_ERR_BADLAYOUT", "FDT_ERR_BADVERSION"}

Below(path) == {p \in DOMAIN tree : IsPrefix(path, p)}

Children(path) == {p \in DOMAIN tree : p # <<>> /\ Front(p) = path}

\* A node's name may be given without its unit address.
Designates(name, nodename) ==
    \/ nodename = name
    \/ \E n \in 1 .. Len(nodename) : /\ nodename[n] = 64
                                     /\ SubSeq(nodename, 1, n - 1) = name
                                     /\ 64 \notin ToSet(name)

Answer(op, r) == call'.op \in op /\ ret' = r

WithProp(path, name, val) ==
    tree' = [tree EXCEPT ![path] =
                [n \in DOMAIN @ \cup {name} |-> IF n = name THEN val ELSE @[n]]]

Keep == UNCHANGED <<tree, reserved>>
------------------------------------------------------------------------------
Init ==
    /\ \A path \in DOMAIN tree :
           /\ path \in Seq(Name)
           /\ \A name \in DOMAIN tree[path] :
                  name \in Name /\ tree[path][name] \in Seq(Int)
    /\ reserved \in Seq(Int \X Int)
    /\ call \in Call
    /\ ret = "OK"

SetProp(path, name, val) ==
    /\ Answer({"fdt_setprop"}, "OK")
    /\ WithProp(path, name, val)
    /\ UNCHANGED reserved

AppendProp(path, name, val) ==
    /\ Answer({"fdt_appendprop"}, "OK")
    /\ WithProp(path, name, IF name \in DOMAIN tree[path]
                            THEN tree[path][name] \o val ELSE val)
    /\ UNCHANGED reserved

SetPropInPlace(path, name, val) ==
    /\ call'.op = "fdt_setprop_inplace"
    /\ IF name \notin DOMAIN tree[path] THEN ret' = "FDT_ERR_NOTFOUND" /\ Keep
       ELSE IF Len(tree[path][name]) # Len(val)
       THEN ret' = "FDT_ERR_NOSPACE" /\ Keep
       ELSE ret' = "OK" /\ WithProp(path, name, val) /\ UNCHANGED reserved

DelProp(path, name) ==
    /\ call'.op \in {"fdt_delprop", "fdt_nop_property"}
    /\ IF name \notin DOMAIN tree[path] THEN ret' = "FDT_ERR_NOTFOUND" /\ Keep
       ELSE /\ ret' = "OK"
            /\ tree' = [tree EXCEPT ![path] =
                           [n \in DOMAIN @ \ {name} |-> @[n]]]
            /\ UNCHANGED reserved

AddSubnode(path, name) ==
    /\ call'.op = "fdt_add_subnode"
    /\ IF \E p \in Children(path) : Designates(name, Last(p))
       THEN ret' = "FDT_ERR_EXISTS" /\ Keep
       ELSE /\ ret' = "OK"
            /\ tree' = [p \in DOMAIN tree \cup {Append(path, name)} |->
                           IF p \in DOMAIN tree THEN tree[p] ELSE <<>>]
            /\ UNCHANGED reserved

DelNode(path) ==
    /\ Answer({"fdt_del_node", "fdt_nop_node"}, "OK")
    /\ tree' = [p \in DOMAIN tree \ Below(path) |-> tree[p]]
    /\ UNCHANGED reserved

SetName(path, name) ==
    LET Renamed(p) == IF p \in Below(path)
                      THEN Append(Front(path), name)
                           \o SubSeq(p, Len(path) + 1, Len(p))
                      ELSE p
    IN  /\ Answer({"fdt_set_name"}, "OK")
        /\ DOMAIN tree' = {Renamed(p) : p \in DOMAIN tree}
        /\ \A p \in DOMAIN tree : tree'[Renamed(p)] = tree[p]
        /\ UNCHANGED reserved

AddMemRsv(region) ==
    /\ Answer({"fdt_add_mem_rsv"}, "OK")
    /\ reserved' = Append(reserved, region)
    /\ UNCHANGED tree

DelMemRsv(n) ==
    /\ call'.op = "fdt_del_mem_rsv"
    /\ IF n >= Len(reserved) THEN ret' = "FDT_ERR_NOTFOUND" /\ Keep
       ELSE ret' = "OK" /\ reserved' = RemoveAt(reserved, n + 1)
            /\ UNCHANGED tree

\* Opening and packing move blocks about; the tree stays what it is.
Rearrange == Answer({"fdt_open_into", "fdt_move", "fdt_pack"}, "OK") /\ Keep

Refuse == ret' \in Refusals /\ Keep

Respond(c) ==
    \/ SetProp(c.path, c.name, c.val)
    \/ AppendProp(c.path, c.name, c.val)
    \/ SetPropInPlace(c.path, c.name, c.val)
    \/ DelProp(c.path, c.name)
    \/ AddSubnode(c.path, c.name)
    \/ DelNode(c.path)
    \/ SetName(c.path, c.name)
    \/ AddMemRsv(c.val)
    \/ DelMemRsv(c.val[1])
    \/ Rearrange
    \/ Refuse

Next == call' \in Call /\ Respond(call')

Spec == Init /\ [][Next]_vars
==============================================================================
