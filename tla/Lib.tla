--------------------------------- MODULE Lib ---------------------------------
(* src/lib/string.c as a whole: the formatter it builds from nanoprintf and  *)
(* the string functions beside it.  One call of either is looked at; the     *)
(* calls share no state.                                                     *)
EXTENDS Format, Strings

LibInit ==
    \/ /\ Init
       /\ op = [fn |-> "memset", cs |-> 1, ct |-> 1, c |-> 0, n |-> 0,
                mem |-> <<>>]
       /\ mem = <<>> /\ cs = 1 /\ ct = 1 /\ n = 0 /\ at = "none"
       /\ last = NoPointer /\ ret = 1 /\ reads = {}
    \/ /\ call = [items |-> <<>>, tail |-> <<>>, bufsz |-> 0,
                  buffer |-> FALSE]
       /\ cur = 1 /\ args = <<>> /\ out = [dst |-> <<>>, n |-> 0]
       /\ stored = <<>> /\ done = TRUE
       /\ StringsInit

LibNext == \/ Next /\ UNCHANGED strings
           \/ StringsNext /\ UNCHANGED vars

LibSpec == LibInit /\ [][LibNext]_<<vars, strings>>
==============================================================================
