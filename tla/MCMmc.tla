------------------------------- MODULE MCMmc -------------------------------
(* Small instances of Mmc: sectors of two words, a FIFO of two words, and  *)
(* requests of one and two sectors, so that a transfer can overrun the     *)
(* FIFO and span blocks.                                                   *)
EXTENDS Mmc

MCRequests == {1, 2}
MCKeepBoth == {TRUE, FALSE}
MCFlush == {FALSE}
=============================================================================
