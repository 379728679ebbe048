----------------------------- MODULE SectorRead -----------------------------
(***************************************************************************)
(* What mmc_read_data promises to the image loader (boot/boot.c): between  *)
(* the call and its return the destination is filled front to back with    *)
(* the words of the request and never past its end, and a call that meets  *)
(* no fault returns only when the whole request is in memory.  A call that *)
(* meets a fault may return early, and may have stored foreign words: the  *)
(* driver has no way of telling its caller (it always returns 0).          *)
(***************************************************************************)
EXTENDS Naturals, Sequences

CONSTANTS Requests,       \* block counts the loader asks for
          WordsPerBlock   \* 32-bit words in a sector (128 in the code)

VARIABLES busy,   \* a read is in progress
          want,   \* words requested
          dest,   \* words stored so far, in store order
          fault   \* the current read has met a fault

vars == <<busy, want, dest, fault>>

Init == /\ busy = FALSE
        /\ want = 0
        /\ dest = <<>>
        /\ fault = FALSE

Begin(n) == /\ ~busy
            /\ busy' = TRUE
            /\ want' = n * WordsPerBlock
            /\ dest' = <<>>
            /\ fault' = FALSE

\* One more word: the next one of the request or, after a fault, any.
Store == /\ busy
         /\ Len(dest) < want
         /\ Len(dest') = Len(dest) + 1
         /\ dest' = Append(dest, dest'[Len(dest')])
         /\ dest'[Len(dest')] = Len(dest') \/ fault
         /\ UNCHANGED <<busy, want, fault>>

Fault == /\ fault' = TRUE
         /\ UNCHANGED <<busy, want, dest>>

Complete == Len(dest) = want

Finish == /\ busy
          /\ busy' = FALSE
          /\ fault' \in {fault, TRUE}
          /\ fault' \/ Complete
          /\ UNCHANGED <<want, dest>>

Next == \/ \E n \in Requests : Begin(n)
        \/ Store
        \/ Fault
        \/ Finish

Spec == Init /\ [][Next]_vars
=============================================================================
