------------------------------- MODULE Timer -------------------------------
(***************************************************************************)
(* The operating system timer and udelay (drivers/timer/timer.c).  The     *)
(* 64-bit count runs while the program reads it in two halves; reading the *)
(* low half latches the high half in OSTCNTHBUF.                           *)
(***************************************************************************)
EXTENDS Integers

CONSTANTS
    LowMod,     \* values of the low half (2^32)
    multiple,   \* counts in a microsecond (24 / OST_DIV)
    Delays,     \* arguments of udelay
    Counts,     \* counts the stage before may have left
    MaxCount    \* bound on the count

ASSUME TimerAssumption ==
    /\ LowMod \in Nat \ {0} /\ multiple \in Nat \ {0}
    /\ Delays \subseteq Nat /\ Counts \subseteq Nat /\ MaxCount \in Nat

VARIABLES
    count,    \* the 64-bit count
    hbuf,     \* OSTCNTHBUF
    at,       \* where udelay is
    low,      \* low half read last
    usec,     \* argument of the call
    end,      \* count udelay waits for
    began     \* history: the count when udelay was called

timer == <<count, hbuf, at, low, usec, end, began>>

TimerTypeOK ==
    /\ count \in Nat /\ hbuf \in Nat /\ low \in 0 .. LowMod - 1
    /\ at \in {"idle", "end", "low", "high"}
    /\ usec \in Nat /\ end \in Nat /\ began \in Nat

TimerInit ==
    /\ count \in Counts /\ hbuf = 0 /\ at = "idle"
    /\ low = 0 /\ usec = 0 /\ end = 0 /\ began = 0

\* reset_timer writes zero to both halves; the locals of udelay are dead.
timer_init ==
    /\ count' = 0 /\ hbuf' = 0 /\ at' = "idle"
    /\ low' = 0 /\ usec' = 0 /\ end' = 0 /\ began' = 0

-----------------------------------------------------------------------------
(* get_timer64 in two steps. *)

ReadLow == /\ low' = count % LowMod
           /\ hbuf' = count \div LowMod

\* Mutant: the high half is read from OSTCNTH, which runs on.
Timer64_Unlatched == (count \div LowMod) * LowMod + low

Timer64 == hbuf * LowMod + low

udelay(n) ==
    /\ at = "idle" /\ count + n * multiple < MaxCount
    /\ ReadLow
    /\ usec' = n /\ began' = count /\ at' = "end"
    /\ UNCHANGED <<count, end>>

ComputeEnd ==
    /\ at = "end"
    /\ end' = Timer64 + usec * multiple
    /\ at' = "low"
    /\ UNCHANGED <<count, hbuf, low, usec, began>>

LoopLow ==
    /\ at = "low"
    /\ ReadLow /\ at' = "high"
    /\ UNCHANGED <<count, usec, end, began>>

LoopHigh ==
    /\ at = "high"
    /\ at' = IF Timer64 < end THEN "low" ELSE "idle"
    /\ UNCHANGED <<count, hbuf, low, usec, end, began>>

Delay == (\E n \in Delays : udelay(n)) \/ ComputeEnd \/ LoopLow \/ LoopHigh

Count ==
    /\ count < MaxCount /\ count' = count + 1
    /\ UNCHANGED <<hbuf, at, low, usec, end, began>>

TimerNext == Delay \/ Count
TimerSpec == TimerInit /\ [][TimerNext]_timer

-----------------------------------------------------------------------------
(* Properties. *)

\* udelay never returns before its time is over, wherever the count rolls
\* over between the reads of its halves (timer.c:27-39).
NeverEarly ==
    [][at = "high" /\ at' = "idle" => count - began >= usec * multiple]_timer

\* What udelay knows of the count: the invariant behind NeverEarly.
ReadsThePast ==
    /\ at # "idle" => began <= count
    /\ at \in {"end", "high"} => hbuf * LowMod + low \in began .. count
    /\ at \in {"low", "high"} => end >= began + usec * multiple

\* udelay returns (timer.c:38).
DelayEnds == at # "idle" ~> at = "idle"
=============================================================================
