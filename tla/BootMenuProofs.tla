--------------------------- MODULE BootMenuProofs ---------------------------
(***************************************************************************)
(* The menu, proved for every list of entries, every length of the key's   *)
(* samples and every timing of the key: the watchdog bites before another  *)
(* sample can end, so a restart command is the last one, and the signature *)
(* the next stage finds is the command's; a press made in the menu has one *)
(* effect, and only a long one runs what is highlighted.  For every layout *)
(* in which texts do not overlap: the screen shows what the program is at. *)
(* And udelay, for every counter: it does not return early.                *)
(***************************************************************************)
EXTENDS MenuScreen, Numbers, SequenceTheorems, TLAPS

\* The program keeps to one udelay at a time, and polls without one.
Waits == pc \in {"menu", "restart"} => wait = 0

\* Until a command has run nothing has been written to a register.
Before == runs = 0 => /\ chosen = "none"
                      /\ pc \notin {"restart", "reset"}
                      /\ regs.CPPSR = left /\ regs.TCER = 0

\* A command that boots does not return; one that restarts does.
After == runs # 0 => /\ runs = 1
                     /\ \/ chosen \in BootCommands /\ pc = "loading"
                        \/ /\ chosen \in RestartCommands
                           /\ pc \in {"restart", "menu", "held", "reset"}

\* The write of _machine_restart that has n others behind it.
WriteBefore(command) ==
    [n \in 0 .. 8 |->
        CASE n = 8 -> <<"CPSPPR", CPPSR_KEY>>
          [] n = 7 -> <<"CPPSR", Signature(command)>>
          [] n = 6 -> <<"CPSPPR", 0>>
          [] n = 5 -> <<"TSCR", 1>>
          [] n = 4 -> <<"TCNT", 0>>
          [] n = 3 -> <<"TDR", WdtTicks>>
          [] n = 2 -> <<"TCSR", 1>>
          [] n = 1 -> <<"TCER", 0>>
          [] n = 0 -> <<"TCER", 1>>]

Scripted ==
    pc = "restart" =>
        /\ Len(writes) <= IF chosen = "machine_poweroff" THEN 6 ELSE 9
        /\ \A k \in 1 .. Len(writes) :
               writes[k] = WriteBefore(chosen)[Len(writes) - k]

\* What the writes made so far have left in the registers.
Started ==
    pc = "restart" =>
        /\ Len(writes) <= 5 => regs.TSCR = 1
        /\ Len(writes) <= 4 => regs.TCNT = 0
        /\ Len(writes) <= 3 => regs.TDR = WdtTicks
        /\ Len(writes) <= 2 => regs.TCSR = 1
        /\ Len(writes) = 0 => regs.TCER = 1

\* The signature has been written, if the command writes one.
SignatureDone == \/ pc = "restart" /\ Len(writes) <= 7
                 \/ pc \in {"menu", "held", "reset"}

Signed ==
    /\ pc = "restart" /\ Len(writes) \in {7, 8} => regs.CPSPPR = CPPSR_KEY
    /\ chosen = "machine_poweroff" => regs.CPPSR = left
    /\ chosen \in {"machine_reset", "reboot_recovery"} /\ SignatureDone
          => regs.CPPSR = Signature(chosen)

\* From the restart on the counter runs, and a sample takes longer than what
\* is left of the timeout.
Biting ==
    runs # 0 /\ pc \in {"menu", "held"} =>
        /\ Counting /\ regs.TDR = WdtTicks /\ regs.TCNT < WdtTicks
        /\ pc = "held" => WdtTicks < regs.TCNT + wait

IInv == TypeOK /\ Waits /\ Before /\ After /\ Scripted /\ Started /\ Signed
        /\ Biting

-----------------------------------------------------------------------------
(* The counts the menu is configured with are numbers, and so is the least   *)
(* time a long press takes.                                                 *)
LEMMA LongPressType == LongPress \in Nat
<1>1. /\ HoldLimit \in Nat \ {0} /\ SampleTicks \in Nat \ {0}
  BY MenuAssumption
<1>2. HoldLimit - 1 \in Nat
  BY <1>1
<1> QED
  BY <1>1, <1>2 DEF LongPress

LEMMA InitIInv == Init => IInv
<1> SUFFICES ASSUME Init PROVE IInv
  OBVIOUS
<1>1. Last \in Nat /\ LongPress \in Nat
  BY MenuAssumption, LongPressType DEF Last
<1>2. TypeOK
  <2>1. regs \in [Registers -> Nat] /\ regs.CPPSR \in Signatures
    BY DEF Init, Registers, Signatures, REBOOT_SIGNATURE, RECOVERY_SIGNATURE
  <2>2. writes \in Seq(Registers \X Nat)
    BY DEF Init
  <2>3. was_pressed \in BOOLEAN /\ key \in BOOLEAN /\ fresh \in BOOLEAN
    BY DEF Init
  <2>4. /\ pc \in {"autoboot", "settle", "loading", "reset"} \cup MenuPcs
        /\ chosen \in Commands \cup {"none"}
    BY DEF Init
  <2>5. /\ wait \in 0 .. (SampleTicks + SettleTicks + CountdownTicks)
        /\ i \in 0 .. Countdown /\ held \in Nat
        /\ selection \in 0 .. Last /\ shown \in 0 .. Last
        /\ quiet \in 0 .. KeyHold
        /\ runs \in Nat /\ effects \in Nat /\ down \in 0 .. LongPress
        /\ left \in Signatures
    BY <1>1, MenuAssumption DEF Init
  <2> QED
    BY <2>1, <2>2, <2>3, <2>4, <2>5 DEF TypeOK
<1>3. Waits /\ Before /\ After /\ Scripted /\ Started /\ Signed /\ Biting
  BY DEF Init, Waits, Before, After, Scripted, Started, Signed, Biting,
         Registers, SignatureDone
<1> QED
  BY <1>2, <1>3 DEF IInv

\* The writes of a command, in the order they are made.
LEMMA Script ==
    ASSUME NEW command \in RestartCommands
    PROVE  LET w == SignatureWrites(command) \o WatchdogWrites
           IN  /\ w \in Seq(Registers \X Nat)
               /\ Len(w) = IF command = "machine_poweroff" THEN 6 ELSE 9
               /\ \A k \in 1 .. Len(w) :
                      w[k] = WriteBefore(command)[Len(w) - k]
<1> DEFINE s == SignatureWrites(command)
           d == WatchdogWrites
           w == s \o d
<1>1. /\ d \in Seq(Registers \X Nat) /\ Len(d) = 6
      /\ d[1] = <<"TSCR", 1>> /\ d[2] = <<"TCNT", 0>>
      /\ d[3] = <<"TDR", WdtTicks>> /\ d[4] = <<"TCSR", 1>>
      /\ d[5] = <<"TCER", 0>> /\ d[6] = <<"TCER", 1>>
  BY MenuAssumption DEF WatchdogWrites, WDT_TDR_TIME, Registers
<1>2. LET b == WriteBefore(command)
      IN  /\ b[0] = <<"TCER", 1>> /\ b[1] = <<"TCER", 0>>
          /\ b[2] = <<"TCSR", 1>> /\ b[3] = <<"TDR", WdtTicks>>
          /\ b[4] = <<"TCNT", 0>> /\ b[5] = <<"TSCR", 1>>
          /\ b[6] = <<"CPSPPR", 0>>
          /\ b[7] = <<"CPPSR", Signature(command)>>
          /\ b[8] = <<"CPSPPR", CPPSR_KEY>>
  BY DEF WriteBefore
<1> HIDE DEF d
<1>3. \A k \in 1 .. 6 : d[k] = WriteBefore(command)[6 - k]
  <2>1. /\ d[1] = WriteBefore(command)[5] /\ d[2] = WriteBefore(command)[4]
        /\ d[3] = WriteBefore(command)[3] /\ d[4] = WriteBefore(command)[2]
        /\ d[5] = WriteBefore(command)[1] /\ d[6] = WriteBefore(command)[0]
    BY <1>1, <1>2, Zenon
  <2> QED
    BY <2>1
<1>4. CASE command = "machine_poweroff"
  <2>1. s = <<>>
    BY <1>4 DEF SignatureWrites
  <2>2. w = d
    BY <1>1, <2>1
  <2> QED
    BY <1>1, <1>3, <1>4, <2>2 DEF d
<1>5. CASE command # "machine_poweroff"
  <2>1. /\ s \in Seq(Registers \X Nat) /\ Len(s) = 3
        /\ s[1] = <<"CPSPPR", CPPSR_KEY>>
        /\ s[2] = <<"CPPSR", Signature(command)>>
        /\ s[3] = <<"CPSPPR", 0>>
    BY <1>5 DEF SignatureWrites, Signature, Registers, CPPSR_KEY,
                REBOOT_SIGNATURE, RECOVERY_SIGNATURE
  <2> HIDE DEF s
  <2>2. /\ w \in Seq(Registers \X Nat) /\ Len(w) = 9
        /\ \A k \in 1 .. 9 : w[k] = IF k <= 3 THEN s[k] ELSE d[k - 3]
    <3> DEFINE T == Registers \X Nat
    <3>1. s \in Seq(T) /\ d \in Seq(T)
      BY <1>1, <2>1
    <3> HIDE DEF T
    <3>2. /\ w \in Seq(T) /\ Len(w) = Len(s) + Len(d)
          /\ \A k \in 1 .. Len(s) + Len(d) :
                w[k] = IF k <= Len(s) THEN s[k] ELSE d[k - Len(s)]
      BY <3>1, ConcatProperties, Zenon
    <3>3. Len(s) = 3 /\ Len(d) = 6
      BY <1>1, <2>1
    <3> HIDE DEF w
    <3> QED
      BY <3>2, <3>3 DEF T
  <2> HIDE DEF w
  <2>3. ASSUME NEW k \in 1 .. 9
        PROVE  w[k] = WriteBefore(command)[9 - k]
    <3>1. CASE k > 3
      <4>1. k - 3 \in 1 .. 6 /\ 6 - (k - 3) = 9 - k
        BY <3>1
      <4>2. w[k] = d[k - 3]
        BY <2>2, <3>1
      <4>3. d[k - 3] = WriteBefore(command)[6 - (k - 3)]
        BY <1>3, <4>1
      <4> QED
        BY <4>1, <4>2, <4>3
    <3>2. CASE k \in {1, 2, 3}
      <4>1. /\ s[1] = WriteBefore(command)[8]
            /\ s[2] = WriteBefore(command)[7]
            /\ s[3] = WriteBefore(command)[6]
        BY <1>2, <2>1, Zenon
      <4>2. w[1] = s[1] /\ w[2] = s[2] /\ w[3] = s[3]
        BY <2>2
      <4>3. /\ w[1] = WriteBefore(command)[8]
            /\ w[2] = WriteBefore(command)[7]
            /\ w[3] = WriteBefore(command)[6]
        BY <4>1, <4>2, Zenon
      <4> QED
        BY <3>2, <4>3
    <3> QED
      BY <3>1, <3>2
  <2> QED
    BY <1>5, <2>2, <2>3 DEF w, s, d
<1> QED
  BY <1>4, <1>5

\* One register write of _machine_restart, by the number still to come.
LEMMA WriteStep ==
    ASSUME IInv, RestartWrite
    PROVE  LET n == Len(writes')
           IN  /\ writes' \in Seq(Registers \X Nat)
               /\ n \in 0 .. 8 /\ Len(writes) = n + 1
               /\ chosen = "machine_poweroff" => n <= 5
               /\ \A k \in 1 .. n : writes'[k] = WriteBefore(chosen)[n - k]
               /\ n = 8 => regs' = [regs EXCEPT !["CPSPPR"] = CPPSR_KEY]
               /\ n = 7 => regs' = [regs EXCEPT !["CPPSR"] = Signature(chosen)]
               /\ n = 6 => regs' = [regs EXCEPT !["CPSPPR"] = 0]
               /\ n = 5 => regs' = [regs EXCEPT !["TSCR"] = 1]
               /\ n = 4 => regs' = [regs EXCEPT !["TCNT"] = 0]
               /\ n = 3 => regs' = [regs EXCEPT !["TDR"] = WdtTicks]
               /\ n = 2 => regs' = [regs EXCEPT !["TCSR"] = 1]
               /\ n = 1 => regs' = [regs EXCEPT !["TCER"] = 0]
               /\ n = 0 => regs' = [regs EXCEPT !["TCER"] = 1]
<1> DEFINE n == Len(writes')
           T == Registers \X Nat
           b == WriteBefore(chosen)
<1>1. /\ pc = "restart" /\ writes # <<>> /\ writes' = Tail(writes)
      /\ regs' = Written(Head(writes)[1], Head(writes)[2])
  BY DEF RestartWrite
<1>2. writes \in Seq(T)
  BY DEF IInv, TypeOK
<1>3. /\ Tail(writes) \in Seq(T) /\ Len(Tail(writes)) = Len(writes) - 1
      /\ \A k \in 1 .. Len(Tail(writes)) : Tail(writes)[k] = writes[k + 1]
  <2> HIDE DEF T
  <2> QED
    BY <1>1, <1>2, HeadTailProperties, Zenon
<1>3a. Len(writes) <= IF chosen = "machine_poweroff" THEN 6 ELSE 9
  BY <1>1, Zenon DEF IInv, Scripted
<1>4. \A k \in 1 .. Len(writes) : writes[k] = b[Len(writes) - k]
  BY <1>1, Zenon DEF IInv, Scripted
<1>5. Len(writes) \in Nat \ {0} /\ Head(writes) = writes[1]
  BY <1>1, <1>2
<1>6. /\ n \in 0 .. 8 /\ Len(writes) = n + 1
      /\ chosen = "machine_poweroff" => n <= 5
  <2>1. n = Len(writes) - 1
    BY <1>1, <1>3, Zenon
  <2>2. Len(writes) <= 9 /\ (chosen = "machine_poweroff" => Len(writes) <= 6)
    BY <1>3a, <1>5
  <2>3. Len(writes) \in Nat \ {0}
    BY <1>5
  <2> DEFINE m == Len(writes)
  <2> HIDE DEF n, m, b
  <2>4. n \in 0 .. 8 /\ m = n + 1
    <3>1. m <= 9 /\ m \in Nat \ {0} /\ n = m - 1
      BY <2>1, <2>2, <2>3, Zenon DEF m
    <3> QED
      BY <3>1
  <2>5. ASSUME chosen = "machine_poweroff" PROVE n <= 5
    <3>1. Len(writes) <= 6
      BY <2>2, <2>5, Zenon
    <3> QED
      BY <2>1, <2>3, <3>1
  <2> QED
    BY <2>4, <2>5, Zenon DEF m
<1>7. Head(writes) = b[n]
  <2>1. 1 \in 1 .. Len(writes) /\ Len(writes) - 1 = n
    BY <1>6
  <2> QED
    BY <1>4, <1>5, <2>1, Zenon
<1>8. ASSUME NEW k \in 1 .. n PROVE writes'[k] = b[n - k]
  <2>1. /\ k + 1 \in 1 .. Len(writes) /\ Len(writes) - (k + 1) = n - k
    BY <1>6
  <2>2. writes'[k] = writes[k + 1]
    BY <1>1, <1>3, Zenon
  <2>3. writes[k + 1] = b[Len(writes) - (k + 1)]
    BY <1>4, <2>1, Zenon
  <2> QED
    BY <2>1, <2>2, <2>3, Zenon
<1>9. /\ b[0] = <<"TCER", 1>> /\ b[1] = <<"TCER", 0>>
      /\ b[2] = <<"TCSR", 1>> /\ b[3] = <<"TDR", WdtTicks>>
      /\ b[4] = <<"TCNT", 0>> /\ b[5] = <<"TSCR", 1>>
      /\ b[6] = <<"CPSPPR", 0>> /\ b[7] = <<"CPPSR", Signature(chosen)>>
      /\ b[8] = <<"CPSPPR", CPPSR_KEY>>
  BY DEF WriteBefore
<1> HIDE DEF n, b
<1>10. ASSUME NEW reg \in {"TSCR", "TCNT", "TDR", "TCSR", "TCER", "CPSPPR"},
              NEW v, b[n] = <<reg, v>>
       PROVE  regs' = [regs EXCEPT ![reg] = v]
  <2>1. Head(writes)[1] = reg /\ Head(writes)[2] = v
    BY <1>7, <1>10
  <2> QED
    BY <1>1, <2>1 DEF Written
<1>11. n = 7 => regs' = [regs EXCEPT !["CPPSR"] = Signature(chosen)]
  <2> HAVE n = 7
  <2>1. Head(writes)[1] = "CPPSR" /\ Head(writes)[2] = Signature(chosen)
    BY <1>7, <1>9
  <2>2. regs.CPSPPR = CPPSR_KEY
    BY <1>1, <1>6 DEF IInv, Signed
  <2> QED
    BY <1>1, <2>1, <2>2 DEF Written
<1>12. /\ n = 8 => regs' = [regs EXCEPT !["CPSPPR"] = CPPSR_KEY]
       /\ n = 6 => regs' = [regs EXCEPT !["CPSPPR"] = 0]
       /\ n = 5 => regs' = [regs EXCEPT !["TSCR"] = 1]
       /\ n = 4 => regs' = [regs EXCEPT !["TCNT"] = 0]
       /\ n = 3 => regs' = [regs EXCEPT !["TDR"] = WdtTicks]
       /\ n = 2 => regs' = [regs EXCEPT !["TCSR"] = 1]
       /\ n = 1 => regs' = [regs EXCEPT !["TCER"] = 0]
       /\ n = 0 => regs' = [regs EXCEPT !["TCER"] = 1]
  BY <1>9, <1>10, Zenon
<1>13. writes' \in Seq(T)
  BY <1>1, <1>3, Zenon
<1> QED
  BY <1>6, <1>8, <1>11, <1>12, <1>13 DEF n, b

-----------------------------------------------------------------------------
\* The steps of the menu, to split cases on.
LEMMA Steps ==
    Next <=> \/ Interrupt \/ CountDown \/ Autoboot \/ EnterMenu
             \/ SamplePressed \/ KeepHolding \/ RunCommand
             \/ RestartWrite \/ RestartReturns \/ SampleReleased
             \/ Tick \/ Press \/ Release
  BY DEF Next, Program

LEMMA NextType == IInv /\ [Next]_vars => TypeOK'
<1> SUFFICES ASSUME IInv, [Next]_vars PROVE TypeOK'
  OBVIOUS
<1> USE DEF user, program, record
<1>1. TypeOK
  BY DEF IInv
<1>2. /\ HoldLimit \in Nat \ {0} /\ SampleTicks \in Nat \ {0}
      /\ Countdown \in Nat \ {0} /\ WdtTicks \in Nat \ {0}
      /\ SettleTicks \in Nat /\ CountdownTicks \in Nat /\ KeyHold \in Nat
  BY MenuAssumption
<1>3. Last \in Nat /\ LongPress \in Nat /\ Len(Options) = Last + 1
  BY <1>2, LongPressType, MenuAssumption DEF Last
<1>4. ASSUME NEW x \in 0 .. Last
      PROVE  Options[x + 1] \in Commands /\ (x + 1) % Len(Options) \in 0 .. Last
  <2>1. Options[x + 1] \in Commands
    BY <1>3, MenuAssumption
  <2>2. (x + 1) % (Last + 1) \in 0 .. Last
    BY <1>3
  <2> QED
    BY <1>3, <2>1, <2>2
<1> DEFINE Places == {"autoboot", "settle", "loading", "reset"} \cup MenuPcs
           Spans == SampleTicks + SettleTicks + CountdownTicks
\* The variables by kind: a solver for one does not do well with the others.
<1> DEFINE Booleans == /\ was_pressed \in BOOLEAN /\ key \in BOOLEAN
                       /\ fresh \in BOOLEAN
           Numbers == /\ wait \in 0 .. Spans /\ i \in 0 .. Countdown
                      /\ held \in Nat
                      /\ selection \in 0 .. Last /\ shown \in 0 .. Last
                      /\ quiet \in 0 .. KeyHold
                      /\ runs \in Nat /\ effects \in Nat
                      /\ down \in 0 .. LongPress
           Names == /\ pc \in Places /\ chosen \in Commands \cup {"none"}
                    /\ left \in Signatures
           Hardware == /\ writes \in Seq(Registers \X Nat)
                       /\ regs \in [Registers -> Nat]
                       /\ regs.CPPSR \in Signatures
<1>5. Booleans /\ Numbers /\ Names /\ Hardware
  BY <1>1 DEF TypeOK
<1>6. Booleans'
  <2>1. CASE Press
    <3>1. fresh' \in BOOLEAN
      BY <2>1 DEF Press
    <3> QED
      BY <1>5, <2>1, <3>1, Zenon DEF Press
  <2> QED
    BY <1>5, <2>1, Steps, Zenon
       DEF Interrupt, CountDown, Autoboot, EnterMenu, SamplePressed,
           KeepHolding, RunCommand, RestartWrite, RestartReturns,
           SampleReleased, Tick, Release, vars
<1>7. Names'
  BY <1>4, <1>5, Steps
     DEF Interrupt, CountDown, Autoboot, EnterMenu, SamplePressed, KeepHolding,
         RunCommand, RestartWrite, RestartReturns, SampleReleased, Tick, Press,
         Release, vars, MenuPcs
<1>8. Numbers'
  <2>1. CASE SampleReleased
    BY SMTT(60), <1>3, <1>4, <1>5, <2>1 DEF SampleReleased, Advance
  <2>2. CASE Tick
    <3>1. wait' \in 0 .. Spans
      <4>1. \/ wait > 0 /\ wait' = wait - 1
            \/ wait' = 0
        BY <2>2, Zenon DEF Tick
      <4> QED
        BY <1>2, <1>5, <4>1
    <3>2. quiet' \in 0 .. KeyHold
      <4>1. \/ quiet < KeyHold /\ quiet' = quiet + 1
            \/ quiet' = KeyHold
        BY <2>2, Zenon DEF Tick
      <4> QED
        BY <1>2, <1>5, <4>1
    <3>3. down' \in 0 .. LongPress
      <4>1. \/ down' = down + 1 /\ down < LongPress
            \/ down' = down
        BY <2>2, Zenon DEF Tick
      <4> QED
        BY <1>3, <1>5, <4>1
    <3>4. UNCHANGED <<i, held, selection, shown, runs, effects>>
      BY <2>2 DEF Tick
    <3> QED
      BY <1>5, <3>1, <3>2, <3>3, <3>4
  <2>3. CASE CountDown
    BY <1>2, <1>5, <2>3 DEF CountDown
  <2>4. CASE Interrupt
    BY <1>2, <1>5, <2>4 DEF Interrupt
  <2>5. CASE EnterMenu
    BY <1>3, <1>5, <2>5 DEF EnterMenu
  <2>6. CASE SamplePressed
    BY <1>2, <1>5, <2>6 DEF SamplePressed
  <2>7. CASE RunCommand
    BY <1>5, <2>7 DEF RunCommand
  <2>8. CASE Press
    BY <1>2, <1>3, <1>5, <2>8 DEF Press
  <2>9. CASE Release
    BY <1>2, <1>5, <2>9 DEF Release
  <2>10. ASSUME UNCHANGED <<wait, i, held, selection, shown, quiet, runs,
                            effects, down>>
         PROVE  Numbers'
    BY <1>5, <2>10
  <2> QED
    BY <2>1, <2>2, <2>3, <2>4, <2>5, <2>6, <2>7, <2>8, <2>9, <2>10, Steps
       DEF Autoboot, KeepHolding, RestartWrite, RestartReturns, vars
<1>9. Hardware'
  <2>1. CASE RestartWrite
    <3>1. writes' \in Seq(Registers \X Nat)
      BY <2>1, WriteStep
    <3>2. /\ Signature(chosen) \in {REBOOT_SIGNATURE, RECOVERY_SIGNATURE}
          /\ {REBOOT_SIGNATURE, RECOVERY_SIGNATURE} \subseteq Nat
      BY DEF Signature, REBOOT_SIGNATURE, RECOVERY_SIGNATURE
    <3>3. /\ regs' \in [Registers -> Nat]
          /\ regs'.CPPSR \in {regs.CPPSR, Signature(chosen)}
      <4>1. PICK reg \in Registers, v \in Nat :
                 /\ regs' = [regs EXCEPT ![reg] = v]
                 /\ reg = "CPPSR" => v = Signature(chosen)
        <5> DEFINE n == Len(writes')
                   Is(reg, v) == regs' = [regs EXCEPT ![reg] = v]
        <5>1. /\ n \in 0 .. 8
              /\ n = 8 => Is("CPSPPR", CPPSR_KEY)
              /\ n = 7 => Is("CPPSR", Signature(chosen))
              /\ n = 6 => Is("CPSPPR", 0)
              /\ n = 5 => Is("TSCR", 1)
              /\ n = 4 => Is("TCNT", 0)
              /\ n = 3 => Is("TDR", WdtTicks)
              /\ n = 2 => Is("TCSR", 1)
              /\ n = 1 => Is("TCER", 0)
              /\ n = 0 => Is("TCER", 1)
          BY <2>1, WriteStep
        <5> HIDE DEF n, Is
        <5>2. \E reg \in Registers, v \in Nat :
                  Is(reg, v) /\ (reg = "CPPSR" => v = Signature(chosen))
          BY <1>2, <3>2, <5>1 DEF Registers, CPPSR_KEY
        <5> QED
          BY <5>2, Zenon DEF Is
      <4> QED
        BY <1>5, <3>2, <4>1 DEF Registers
    <3> QED
      BY <1>5, <3>1, <3>2, <3>3 DEF Signatures
  <2>2. CASE RunCommand
    <3>1. writes' \in Seq(Registers \X Nat)
      BY <1>5, <2>2, Script DEF RunCommand
    <3> QED
      BY <1>5, <2>2, <3>1 DEF RunCommand
  <2>3. CASE Tick
    <3>1. writes' = writes
          /\ regs' = [regs EXCEPT !.TCNT = IF Counting THEN @ + 1 ELSE @]
      BY <2>3, Zenon DEF Tick
    <3>2. \/ regs' = [regs EXCEPT !.TCNT = regs.TCNT + 1]
          \/ regs' = [regs EXCEPT !.TCNT = regs.TCNT]
      BY <3>1, Zenon
    <3>3. regs' \in [Registers -> Nat] /\ regs'.CPPSR = regs.CPPSR
      <4>1. regs \in [Registers -> Nat]
        BY <1>5
      <4>2. regs.TCNT \in Nat
        BY <4>1 DEF Registers
      <4> QED
        BY <3>2, <4>1, <4>2 DEF Registers
    <3> QED
      BY <1>5, <3>1, <3>3, Zenon
  <2>4. ASSUME UNCHANGED <<writes, regs>> PROVE Hardware'
    BY <1>5, <2>4
  <2> QED
    BY <2>1, <2>2, <2>3, <2>4, Steps
       DEF Interrupt, CountDown, Autoboot, EnterMenu, SamplePressed,
           KeepHolding, RestartReturns, SampleReleased, Press, Release, vars
<1> QED
  BY <1>6, <1>7, <1>8, <1>9 DEF TypeOK

\* What holds when the program may run another command.
LEMMA NoSecondCommand == IInv /\ RunCommand => runs = 0
<1> SUFFICES ASSUME IInv, RunCommand, runs # 0 PROVE FALSE
  BY DEF IInv, TypeOK
<1>1. pc = "held" /\ wait = 0
  BY DEF RunCommand
<1>2. regs.TCNT < WdtTicks /\ WdtTicks < regs.TCNT + wait
  BY <1>1 DEF IInv, Biting
<1>3. regs.TCNT \in Nat /\ WdtTicks \in Nat
  BY MenuAssumption DEF IInv, TypeOK, Registers
<1> QED
  BY <1>1, <1>2, <1>3

LEMMA NextHistory == IInv /\ [Next]_vars => Waits' /\ Before' /\ After'
<1> SUFFICES ASSUME IInv, [Next]_vars PROVE Waits' /\ Before' /\ After'
  OBVIOUS
<1> USE DEF user, program, record
<1>1. Waits /\ Before /\ After
  BY DEF IInv
<1>2. CASE RunCommand
  <2>1. /\ runs = 0 /\ runs' = 1 /\ selection \in 0 .. Last
        /\ chosen' = Options[selection + 1]
    BY <1>2, NoSecondCommand DEF RunCommand, IInv, TypeOK
  <2>2. \/ chosen' \in BootCommands /\ pc' = "loading"
        \/ chosen' \in RestartCommands /\ pc' = "restart"
    BY <1>2 DEF RunCommand
  <2>3. wait' = 0
    BY <1>2 DEF RunCommand
  <2> QED
    BY <2>1, <2>2, <2>3 DEF Waits, Before, After
<1>3. CASE RestartWrite
  <2>1. runs # 0 /\ UNCHANGED <<pc, wait, runs, chosen>>
    BY <1>1, <1>3 DEF Before, RestartWrite
  <2> QED
    BY <1>1, <2>1 DEF Waits, Before, After
<1>4. CASE Tick
  <2>1. UNCHANGED <<runs, chosen, left>>
    BY <1>4 DEF Tick
  <2>2. \/ pc' = pc
        \/ pc' = "reset" /\ Counting
    BY <1>4, Zenon DEF Tick
  <2>5. wait = 0 => wait' = 0
    BY <1>4 DEF Tick
  <2>3. regs'.TCER = regs.TCER /\ regs'.CPPSR = regs.CPPSR
    BY <1>4 DEF Tick, IInv, TypeOK, Registers
  <2>4. pc \notin {"loading", "reset"} /\ (pc = "restart" => wait > 0)
    BY <1>4 DEF Tick, Dead, Polling
  <2> QED
    BY <1>1, <2>1, <2>2, <2>3, <2>4, <2>5
       DEF Waits, Before, After, Counting
<1>5. CASE Interrupt \/ CountDown \/ Autoboot \/ EnterMenu
  BY <1>1, <1>5 DEF Interrupt, CountDown, Autoboot, EnterMenu,
                    Waits, Before, After
<1>6. CASE SamplePressed \/ KeepHolding \/ RestartReturns \/ SampleReleased
  BY <1>1, <1>6 DEF SamplePressed, KeepHolding, RestartReturns,
                    SampleReleased, Waits, Before, After
<1>7. CASE Press \/ Release
  BY <1>1, <1>7 DEF Press, Release, Waits, Before, After
<1>8. CASE UNCHANGED vars
  BY <1>1, <1>8 DEF vars, Waits, Before, After
<1> QED
  BY <1>2, <1>3, <1>4, <1>5, <1>6, <1>7, <1>8, Steps

LEMMA NextScript == IInv /\ [Next]_vars => Scripted' /\ Started'
<1> SUFFICES ASSUME IInv, [Next]_vars, pc' = "restart"
             PROVE  Scripted' /\ Started'
  BY DEF Scripted, Started
<1> USE DEF user, program, record
<1>1. CASE RunCommand
  <2>1. /\ chosen' \in RestartCommands
        /\ writes' = SignatureWrites(chosen') \o WatchdogWrites
    BY <1>1 DEF RunCommand
  <2>2. /\ Len(writes') = IF chosen' = "machine_poweroff" THEN 6 ELSE 9
        /\ \A k \in 1 .. Len(writes') :
               writes'[k] = WriteBefore(chosen')[Len(writes') - k]
    BY <2>1, Script
  <2>3. Len(writes') \in {6, 9}
    BY <2>2
  <2>4. Len(writes') <= IF chosen' = "machine_poweroff" THEN 6 ELSE 9
    BY <2>2
  <2> QED
    BY <2>2, <2>3, <2>4 DEF Scripted, Started
<1>2. CASE RestartWrite
  <2> DEFINE n == Len(writes')
  <2>1. /\ n \in 0 .. 8 /\ Len(writes) = n + 1
        /\ chosen' = chosen /\ pc = "restart"
        /\ chosen = "machine_poweroff" => n <= 5
    BY <1>2, WriteStep DEF RestartWrite
  <2>2. \A k \in 1 .. n : writes'[k] = WriteBefore(chosen')[n - k]
    BY <1>2, WriteStep DEF RestartWrite
  <2>3. regs \in [Registers -> Nat]
    BY DEF IInv, TypeOK
  <2>4. /\ n = 8 => regs' = [regs EXCEPT !["CPSPPR"] = CPPSR_KEY]
        /\ n = 7 => regs' = [regs EXCEPT !["CPPSR"] = Signature(chosen)]
        /\ n = 6 => regs' = [regs EXCEPT !["CPSPPR"] = 0]
        /\ n = 5 => regs' = [regs EXCEPT !["TSCR"] = 1]
        /\ n = 4 => regs' = [regs EXCEPT !["TCNT"] = 0]
        /\ n = 3 => regs' = [regs EXCEPT !["TDR"] = WdtTicks]
        /\ n = 2 => regs' = [regs EXCEPT !["TCSR"] = 1]
        /\ n = 1 => regs' = [regs EXCEPT !["TCER"] = 0]
        /\ n = 0 => regs' = [regs EXCEPT !["TCER"] = 1]
    BY <1>2, WriteStep
  <2>5. /\ n + 1 <= 5 => regs.TSCR = 1
        /\ n + 1 <= 4 => regs.TCNT = 0
        /\ n + 1 <= 3 => regs.TDR = WdtTicks
        /\ n + 1 <= 2 => regs.TCSR = 1
    BY <2>1 DEF IInv, Started
  <2> HIDE DEF n
  <2>6. /\ n <= 5 => regs'.TSCR = 1
        /\ n <= 4 => regs'.TCNT = 0
        /\ n <= 3 => regs'.TDR = WdtTicks
        /\ n <= 2 => regs'.TCSR = 1
        /\ n = 0 => regs'.TCER = 1
    BY <2>1, <2>3, <2>4, <2>5 DEF Registers
  <2>7. n <= IF chosen' = "machine_poweroff" THEN 6 ELSE 9
    BY <2>1
  <2> QED
    BY <2>2, <2>6, <2>7 DEF Scripted, Started, n
<1>3. CASE Tick
  <2>1. /\ pc = "restart" => wait > 0
        /\ pc' = pc \/ pc' = "reset"
    BY <1>3 DEF Tick, Polling
  <2> QED
    BY <2>1 DEF IInv, Waits
<1>4. ASSUME pc = "restart", UNCHANGED <<writes, regs, chosen>>
      PROVE  Scripted' /\ Started'
  BY <1>4 DEF IInv, Scripted, Started
<1> QED
  BY <1>1, <1>2, <1>3, <1>4, Steps
     DEF Interrupt, CountDown, Autoboot, EnterMenu, SamplePressed, KeepHolding,
         RestartReturns, SampleReleased, Press, Release, vars

LEMMA NextSigned == IInv /\ [Next]_vars => Signed'
<1> SUFFICES ASSUME IInv, [Next]_vars PROVE Signed'
  OBVIOUS
<1> USE DEF user, program, record
<1>1. /\ Signed /\ Before /\ After /\ TypeOK
      /\ regs \in [Registers -> Nat]
  BY DEF IInv, TypeOK
<1>2. CASE RunCommand
  <2>1. /\ runs = 0 /\ regs' = regs /\ left' = left
        /\ pc' \in {"loading", "restart"}
    BY <1>2, NoSecondCommand DEF RunCommand
  <2>2. regs'.CPPSR = left'
    BY <1>1, <2>1 DEF Before
  <2>3. pc' = "restart" =>
            Len(writes') = IF chosen' = "machine_poweroff" THEN 6 ELSE 9
    BY <1>2, Script DEF RunCommand, BootCommands, RestartCommands
  <2>4. CASE pc' = "loading"
    BY <2>2, <2>4 DEF Signed, SignatureDone
  <2>5. CASE pc' = "restart" /\ chosen' = "machine_poweroff"
    <3>1. Len(writes') = 6
      BY <2>3, <2>5
    <3> QED
      BY <2>2, <2>5, <3>1 DEF Signed, SignatureDone
  <2>6. CASE pc' = "restart" /\ chosen' # "machine_poweroff"
    <3>1. Len(writes') = 9
      BY <2>3, <2>6
    <3> QED
      BY <2>6, <3>1 DEF Signed, SignatureDone
  <2> QED
    BY <2>1, <2>4, <2>5, <2>6
<1>3. CASE RestartWrite
  <2> DEFINE n == Len(writes')
  <2>1. /\ n \in 0 .. 8 /\ Len(writes) = n + 1
        /\ chosen = "machine_poweroff" => n <= 5
    BY <1>3, WriteStep
  <2>2. UNCHANGED <<pc, chosen, left>> /\ pc = "restart"
    BY <1>3 DEF RestartWrite
  <2>3. /\ n = 8 => regs' = [regs EXCEPT !["CPSPPR"] = CPPSR_KEY]
        /\ n = 7 => regs' = [regs EXCEPT !["CPPSR"] = Signature(chosen)]
        /\ n = 6 => regs' = [regs EXCEPT !["CPSPPR"] = 0]
        /\ n = 5 => regs' = [regs EXCEPT !["TSCR"] = 1]
        /\ n = 4 => regs' = [regs EXCEPT !["TCNT"] = 0]
        /\ n = 3 => regs' = [regs EXCEPT !["TDR"] = WdtTicks]
        /\ n = 2 => regs' = [regs EXCEPT !["TCSR"] = 1]
        /\ n = 1 => regs' = [regs EXCEPT !["TCER"] = 0]
        /\ n = 0 => regs' = [regs EXCEPT !["TCER"] = 1]
    BY <1>3, WriteStep
  <2>4. /\ n + 1 \in {7, 8} => regs.CPSPPR = CPPSR_KEY
        /\ chosen = "machine_poweroff" => regs.CPPSR = left
        /\ chosen \in {"machine_reset", "reboot_recovery"} /\ n + 1 <= 7
              => regs.CPPSR = Signature(chosen)
    BY <1>1, <2>1, <2>2 DEF Signed, SignatureDone
  <2> HIDE DEF n
  <2>5. n = 8 => regs'.CPSPPR = CPPSR_KEY
    BY <1>1, <2>3 DEF Registers
  <2>6. n = 7 => /\ regs'.CPSPPR = regs.CPSPPR
                 /\ regs'.CPPSR = Signature(chosen)
    BY <1>1, <2>3 DEF Registers
  <2>7. n \in 0 .. 6 => regs'.CPPSR = regs.CPPSR
    BY <1>1, <2>3 DEF Registers
  <2>8. n \in {7, 8} => regs'.CPSPPR = CPPSR_KEY
    BY <2>4, <2>5, <2>6
  <2>9. chosen' = "machine_poweroff" => regs'.CPPSR = left'
    BY <2>1, <2>2, <2>4, <2>7
  <2>10. chosen \in {"machine_reset", "reboot_recovery"} /\ n <= 7
            => regs'.CPPSR = Signature(chosen)
    BY <2>1, <2>4, <2>6, <2>7
  <2> QED
    BY <2>2, <2>8, <2>9, <2>10 DEF Signed, SignatureDone, n
<1>4. CASE Tick
  <2>1. UNCHANGED <<chosen, left, runs, writes>> /\ regs'.CPPSR = regs.CPPSR
    BY <1>1, <1>4 DEF Tick, Registers
  <2>2. pc # "restart"
    BY <1>4 DEF IInv, Waits, Tick, Polling
  <2>3. \/ pc' = pc
        \/ pc' = "reset" /\ Counting
    BY <1>4, Zenon DEF Tick
  <2>4. pc # "loading"
    BY <1>4 DEF Tick, Dead
  <2>5. Counting => runs # 0
    BY <1>1 DEF Before, Counting
  <2>6. CASE pc' = pc
    BY <1>1, <2>1, <2>2, <2>6 DEF Signed, SignatureDone
  <2>7. CASE pc' = "reset" /\ Counting
    BY <1>1, <2>1, <2>2, <2>4, <2>5, <2>7
       DEF Signed, SignatureDone, After, BootCommands, RestartCommands
  <2> QED
    BY <2>3, <2>6, <2>7
<1>5. CASE RestartReturns
  <2>1. Len(writes) = 0 /\ pc = "restart"
    BY <1>5 DEF RestartReturns
  <2> QED
    BY <1>1, <1>5, <2>1 DEF RestartReturns, Signed, SignatureDone
<1>6. CASE Interrupt \/ CountDown \/ Autoboot \/ EnterMenu
  <2>1. runs = 0
    BY <1>1, <1>6 DEF Interrupt, CountDown, Autoboot, EnterMenu, After
  <2> QED
    BY <1>1, <1>6, <2>1 DEF Interrupt, CountDown, Autoboot, EnterMenu, Before,
                            Signed, SignatureDone
<1>7. CASE SamplePressed \/ KeepHolding \/ SampleReleased
  BY <1>1, <1>7 DEF SamplePressed, KeepHolding, SampleReleased, Signed,
                    SignatureDone
<1>8. CASE Press \/ Release \/ UNCHANGED vars
  BY <1>1, <1>8 DEF Press, Release, vars, Signed, SignatureDone
<1> QED
  BY <1>2, <1>3, <1>4, <1>5, <1>6, <1>7, <1>8, Steps

LEMMA NextBiting == IInv /\ [Next]_vars => Biting'
<1> SUFFICES ASSUME IInv, [Next]_vars, runs' # 0, pc' \in {"menu", "held"}
             PROVE  /\ Counting' /\ regs'.TDR = WdtTicks
                    /\ regs'.TCNT < WdtTicks
                    /\ pc' = "held" => WdtTicks < regs'.TCNT + wait'
  BY DEF Biting
<1> USE DEF user, program, record
<1>1. /\ Biting /\ Before /\ After
      /\ regs \in [Registers -> Nat] /\ wait \in Nat
  BY DEF IInv, TypeOK
<1>2. /\ WdtTicks \in Nat \ {0} /\ SampleTicks \in Nat
      /\ WdtTicks < SampleTicks
  BY MenuAssumption
<1>3. CASE RestartReturns
  <2>1. pc = "restart" /\ Len(writes) = 0 /\ regs' = regs /\ pc' = "menu"
    BY <1>3 DEF RestartReturns
  <2>2. /\ regs.TSCR = 1 /\ regs.TCNT = 0 /\ regs.TDR = WdtTicks
        /\ regs.TCSR = 1 /\ regs.TCER = 1
    BY <2>1 DEF IInv, Started
  <2> QED
    BY <1>2, <2>1, <2>2 DEF Counting
<1>4. CASE SamplePressed
  <2>1. /\ regs' = regs /\ runs' = runs /\ wait' = SampleTicks /\ pc = "menu"
    BY <1>4 DEF SamplePressed
  <2>2. Counting /\ regs.TDR = WdtTicks /\ regs.TCNT < WdtTicks
    BY <1>1, <2>1 DEF Biting
  <2>3. regs.TCNT \in Nat
    BY <1>1 DEF Registers
  <2> QED
    BY <1>2, <2>1, <2>2, <2>3 DEF Counting
<1>5. CASE Tick
  <2>1. runs' = runs /\ pc' = pc
    BY <1>5 DEF Tick
  <2>2. /\ Counting /\ regs.TDR = WdtTicks /\ regs.TCNT < WdtTicks
        /\ pc = "held" => WdtTicks < regs.TCNT + wait
    BY <1>1, <2>1 DEF Biting
  <2>3. regs' = [regs EXCEPT !.TCNT = regs.TCNT + 1]
    BY <1>5, <2>2, Zenon DEF Tick
  <2>4. /\ regs'.TCNT = regs.TCNT + 1 /\ regs'.TDR = regs.TDR
        /\ regs'.TSCR = regs.TSCR /\ regs'.TCSR = regs.TCSR
        /\ regs'.TCER = regs.TCER
    BY <1>1, <2>3 DEF Registers
  <2>5. ~(regs'.TCNT >= regs.TDR)
    <3>1. pc' = IF Counting /\ regs'.TCNT >= regs.TDR THEN "reset" ELSE pc
      BY <1>5 DEF Tick
    <3> QED
      BY <2>2, <3>1
  <2>6. regs.TCNT \in Nat
    BY <1>1 DEF Registers
  <2>7. pc = "held" => wait > 0 /\ wait' = wait - 1
    BY <1>5 DEF Tick, Polling
  <2>8. regs'.TCNT < WdtTicks
    BY <1>2, <2>2, <2>4, <2>5, <2>6
  <2>9. pc' = "held" => WdtTicks < regs'.TCNT + wait'
    BY <1>1, <1>2, <2>1, <2>2, <2>4, <2>6, <2>7
  <2> QED
    BY <2>2, <2>4, <2>8, <2>9 DEF Counting
<1>6. CASE KeepHolding \/ SampleReleased \/ Press \/ Release
           \/ UNCHANGED vars
  <2>1. /\ runs' = runs /\ regs' = regs /\ pc \in {"menu", "held"}
        /\ pc' = "held" => pc = "held" /\ wait' = wait
    BY <1>6 DEF KeepHolding, SampleReleased, Press, Release, vars
  <2> QED
    BY <1>1, <2>1 DEF Biting, Counting
<1>7. CASE Interrupt \/ CountDown \/ Autoboot \/ EnterMenu
  BY <1>1, <1>7 DEF Interrupt, CountDown, Autoboot, EnterMenu, After
<1>8. CASE RunCommand \/ RestartWrite
  BY <1>8 DEF RunCommand, RestartWrite
<1> QED
  BY <1>3, <1>4, <1>5, <1>6, <1>7, <1>8, Steps

-----------------------------------------------------------------------------
\* The inductive invariant: what each write of _machine_restart has done, and
\* that the watchdog bites before the next sample ends.
THEOREM RestartInvariance == Spec => []IInv
<1>1. IInv /\ [Next]_vars => IInv'
  <2> SUFFICES ASSUME IInv, [Next]_vars PROVE IInv'
    OBVIOUS
  <2> QED
    BY NextType, NextHistory, NextScript, NextSigned, NextBiting, Zenon
       DEF IInv
<1> QED
  BY InitIInv, <1>1, PTL DEF Spec

\* A restart command returns to the menu, and no other command runs before
\* the reset, however the key is handled (timer.c:56-62, bootmenu.c:71-74).
THEOREM LastCommand == Spec => []AtMostOneCommand
<1>1. IInv => AtMostOneCommand
  BY DEF IInv, After, AtMostOneCommand
<1> QED
  BY RestartInvariance, <1>1, PTL

\* The signature the next stage finds after the reset is that of the command
\* the user chose (timer.c:43-54).
THEOREM RightSignature == Spec => []RestartKeepsPromise
<1>1. IInv => RestartKeepsPromise
  <2> SUFFICES ASSUME IInv, pc = "reset"
               PROVE  regs.CPPSR =
                        CASE chosen = "machine_reset" -> REBOOT_SIGNATURE
                          [] chosen = "reboot_recovery" -> RECOVERY_SIGNATURE
                          [] OTHER -> left
    BY DEF RestartKeepsPromise
  <2>1. chosen \in RestartCommands
    BY DEF IInv, Before, After
  <2>2. /\ chosen = "machine_poweroff" => regs.CPPSR = left
        /\ chosen \in {"machine_reset", "reboot_recovery"}
              => regs.CPPSR = Signature(chosen)
    BY DEF IInv, Signed, SignatureDone
  <2> QED
    BY <2>1, <2>2 DEF RestartCommands, Signature
<1> QED
  BY RestartInvariance, <1>1, PTL

\* Type correctness of countdown, menu and restart (main.c:60-71,
\* bootmenu.c:58-87, timer.c:41-63).
THEOREM TypeCorrect == Spec => []TypeOK
<1>1. IInv => TypeOK
  BY DEF IInv
<1> QED
  BY RestartInvariance, <1>1, PTL

\* The entry drawn as selected is the entry selected.
ShownIsSelected == shown = selection

\* A command runs when it is the entry highlighted, whatever was pressed
\* before (bootmenu.c:15-18, 71-82).
THEOREM RunsHighlighted == Spec => RunsWhatIsShown
<1>1. Init => ShownIsSelected
  BY DEF Init, ShownIsSelected
<1>2. ShownIsSelected /\ [Next]_vars => ShownIsSelected'
  <2> SUFFICES ASSUME ShownIsSelected, [Next]_vars
               PROVE  ShownIsSelected'
    OBVIOUS
  <2> USE DEF ShownIsSelected
  <2>1. CASE EnterMenu
    BY <2>1 DEF EnterMenu
  <2>2. CASE SampleReleased
    BY <2>2 DEF SampleReleased, Advance
  <2>3. CASE ~EnterMenu /\ ~SampleReleased
    <3>1. UNCHANGED <<selection, shown>>
      BY <2>3 DEF Next, Program, vars, program, user, record, Interrupt,
                  CountDown, Autoboot, SamplePressed, KeepHolding, RunCommand,
                  RestartWrite, RestartReturns, Tick, Press, Release
    <3> QED
      BY <3>1
  <2> QED
    BY <2>1, <2>2, <2>3
<1>3. IInv /\ ShownIsSelected /\ [Next]_vars
          => [runs' # runs => chosen' = Options[shown + 1]]_vars
  <2> SUFFICES ASSUME IInv, ShownIsSelected, Next, runs' # runs
               PROVE  chosen' = Options[shown + 1]
    OBVIOUS
  <2>1. runs \in Nat
    BY DEF IInv, TypeOK
  <2>2. RunCommand
    BY <2>1 DEF Next, Program, vars, program, user, record, Interrupt,
                CountDown, Autoboot, SamplePressed, KeepHolding, EnterMenu,
                SampleReleased, RestartWrite, RestartReturns, Tick, Press,
                Release
  <2> QED
    BY <2>2 DEF RunCommand, ShownIsSelected
<1> QED
  BY RestartInvariance, <1>1, <1>2, <1>3, PTL DEF Spec, RunsWhatIsShown

-----------------------------------------------------------------------------
(* What a press does. *)

\* Between two samples the key cannot come up and go down again: it keeps a
\* position for longer than a sample.
Sampled ==
    pc \in MenuPcs =>
        /\ pc \in {"held", "restart"} => was_pressed
        /\ was_pressed <=> held > 0
        /\ pc = "restart" => held = HoldLimit
        /\ wait <= IF pc = "held" THEN SampleTicks ELSE 0
        /\ was_pressed /\ ~key => quiet <= SampleTicks - wait

\* The samples that saw the key down are as many ticks of one press.
KeyHeld ==
    pc \in MenuPcs /\ was_pressed =>
        \/ down = LongPress
        \/ down >= (held - 1) * SampleTicks
                   + (IF key THEN SampleTicks - wait ELSE 0)

\* What a press made in the menu has done when the program gets to it.
Effective ==
    fresh =>
        /\ pc \notin {"autoboot", "settle"} /\ effects <= 1
        /\ pc = "menu" => effects = IF was_pressed
                                    THEN (IF held < HoldLimit THEN 0 ELSE 1)
                                    ELSE (IF key THEN 0 ELSE 1)
        /\ pc = "menu" /\ key /\ ~was_pressed => quiet < KeyHold
        /\ pc = "held" => effects = IF held <= HoldLimit THEN 0 ELSE 1
        /\ pc = "restart" => effects = 1

PressInv == Sampled /\ KeyHeld /\ Effective

LEMMA NextSampled == IInv /\ Sampled /\ [Next]_vars => Sampled'
<1> SUFFICES ASSUME IInv, Sampled, [Next]_vars, pc' \in MenuPcs
             PROVE  Sampled'
  BY DEF Sampled
<1> USE DEF Sampled, MenuPcs, user, program, record
<1>1. /\ HoldLimit \in Nat \ {0} /\ SampleTicks \in Nat /\ KeyHold \in Nat
      /\ KeyHold > SampleTicks
  BY MenuAssumption
<1>2. /\ held \in Nat /\ was_pressed \in BOOLEAN /\ key \in BOOLEAN
      /\ wait \in Nat /\ quiet \in 0 .. KeyHold
      /\ pc \in {"menu", "restart"} => wait = 0
  BY <1>1, MenuAssumption DEF IInv, TypeOK, Waits
<1>3. CASE EnterMenu
  BY <1>1, <1>2, <1>3 DEF EnterMenu
<1>4. CASE SamplePressed
  BY <1>1, <1>2, <1>4 DEF SamplePressed
<1>5. CASE KeepHolding
  BY <1>1, <1>2, <1>5 DEF KeepHolding
<1>6. CASE RunCommand
  BY <1>1, <1>2, <1>6 DEF RunCommand
<1>7. CASE SampleReleased
  BY <1>1, <1>2, <1>7 DEF SampleReleased
<1>8. CASE Tick
  <2>1. /\ pc \in MenuPcs /\ wait' = IF wait > 0 THEN wait - 1 ELSE 0
        /\ quiet' \in {quiet + 1, KeyHold}
        /\ quiet < KeyHold => quiet' = quiet + 1
        /\ UNCHANGED <<held, was_pressed, key>>
        /\ wait > 0 \/ Polling
    BY <1>2, <1>8 DEF Tick, Dead
  <2>2. pc' = pc
    BY <1>8 DEF Tick
  <2>3. CASE Polling
    BY <1>1, <1>2, <2>1, <2>2, <2>3 DEF Polling
  <2>4. CASE wait > 0
    BY <1>1, <1>2, <2>1, <2>2, <2>4
  <2> QED
    BY <2>1, <2>3, <2>4
<1>9. CASE Press
  <2>1. was_pressed = FALSE
    BY <1>1, <1>2, <1>9 DEF Press, vars
  <2> QED
    BY <1>1, <1>2, <1>9, <2>1 DEF Press
<1>10. CASE Release
  BY <1>1, <1>2, <1>10 DEF Release
<1>11. CASE RestartWrite \/ RestartReturns \/ UNCHANGED vars
  BY <1>1, <1>2, <1>11 DEF RestartWrite, RestartReturns, vars
<1>12. CASE Interrupt \/ CountDown \/ Autoboot
  BY <1>12 DEF Interrupt, CountDown, Autoboot
<1> QED
  BY <1>3, <1>4, <1>5, <1>6, <1>7, <1>8, <1>9, <1>10, <1>11, <1>12, Steps

LEMMA NextKeyHeld == IInv /\ Sampled /\ KeyHeld /\ [Next]_vars => KeyHeld'
<1> SUFFICES ASSUME IInv, Sampled, KeyHeld, [Next]_vars,
                    pc' \in MenuPcs, was_pressed'
             PROVE  \/ down' = LongPress
                    \/ down' >= (held' - 1) * SampleTicks
                                + (IF key' THEN SampleTicks - wait' ELSE 0)
  BY DEF KeyHeld
<1> USE DEF MenuPcs, user, program, record
<1>1. SampleTicks \in Nat /\ KeyHold \in Nat /\ KeyHold > SampleTicks
  BY MenuAssumption
<1>2. /\ held \in Nat /\ was_pressed \in BOOLEAN /\ key \in BOOLEAN
      /\ wait \in Nat /\ quiet \in 0 .. KeyHold /\ down \in Nat
      /\ pc \in {"menu", "restart"} => wait = 0
  BY <1>1, MenuAssumption DEF IInv, TypeOK, Waits
<1> DEFINE before == (held - 1) * SampleTicks
<1>3. before \in Int /\ held * SampleTicks = before + SampleTicks
  BY <1>1, <1>2
<1>4. pc \in MenuPcs /\ was_pressed =>
          \/ down = LongPress
          \/ down >= before + (IF key THEN SampleTicks - wait ELSE 0)
  BY DEF KeyHeld
<1>5. CASE EnterMenu
  BY <1>5 DEF EnterMenu
<1>6. CASE SamplePressed
  <2>1. /\ pc = "menu" /\ wait = 0 /\ key /\ held' = held + 1
        /\ wait' = SampleTicks /\ key' = key /\ down' = down
    BY <1>6 DEF SamplePressed
  <2>2. (held' - 1) * SampleTicks = before + SampleTicks
    BY <1>2, <1>3, <2>1
  <2>3. CASE was_pressed
    BY <1>1, <1>2, <1>3, <1>4, <2>1, <2>2, <2>3
  <2>4. CASE ~was_pressed
    <3>1. held = 0
      BY <1>2, <2>1, <2>4 DEF Sampled
    <3>2. before + SampleTicks = 0
      BY <1>1, <1>3, <3>1
    <3> QED
      BY <1>1, <1>2, <2>1, <2>2, <3>2
  <2> QED
    BY <2>3, <2>4
<1>7. CASE SampleReleased
  BY <1>7 DEF SampleReleased
<1>8. CASE Tick
  <2>1. /\ pc' = pc /\ UNCHANGED <<held, was_pressed, key>>
        /\ wait > 0 \/ Polling
        /\ wait' = IF wait > 0 THEN wait - 1 ELSE 0
        /\ down' = IF key /\ down < LongPress THEN down + 1 ELSE down
    BY <1>8 DEF Tick
  <2>2. wait > 0 /\ pc \in MenuPcs /\ was_pressed
    BY <2>1 DEF Polling
  <2>3. (held' - 1) * SampleTicks = before
    BY <2>1
  <2>4. LongPress \in Nat /\ down <= LongPress
    <3>1. down \in 0 .. LongPress
      BY DEF IInv, TypeOK
    <3> QED
      BY <3>1, LongPressType
  <2> HIDE DEF before
  <2> QED
    BY <1>1, <1>2, <1>3, <1>4, <2>1, <2>2, <2>3, <2>4
<1>9. CASE Press
  <2>1. was_pressed = FALSE
    BY <1>1, <1>2, <1>9 DEF Press, Sampled
  <2> QED
    BY <1>9, <2>1 DEF Press
<1>10. CASE Release
  <2>1. /\ UNCHANGED <<pc, held, was_pressed, down, wait>> /\ key /\ ~key'
    BY <1>10 DEF Release
  <2>2. wait <= SampleTicks
    BY <1>1, <1>2, <2>1 DEF Sampled
  <2>3. (held' - 1) * SampleTicks = before
    BY <2>1
  <2> HIDE DEF before
  <2> QED
    BY <1>1, <1>2, <1>3, <1>4, <2>1, <2>2, <2>3
<1>11. CASE \/ KeepHolding \/ RunCommand \/ RestartWrite \/ RestartReturns
            \/ UNCHANGED vars
  <2>1. /\ UNCHANGED <<held, was_pressed, down, wait, key>> /\ pc \in MenuPcs
    BY <1>11 DEF KeepHolding, RunCommand, RestartWrite, RestartReturns, vars
  <2> QED
    BY <1>4, <2>1
<1>12. CASE Interrupt \/ CountDown \/ Autoboot
  BY <1>12 DEF Interrupt, CountDown, Autoboot
<1> QED
  BY <1>5, <1>6, <1>7, <1>8, <1>9, <1>10, <1>11, <1>12, Steps

LEMMA NextEffective == IInv /\ Sampled /\ Effective /\ [Next]_vars => Effective'
<1> SUFFICES ASSUME IInv, Sampled, Effective, [Next]_vars, fresh'
             PROVE  Effective'
  BY DEF Effective
<1> USE DEF Effective, MenuPcs, user, program, record
<1>1. /\ HoldLimit \in Nat \ {0} /\ KeyHold \in Nat /\ SampleTicks \in Nat
      /\ KeyHold > SampleTicks
  BY MenuAssumption
<1>2. /\ held \in Nat /\ was_pressed \in BOOLEAN /\ key \in BOOLEAN
      /\ fresh \in BOOLEAN /\ wait \in Nat /\ effects \in Nat
      /\ quiet \in 0 .. KeyHold
      /\ pc \in {"autoboot", "settle", "loading", "reset"} \cup MenuPcs
      /\ pc \in {"menu", "restart"} => wait = 0
  BY <1>1, MenuAssumption DEF IInv, TypeOK, Waits
<1>3. CASE EnterMenu \/ Interrupt \/ CountDown \/ Autoboot
  BY <1>3 DEF EnterMenu, Interrupt, CountDown, Autoboot
<1>4. CASE SamplePressed
  <2>1. /\ pc = "menu" /\ key /\ held' = held + 1 /\ pc' = "held"
        /\ UNCHANGED <<effects, fresh>>
    BY <1>4 DEF SamplePressed
  <2>2. ~was_pressed => held = 0
    BY <1>2, <2>1 DEF Sampled
  <2> QED
    BY <1>1, <1>2, <2>1, <2>2
<1>5. CASE KeepHolding
  <2>1. was_pressed
    BY <1>5 DEF KeepHolding, Sampled
  <2> QED
    BY <1>1, <1>2, <1>5, <2>1 DEF KeepHolding
<1>6. CASE RunCommand
  <2>1. /\ pc = "held" /\ held = HoldLimit /\ effects' = effects + 1
        /\ pc' \in {"loading", "restart"} /\ fresh' = fresh
    BY <1>6 DEF RunCommand
  <2> QED
    BY <1>1, <1>2, <2>1
<1>7. CASE RestartWrite \/ UNCHANGED vars
  <2>1. UNCHANGED <<pc, held, was_pressed, key, quiet, effects, fresh>>
    BY <1>7 DEF RestartWrite, vars
  <2> QED
    BY <2>1
<1>8. CASE RestartReturns
  <2>1. was_pressed /\ held = HoldLimit
    BY <1>8 DEF RestartReturns, Sampled
  <2> QED
    BY <1>1, <1>2, <1>8, <2>1 DEF RestartReturns
<1>9. CASE SampleReleased
  <2>1. /\ pc = "menu" /\ pc' = "menu" /\ ~key /\ ~key' /\ was_pressed
        /\ ~was_pressed' /\ fresh' = fresh
        /\ \/ held < HoldLimit /\ effects' = effects + 1
           \/ held >= HoldLimit /\ effects' = effects
    BY <1>9 DEF SampleReleased
  <2> QED
    BY <1>1, <1>2, <2>1
<1>10. CASE Tick
  <2>1. /\ UNCHANGED <<held, was_pressed, key, effects, fresh>>
        /\ pc' = pc \/ pc' = "reset"
        /\ wait > 0 \/ Polling
    BY <1>10 DEF Tick
  <2>2. pc = "menu" => ~key
    BY <1>2, <2>1 DEF Polling
  <2> QED
    BY <1>1, <1>2, <2>1, <2>2
<1>11. CASE Press
  <2>1. /\ pc' = pc /\ pc \in MenuPcs /\ key' /\ effects' = 0 /\ quiet' = 0
        /\ UNCHANGED <<held, was_pressed>> /\ ~key /\ quiet = KeyHold
    BY <1>11 DEF Press
  <2>2. ~was_pressed
    BY <1>1, <1>2, <2>1 DEF Sampled
  <2>3. pc = "menu"
    BY <2>1, <2>2 DEF Sampled
  <2> QED
    BY <1>1, <1>2, <2>1, <2>2, <2>3
<1>12. CASE Release
  <2>1. /\ UNCHANGED <<pc, held, was_pressed, effects, fresh>>
        /\ key /\ quiet = KeyHold
    BY <1>12 DEF Release
  <2> QED
    BY <1>1, <1>2, <2>1
<1> QED
  BY <1>3, <1>4, <1>5, <1>6, <1>7, <1>8, <1>9, <1>10, <1>11, <1>12, Steps

LEMMA PressInvariance == Spec => []PressInv
<1>1. Init => PressInv
  BY DEF Init, PressInv, Sampled, KeyHeld, Effective, MenuPcs
<1>2. IInv /\ PressInv /\ [Next]_vars => PressInv'
  BY NextSampled, NextKeyHeld, NextEffective DEF PressInv
<1> QED
  BY RestartInvariance, <1>1, <1>2, PTL DEF Spec

\* A press made in the menu does one thing, for every limit, sample length
\* and timing of a key that does not bounce (bootmenu.c:65-86).
THEOREM OneEffect == Spec => []PressHasOneEffect
<1>1. IInv /\ PressInv => PressHasOneEffect
  BY DEF IInv, TypeOK, PressInv, Effective, PressHasOneEffect, Polling
<1> QED
  BY RestartInvariance, PressInvariance, <1>1, PTL

\* A command needs one press as long as all its samples: shorter ones do not
\* add up (bootmenu.c:66-85).
THEOREM NeedsLongPress == Spec => OnlyLongPressRuns
<1>1. IInv /\ PressInv /\ [Next]_vars
          => [runs' # runs => down = LongPress]_vars
  <2> SUFFICES ASSUME IInv, PressInv, Next, runs' # runs
               PROVE  down = LongPress
    OBVIOUS
  <2>1. RunCommand
    BY DEF Next, Program, vars, program, user, record, Interrupt, CountDown,
           Autoboot, SamplePressed, KeepHolding, EnterMenu, SampleReleased,
           RestartWrite, RestartReturns, Tick, Press, Release
  <2>2. pc = "held" /\ wait = 0 /\ held = HoldLimit
    BY <2>1 DEF RunCommand
  <2>3. \/ down = LongPress
        \/ down >= (HoldLimit - 1) * SampleTicks
                   + (IF key THEN SampleTicks ELSE 0)
    BY <2>2, MenuAssumption DEF PressInv, Sampled, KeyHeld, MenuPcs
  <2>4. LongPress = (HoldLimit - 1) * SampleTicks /\ LongPress \in Nat
    BY LongPressType DEF LongPress
  <2>5. down \in 0 .. LongPress /\ SampleTicks \in Nat
    BY MenuAssumption DEF IInv, TypeOK
  <2> QED
    BY <2>3, <2>4, <2>5
<1> QED
  BY RestartInvariance, PressInvariance, <1>1, PTL DEF Spec, OnlyLongPressRuns

-----------------------------------------------------------------------------
(* udelay, on which every wait of the menu rests, never returns early, for   *)
(* every width of the low half, every delay and every moment at which the   *)
(* count rolls over.                                                        *)

TimerIInv == TimerTypeOK /\ ReadsThePast

\* What one reading of both halves gives is the count at the first of them.
LEMMA HalvesMakeTheCount ==
    ASSUME NEW n \in Nat
    PROVE  /\ n % LowMod \in 0 .. LowMod - 1
           /\ n \div LowMod \in Nat
           /\ (n \div LowMod) * LowMod + (n % LowMod) = n
  <1>1. LowMod \in Nat \ {0}
    BY TimerAssumption
  <1>2. n % LowMod \in 0 .. LowMod - 1
    BY <1>1
  <1>3. n \div LowMod \in Nat
    BY <1>1
  <1>4. (n \div LowMod) * LowMod + (n % LowMod) = n
    BY <1>1
  <1> QED
    BY <1>2, <1>3, <1>4

LEMMA TimerInitInv == TimerInit => TimerIInv
  BY TimerAssumption DEF TimerInit, TimerIInv, TimerTypeOK, ReadsThePast

LEMMA TimerNextInv == TimerIInv /\ [TimerNext]_timer => TimerIInv'
  <1> SUFFICES ASSUME TimerIInv, [TimerNext]_timer
               PROVE  TimerIInv'
    OBVIOUS
  <1> USE DEF TimerIInv, TimerTypeOK, ReadsThePast
  <1> LowMod \in Nat \ {0} /\ multiple \in Nat
    BY TimerAssumption
  <1>1. ASSUME NEW n \in Delays, udelay(n)
        PROVE  TimerIInv'
    <2>1. /\ low' \in 0 .. LowMod - 1 /\ hbuf' \in Nat
          /\ hbuf' * LowMod + low' = count
      BY <1>1, HalvesMakeTheCount DEF udelay, ReadLow
    <2>2. n \in Nat
      BY TimerAssumption
    <2>3. /\ n * multiple \in Nat /\ count \in Nat
          /\ usec' = n /\ began' = count /\ at' = "end"
          /\ count' = count /\ end' = end
      BY <1>1, <2>2 DEF udelay
    <2>4. hbuf' * LowMod + low' \in began' .. count'
      <3> DEFINE now == hbuf' * LowMod + low'
      <3>1. now = count
        BY <2>1
      <3> HIDE DEF now
      <3>2. now \in began' .. count'
        BY <3>1, <2>3
      <3> QED
        BY <3>2 DEF now
    <2>5. TimerTypeOK'
      BY <2>1, <2>2, <2>3
    <2>6. ReadsThePast'
      BY <2>3, <2>4
    <2> QED
      BY <2>5, <2>6
  <1>2. CASE ComputeEnd
    <2>1. usec * multiple \in Nat
      OBVIOUS
    <2>2. hbuf * LowMod + low \in began .. count
      BY <1>2 DEF ComputeEnd
    <2>3. Timer64 \in Nat /\ Timer64 >= began
      BY <2>2 DEF Timer64
    <2>4. end' \in Nat /\ end' >= began + usec * multiple
      BY <1>2, <2>1, <2>3 DEF ComputeEnd
    <2> QED
      BY <1>2, <2>4 DEF ComputeEnd
  <1>3. CASE LoopLow
    <2>1. /\ low' \in 0 .. LowMod - 1 /\ hbuf' \in Nat
          /\ hbuf' * LowMod + low' = count
      BY <1>3, HalvesMakeTheCount DEF LoopLow, ReadLow
    <2>2. /\ at = "low" /\ at' = "high" /\ count' = count
          /\ usec' = usec /\ end' = end /\ began' = began
      BY <1>3 DEF LoopLow
    <2>3. began <= count /\ end >= began + usec * multiple
      BY <2>2
    <2>4. hbuf' * LowMod + low' \in began' .. count'
      <3> DEFINE now == hbuf' * LowMod + low'
      <3>1. now = count
        BY <2>1
      <3> HIDE DEF now
      <3>2. now \in began' .. count'
        BY <3>1, <2>2, <2>3
      <3> QED
        BY <3>2 DEF now
    <2>5. TimerTypeOK'
      BY <2>1, <2>2
    <2>6. ReadsThePast'
      <3>1. end' >= began' + usec' * multiple
        BY <2>2, <2>3
      <3> QED
        BY <2>2, <2>3, <2>4, <3>1
    <2> QED
      BY <2>5, <2>6
  <1>4. CASE LoopHigh
    BY <1>4 DEF LoopHigh
  <1>5. CASE Count
    BY <1>5 DEF Count
  <1>6. CASE UNCHANGED timer
    BY <1>6 DEF timer
  <1> QED
    BY <1>1, <1>2, <1>3, <1>4, <1>5, <1>6 DEF TimerNext, Delay

\* The invariant of a call of udelay: each reading lies between the call and
\* now (timer.c:27-39).
THEOREM ReadingInvariance == TimerSpec => []TimerIInv
  BY TimerInitInv, TimerNextInv, PTL DEF TimerSpec

\* udelay returns only after its time (timer.c:34-39).
THEOREM NeverReturnsEarly == TimerSpec => NeverEarly
  <1>1. TimerIInv /\ [TimerNext]_timer
            => [at = "high" /\ at' = "idle"
                    => count - began >= usec * multiple]_timer
    <2> SUFFICES ASSUME TimerIInv, TimerNext, at = "high", at' = "idle"
                 PROVE  count - began >= usec * multiple
      OBVIOUS
    <2> DEFINE now == hbuf * LowMod + low
               due == usec * multiple
    <2>1. LoopHigh
      BY DEF TimerNext, Delay, udelay, ComputeEnd, LoopLow, Count
    <2>2. ~(now < end)
      BY <2>1 DEF LoopHigh, Timer64
    <2>3. now \in began .. count /\ end >= began + due
      BY DEF TimerIInv, ReadsThePast
    <2>4. /\ began \in Nat /\ count \in Nat /\ end \in Nat
          /\ now \in Int /\ due \in Nat
      BY TimerAssumption, <2>3 DEF TimerIInv, TimerTypeOK
    <2> HIDE DEF now, due
    <2>5. count - began >= due
      BY <2>2, <2>3, <2>4
    <2> QED
      BY <2>5 DEF due
  <1> QED
    BY <1>1, ReadingInvariance, PTL DEF TimerSpec, NeverEarly

-----------------------------------------------------------------------------
(* The words of the screen. *)

(* A word of the screen is in one row and one column. *)
LEMMA OneWord ==
  ASSUME NEW r \in Int, NEW q \in Int, NEW c \in 0 .. XRES - 1,
         NEW d \in 0 .. XRES - 1, r * XRES + c = q * XRES + d
  PROVE  r = q /\ c = d
<1>1. XRES \in Nat \ {0}
  BY ScreenAssumption
<1>2. XRES * r + c = XRES * q + d
  BY <1>1
<1>3. c = d
  BY <1>1, <1>2, OneRemainder
<1>4. XRES * (r - q) = 0
  BY <1>1, <1>2, <1>3
<1>5. CASE r - q >= 1
  BY <1>1, <1>4, <1>5
<1>6. CASE r - q <= -1
  BY <1>1, <1>4, <1>6
<1> QED
  BY <1>3, <1>5, <1>6

(* The sizes are numbers, those of the screen and of a cell not 0.           *)
LEMMA Sizes ==
  /\ XRES \in Nat \ {0} /\ YRES \in Nat \ {0}
  /\ FONTW \in Nat \ {0} /\ FONTH \in Nat \ {0}
  /\ FbSize \in Nat /\ FbSize >= XRES * YRES
  /\ MenuX \in Nat /\ MenuY \in Nat /\ MenuPitch \in Nat
  /\ LogoY \in Nat /\ PromptLogoY \in Nat
  /\ ConX \in Nat /\ ConY \in Nat /\ ConPitch \in Nat
BY ScreenAssumption

(* The words of a cell by row and column. *)
LEMMA CellWord ==
  ASSUME NEW r \in Nat, NEW c \in Nat, c + FONTW <= XRES,
         NEW p \in Cell(r * XRES + c)
  PROVE  \E a \in 0 .. FONTH - 1, b \in 0 .. FONTW - 1 :
            p = (r + a) * XRES + (c + b) /\ c + b \in 0 .. XRES - 1
<1>1. PICK a \in 0 .. FONTH - 1, b \in 0 .. FONTW - 1 :
          p = r * XRES + c + a * XRES + b
  BY DEF Cell
<1>2. a \in Nat /\ b \in Nat /\ XRES \in Nat
  BY Sizes
<1>3. p = (r + a) * XRES + (c + b)
  BY <1>1, <1>2
<1>4. c + b \in 0 .. XRES - 1
  BY <1>2, Sizes
<1> QED
  BY <1>3, <1>4

(* Cells a row or a column apart have no word in common. *)
LEMMA CellsApart ==
  ASSUME NEW r \in Nat, NEW c \in Nat, c + FONTW <= XRES,
         NEW q \in Nat, NEW d \in Nat, d + FONTW <= XRES,
         \/ r + FONTH <= q \/ q + FONTH <= r
         \/ c + FONTW <= d \/ d + FONTW <= c,
         NEW p \in Cell(r * XRES + c)
  PROVE  p \notin Cell(q * XRES + d)
<1> SUFFICES ASSUME p \in Cell(q * XRES + d) PROVE FALSE
  OBVIOUS
<1>1. PICK a \in 0 .. FONTH - 1, b \in 0 .. FONTW - 1 :
          p = (r + a) * XRES + (c + b) /\ c + b \in 0 .. XRES - 1
  BY CellWord
<1>2. PICK e \in 0 .. FONTH - 1, f \in 0 .. FONTW - 1 :
          p = (q + e) * XRES + (d + f) /\ d + f \in 0 .. XRES - 1
  BY CellWord
<1>3. r + a \in Int /\ q + e \in Int
  BY Sizes
<1>4. r + a = q + e /\ c + b = d + f
  BY <1>1, <1>2, <1>3, OneWord
<1> QED
  BY <1>4, Sizes

(* A cell within the screen is within the frame, in its rows. *)
LEMMA CellInside ==
  ASSUME NEW r \in Nat, NEW c \in Nat, c + FONTW <= XRES,
         NEW p \in Cell(r * XRES + c)
  PROVE  /\ p \in Nat /\ r * XRES <= p /\ p < (r + FONTH) * XRES
         /\ r + FONTH <= YRES => p \in Words
<1>1. PICK a \in 0 .. FONTH - 1, b \in 0 .. FONTW - 1 :
          p = (r + a) * XRES + (c + b) /\ c + b \in 0 .. XRES - 1
  BY CellWord
<1>2. /\ a \in Nat /\ XRES \in Nat \ {0} /\ FONTH \in Nat
      /\ r + a \in Nat /\ r + a + 1 <= r + FONTH
  BY Sizes
<1> DEFINE w == c + b
<1>3. p = (r + a) * XRES + w /\ w \in Nat /\ w < XRES
  BY <1>1, <1>2
<1> HIDE DEF w
<1>4. r * XRES <= (r + a) * XRES
  BY <1>2
<1>5. (r + a) * XRES + XRES = (r + a + 1) * XRES
  BY <1>2
<1>6. ASSUME NEW m \in Nat, NEW n \in Nat, m <= n
      PROVE  m * XRES <= n * XRES
  <2>1. n * XRES = m * XRES + (n - m) * XRES /\ n - m \in Nat
    BY <1>2, <1>6
  <2>2. (n - m) * XRES >= 0 /\ m * XRES \in Nat /\ (n - m) * XRES \in Int
    BY <1>2, <2>1
  <2> QED
    BY <2>1, <2>2
<1>7. (r + a + 1) * XRES <= (r + FONTH) * XRES
  BY <1>2, <1>6
<1>8. p \in Nat /\ r * XRES <= p /\ p < (r + FONTH) * XRES
  <2>1. r * XRES \in Nat /\ (r + a) * XRES \in Nat
          /\ (r + FONTH) * XRES \in Nat
        /\ (r + a + 1) * XRES \in Nat
    BY <1>2
  <2> QED
    BY <1>2, <1>3, <1>4, <1>5, <1>7, <2>1
<1>9. ASSUME r + FONTH <= YRES PROVE p \in Words
  <2>1. (r + FONTH) * XRES <= YRES * XRES
    BY <1>2, <1>6, <1>9, Sizes
  <2>2. YRES * XRES = XRES * YRES /\ XRES * YRES \in Nat
          /\ (r + FONTH) * XRES \in Nat
    BY <1>2, Sizes
  <2> QED
    BY <1>8, <2>1, <2>2, Sizes DEF Words
<1> QED
  BY <1>8, <1>9

(* A word of a cell has the glyph's colour where the glyph is lit. *)
LEMMA CharDrawn ==
  ASSUME NEW ch \in DOMAIN Glyph, NEW first \in Nat, NEW p \in Cell(first),
         FONTW <= XRES, NEW fg, NEW bg
  PROVE  draw_char(ch, first, p, fg, bg) =
            IF p \in {first + l[1] * XRES + l[2] : l \in Glyph[ch]}
            THEN fg ELSE bg
<1>1. PICK a \in 0 .. FONTH - 1, b \in 0 .. FONTW - 1 :
          p = first + a * XRES + b
  BY DEF Cell
<1>2. a \in Nat /\ b \in 0 .. XRES - 1 /\ XRES \in Nat \ {0}
  BY Sizes
<1> DEFINE d == p - first
           q == d \div XRES
           m == d % XRES
<1>3. d = a * XRES + b /\ d \in Int
  BY <1>1, <1>2
<1>4. q \in Int /\ m \in 0 .. XRES - 1 /\ d = q * XRES + m
  <2> HIDE DEF d
  <2>1. q \in Int /\ m \in 0 .. XRES - 1 /\ d = XRES * q + m
    BY <1>2, <1>3, Division
  <2> QED
    BY <2>1, <1>2
<1>5. q = a /\ m = b
  <2> HIDE DEF d, q, m
  <2> QED
    BY <1>2, <1>3, <1>4, OneWord
<1>6. Glyph[ch] \subseteq (0 .. FONTH - 1) \X (0 .. FONTW - 1)
  BY ScreenAssumption
<1>7. p \in {first + l[1] * XRES + l[2] : l \in Glyph[ch]}
        <=> <<a, b>> \in Glyph[ch]
  <2>1. ASSUME <<a, b>> \in Glyph[ch]
        PROVE  p \in {first + l[1] * XRES + l[2] : l \in Glyph[ch]}
    BY <1>1, <2>1
  <2>2. ASSUME NEW l \in Glyph[ch], p = first + l[1] * XRES + l[2]
        PROVE  <<a, b>> \in Glyph[ch]
    <3> DEFINE u == l[1]
               v == l[2]
    <3>1. l = <<u, v>> /\ u \in 0 .. FONTH - 1 /\ v \in 0 .. FONTW - 1
      BY <1>6
    <3>2. p = first + u * XRES + v
      BY <2>2
    <3> HIDE DEF u, v
    <3>3. u \in Int /\ v \in 0 .. XRES - 1
      BY <1>2, <3>1, Sizes
    <3>4. a * XRES + b = u * XRES + v
      <4> DEFINE t == a * XRES
                 z == u * XRES
      <4>1. t \in Int /\ z \in Int /\ p = first + t + b /\ p = first + z + v
        BY <1>1, <1>2, <3>2, <3>3
      <4> HIDE DEF t, z
      <4>2. t + b = z + v
        BY <1>2, <3>3, <4>1
      <4> QED
        BY <4>2 DEF t, z
    <3>5. u = a /\ v = b
      BY <1>2, <3>3, <3>4, OneWord
    <3> QED
      BY <3>1, <3>5
  <2> QED
    BY <2>1, <2>2
<1>8. draw_char(ch, first, p, fg, bg) =
        IF <<q, m>> \in Glyph[ch] THEN fg ELSE bg
  BY DEF draw_char
<1> HIDE DEF d, q, m
<1> QED
  BY <1>5, <1>7, <1>8, Zenon

-----------------------------------------------------------------------------
(* A text in its cells. *)

(* A set of numbers up to n that has a member has a greatest one. *)
LEMMA GreatestOf ==
  ASSUME NEW n \in Nat, NEW S, S \subseteq 0 .. n, S # {}
  PROVE  Max(S) \in S /\ \A j \in S : j <= Max(S)
<1> DEFINE T == {n - j : j \in S}
<1>1. T \subseteq Nat /\ T # {}
  <2>1. ASSUME NEW j \in S PROVE n - j \in Nat
    <3>1. j \in 0 .. n
      OBVIOUS
    <3> QED
      BY <3>1
  <2> QED
    BY <2>1
<1>2. PICK m \in T : \A k \in T : m <= k
  <2> HIDE DEF T
  <2> QED
    BY <1>1, LeastNat
<1>3. PICK x \in S : m = n - x
  BY <1>2
<1>4. ASSUME NEW j \in S PROVE x >= j
  <2>1. n - j \in T
    OBVIOUS
  <2>2. m <= n - j /\ x \in 0 .. n /\ j \in 0 .. n
    BY <1>2, <2>1
  <2> QED
    BY <1>3, <2>2
<1>5. Max(S) \in S /\ \A y \in S : Max(S) >= y
  BY <1>3, <1>4, Zenon DEF Max
<1>6. ASSUME NEW j \in S PROVE j <= Max(S)
  BY <1>5
<1> QED
  BY <1>5, <1>6

Row(s, k) == Cardinality(Breaks(s, k))
LineStart(s, k) == Max({0} \cup Breaks(s, k))

(* Where the pen is, is a row and a column: those of the newlines before. *)
LEMMA PenFacts ==
  ASSUME NEW s, NEW k \in Nat \ {0}
  PROVE  /\ IsFiniteSet(Breaks(s, k)) /\ Row(s, k) \in Nat
         /\ LineStart(s, k) \in {0} \cup Breaks(s, k)
         /\ \A j \in Breaks(s, k) : j <= LineStart(s, k)
         /\ LineStart(s, k) \in 0 .. k - 1
         /\ Column(s, k) = k - 1 - LineStart(s, k) /\ Column(s, k) \in Nat
<1> DEFINE B == Breaks(s, k)
           m == LineStart(s, k)
<1>1. B \subseteq 1 .. k - 1
  BY DEF Breaks
<1>2. IsFiniteSet(1 .. k - 1)
  BY FS_Interval
<1>3. IsFiniteSet(B) /\ Row(s, k) \in Nat
  <2>1. IsFiniteSet(B)
    <3> HIDE DEF B
    <3> QED
      BY <1>1, <1>2, FS_Subset
  <2> QED
    BY <2>1, FS_CardinalityType DEF Row
<1>4. m \in {0} \cup B /\ \A j \in {0} \cup B : j <= m
  <2>1. {0} \cup B \subseteq 0 .. k - 1 /\ {0} \cup B # {} /\ k - 1 \in Nat
    BY <1>1
  <2> HIDE DEF B
  <2>2. Max({0} \cup B) \in {0} \cup B
          /\ \A j \in {0} \cup B : j <= Max({0} \cup B)
    BY <2>1, GreatestOf
  <2> QED
    BY <2>2 DEF LineStart, B
<1>5. m \in 0 .. k - 1
  BY <1>1, <1>4
<1>6. Column(s, k) = k - 1 - m
  BY DEF Column, LineStart
<1> HIDE DEF B, m
<1>7. Column(s, k) \in Nat
  BY <1>5, <1>6
<1> QED
  BY <1>3, <1>4, <1>5, <1>6, <1>7 DEF B, m

(* Two characters are in different rows, or in different columns. *)
LEMMA PensApart ==
  ASSUME NEW s, NEW k \in Nat \ {0}, NEW l \in Nat \ {0}, k < l
  PROVE  \/ Row(s, k) < Row(s, l)
         \/ Row(s, k) = Row(s, l) /\ Column(s, k) < Column(s, l)
<1>1. /\ IsFiniteSet(Breaks(s, l)) /\ Row(s, k) \in Nat /\ Row(s, l) \in Nat
  BY PenFacts
<1>2. Breaks(s, k) \subseteq Breaks(s, l)
  BY DEF Breaks
<1>3. /\ Cardinality(Breaks(s, k)) <= Cardinality(Breaks(s, l))
      /\ Cardinality(Breaks(s, k)) = Cardinality(Breaks(s, l))
            => Breaks(s, k) = Breaks(s, l)
  BY <1>1, <1>2, FS_Subset
<1>4. CASE Row(s, k) = Row(s, l)
  <2>1. LineStart(s, k) = LineStart(s, l)
    BY <1>3, <1>4 DEF Row, LineStart
  <2>2. /\ Column(s, k) = k - 1 - LineStart(s, k)
        /\ Column(s, l) = l - 1 - LineStart(s, l)
        /\ LineStart(s, k) \in 0 .. k - 1
    BY PenFacts
  <2>3. Column(s, k) < Column(s, l)
    BY <2>1, <2>2
  <2> QED
    BY <1>4, <2>3
<1> QED
  BY <1>1, <1>3, <1>4 DEF Row

(* A text fits at (x, y). *)
Fits(x, y, s) ==
    /\ s \in Seq(DOMAIN Glyph \cup {Newline})
    /\ \A k \in DOMAIN s : s[k] # Newline =>
          /\ x + Column(s, k) * FONTW + FONTW <= XRES
          /\ y + Row(s, k) * FONTH + FONTH <= YRES
Lit(ch, first) == {first + l[1] * XRES + l[2] : l \in Glyph[ch]}

(* The cell of a character begins where its row and its column do.           *)
LEMMA PenPlace ==
  ASSUME NEW x \in Nat, NEW y \in Nat, NEW s, NEW k \in Nat \ {0}
  PROVE  /\ y + Row(s, k) * FONTH \in Nat /\ x + Column(s, k) * FONTW \in Nat
         /\ Pen(x, y, s, k) = (y + Row(s, k) * FONTH) * XRES
                                 + (x + Column(s, k) * FONTW)
         /\ Pen(x, y, s, k) \in Nat
<1> DEFINE a == Row(s, k) * FONTH
           b == Column(s, k) * FONTW
<1>1. a \in Nat /\ b \in Nat
  <2>1. Row(s, k) \in Nat /\ Column(s, k) \in Nat
    BY PenFacts
  <2> QED
    BY <2>1, Sizes
<1>2. Pen(x, y, s, k) = (y + a) * XRES + x + b
  BY DEF Pen, Row
<1> HIDE DEF a, b
<1> DEFINE z == (y + a) * XRES
<1>3. z \in Nat
  BY <1>1, Sizes
<1>4. Pen(x, y, s, k) = z + x + b
  BY <1>2
<1> HIDE DEF z
<1>5. Pen(x, y, s, k) = z + (x + b) /\ Pen(x, y, s, k) \in Nat
  BY <1>1, <1>3, <1>4
<1> QED
  BY <1>1, <1>5 DEF a, b, z

(* The cells of a text that fits have no word in common. *)
LEMMA OneCell ==
  ASSUME NEW x \in Nat, NEW y \in Nat, NEW s, Fits(x, y, s),
         NEW k \in DOMAIN s, NEW l \in DOMAIN s,
         s[k] # Newline, s[l] # Newline,
         NEW p \in Cell(Pen(x, y, s, k)), p \in Cell(Pen(x, y, s, l))
  PROVE  k = l
<1>1. k \in Nat \ {0} /\ l \in Nat \ {0}
  BY DEF Fits
<1> DEFINE r(j) == y + Row(s, j) * FONTH
           c(j) == x + Column(s, j) * FONTW
<1>2. ASSUME NEW j \in {k, l}
      PROVE  /\ r(j) \in Nat /\ c(j) \in Nat /\ c(j) + FONTW <= XRES
             /\ Pen(x, y, s, j) = r(j) * XRES + c(j)
  <2>1. j \in Nat \ {0}
    BY <1>1
  <2>2. c(j) + FONTW <= XRES
    BY DEF Fits
  <2> QED
    BY <2>1, <2>2, PenPlace
<1>3. ASSUME NEW i1 \in {k, l}, NEW j \in {k, l}, i1 < j
      PROVE  \/ r(i1) + FONTH <= r(j) \/ c(i1) + FONTW <= c(j)
  <2>0. i1 \in Nat \ {0} /\ j \in Nat \ {0}
    BY <1>1
  <2> DEFINE m == Row(s, i1)
             n == Row(s, j)
             u == Column(s, i1)
             v == Column(s, j)
  <2>1. m \in Nat /\ n \in Nat /\ u \in Nat /\ v \in Nat
    BY <2>0, PenFacts
  <2>2. m < n \/ (m = n /\ u < v)
    BY <2>0, <1>3, PensApart
  <2>3. ASSUME NEW f \in Nat, NEW g \in Nat, NEW h \in Nat, g < h
        PROVE  g * f + f <= h * f
    <3>1. h * f = g * f + f + (h - g - 1) * f
      BY <2>3
    <3>2. (h - g - 1) * f \in Nat /\ g * f \in Nat
      BY <2>3
    <3> QED
      BY <3>1, <3>2
  <2> HIDE DEF m, n, u, v
  <2>4. m < n => m * FONTH + FONTH <= n * FONTH
    BY <2>1, <2>3, Sizes
  <2>5. u < v => u * FONTW + FONTW <= v * FONTW
    BY <2>1, <2>3, Sizes
  <2>6. m * FONTH \in Nat /\ n * FONTH \in Nat /\ u * FONTW \in Nat
          /\ v * FONTW \in Nat
    BY <2>1, Sizes
  <2>7. \/ y + m * FONTH + FONTH <= y + n * FONTH
        \/ x + u * FONTW + FONTW <= x + v * FONTW
    BY <2>1, <2>2, <2>4, <2>5, <2>6, Sizes
  <2> QED
    BY <2>7 DEF m, n, u, v
<1> HIDE DEF r, c
<1>4. p \in Cell(r(k) * XRES + c(k)) /\ p \in Cell(r(l) * XRES + c(l))
  BY <1>2
<1>5. CASE k < l
  <2>1. r(k) + FONTH <= r(l) \/ c(k) + FONTW <= c(l)
    BY <1>3, <1>5
  <2> QED
    BY <1>2, <1>4, <2>1, CellsApart
<1>6. CASE l < k
  <2>1. r(l) + FONTH <= r(k) \/ c(l) + FONTW <= c(k)
    BY <1>3, <1>6
  <2> QED
    BY <1>2, <1>4, <2>1, CellsApart
<1> QED
  BY <1>1, <1>5, <1>6

(* A text stands in a frame: each character in its cell, and nothing of the  *)
(* frame before is lost outside.                                             *)
Drawn(g, frame, x, y, s, fg, bg) ==
    /\ g \in [Words -> Colours]
    /\ \A k \in DOMAIN s : s[k] # Newline =>
          \A p \in Cell(Pen(x, y, s, k)) :
             g[p] = IF p \in Lit(s[k], Pen(x, y, s, k)) THEN fg ELSE bg
    /\ \A p \in Words :
          (\A k \in DOMAIN s : s[k] # Newline
            => p \notin Cell(Pen(x, y, s, k)))
              => g[p] = frame[p]

(* What draw_string draws: each character in its cell, and nothing else. *)
LEMMA StringDrawn ==
  ASSUME NEW frame \in [Words -> Colours], NEW x \in Nat, NEW y \in Nat, NEW s,
         Fits(x, y, s), NEW fg \in Colours, NEW bg \in Colours,
         NEW g, g = draw_string(frame, x, y, s, fg, bg)
  PROVE  Drawn(g, frame, x, y, s, fg, bg)
<1> DEFINE drawn(p) == {k \in DOMAIN s : /\ s[k] \in DOMAIN Glyph
                                         /\ p \in Cell(Pen(x, y, s, k))}
           colour(p) == IF drawn(p) = {} THEN frame[p]
                        ELSE LET k == Max(drawn(p))
                             IN  draw_char(s[k], Pen(x, y, s, k), p, fg, bg)
<1>1. g = [p \in Words |-> colour(p)]
  BY Zenon DEF draw_string
<1>2. ASSUME NEW k \in DOMAIN s
      PROVE  /\ s[k] \in DOMAIN Glyph <=> s[k] # Newline
             /\ k \in Nat \ {0}
  <2>1. s \in Seq(DOMAIN Glyph \cup {Newline})
    BY DEF Fits
  <2>2. s[k] \in DOMAIN Glyph \cup {Newline} /\ k \in Nat \ {0}
    BY <2>1
  <2>3. Newline \notin DOMAIN Glyph
    BY ScreenAssumption
  <2> QED
    BY <2>2, <2>3
<1>3. ASSUME NEW k \in DOMAIN s, s[k] # Newline,
             NEW p \in Cell(Pen(x, y, s, k))
      PROVE  /\ p \in Words
             /\ colour(p) = IF p \in Lit(s[k], Pen(x, y, s, k)) THEN fg ELSE bg
  <2> DEFINE r == y + Row(s, k) * FONTH
             c == x + Column(s, k) * FONTW
  <2>1. /\ r \in Nat /\ c \in Nat /\ Pen(x, y, s, k) = r * XRES + c
        /\ Pen(x, y, s, k) \in Nat
    BY <1>2, PenPlace
  <2>2. c + FONTW <= XRES /\ r + FONTH <= YRES
    BY <1>3 DEF Fits
  <2> HIDE DEF r, c
  <2>3. p \in Words
    BY <2>1, <2>2, CellInside
  <2>4. drawn(p) = {k}
    <3>1. k \in drawn(p)
      BY <1>2, <1>3
    <3>2. ASSUME NEW l \in drawn(p) PROVE l = k
      <4>1. l \in DOMAIN s /\ s[l] # Newline /\ p \in Cell(Pen(x, y, s, l))
        BY <1>2
      <4> QED
        BY <1>3, <4>1, OneCell
    <3> QED
      BY <3>1, <3>2
  <2>5. Max({k}) = k
    <3>1. {k} \subseteq 0 .. k /\ {k} # {} /\ k \in Nat
      BY <1>2
    <3>2. Max({k}) \in {k}
      BY <3>1, GreatestOf
    <3> QED
      BY <3>2
  <2>6. colour(p) = draw_char(s[k], Pen(x, y, s, k), p, fg, bg)
    <3>1. drawn(p) # {} /\ Max(drawn(p)) = k
      BY <2>4, <2>5
    <3> QED
      BY <3>1, Zenon
  <2>7. FONTW <= XRES
    BY <2>1, <2>2, Sizes
  <2>8. s[k] \in DOMAIN Glyph
    BY <1>2, <1>3
  <2>9. draw_char(s[k], Pen(x, y, s, k), p, fg, bg) =
          IF p \in Lit(s[k], Pen(x, y, s, k)) THEN fg ELSE bg
    BY <2>1, <2>7, <2>8, CharDrawn DEF Lit
  <2> QED
    BY <2>3, <2>6, <2>9
<1>4. ASSUME NEW p \in Words,
             \A k \in DOMAIN s : s[k] # Newline
               => p \notin Cell(Pen(x, y, s, k))
      PROVE  colour(p) = frame[p]
  <2>1. drawn(p) = {}
    BY <1>2, <1>4
  <2> QED
    BY <2>1, Zenon
<1>5. ASSUME NEW p \in Words PROVE colour(p) \in Colours
  <2>1. CASE \E k \in DOMAIN s : s[k] # Newline /\ p \in Cell(Pen(x, y, s, k))
    BY <1>3, <2>1, Zenon
  <2>2. CASE \A k \in DOMAIN s : s[k] # Newline
               => p \notin Cell(Pen(x, y, s, k))
    <3>1. colour(p) = frame[p]
      BY <1>4, <2>2
    <3>2. frame[p] \in Colours
      OBVIOUS
    <3> QED
      BY <3>1, <3>2, Zenon
  <2> QED
    BY <2>1, <2>2, Zenon
<1> HIDE DEF colour, drawn
<1>6. g \in [Words -> Colours]
  BY <1>1, <1>5
<1>7. \A p \in Words : g[p] = colour(p)
  BY <1>1
<1>8. ASSUME NEW k \in DOMAIN s, s[k] # Newline,
             NEW p \in Cell(Pen(x, y, s, k))
      PROVE  g[p] = IF p \in Lit(s[k], Pen(x, y, s, k)) THEN fg ELSE bg
  BY <1>3, <1>7, <1>8, Zenon
<1> QED
  BY <1>4, <1>6, <1>7, <1>8, Zenon DEF Drawn

-----------------------------------------------------------------------------
(* A text of one line. *)

(* The k-th cell of a row of n that fits. *)
LEMMA ColumnFits ==
  ASSUME NEW n \in Nat, NEW k \in 1 .. n, NEW x \in Nat, x + n * FONTW <= XRES
  PROVE  /\ (k - 1) * FONTW \in Nat /\ x + (k - 1) * FONTW \in Nat
         /\ x + (k - 1) * FONTW + FONTW <= XRES
<1> DEFINE c == (k - 1) * FONTW
           d == (n - k) * FONTW
           e == n * FONTW
<1>1. k - 1 \in Nat /\ n - k \in Nat /\ FONTW \in Nat /\ XRES \in Nat
  BY Sizes
<1>2. c \in Nat /\ d \in Nat /\ e \in Nat
  BY <1>1
<1>3. e = c + FONTW + d
  <2>1. n * FONTW = ((k - 1) + 1 + (n - k)) * FONTW
    BY <1>1
  <2> QED
    BY <1>1, <2>1
<1> HIDE DEF c, d
<1>4. x + c + FONTW <= XRES
  <2>1. x + e <= XRES
    OBVIOUS
  <2> HIDE DEF e
  <2> QED
    BY <1>1, <1>2, <1>3, <2>1
<1> QED
  BY <1>2, <1>4 DEF c

(* Only the words of its cells matter to a text that is seen. *)
LEMMA ShowsKept ==
  ASSUME NEW f, NEW g, NEW x \in Nat, NEW y \in Nat, NEW s, NEW fg, NEW bg,
         s \in Seq(DOMAIN Glyph), Shows(f, x, y, s, fg, bg),
         \A p \in Words : y * XRES <= p /\ p < (y + FONTH) * XRES
           => g[p] = f[p]
  PROVE  Shows(g, x, y, s, fg, bg)
<1>1. ASSUME NEW k \in DOMAIN s,
             NEW p \in Cell(y * XRES + x + (k - 1) * FONTW)
      PROVE  g[p] = f[p]
  <2> DEFINE c == x + (k - 1) * FONTW
             n == Len(s)
  <2>1. k \in 1 .. n /\ n \in Nat
    OBVIOUS
  <2>2. x + n * FONTW <= XRES /\ y + FONTH <= YRES
    BY DEF Shows
  <2> HIDE DEF n
  <2>3. c \in Nat /\ c + FONTW <= XRES
    BY <2>1, <2>2, ColumnFits
  <2>4. y * XRES + x + (k - 1) * FONTW = y * XRES + c
    <3>1. y * XRES \in Nat /\ (k - 1) * FONTW \in Nat
      BY SMTT(60), <2>1, Sizes
    <3> QED
      BY <3>1
  <2> HIDE DEF c
  <2>5. p \in Cell(y * XRES + c)
    BY <2>4
  <2>6. p \in Words /\ y * XRES <= p /\ p < (y + FONTH) * XRES
    BY <2>2, <2>3, <2>5, CellInside
  <2> QED
    BY <2>6
<1>2. /\ x + Len(s) * FONTW <= XRES /\ y + FONTH <= YRES
      /\ \A k \in DOMAIN s :
            LET first == y * XRES + x + (k - 1) * FONTW
                lit == {first + l[1] * XRES + l[2] : l \in Glyph[s[k]]}
            IN  \A p \in Cell(first) : f[p] = IF p \in lit THEN fg ELSE bg
  BY Zenon DEF Shows
<1>3. \A k \in DOMAIN s :
         LET first == y * XRES + x + (k - 1) * FONTW
             lit == {first + l[1] * XRES + l[2] : l \in Glyph[s[k]]}
         IN  \A p \in Cell(first) : g[p] = IF p \in lit THEN fg ELSE bg
  BY <1>1, <1>2, Zenon
<1> QED
  BY <1>2, <1>3, Zenon DEF Shows

(* A text of one line stands in a frame, and nothing of the frame before is *)
(* lost outside its cells and its rows.                                     *)
LineIn(g, frame, x, y, s, fg, bg) ==
    /\ g \in [Words -> Colours] /\ Shows(g, x, y, s, fg, bg)
    /\ \A p \in Words :
          (\A k \in 0 .. Len(s) - 1 : p \notin Cell(y * XRES + x + k * FONTW))
              => g[p] = frame[p]
    /\ \A p \in Words :
          p < y * XRES \/ p >= (y + FONTH) * XRES => g[p] = frame[p]

(* A text without a newline is drawn in one row, and stands there. *)
LEMMA LineDrawn ==
  ASSUME NEW frame \in [Words -> Colours], NEW x \in Nat, NEW y \in Nat,
         NEW s \in Seq(DOMAIN Glyph), x + Len(s) * FONTW <= XRES,
         y + FONTH <= YRES, NEW fg \in Colours, NEW bg \in Colours,
         NEW g, g = draw_string(frame, x, y, s, fg, bg)
  PROVE  LineIn(g, frame, x, y, s, fg, bg)
<1> DEFINE n == Len(s)
<1>1. /\ n \in Nat /\ DOMAIN s = 1 .. n
      /\ \A k \in 1 .. n : s[k] \in DOMAIN Glyph /\ s[k] # Newline
  <2>1. n \in Nat /\ DOMAIN s = 1 .. n
    OBVIOUS
  <2>2. \A k \in 1 .. n : s[k] \in DOMAIN Glyph
    OBVIOUS
  <2>3. Newline \notin DOMAIN Glyph
    BY ScreenAssumption
  <2> QED
    BY <2>1, <2>2, <2>3, Zenon
<1>2. ASSUME NEW k \in 1 .. n
      PROVE  Row(s, k) = 0 /\ Column(s, k) = k - 1
  <2>1. Breaks(s, k) = {}
    BY <1>1 DEF Breaks
  <2>2. Row(s, k) = 0
    BY <2>1, FS_EmptySet DEF Row
  <2>3. k \in Nat \ {0}
    BY <1>1
  <2>4. /\ Column(s, k) = k - 1 - LineStart(s, k)
        /\ LineStart(s, k) \in {0} \cup Breaks(s, k)
    BY <2>3, PenFacts
  <2> QED
    BY <2>1, <2>2, <2>3, <2>4
<1>3. x + n * FONTW <= XRES
  OBVIOUS
<1> HIDE DEF n
<1>4. ASSUME NEW k \in 1 .. n
      PROVE  /\ (k - 1) * FONTW \in Nat
             /\ x + (k - 1) * FONTW + FONTW <= XRES
             /\ Pen(x, y, s, k) = y * XRES + x + (k - 1) * FONTW
             /\ Pen(x, y, s, k) = y * XRES + (x + (k - 1) * FONTW)
  <2> DEFINE c == (k - 1) * FONTW
  <2>3. c \in Nat /\ x + c + FONTW <= XRES
    BY <1>1, <1>3, ColumnFits
  <2>4. Pen(x, y, s, k) = (y + 0 * FONTH) * XRES + x + c
    BY <1>2 DEF Pen, Row
  <2> HIDE DEF c
  <2>6. (y + 0 * FONTH) * XRES = y * XRES /\ y * XRES \in Nat
    BY Sizes
  <2>7. Pen(x, y, s, k) = y * XRES + x + c
    BY <2>4, <2>6
  <2>8. Pen(x, y, s, k) = y * XRES + (x + c)
    BY <2>3, <2>6, <2>7
  <2> QED
    BY <2>3, <2>7, <2>8 DEF c
<1>5. Fits(x, y, s)
  <2>1. s \in Seq(DOMAIN Glyph \cup {Newline})
    OBVIOUS
  <2>2. ASSUME NEW k \in DOMAIN s
        PROVE  /\ x + Column(s, k) * FONTW + FONTW <= XRES
               /\ y + Row(s, k) * FONTH + FONTH <= YRES
    <3>1. k \in 1 .. n
      BY <1>1
    <3>2. Row(s, k) = 0 /\ Column(s, k) = k - 1
      BY <1>2, <3>1
    <3>3. y + 0 * FONTH + FONTH <= YRES
      BY Sizes
    <3> QED
      BY <1>4, <3>1, <3>2, <3>3
  <2> QED
    BY <2>1, <2>2 DEF Fits
<1>6. /\ g \in [Words -> Colours]
      /\ \A k \in DOMAIN s : s[k] # Newline =>
            \A p \in Cell(Pen(x, y, s, k)) :
               g[p] = IF p \in Lit(s[k], Pen(x, y, s, k)) THEN fg ELSE bg
      /\ \A p \in Words :
            (\A k \in DOMAIN s : s[k] # Newline
              => p \notin Cell(Pen(x, y, s, k)))
                => g[p] = frame[p]
  <2>1. Drawn(g, frame, x, y, s, fg, bg)
    BY <1>5, StringDrawn
  <2> QED
    BY <2>1, Zenon DEF Drawn
<1>7. Shows(g, x, y, s, fg, bg)
  <2>1. \A k \in DOMAIN s :
           LET first == y * XRES + x + (k - 1) * FONTW
               lit == {first + l[1] * XRES + l[2] : l \in Glyph[s[k]]}
           IN  \A p \in Cell(first) : g[p] = IF p \in lit THEN fg ELSE bg
    <3> SUFFICES ASSUME NEW k \in DOMAIN s,
                        NEW p \in Cell(y * XRES + x + (k - 1) * FONTW)
                 PROVE  g[p] = IF p \in Lit(s[k],
                          y * XRES + x + (k - 1) * FONTW)
                               THEN fg ELSE bg
      BY Zenon DEF Lit
    <3>1. s[k] # Newline /\ k \in 1 .. n
      BY <1>1
    <3>2. Pen(x, y, s, k) = y * XRES + x + (k - 1) * FONTW
      BY <1>4, <3>1
    <3> QED
      BY <1>6, <3>1, <3>2, Zenon
  <2> QED
    BY <1>3, <2>1, Zenon DEF Shows, n
<1>8. ASSUME NEW p \in Words,
             \A k \in 0 .. n - 1 : p \notin Cell(y * XRES + x + k * FONTW)
      PROVE  g[p] = frame[p]
  <2>1. ASSUME NEW k \in DOMAIN s PROVE p \notin Cell(Pen(x, y, s, k))
    <3>1. k \in 1 .. n /\ k - 1 \in 0 .. n - 1
      BY <1>1
    <3>2. p \notin Cell(y * XRES + x + (k - 1) * FONTW)
      BY <1>8, <3>1
    <3> QED
      BY <1>4, <3>1, <3>2
  <2> QED
    BY <1>6, <2>1
<1>9. ASSUME NEW p \in Words, p < y * XRES \/ p >= (y + FONTH) * XRES
      PROVE  g[p] = frame[p]
  <2>1. ASSUME NEW k \in DOMAIN s, p \in Cell(Pen(x, y, s, k)) PROVE FALSE
    <3>1. k \in 1 .. n
      BY <1>1
    <3> DEFINE c == x + (k - 1) * FONTW
    <3>2. c \in Nat /\ c + FONTW <= XRES /\ p \in Cell(y * XRES + c)
      BY <1>4, <2>1, <3>1
    <3> HIDE DEF c
    <3>3. p \in Nat /\ y * XRES <= p /\ p < (y + FONTH) * XRES
      BY <3>2, CellInside
    <3>4. y * XRES \in Nat /\ (y + FONTH) * XRES \in Nat
      BY Sizes
    <3> QED
      BY <1>9, <3>3, <3>4
  <2> QED
    BY <1>6, <2>1
<1> QED
  BY <1>6, <1>7, <1>8, <1>9 DEF LineIn, n

-----------------------------------------------------------------------------
(* The lines of the logo. *)

EndsUpTo(e) == {k \in LogoEnds : k <= e}

(* The newlines up to a place.                                               *)
LEMMA EndIn ==
  ASSUME NEW e, NEW k
  PROVE  k \in EndsUpTo(e) <=> k \in LogoEnds /\ k <= e
BY Zenon DEF EndsUpTo

(* The newlines of the logo, of which the last character is one.             *)
LEMMA LogoFacts ==
  /\ Logo \in Seq(DOMAIN Glyph \cup {Newline}) /\ Len(Logo) \in Nat
  /\ DOMAIN Logo = 1 .. Len(Logo)
  /\ LogoEnds \subseteq 1 .. Len(Logo) /\ Len(Logo) \in LogoEnds
  /\ IsFiniteSet(LogoEnds) /\ LogoLines \in Nat
  /\ \A e : /\ EndsUpTo(e) \subseteq LogoEnds /\ IsFiniteSet(EndsUpTo(e))
            /\ Cardinality(EndsUpTo(e)) \in Nat
<1>1. /\ Logo \in Seq(DOMAIN Glyph \cup {Newline}) /\ Logo # <<>>
      /\ Logo[Len(Logo)] = Newline
  BY LayoutAssumption
<1>2. /\ Len(Logo) \in Nat /\ DOMAIN Logo = 1 .. Len(Logo)
      /\ Len(Logo) \in DOMAIN Logo
  BY <1>1
<1>3. LogoEnds \subseteq 1 .. Len(Logo) /\ Len(Logo) \in LogoEnds
  BY <1>1, <1>2 DEF LogoEnds
<1>4. IsFiniteSet(LogoEnds)
  <2>1. IsFiniteSet(1 .. Len(Logo))
    BY <1>2, FS_Interval
  <2> QED
    BY <1>3, <2>1, FS_Subset
<1>5. LogoLines \in Nat
  BY <1>4, FS_CardinalityType DEF LogoLines
<1>6. ASSUME NEW e
      PROVE  /\ EndsUpTo(e) \subseteq LogoEnds /\ IsFiniteSet(EndsUpTo(e))
             /\ Cardinality(EndsUpTo(e)) \in Nat
  <2>1. EndsUpTo(e) \subseteq LogoEnds
    BY DEF EndsUpTo
  <2>2. IsFiniteSet(EndsUpTo(e))
    BY <1>4, <2>1, FS_Subset
  <2> QED
    BY <2>1, <2>2, FS_CardinalityType
<1> QED
  BY <1>1, <1>2, <1>3, <1>4, <1>5, <1>6

(* Every line has an end. *)
LEMMA LineEndExists ==
  ASSUME NEW n \in 0 .. LogoLines
  PROVE  \E e \in {0} \cup LogoEnds : Cardinality(EndsUpTo(e)) = n
<1> DEFINE P == {m \in Nat : m <= LogoLines =>
                    \E e \in {0} \cup LogoEnds : Cardinality(EndsUpTo(e)) = m}
<1>1. 0 \in P
  <2>1. EndsUpTo(0) = {}
    <3>1. ASSUME NEW k \in EndsUpTo(0) PROVE FALSE
      <4>1. k \in LogoEnds /\ k <= 0
        BY EndIn
      <4>2. k \in 1 .. Len(Logo)
        BY <4>1, LogoFacts
      <4> QED
        BY <4>1, <4>2
    <3> QED
      BY <3>1
  <2>2. Cardinality(EndsUpTo(0)) = 0
    BY <2>1, FS_EmptySet
  <2> QED
    BY <2>2
<1>2. ASSUME NEW m \in Nat, m \in P PROVE m + 1 \in P
  <2> SUFFICES ASSUME m + 1 <= LogoLines
               PROVE  \E e \in {0} \cup LogoEnds :
                         Cardinality(EndsUpTo(e)) = m + 1
    OBVIOUS
  <2>1. PICK e \in {0} \cup LogoEnds : Cardinality(EndsUpTo(e)) = m
    BY <1>2, LogoFacts
  <2>2. e \in Nat /\ LogoEnds \subseteq Nat
    BY LogoFacts
  <2> DEFINE T == LogoEnds \ EndsUpTo(e)
  <2>3. T # {}
    <3>1. ASSUME T = {} PROVE FALSE
      <4>1. EndsUpTo(e) = LogoEnds
        BY <3>1, LogoFacts
      <4>2. m = LogoLines
        BY <2>1, <4>1 DEF LogoLines
      <4> QED
        BY <4>2
    <3> QED
      BY <3>1
  <2>4. PICK b \in T : \A k \in T : b <= k
    <3>1. T \subseteq Nat
      BY <2>2
    <3> HIDE DEF T
    <3> QED
      BY <2>3, <3>1, LeastNat
  <2>5. b \in LogoEnds /\ b \notin EndsUpTo(e)
    OBVIOUS
  <2>6. EndsUpTo(b) = EndsUpTo(e) \cup {b}
    <3>1. ASSUME NEW k \in LogoEnds, k <= b PROVE k <= e \/ k = b
      <4>1. CASE k \in T
        BY <2>2, <2>4, <2>5, <3>1, <4>1
      <4> QED
        BY <3>1, <4>1, EndIn
    <3>2. b > e
      <4>1. ~(b <= e)
        BY <2>5, EndIn
      <4> QED
        BY <2>2, <2>5, <4>1
    <3>3. ASSUME NEW k \in LogoEnds, k <= e PROVE k <= b
      BY <2>2, <2>5, <3>2, <3>3
    <3>4. b <= b
      BY <2>2, <2>5
    <3>5. ASSUME NEW k
          PROVE  k \in EndsUpTo(b) <=> k \in EndsUpTo(e) \/ k = b
      BY <2>5, <3>1, <3>3, <3>4, EndIn, Zenon
    <3> HIDE DEF T
    <3> QED
      BY <3>5
  <2>7. Cardinality(EndsUpTo(e) \cup {b}) = Cardinality(EndsUpTo(e)) + 1
    BY <2>5, LogoFacts, FS_AddElement
  <2> QED
    BY <2>1, <2>5, <2>6, <2>7
<1> HIDE DEF P
<1>3. Nat \subseteq P
  BY <1>1, <1>2, SetInduction
<1>4. n \in P /\ n <= LogoLines
  BY <1>3, LogoFacts
<1> QED
  BY <1>4 DEF P

(* LineEnd(n) is the end of line n.                                          *)
LEMMA LineEndFacts ==
  ASSUME NEW n \in 0 .. LogoLines
  PROVE  /\ LineEnd(n) \in {0} \cup LogoEnds /\ LineEnd(n) \in Nat
         /\ Cardinality(EndsUpTo(LineEnd(n))) = n
<1>1. \E e \in {0} \cup LogoEnds : Cardinality({k \in LogoEnds : k <= e}) = n
  BY LineEndExists DEF EndsUpTo
<1>2. /\ LineEnd(n) \in {0} \cup LogoEnds
      /\ Cardinality({k \in LogoEnds : k <= LineEnd(n)}) = n
  BY <1>1, Zenon DEF LineEnd
<1>3. Cardinality(EndsUpTo(LineEnd(n))) = n
  BY <1>2 DEF EndsUpTo
<1>4. LineEnd(n) \in Nat
  <2>1. LogoEnds \subseteq 1 .. Len(Logo)
    BY LogoFacts
  <2> DEFINE e == LineEnd(n)
             E == LogoEnds
             m == Len(Logo)
  <2>2. e \in {0} \cup E /\ E \subseteq 1 .. m
    BY <1>2, <2>1
  <2> HIDE DEF e, E, m
  <2>3. e \in Nat
    BY <2>2
  <2> QED
    BY <2>3 DEF e
<1> QED
  BY <1>2, <1>3, <1>4

(* Between the ends of two lines there is no other. *)
LEMMA NextLineEnd ==
  ASSUME NEW n \in 1 .. LogoLines
  PROVE  /\ LineEnd(n - 1) < LineEnd(n) /\ LineEnd(n) \in LogoEnds
         /\ \A j \in LogoEnds : j < LineEnd(n) => j <= LineEnd(n - 1)
<1> DEFINE a == LineEnd(n - 1)
           b == LineEnd(n)
<1>0. n \in Nat /\ n - 1 \in 0 .. LogoLines /\ n \in 0 .. LogoLines
  BY LogoFacts
<1>1. /\ a \in {0} \cup LogoEnds /\ a \in Nat
           /\ Cardinality(EndsUpTo(a)) = n - 1
      /\ b \in {0} \cup LogoEnds /\ b \in Nat /\ Cardinality(EndsUpTo(b)) = n
  BY <1>0, LineEndFacts
<1> HIDE DEF a, b
<1>2. LogoEnds \subseteq Nat
  BY LogoFacts
<1>3. ASSUME b <= a PROVE FALSE
  <2>1. ASSUME NEW k \in EndsUpTo(b) PROVE k \in EndsUpTo(a)
    <3>1. k \in LogoEnds /\ k <= b
      BY EndIn
    <3>2. k <= a
      BY <1>1, <1>2, <1>3, <3>1
    <3> QED
      BY <3>1, <3>2, EndIn
  <2>2. Cardinality(EndsUpTo(b)) <= Cardinality(EndsUpTo(a))
    BY <2>1, LogoFacts, FS_Subset
  <2> QED
    BY <1>0, <1>1, <2>2
<1>4. a < b /\ b \in LogoEnds
  BY <1>1, <1>3
<1>5. ASSUME NEW j \in LogoEnds, j < b, a < j PROVE FALSE
  <2>0. j \in Nat /\ j <= b /\ b <= b /\ ~(j <= a) /\ ~(b <= a) /\ b # j
    BY <1>1, <1>2, <1>4, <1>5
  <2>1. EndsUpTo(a) \cup {j} \cup {b} \subseteq EndsUpTo(b)
    <3>1. ASSUME NEW k \in EndsUpTo(a) PROVE k \in EndsUpTo(b)
      <4>1. k \in LogoEnds /\ k <= a
        BY EndIn
      <4>2. k <= b
        BY <1>1, <1>2, <1>4, <4>1
      <4> QED
        BY <4>1, <4>2, EndIn
    <3>2. j \in EndsUpTo(b) /\ b \in EndsUpTo(b)
      BY <1>4, <2>0, EndIn
    <3> QED
      BY <3>1, <3>2
  <2>2. j \notin EndsUpTo(a) /\ b \notin EndsUpTo(a) \cup {j}
    BY <2>0, EndIn
  <2>3. /\ IsFiniteSet(EndsUpTo(a) \cup {j})
        /\ Cardinality(EndsUpTo(a) \cup {j}) = n - 1 + 1
    BY <1>1, <2>2, LogoFacts, FS_AddElement
  <2>4. Cardinality(EndsUpTo(a) \cup {j} \cup {b}) = n - 1 + 1 + 1
    BY <2>2, <2>3, FS_AddElement
  <2>5. Cardinality(EndsUpTo(a) \cup {j} \cup {b}) <= Cardinality(EndsUpTo(b))
    BY <2>1, LogoFacts, FS_Subset
  <2> QED
    BY <1>0, <1>1, <2>4, <2>5
<1>6. ASSUME NEW j \in LogoEnds, j < b PROVE j <= a
  BY <1>1, <1>2, <1>5, <1>6
<1> QED
  BY <1>4, <1>6 DEF a, b

(* A character of a line is where the pen puts it. *)
LEMMA LogoLineFacts ==
  ASSUME NEW n \in 1 .. LogoLines
  PROVE  /\ LogoLine(n) \in Seq(DOMAIN Glyph)
         /\ \A k \in DOMAIN LogoLine(n) :
               /\ k \in Nat \ {0}
               /\ LineEnd(n - 1) + k \in DOMAIN Logo
               /\ Logo[LineEnd(n - 1) + k] # Newline
               /\ LogoLine(n)[k] = Logo[LineEnd(n - 1) + k]
               /\ Row(Logo, LineEnd(n - 1) + k) = n - 1
               /\ Column(Logo, LineEnd(n - 1) + k) = k - 1
<1> DEFINE a == LineEnd(n - 1)
           b == LineEnd(n)
           len == b - 1 - a
<1>0. n \in Nat /\ n - 1 \in 0 .. LogoLines /\ n \in 0 .. LogoLines
  BY LogoFacts
<1>1. /\ a \in {0} \cup LogoEnds /\ a \in Nat /\ b \in Nat
      /\ Cardinality(EndsUpTo(a)) = n - 1
  BY <1>0, LineEndFacts
<1>2. /\ a < b /\ b \in LogoEnds /\ \A j \in LogoEnds : j < b => j <= a
  BY NextLineEnd
<1> HIDE DEF a, b
<1>3. b \in 1 .. Len(Logo) /\ LogoEnds \subseteq 1 .. Len(Logo)
  BY <1>2, LogoFacts
<1>4. /\ LogoLine(n) = SubSeq(Logo, a + 1, b - 1)
      /\ Len(LogoLine(n)) = len /\ len \in Nat /\ DOMAIN LogoLine(n) = 1 .. len
      /\ \A k \in 1 .. len : LogoLine(n)[k] = Logo[a + k]
      /\ LogoLine(n) = [k \in 1 .. len |-> Logo[a + k]]
  <2>1. LogoLine(n) = SubSeq(Logo, a + 1, b - 1)
    BY DEF LogoLine, a, b
  <2>2. /\ Logo \in Seq(DOMAIN Glyph \cup {Newline}) /\ Len(Logo) \in Nat
        /\ a + 1 \in 1 .. Len(Logo) + 1 /\ b - 1 \in a .. Len(Logo)
    BY <1>1, <1>2, <1>3, LogoFacts
  <2>3. SubSeq(Logo, a + 1, b - 1) = [k \in 1 .. len |-> Logo[a + k]]
    <3>1. SubSeq(Logo, a + 1, b - 1)
            = [k \in 1 .. (1 + (b - 1) - (a + 1)) |-> Logo[a + 1 + k - 1]]
      BY SMTT(60), <2>2
    <3>2. 1 + (b - 1) - (a + 1) = len
      BY <1>1
    <3>3. ASSUME NEW k \in 1 .. len PROVE Logo[a + 1 + k - 1] = Logo[a + k]
      <4>1. a + 1 + k - 1 = a + k
        BY <1>1
      <4> QED
        BY <4>1
    <3> QED
      BY <3>1, <3>2, <3>3
  <2>4. len \in Nat
    BY <1>1, <1>2
  <2>5. Len([k \in 1 .. len |-> Logo[a + k]]) = len
    BY <2>4
  <2> HIDE DEF len
  <2> QED
    BY <2>1, <2>3, <2>4, <2>5
<1>5. ASSUME NEW k \in 1 .. len
      PROVE  /\ k \in Nat \ {0} /\ a + k \in 1 .. Len(Logo) /\ a + k < b
             /\ a + k \notin LogoEnds
  <2>1. /\ k \in Nat \ {0} /\ a + k \in 1 .. Len(Logo) /\ a + k < b
             /\ a + k > a
    BY <1>1, <1>2, <1>3, LogoFacts
  <2>2. a + k \notin LogoEnds
    BY <1>1, <1>2, <2>1
  <2> QED
    BY <2>1, <2>2
<1>6. ASSUME NEW k \in 1 .. len
      PROVE  Logo[a + k] # Newline /\ Logo[a + k] \in DOMAIN Glyph
  <2>1. Logo[a + k] # Newline
    BY <1>5, LogoFacts DEF LogoEnds
  <2>2. Logo[a + k] \in DOMAIN Glyph \cup {Newline}
    BY <1>5, LogoFacts
  <2> QED
    BY <2>1, <2>2
<1>7. ASSUME NEW k \in 1 .. len
      PROVE  Row(Logo, a + k) = n - 1 /\ Column(Logo, a + k) = k - 1
  <2> DEFINE q == a + k
  <2>1. Breaks(Logo, q) = EndsUpTo(a)
    <3>1. ASSUME NEW j \in Breaks(Logo, q) PROVE j \in EndsUpTo(a)
      <4>1. j \in 1 .. q - 1 /\ Logo[j] = Newline
        BY DEF Breaks
      <4>2. q \in 1 .. Len(Logo) /\ q < b
        BY <1>5
      <4> HIDE DEF q
      <4>3. j \in 1 .. Len(Logo) /\ j < b
        BY <4>1, <4>2, <1>1, LogoFacts
      <4>4. j \in LogoEnds
        BY <4>1, <4>3, LogoFacts DEF LogoEnds
      <4> QED
        BY <1>2, <4>3, <4>4 DEF EndsUpTo
    <3>2. ASSUME NEW j \in EndsUpTo(a) PROVE j \in Breaks(Logo, q)
      <4>1. j \in LogoEnds /\ j <= a /\ Logo[j] = Newline
        BY DEF EndsUpTo, LogoEnds
      <4>2. j \in Nat \ {0} /\ k \in Nat \ {0}
        BY <1>3, <1>5, <4>1
      <4>3. j \in 1 .. q - 1
        BY <1>1, <4>1, <4>2
      <4> QED
        BY <4>1, <4>3 DEF Breaks
    <3> QED
      BY <3>1, <3>2
  <2>2. Row(Logo, q) = n - 1
    BY <1>1, <2>1 DEF Row
  <2>3. q \in Nat \ {0} /\ k \in Nat \ {0}
    BY <1>5
  <2> HIDE DEF q
  <2>4. /\ LineStart(Logo, q) \in {0} \cup EndsUpTo(a)
        /\ \A j \in EndsUpTo(a) : j <= LineStart(Logo, q)
        /\ LineStart(Logo, q) \in Nat
        /\ Column(Logo, q) = q - 1 - LineStart(Logo, q)
    BY <2>1, <2>3, PenFacts
  <2>5. LineStart(Logo, q) <= a
    BY <1>1, <2>4 DEF EndsUpTo
  <2>6. a <= LineStart(Logo, q)
    <3>1. CASE a \in LogoEnds
      <4>1. a \in EndsUpTo(a)
        BY <1>1, <3>1 DEF EndsUpTo
      <4> QED
        BY <2>4, <4>1
    <3>2. CASE a = 0
      BY <2>4, <3>2
    <3> QED
      BY <1>1, <3>1, <3>2
  <2>7. LineStart(Logo, q) = a
    BY <1>1, <2>4, <2>5, <2>6
  <2>8. Column(Logo, q) = k - 1
    BY <1>1, <2>3, <2>4, <2>7 DEF q
  <2> QED
    BY <2>2, <2>8 DEF q
<1>8. LogoLine(n) \in Seq(DOMAIN Glyph)
  <2> DEFINE f == [k \in 1 .. len |-> Logo[a + k]]
  <2>1. \A k \in 1 .. len : Logo[a + k] \in DOMAIN Glyph
    BY <1>6
  <2>2. len \in Nat /\ LogoLine(n) = f
    BY <1>4
  <2> HIDE DEF len
  <2>3. f \in Seq(DOMAIN Glyph)
    BY <2>1, <2>2
  <2> QED
    BY <2>2, <2>3
<1> HIDE DEF len
<1>9. ASSUME NEW k \in DOMAIN LogoLine(n)
      PROVE  /\ k \in Nat \ {0} /\ a + k \in DOMAIN Logo
                  /\ Logo[a + k] # Newline
             /\ LogoLine(n)[k] = Logo[a + k]
             /\ Row(Logo, a + k) = n - 1 /\ Column(Logo, a + k) = k - 1
  <2>1. k \in 1 .. len
    BY <1>4
  <2> QED
    BY <1>4, <1>5, <1>6, <1>7, <2>1, LogoFacts
<1> QED
  BY <1>8, <1>9 DEF a

(* A character of the logo is within its lines. *)
LEMMA LogoRow ==
  ASSUME NEW k \in DOMAIN Logo, Logo[k] # Newline
  PROVE  Row(Logo, k) \in 0 .. LogoLines - 1
           /\ Column(Logo, k) \in 0 .. LogoWidth - 1
<1>1. k \in Nat \ {0} /\ k \in 1 .. Len(Logo) /\ Len(Logo) \in Nat
  BY LogoFacts
<1>2. Breaks(Logo, k) \subseteq LogoEnds
  BY <1>1, LogoFacts DEF Breaks, LogoEnds
<1>3. Len(Logo) \notin Breaks(Logo, k) /\ Len(Logo) \in LogoEnds
  BY <1>1, LogoFacts DEF Breaks
<1>4. Breaks(Logo, k) # LogoEnds
  BY <1>3
<1>5. Row(Logo, k) <= LogoLines /\ Row(Logo, k) # LogoLines
  BY <1>2, <1>4, LogoFacts, FS_Subset DEF Row, LogoLines
<1>6. Row(Logo, k) \in Nat /\ Column(Logo, k) \in Nat
  BY <1>1, PenFacts
<1>7. Column(Logo, k) < LogoWidth /\ LogoWidth \in Nat
  BY LayoutAssumption
<1> QED
  BY <1>5, <1>6, <1>7, LogoFacts

-----------------------------------------------------------------------------
(* The logo drawn. *)

(* The logo is centred: both ends of a line are within the screen. *)
LEMMA LogoPlace ==
  /\ LogoX \in Nat /\ LogoWidth \in Nat /\ LogoX + LogoWidth * FONTW <= XRES
<1> DEFINE w == LogoWidth * FONTW
<1>1. LogoWidth \in Nat /\ w \in Nat /\ w <= XRES /\ XRES \in Nat
  <2>1. LogoWidth \in Nat /\ w <= XRES
    BY LayoutAssumption
  <2> QED
    BY <2>1, Sizes
<1>2. LogoX = (XRES - w) \div 2
  BY DEF LogoX
<1> HIDE DEF w
<1>3. LogoX \in Nat /\ LogoX + w <= XRES
  BY <1>1, <1>2
<1> QED
  BY <1>1, <1>3 DEF w

(* A row of the logo lies in the rows of the logo. *)
LEMMA RowFits ==
  ASSUME NEW y \in Nat, NEW lines \in Nat, NEW m \in 0 .. lines - 1,
         NEW pitch \in Nat
  PROVE  /\ m * pitch \in Nat /\ y + m * pitch \in Nat
         /\ y + m * pitch + pitch <= y + lines * pitch
         /\ lines * pitch \in Nat
<1> DEFINE a == m * pitch
           b == lines * pitch
           c == (lines - 1 - m) * pitch
<1>1. m \in Nat /\ lines - 1 - m \in Nat
  OBVIOUS
<1>2. a \in Nat /\ b \in Nat /\ c \in Nat
  BY <1>1
<1>3. b = a + pitch + c
  <2>1. lines * pitch = (m + 1 + (lines - 1 - m)) * pitch
    BY <1>1
  <2> QED
    BY <1>1, <2>1
<1> HIDE DEF a, b, c
<1>4. y + a + pitch <= y + b
  BY <1>2, <1>3
<1> QED
  BY <1>2, <1>4 DEF a, b

(* A row above another begins before it.                                     *)
LEMMA RowsApart ==
  ASSUME NEW m \in Nat, NEW n \in Nat, m <= n
  PROVE  m * XRES <= n * XRES /\ m * XRES \in Nat /\ n * XRES \in Nat
<1>1. XRES \in Nat
  BY Sizes
<1>2. n * XRES = m * XRES + (n - m) * XRES /\ n - m \in Nat
  BY <1>1
<1>3. (n - m) * XRES \in Nat /\ m * XRES \in Nat
  BY <1>1, <1>2
<1> QED
  BY <1>2, <1>3

(* What draw_logo draws: every line of the logo, and nothing else. *)
LEMMA LogoDrawn ==
  ASSUME NEW frame \in [Words -> Colours], NEW y \in Nat,
         y + LogoLines * FONTH <= YRES, NEW g, g = draw_logo(frame, y)
  PROVE  /\ g \in [Words -> Colours] /\ ShowsLogo(g, y)
         /\ \A p \in Words : p < y * XRES => g[p] = frame[p]
         /\ \A p \in Words :
               (\A n \in 1 .. LogoLines, k \in 0 .. LogoWidth - 1 :
                   p \notin Cell((y + (n - 1) * FONTH) * XRES + LogoX
                     + k * FONTW))
               => g[p] = frame[p]
<1>1. ASSUME NEW k \in DOMAIN Logo, Logo[k] # Newline
      PROVE  /\ Row(Logo, k) \in 0 .. LogoLines - 1
             /\ Column(Logo, k) \in 0 .. LogoWidth - 1
             /\ y + Row(Logo, k) * FONTH \in Nat
             /\ y + Row(Logo, k) * FONTH + FONTH <= YRES
             /\ LogoX + Column(Logo, k) * FONTW \in Nat
             /\ LogoX + Column(Logo, k) * FONTW + FONTW <= XRES
  <2> DEFINE r == Row(Logo, k)
             c == Column(Logo, k)
  <2>1. r \in 0 .. LogoLines - 1 /\ c \in 0 .. LogoWidth - 1
    BY <1>1, LogoRow
  <2> HIDE DEF r, c
  <2>2. /\ y + r * FONTH \in Nat
        /\ y + r * FONTH + FONTH <= y + LogoLines * FONTH
        /\ LogoLines * FONTH \in Nat
    BY <2>1, RowFits, LogoFacts, Sizes
  <2>3. /\ LogoX + c * FONTW \in Nat
        /\ LogoX + c * FONTW + FONTW <= LogoX + LogoWidth * FONTW
        /\ LogoWidth * FONTW \in Nat
    BY <2>1, RowFits, LogoPlace, Sizes
  <2>4. y + r * FONTH + FONTH <= YRES
    <3> DEFINE a == r * FONTH
               b == LogoLines * FONTH
    <3>1. y + a \in Nat /\ y + a + FONTH <= y + b /\ b \in Nat /\ y + b <= YRES
      BY <2>2
    <3> HIDE DEF a, b
    <3>2. y + a + FONTH <= YRES
      BY <3>1, Sizes
    <3> QED
      BY <3>2 DEF a
  <2>5. LogoX + c * FONTW + FONTW <= XRES
    <3> DEFINE a == c * FONTW
               b == LogoWidth * FONTW
    <3>1. LogoX + a \in Nat /\ LogoX + a + FONTW <= LogoX + b /\ b \in Nat
          /\ LogoX + b <= XRES
      BY <2>3, LogoPlace
    <3> HIDE DEF a, b
    <3>2. LogoX + a + FONTW <= XRES
      BY <3>1, Sizes, LogoPlace
    <3> QED
      BY <3>2 DEF a
  <2> QED
    BY <2>1, <2>2, <2>3, <2>4, <2>5 DEF r, c
<1>2. Fits(LogoX, y, Logo)
  BY <1>1, LogoFacts DEF Fits
<1>3. Drawn(g, frame, LogoX, y, Logo, "green", "black")
  <2>1. "green" \in Colours /\ "black" \in Colours
    BY DEF Colours
  <2>2. g = draw_string(frame, LogoX, y, Logo, "green", "black")
    BY DEF draw_logo
  <2>3. LogoX \in Nat
    BY LogoPlace
  <2> HIDE DEF LogoX
  <2> QED
    BY <1>2, <2>1, <2>2, <2>3, StringDrawn
<1>4. /\ g \in [Words -> Colours]
      /\ \A k \in DOMAIN Logo : Logo[k] # Newline =>
            \A p \in Cell(Pen(LogoX, y, Logo, k)) :
               g[p] = IF p \in Lit(Logo[k], Pen(LogoX, y, Logo, k))
                      THEN "green" ELSE "black"
      /\ \A p \in Words :
            (\A k \in DOMAIN Logo : Logo[k] # Newline =>
                p \notin Cell(Pen(LogoX, y, Logo, k))) => g[p] = frame[p]
  BY <1>3, Zenon DEF Drawn
<1>5. ASSUME NEW k \in DOMAIN Logo
      PROVE  /\ Pen(LogoX, y, Logo, k) = (y + Row(Logo, k) * FONTH) * XRES
                    + (LogoX + Column(Logo, k) * FONTW)
             /\ Pen(LogoX, y, Logo, k) = (y + Row(Logo, k) * FONTH) * XRES
                    + LogoX + Column(Logo, k) * FONTW
  <2>1. k \in Nat \ {0} /\ LogoX \in Nat
    BY LogoFacts, LogoPlace
  <2>2. Pen(LogoX, y, Logo, k) = (y + Row(Logo, k) * FONTH) * XRES
                    + LogoX + Column(Logo, k) * FONTW
    BY DEF Pen, Row
  <2> QED
    BY <2>1, <2>2, PenPlace
<1>6. ASSUME NEW n \in 1 .. LogoLines
      PROVE  Shows(g, LogoX, y + (n - 1) * FONTH, LogoLine(n),
                   "green", "black")
  <2> DEFINE s == LogoLine(n)
             a == LineEnd(n - 1)
             yy == y + (n - 1) * FONTH
  <2>1. /\ s \in Seq(DOMAIN Glyph)
        /\ \A k \in DOMAIN s :
               /\ k \in Nat \ {0} /\ a + k \in DOMAIN Logo
               /\ Logo[a + k] # Newline /\ s[k] = Logo[a + k]
               /\ Row(Logo, a + k) = n - 1 /\ Column(Logo, a + k) = k - 1
    BY LogoLineFacts
  <2> HIDE DEF s, a
  <2>2. yy + FONTH <= YRES
    <3>1. n - 1 \in 0 .. LogoLines - 1
      BY LogoFacts
    <3>2. /\ yy \in Nat /\ yy + FONTH <= y + LogoLines * FONTH
          /\ LogoLines * FONTH \in Nat
      BY <3>1, RowFits, LogoFacts, Sizes
    <3> DEFINE b == LogoLines * FONTH
    <3>3. yy \in Nat /\ yy + FONTH <= y + b /\ y + b <= YRES /\ b \in Nat
      BY <3>2
    <3> HIDE DEF yy, b
    <3> QED
      BY <3>3, Sizes
  <2>3. LogoX + Len(s) * FONTW <= XRES
    <3> DEFINE m == Len(s)
    <3>1. m \in Nat /\ DOMAIN s = 1 .. m
      BY <2>1
    <3> HIDE DEF m
    <3>2. CASE m = 0
      <4>1. m * FONTW = 0
        BY <3>2, Sizes
      <4>2. LogoX + 0 <= XRES
        <5>1. LogoWidth * FONTW \in Nat
          BY LogoPlace, Sizes
        <5> DEFINE w == LogoWidth * FONTW
        <5>2. w \in Nat /\ LogoX + w <= XRES /\ LogoX \in Nat
          BY <5>1, LogoPlace
        <5> HIDE DEF w
        <5> QED
          BY <5>2, Sizes
      <4> QED
        BY <4>1, <4>2 DEF m
    <3>3. CASE m # 0
      <4>1. m \in DOMAIN s
        BY <3>1, <3>3
      <4>2. /\ a + m \in DOMAIN Logo /\ Logo[a + m] # Newline
            /\ Column(Logo, a + m) = m - 1
        BY <2>1, <4>1
      <4>3. LogoX + (m - 1) * FONTW + FONTW <= XRES
        BY <1>1, <4>2
      <4>4. (m - 1) * FONTW + FONTW = m * FONTW /\ (m - 1) * FONTW \in Int
        BY <3>1, Sizes
      <4>5. LogoX + m * FONTW <= XRES
        BY <4>3, <4>4, LogoPlace, Sizes
      <4> QED
        BY <4>5 DEF m
    <3> QED
      BY <3>2, <3>3
  <2>4. \A k \in DOMAIN s :
           LET first == yy * XRES + LogoX + (k - 1) * FONTW
               lit == {first + l[1] * XRES + l[2] : l \in Glyph[s[k]]}
           IN  \A p \in Cell(first) :
                  g[p] = IF p \in lit THEN "green" ELSE "black"
    <3> SUFFICES ASSUME NEW k \in DOMAIN s,
                        NEW p \in Cell(yy * XRES + LogoX + (k - 1) * FONTW)
                 PROVE  g[p] = IF p \in Lit(s[k],
                          yy * XRES + LogoX + (k - 1) * FONTW)
                               THEN "green" ELSE "black"
      BY Zenon DEF Lit
    <3>1. /\ a + k \in DOMAIN Logo /\ Logo[a + k] # Newline
          /\ s[k] = Logo[a + k]
          /\ Row(Logo, a + k) = n - 1 /\ Column(Logo, a + k) = k - 1
      BY <2>1
    <3>2. Pen(LogoX, y, Logo, a + k) = yy * XRES + LogoX + (k - 1) * FONTW
      BY <1>5, <3>1
    <3> QED
      BY <1>4, <3>1, <3>2, Zenon
  <2> QED
    BY <2>2, <2>3, <2>4, Zenon DEF Shows, s
<1>7. ASSUME NEW p \in Words, p < y * XRES PROVE g[p] = frame[p]
  <2>1. ASSUME NEW k \in DOMAIN Logo, Logo[k] # Newline,
               p \in Cell(Pen(LogoX, y, Logo, k))
        PROVE  FALSE
    <3> DEFINE r == y + Row(Logo, k) * FONTH
               c == LogoX + Column(Logo, k) * FONTW
    <3>1. r \in Nat /\ c \in Nat /\ c + FONTW <= XRES
            /\ p \in Cell(r * XRES + c)
      BY <1>1, <1>5, <2>1
    <3>2. y <= r
      <4> DEFINE t == Row(Logo, k) * FONTH
      <4>1. t \in Nat
        BY <1>1, <2>1, Sizes
      <4>2. r = y + t
        OBVIOUS
      <4> HIDE DEF t, r
      <4> QED
        BY <4>1, <4>2
    <3> HIDE DEF r, c
    <3>3. p \in Nat /\ r * XRES <= p
      BY <3>1, CellInside
    <3>4. y * XRES <= r * XRES /\ y * XRES \in Nat /\ r * XRES \in Nat
      BY <3>1, <3>2, RowsApart
    <3> QED
      BY <1>7, <3>3, <3>4
  <2> QED
    BY <1>4, <2>1
<1>8. ASSUME NEW p \in Words,
             \A n \in 1 .. LogoLines, k \in 0 .. LogoWidth - 1 :
                 p \notin Cell((y + (n - 1) * FONTH) * XRES + LogoX
                   + k * FONTW)
      PROVE  g[p] = frame[p]
  <2>1. ASSUME NEW k \in DOMAIN Logo, Logo[k] # Newline
        PROVE  p \notin Cell(Pen(LogoX, y, Logo, k))
    <3> DEFINE n == Row(Logo, k) + 1
               c == Column(Logo, k)
    <3>1. n \in 1 .. LogoLines /\ n - 1 = Row(Logo, k)
            /\ c \in 0 .. LogoWidth - 1
      BY <1>1, <2>1, LogoFacts
    <3> HIDE DEF n, c
    <3>2. p \notin Cell((y + (n - 1) * FONTH) * XRES + LogoX + c * FONTW)
      BY <1>8, <3>1
    <3>3. Pen(LogoX, y, Logo, k)
            = (y + (n - 1) * FONTH) * XRES + LogoX + c * FONTW
      BY <1>5, <3>1 DEF c
    <3> QED
      BY <3>2, <3>3
  <2> QED
    BY <1>4, <2>1
<1>9. ShowsLogo(g, y)
  BY <1>6 DEF ShowsLogo
<1> QED
  BY <1>4, <1>7, <1>8, <1>9

-----------------------------------------------------------------------------
(* The menu drawn. *)

\* A title as the menu shows it: the selected one on a bright ground.
TitleShown(f, n, sel) ==
    IF n - 1 = sel
    THEN Shows(f, MenuX, MenuY + (n - 1) * MenuPitch, Titles[n],
               "black", "white")
    ELSE Shows(f, MenuX, MenuY + (n - 1) * MenuPitch, Titles[n],
               "white", "black")
TitleCell(n, k) ==
    Cell((MenuY + (n - 1) * MenuPitch) * XRES + MenuX + k * FONTW)
\* The words no title covers.
OffTitles(p) ==
    \A n \in DOMAIN Titles :
        \A k \in 0 .. Len(Titles[n]) - 1 : p \notin TitleCell(n, k)

(* Every title is within the screen, the first at MenuY.                     *)
LEMMA TitlePlace ==
  /\ Titles \in Seq(Seq(DOMAIN Glyph)) /\ Len(Titles) \in Nat
  /\ DOMAIN Titles = 1 .. Len(Titles)
  /\ \A n \in DOMAIN Titles :
        /\ Titles[n] \in Seq(DOMAIN Glyph) /\ n \in Nat \ {0}
        /\ MenuX + Len(Titles[n]) * FONTW <= XRES
        /\ MenuY + (n - 1) * MenuPitch \in Nat
        /\ MenuY <= MenuY + (n - 1) * MenuPitch
        /\ MenuY + (n - 1) * MenuPitch + FONTH <= YRES
<1>1. /\ Titles \in Seq(Seq(DOMAIN Glyph)) /\ FONTH <= MenuPitch
      /\ \A n \in DOMAIN Titles : MenuX + Len(Titles[n]) * FONTW <= XRES
  BY LayoutAssumption
<1>2. Len(Titles) \in Nat /\ DOMAIN Titles = 1 .. Len(Titles)
  BY <1>1
<1>3. ASSUME NEW n \in 1 .. Len(Titles)
      PROVE  /\ MenuY + (n - 1) * MenuPitch \in Nat
             /\ MenuY <= MenuY + (n - 1) * MenuPitch
             /\ MenuY + (n - 1) * MenuPitch + FONTH <= YRES
  <2> DEFINE N == Len(Titles)
             a == (n - 1) * MenuPitch
             b == (N - 1) * MenuPitch
             c == (N - n) * MenuPitch
  <2>1. MenuY + b + FONTH <= YRES
    BY LayoutAssumption
  <2>2. N \in Nat /\ n \in 1 .. N
    BY <1>2
  <2> HIDE DEF N
  <2>3. n - 1 \in Nat /\ N - n \in Nat /\ N - 1 \in Nat
    BY <2>2
  <2>4. a \in Nat /\ b \in Nat /\ c \in Nat
    BY <2>3, Sizes
  <2>5. b = a + c
    <3>1. (N - 1) * MenuPitch = ((n - 1) + (N - n)) * MenuPitch
      BY <2>2
    <3> QED
      BY <2>3, <3>1, Sizes
  <2> HIDE DEF a, b, c
  <2>6. MenuY + a \in Nat /\ MenuY <= MenuY + a /\ MenuY + a + FONTH <= YRES
    BY <2>1, <2>4, <2>5, Sizes
  <2> QED
    BY <2>6 DEF a
<1>4. \A n \in DOMAIN Titles : Titles[n] \in Seq(DOMAIN Glyph)
        /\ n \in Nat \ {0}
  BY <1>1, <1>2
<1> QED
  BY <1>1, <1>2, <1>3, <1>4

(* What Entry draws: its title. *)
LEMMA EntryDrawn ==
  ASSUME NEW frame \in [Words -> Colours], NEW n \in DOMAIN Titles, NEW sel,
         NEW g, g = Entry(frame, n, sel)
  PROVE  /\ g \in [Words -> Colours] /\ TitleShown(g, n, sel)
         /\ \A p \in Words : OffTitles(p) => g[p] = frame[p]
         /\ \A p \in Words :
               \/ p < (MenuY + (n - 1) * MenuPitch) * XRES
               \/ p >= (MenuY + (n - 1) * MenuPitch + FONTH) * XRES
               => g[p] = frame[p]
<1> DEFINE y == MenuY + (n - 1) * MenuPitch
           s == Titles[n]
<1>1. /\ s \in Seq(DOMAIN Glyph) /\ MenuX + Len(s) * FONTW <= XRES
      /\ y \in Nat /\ y + FONTH <= YRES /\ MenuX \in Nat
  BY TitlePlace, Sizes
<1>2. "black" \in Colours /\ "white" \in Colours
  BY DEF Colours
<1>3. \A p \in Words : OffTitles(p) =>
         \A k \in 0 .. Len(s) - 1 : p \notin Cell(y * XRES + MenuX + k * FONTW)
  BY DEF OffTitles, TitleCell
<1>4. ASSUME NEW fg \in Colours, NEW bg \in Colours,
             g = draw_string(frame, MenuX, y, s, fg, bg)
      PROVE  /\ g \in [Words -> Colours] /\ Shows(g, MenuX, y, s, fg, bg)
             /\ \A p \in Words : OffTitles(p) => g[p] = frame[p]
             /\ \A p \in Words :
                   p < y * XRES \/ p >= (y + FONTH) * XRES => g[p] = frame[p]
  <2> HIDE DEF y, s
  <2>1. LineIn(g, frame, MenuX, y, s, fg, bg)
    BY <1>1, <1>4, LineDrawn
  <2> QED
    BY <1>3, <2>1, Zenon DEF LineIn
<1>5. CASE n - 1 = sel
  <2>1. g = draw_string(frame, MenuX, y, s, "black", "white")
    BY <1>5 DEF Entry
  <2>2. TitleShown(g, n, sel) <=> Shows(g, MenuX, y, s, "black", "white")
    BY <1>5, Zenon DEF TitleShown
  <2> HIDE DEF y, s
  <2>3. /\ g \in [Words -> Colours] /\ Shows(g, MenuX, y, s, "black", "white")
        /\ \A p \in Words : OffTitles(p) => g[p] = frame[p]
        /\ \A p \in Words :
              p < y * XRES \/ p >= (y + FONTH) * XRES => g[p] = frame[p]
    BY <1>2, <1>4, <2>1
  <2> QED
    BY <2>2, <2>3, Zenon DEF y
<1>6. CASE n - 1 # sel
  <2>1. g = draw_string(frame, MenuX, y, s, "white", "black")
    BY <1>6 DEF Entry
  <2>2. TitleShown(g, n, sel) <=> Shows(g, MenuX, y, s, "white", "black")
    BY <1>6, Zenon DEF TitleShown
  <2> HIDE DEF y, s
  <2>3. /\ g \in [Words -> Colours] /\ Shows(g, MenuX, y, s, "white", "black")
        /\ \A p \in Words : OffTitles(p) => g[p] = frame[p]
        /\ \A p \in Words :
              p < y * XRES \/ p >= (y + FONTH) * XRES => g[p] = frame[p]
    BY <1>2, <1>4, <2>1
  <2> QED
    BY <2>2, <2>3, Zenon DEF y
<1> QED
  BY <1>5, <1>6

(* A later entry is drawn below an earlier one. *)
LEMMA EntryBelow ==
  ASSUME NEW m \in DOMAIN Titles, NEW n \in DOMAIN Titles, m < n, NEW sel,
         NEW f \in [Words -> Colours], TitleShown(f, m, sel),
         NEW g, g = Entry(f, n, sel)
  PROVE  TitleShown(g, m, sel)
<1> DEFINE y == MenuY + (m - 1) * MenuPitch
           z == MenuY + (n - 1) * MenuPitch
           s == Titles[m]
<1>1. /\ s \in Seq(DOMAIN Glyph) /\ y \in Nat /\ z \in Nat /\ MenuX \in Nat
      /\ m \in Nat \ {0} /\ n \in Nat \ {0}
  BY TitlePlace, Sizes
<1>2. y + FONTH <= z
  <2> DEFINE a == (m - 1) * MenuPitch
             b == (n - 1) * MenuPitch
             c == (n - m - 1) * MenuPitch
  <2>1. m - 1 \in Nat /\ n - m - 1 \in Nat /\ n - 1 \in Nat
    BY <1>1
  <2>2. a \in Nat /\ b \in Nat /\ c \in Nat
    BY <2>1, Sizes
  <2>3. b = a + MenuPitch + c
    <3>1. (n - 1) * MenuPitch = ((m - 1) + 1 + (n - m - 1)) * MenuPitch
      BY <1>1
    <3> QED
      BY <2>1, <3>1, Sizes
  <2>4. FONTH <= MenuPitch
    BY LayoutAssumption
  <2> HIDE DEF a, b, c
  <2>5. MenuY + a + FONTH <= MenuY + b
    BY <2>2, <2>3, <2>4, Sizes
  <2> QED
    BY <2>5 DEF a, b
<1>3. \A p \in Words : p < z * XRES => g[p] = f[p]
  BY EntryDrawn
<1>4. \A fg, bg : Shows(f, MenuX, y, s, fg, bg)
        => Shows(g, MenuX, y, s, fg, bg)
  <2> SUFFICES ASSUME NEW fg, NEW bg, Shows(f, MenuX, y, s, fg, bg)
               PROVE  Shows(g, MenuX, y, s, fg, bg)
    OBVIOUS
  <2> HIDE DEF y, z, s
  <2>1. ASSUME NEW p \in Words, y * XRES <= p /\ p < (y + FONTH) * XRES
        PROVE  g[p] = f[p]
    <3>1. /\ (y + FONTH) * XRES <= z * XRES
          /\ (y + FONTH) * XRES \in Nat /\ z * XRES \in Nat
      <4>1. y + FONTH \in Nat
        BY <1>1, Sizes
      <4> QED
        BY <1>1, <1>2, <4>1, RowsApart
    <3>2. p < z * XRES
      BY <2>1, <3>1, Sizes DEF Words
    <3> QED
      BY <1>3, <3>2
  <2> QED
    BY <1>1, <2>1, ShowsKept
<1> QED
  BY <1>4, Zenon DEF TitleShown

(* What draw_menu draws: every title, and nothing else. *)
LEMMA MenuDrawn ==
  ASSUME NEW frame \in [Words -> Colours], NEW sel,
         NEW g, g = draw_menu(frame, sel)
  PROVE  /\ g \in [Words -> Colours]
         /\ \A n \in DOMAIN Titles : TitleShown(g, n, sel)
         /\ \A p \in Words : p < MenuY * XRES \/ OffTitles(p)
              => g[p] = frame[p]
<1> DEFINE N == Len(Titles)
           Frames == [Words -> Colours]
           Step(h) == [n \in 0 .. N |-> IF n = 0 THEN frame
                                         ELSE Entry(h[n - 1], n, sel)]
           Correct(h, m) == \A n \in 0 .. m :
               h[n] = IF n = 0 THEN frame ELSE Entry(h[n - 1], n, sel)
<1>1. N \in Nat /\ DOMAIN Titles = 1 .. N
  BY TitlePlace
<1> HIDE DEF N
<1>2. ASSUME NEW f \in Frames, NEW n \in 1 .. N
      PROVE  Entry(f, n, sel) \in Frames
  BY <1>1, EntryDrawn
<1>3. \E h \in [0 .. N -> Frames] : Correct(h, N)
  <2> DEFINE P == {m \in Nat : m <= N =>
                      \E h \in [0 .. m -> Frames] : Correct(h, m)}
  <2>1. 0 \in P
    <3> DEFINE h == [n \in 0 .. 0 |-> frame]
    <3>1. h \in [0 .. 0 -> Frames] /\ Correct(h, 0)
      OBVIOUS
    <3> QED
      BY <3>1, Zenon
  <2>2. ASSUME NEW m \in Nat, m \in P PROVE m + 1 \in P
    <3> SUFFICES ASSUME m + 1 <= N
                 PROVE  \E h \in [0 .. m + 1 -> Frames] : Correct(h, m + 1)
      OBVIOUS
    <3>1. PICK e \in [0 .. m -> Frames] : Correct(e, m)
      BY <1>1, <2>2
    <3> DEFINE h == [n \in 0 .. m + 1 |->
                        IF n <= m THEN e[n] ELSE Entry(e[m], m + 1, sel)]
    <3>2. e[m] \in Frames /\ m + 1 \in 1 .. N
      <4> HIDE DEF Frames
      <4> QED
        BY <1>1
    <3>3. Entry(e[m], m + 1, sel) \in Frames
      <4> HIDE DEF Frames
      <4> QED
        BY <1>2, <3>2
    <3>4. h \in [0 .. m + 1 -> Frames]
      <4> HIDE DEF Frames
      <4> QED
        BY <3>3
    <3>5. ASSUME NEW n \in 0 .. m + 1
          PROVE  h[n] = IF n = 0 THEN frame ELSE Entry(h[n - 1], n, sel)
      <4> HIDE DEF Frames
      <4>1. CASE n <= m
        <5>1. n \in 0 .. m
          BY <4>1
        <5>2. e[n] = IF n = 0 THEN frame ELSE Entry(e[n - 1], n, sel)
          BY <3>1, <5>1, Zenon
        <5>3. n # 0 => h[n - 1] = e[n - 1]
          BY <4>1
        <5>4. h[n] = e[n]
          BY <4>1
        <5> HIDE DEF h
        <5> QED
          BY <5>2, <5>3, <5>4
      <4>2. CASE ~(n <= m)
        <5>1. n = m + 1 /\ n # 0 /\ n - 1 = m
          BY <4>2
        <5>2. h[n] = Entry(e[m], m + 1, sel)
          BY <4>2
        <5>3. h[m] = e[m]
          OBVIOUS
        <5> HIDE DEF h
        <5> QED
          BY <5>1, <5>2, <5>3
      <4> QED
        BY <4>1, <4>2
    <3> HIDE DEF h, Frames
    <3> QED
      BY <3>4, <3>5
  <2> HIDE DEF P
  <2>3. Nat \subseteq P
    BY <2>1, <2>2, SetInduction
  <2>4. N \in P
    BY <1>1, <2>3
  <2> QED
    BY <1>1, <2>4 DEF P
<1> DEFINE D == CHOOSE h : h = Step(h)
<1>4. D = Step(D)
  <2>1. PICK h \in [0 .. N -> Frames] : Correct(h, N)
    BY <1>3
  <2>2. h = Step(h)
    <3>1. h = [n \in 0 .. N |-> h[n]]
      <4> HIDE DEF Frames
      <4> QED
        OBVIOUS
    <3>2. \A n \in 0 .. N :
             h[n] = IF n = 0 THEN frame
                    ELSE Entry(h[n - 1], n, sel)
      BY <2>1
    <3> QED
      BY <3>1, <3>2, Zenon
  <2> QED
    BY <2>2, Zenon
<1>5. g = D[N]
  BY Zenon DEF draw_menu, N
<1>6. \A n \in 0 .. N : D[n] = IF n = 0 THEN frame ELSE Entry(D[n - 1], n, sel)
  <2> DEFINE E == D
  <2>1. E = [n \in 0 .. N |-> IF n = 0 THEN frame ELSE Entry(E[n - 1], n, sel)]
    BY <1>4
  <2> HIDE DEF E
  <2>2. \A n \in 0 .. N :
           E[n] = IF n = 0 THEN frame
                  ELSE Entry(E[n - 1], n, sel)
    BY <2>1
  <2> QED
    BY <2>2 DEF E
<1> HIDE DEF D
<1> DEFINE Good(f, m) ==
             /\ f \in Frames
             /\ \A n \in 1 .. m : TitleShown(f, n, sel)
             /\ \A p \in Words : p < MenuY * XRES \/ OffTitles(p)
                  => f[p] = frame[p]
           Q == {m \in Nat : m <= N => Good(D[m], m)}
<1>7. 0 \in Q
  <2>1. D[0] = frame
    BY <1>1, <1>6
  <2>2. 1 .. 0 = {}
    OBVIOUS
  <2>3. Good(frame, 0)
    BY <2>2
  <2> QED
    BY <2>1, <2>3
<1>8. ASSUME NEW m \in Nat, m \in Q PROVE m + 1 \in Q
  <2> SUFFICES ASSUME m + 1 <= N PROVE Good(D[m + 1], m + 1)
    OBVIOUS
  <2>1. Good(D[m], m)
    BY <1>1, <1>8
  <2>2. D[m + 1] = Entry(D[m], m + 1, sel)
    <3>1. m + 1 \in 0 .. N /\ m + 1 # 0 /\ m + 1 - 1 = m
      BY <1>1
    <3>2. D[m + 1] = Entry(D[m + 1 - 1], m + 1, sel)
      BY <1>6, <3>1
    <3> QED
      BY <3>1, <3>2
  <2> DEFINE f == D[m]
             h == D[m + 1]
             k == m + 1
  <2>3. k \in DOMAIN Titles /\ k \in Nat /\ f \in [Words -> Colours]
    BY <1>1, <2>1
  <2>4. h = Entry(f, k, sel)
    BY <2>2
  <2>5. \A n \in 1 .. m : TitleShown(f, n, sel)
    BY <2>1
  <2>6. \A p \in Words : p < MenuY * XRES \/ OffTitles(p) => f[p] = frame[p]
    BY <2>1
  <2>7. \A n \in 1 .. k : n \in 1 .. m \/ n = k
    OBVIOUS
  <2>8. \A n \in 1 .. m : n < k /\ n \in DOMAIN Titles
    BY <1>1
  <2> HIDE DEF f, h, k
  <2>9. /\ h \in [Words -> Colours] /\ TitleShown(h, k, sel)
        /\ \A p \in Words : OffTitles(p) => h[p] = f[p]
        /\ \A p \in Words :
               \/ p < (MenuY + (k - 1) * MenuPitch) * XRES
               \/ p >= (MenuY + (k - 1) * MenuPitch + FONTH) * XRES
               => h[p] = f[p]
    BY <2>3, <2>4, EntryDrawn
  <2>10. ASSUME NEW n \in 1 .. m PROVE TitleShown(h, n, sel)
    BY <2>3, <2>4, <2>5, <2>8, EntryBelow
  <2>11. ASSUME NEW p \in Words, p < MenuY * XRES PROVE h[p] = f[p]
    <3> DEFINE z == MenuY + (k - 1) * MenuPitch
    <3>1. z \in Nat /\ MenuY <= z /\ MenuY \in Nat
      BY <2>3, TitlePlace, Sizes
    <3>2. p < z * XRES => h[p] = f[p]
      BY <2>9
    <3> HIDE DEF z
    <3>3. MenuY * XRES <= z * XRES /\ MenuY * XRES \in Nat /\ z * XRES \in Nat
      BY <3>1, RowsApart
    <3>4. p \in Int
      BY Sizes DEF Words
    <3> QED
      BY <2>11, <3>2, <3>3, <3>4
  <2>12. \A n \in 1 .. k : TitleShown(h, n, sel)
    BY <2>7, <2>9, <2>10
  <2>13. \A p \in Words : p < MenuY * XRES \/ OffTitles(p) => h[p] = frame[p]
    BY <2>6, <2>9, <2>11
  <2>14. Good(h, k)
    BY <2>9, <2>12, <2>13
  <2> QED
    BY <2>14 DEF h, k
<1>9. Nat \subseteq Q
  <2> HIDE DEF Q
  <2> QED
    BY <1>7, <1>8, SetInduction
<1>10. Good(D[N], N)
  BY <1>1, <1>9
<1> QED
  BY <1>1, <1>5, <1>10

-----------------------------------------------------------------------------
(* The screen at each step. *)

MenuOn(f, sel) == \A n \in DOMAIN Titles : TitleShown(f, n, sel)
\* The words no line of the logo covers.
OffLogo(p) ==
    \A n \in 1 .. LogoLines, k \in 0 .. LogoWidth - 1 :
        p \notin Cell((LogoY + (n - 1) * FONTH) * XRES + LogoX + k * FONTW)
Alone(f) == \A p \in Words : OffTitles(p) /\ OffLogo(p) => f[p] = "black"
Readable(f, l) ==
    \A n \in DOMAIN l : Shows(f, ConX, l[n][2], l[n][1], "white", "black")

\* What the console has printed is above the line it is on.
Above(l, y) == \A n \in DOMAIN l : l[n][2] + FONTH <= y

\* What is on the screen while the program is at each of its places.
Screened ==
    /\ fb \in [Words -> Colours]
    /\ pc \in MenuPcs => /\ MenuOn(fb, shown) /\ ShowsLogo(fb, LogoY)
                         /\ Alone(fb) /\ log = <<>>
    /\ pc \in {"autoboot", "settle"} =>
          ShowsLogo(fb, PromptLogoY) /\ cur_y = ConY + ConPitch
    /\ cur_y \in Nat /\ cur_y <= ConY + (Len(log) + 1) * ConPitch
    /\ log \in Seq(({Prompt} \cup Messages) \X Nat)
    /\ Above(log, cur_y) /\ Readable(fb, log)

(* The frames drawn on are frames. *)
LEMMA FramesAre ==
  clear_fb \in [Words -> Colours] /\ copy_uboot_logo \in [Words -> Colours]
BY DEF clear_fb, copy_uboot_logo, Colours

(* Every message and both logos are within the screen.                       *)
LEMMA ConsolePlace ==
  /\ \A text \in {Prompt} \cup Messages :
        text \in Seq(DOMAIN Glyph) /\ ConX + Len(text) * FONTW <= XRES
  /\ FONTH <= ConPitch /\ MaxMessages \in Nat
  /\ ConY + MaxMessages * ConPitch + FONTH <= YRES
  /\ LogoY + LogoLines * FONTH <= MenuY /\ MenuY <= YRES
  /\ ConY + FONTH <= PromptLogoY /\ PromptLogoY + LogoLines * FONTH <= YRES
  /\ PromptLogoY <= YRES
<1>1. /\ \A text \in {Prompt} \cup Messages :
            text \in Seq(DOMAIN Glyph) /\ ConX + Len(text) * FONTW <= XRES
      /\ FONTH <= ConPitch
      /\ ConY + MaxMessages * ConPitch + FONTH <= YRES
      /\ LogoY + LogoLines * FONTH <= MenuY
      /\ ConY + FONTH <= PromptLogoY /\ PromptLogoY + LogoLines * FONTH <= YRES
  BY LayoutAssumption
<1>2. MaxMessages \in Nat
  BY MenuScreenAssumption
<1>3. PromptLogoY <= YRES
  <2> DEFINE a == LogoLines * FONTH
  <2>1. a \in Nat
    BY LogoFacts, Sizes
  <2>2. PromptLogoY + a <= YRES
    BY <1>1
  <2> HIDE DEF a
  <2> QED
    BY <2>1, <2>2, Sizes
<1>4. MenuY <= YRES
  <2>1. Len(Titles) \in Nat \ {0}
    <3>1. Len(Titles) = Len(Options) /\ Options # <<>>
            /\ Options \in Seq(Commands)
      BY MenuScreenAssumption, MenuAssumption
    <3> QED
      BY <3>1
  <2>2. 1 \in DOMAIN Titles
    BY <2>1, TitlePlace
  <2>3. MenuY + (1 - 1) * MenuPitch + FONTH <= YRES
    BY <2>2, TitlePlace
  <2>4. (1 - 1) * MenuPitch = 0
    BY Sizes
  <2> QED
    BY <2>3, <2>4, Sizes
<1> QED
  BY <1>1, <1>2, <1>3, <1>4

(* The logo above is not touched by the menu drawn again. *)
LEMMA LogoKept ==
  ASSUME NEW f, NEW g, NEW y \in Nat, NEW z \in Nat,
         y + LogoLines * FONTH <= z,
         ShowsLogo(f, y), \A p \in Words : p < z * XRES => g[p] = f[p]
  PROVE  ShowsLogo(g, y)
<1> SUFFICES ASSUME NEW n \in 1 .. LogoLines
             PROVE  Shows(g, LogoX, y + (n - 1) * FONTH, LogoLine(n),
                          "green", "black")
  BY DEF ShowsLogo
<1> DEFINE r == y + (n - 1) * FONTH
<1>1. Shows(f, LogoX, r, LogoLine(n), "green", "black")
  BY DEF ShowsLogo
<1>2. r \in Nat /\ r + FONTH <= z
  <2>1. n - 1 \in 0 .. LogoLines - 1
    BY LogoFacts
  <2>2. /\ r \in Nat /\ r + FONTH <= y + LogoLines * FONTH
        /\ LogoLines * FONTH \in Nat
    BY <2>1, RowFits, LogoFacts, Sizes
  <2> DEFINE b == LogoLines * FONTH
  <2>3. r \in Nat /\ r + FONTH <= y + b /\ b \in Nat /\ y + b <= z
    BY <2>2
  <2> HIDE DEF r, b
  <2> QED
    BY <2>3, Sizes
<1>3. LogoX \in Nat /\ LogoLine(n) \in Seq(DOMAIN Glyph)
  BY LogoPlace, LogoLineFacts
<1> HIDE DEF r
<1>4. ASSUME NEW p \in Words, r * XRES <= p /\ p < (r + FONTH) * XRES
      PROVE  g[p] = f[p]
  <2>0. r + FONTH \in Nat
    BY <1>2, Sizes
  <2>1. /\ (r + FONTH) * XRES <= z * XRES
        /\ (r + FONTH) * XRES \in Nat /\ z * XRES \in Nat
    BY <1>2, <2>0, RowsApart
  <2>2. p < z * XRES
    BY <1>4, <2>1, Sizes DEF Words
  <2> QED
    BY <2>2
<1>5. Shows(g, LogoX, r, LogoLine(n), "green", "black")
  BY <1>1, <1>2, <1>3, <1>4, ShowsKept
<1> QED
  BY <1>5 DEF r

(* The messages above are not touched by what is drawn below. *)
LEMMA ReadableKept ==
  ASSUME NEW f, NEW g, NEW l \in Seq(({Prompt} \cup Messages) \X Nat),
         NEW y \in Nat,
         Above(l, y), Readable(f, l),
         \A p \in Words : p < y * XRES => g[p] = f[p]
  PROVE  Readable(g, l)
<1> SUFFICES ASSUME NEW n \in DOMAIN l
             PROVE  Shows(g, ConX, l[n][2], l[n][1], "white", "black")
  BY DEF Readable
<1> DEFINE r == l[n][2]
           s == l[n][1]
<1>1. r \in Nat /\ s \in {Prompt} \cup Messages
  BY ElementOfSeq
<1>2. Shows(f, ConX, r, s, "white", "black") /\ r + FONTH <= y
  BY DEF Readable, Above
<1> HIDE DEF r, s
<1>3. s \in Seq(DOMAIN Glyph) /\ ConX \in Nat
  BY <1>1, ConsolePlace, Sizes
<1>4. ASSUME NEW p \in Words, r * XRES <= p /\ p < (r + FONTH) * XRES
      PROVE  g[p] = f[p]
  <2>0. r + FONTH \in Nat
    BY <1>1, Sizes
  <2>1. /\ (r + FONTH) * XRES <= y * XRES
        /\ (r + FONTH) * XRES \in Nat /\ y * XRES \in Nat
    BY <1>2, <2>0, RowsApart
  <2>2. p < y * XRES
    BY <1>4, <2>1, Sizes DEF Words
  <2> QED
    BY <2>2
<1>5. Shows(g, ConX, r, s, "white", "black")
  BY <1>1, <1>2, <1>3, <1>4, ShowsKept
<1> QED
  BY <1>5 DEF r, s

(* The countdown's screen: the prompt, and the logo below it.                *)
LEMMA InitScreened == AllInit => Screened
<1> SUFFICES ASSUME AllInit PROVE Screened
  OBVIOUS
<1> DEFINE f ==
      draw_string(copy_uboot_logo, ConX, ConY, Prompt, "white", "black")
<1>1. pc = "autoboot" /\ fb = draw_logo(f, PromptLogoY)
      /\ cur_y = ConY + ConPitch /\ log = << <<Prompt, ConY>> >>
  BY DEF AllInit, Init, ScreenInit
<1>2. LineIn(f, copy_uboot_logo, ConX, ConY, Prompt, "white", "black")
  <2>1. Prompt \in Seq(DOMAIN Glyph) /\ ConX + Len(Prompt) * FONTW <= XRES
    BY ConsolePlace
  <2>2. ConY + FONTH <= YRES /\ ConX \in Nat /\ ConY \in Nat
    BY ConsolePlace, Sizes
  <2>3. "white" \in Colours /\ "black" \in Colours
    BY DEF Colours
  <2>4. copy_uboot_logo \in [Words -> Colours]
    BY FramesAre
  <2> HIDE DEF f
  <2>5. f = draw_string(copy_uboot_logo, ConX, ConY, Prompt, "white", "black")
    BY DEF f
  <2> QED
    BY <2>1, <2>2, <2>3, <2>4, <2>5, LineDrawn
<1> HIDE DEF f
<1>3. f \in [Words -> Colours]
        /\ Shows(f, ConX, ConY, Prompt, "white", "black")
  BY <1>2, Zenon DEF LineIn
<1>4. /\ fb \in [Words -> Colours] /\ ShowsLogo(fb, PromptLogoY)
      /\ \A p \in Words : p < PromptLogoY * XRES => fb[p] = f[p]
  BY <1>1, <1>3, LogoDrawn, ConsolePlace, Sizes
<1>5. Len(log) = 1 /\ DOMAIN log = {1} /\ log[1][1] = Prompt
        /\ log[1][2] = ConY
  BY <1>1
<1>6. log \in Seq(({Prompt} \cup Messages) \X Nat)
  BY <1>1, Sizes
<1>7. Above(log, PromptLogoY) /\ Readable(f, log)
  BY <1>3, <1>5, ConsolePlace, Zenon DEF Above, Readable
<1>8. Readable(fb, log)
  BY <1>4, <1>6, <1>7, ReadableKept, Sizes
<1>9. /\ cur_y \in Nat /\ cur_y <= ConY + (Len(log) + 1) * ConPitch
      /\ Above(log, cur_y)
  <2>1. ConY + FONTH <= cur_y
    BY <1>1, ConsolePlace, Sizes
  <2>2. Above(log, cur_y)
    BY <1>5, <2>1, Zenon DEF Above
  <2>3. ConY + (1 + 1) * ConPitch >= ConY + ConPitch
    BY Sizes
  <2> QED
    BY <1>1, <1>5, <2>2, <2>3, Sizes
<1>10. pc \notin MenuPcs
  BY <1>1 DEF MenuPcs
<1> QED
  BY <1>1, <1>4, <1>6, <1>8, <1>9, <1>10 DEF Screened

(* main clears the screen and the menu is drawn. *)
LEMMA EnterScreened ==
  ASSUME Screened, DrawnEnterMenu
  PROVE  Screened'
<1> DEFINE f == draw_logo(clear_fb, LogoY)
<1>1. /\ pc = "settle" /\ pc' = "menu" /\ fb' = draw_menu(f, shown')
      /\ log' = <<>> /\ cur_y' = cur_y
  BY DEF DrawnEnterMenu, EnterMenu
<1>2. cur_y = ConY + ConPitch
  BY <1>1 DEF Screened
<1>3. /\ f \in [Words -> Colours] /\ ShowsLogo(f, LogoY)
      /\ \A p \in Words : OffLogo(p) => f[p] = clear_fb[p]
  <2> DEFINE a == LogoLines * FONTH
  <2>0. a \in Nat /\ LogoY + a <= MenuY /\ MenuY <= YRES
    BY ConsolePlace, LogoFacts, Sizes
  <2>1. LogoY + a <= YRES
    <3> HIDE DEF a
    <3> QED
      BY <2>0, Sizes
  <2> HIDE DEF f
  <2>2. f = draw_logo(clear_fb, LogoY) /\ LogoY \in Nat
    BY Sizes DEF f
  <2>3. /\ f \in [Words -> Colours] /\ ShowsLogo(f, LogoY)
        /\ \A p \in Words :
              (\A n \in 1 .. LogoLines, k \in 0 .. LogoWidth - 1 :
                  p \notin Cell((LogoY + (n - 1) * FONTH) * XRES + LogoX
                    + k * FONTW))
              => f[p] = clear_fb[p]
    BY <2>1, <2>2, FramesAre, LogoDrawn
  <2> QED
    BY <2>3, Zenon DEF OffLogo
<1> HIDE DEF f
<1>4. /\ fb' \in [Words -> Colours]
      /\ \A n \in DOMAIN Titles : TitleShown(fb', n, shown')
      /\ \A p \in Words : p < MenuY * XRES \/ OffTitles(p) => fb'[p] = f[p]
  BY <1>1, <1>3, MenuDrawn
<1>5. ShowsLogo(fb', LogoY)
  BY <1>3, <1>4, LogoKept, ConsolePlace, Sizes
<1>6. Alone(fb')
  <2>1. ASSUME NEW p \in Words, OffTitles(p), OffLogo(p) PROVE fb'[p] = "black"
    <3>1. fb'[p] = f[p] /\ f[p] = clear_fb[p]
      BY <1>3, <1>4, <2>1
    <3>2. clear_fb[p] = "black"
      BY DEF clear_fb
    <3> QED
      BY <3>1, <3>2
  <2> QED
    BY <2>1 DEF Alone
<1>7. MenuOn(fb', shown')
  BY <1>4 DEF MenuOn
<1>8. /\ log' \in Seq(({Prompt} \cup Messages) \X Nat)
      /\ Above(log', cur_y') /\ Readable(fb', log') /\ Len(log') = 0
  BY <1>1 DEF Above, Readable
<1>9. cur_y' \in Nat /\ cur_y' <= ConY + (Len(log') + 1) * ConPitch
  BY <1>1, <1>2, <1>8, Sizes
<1>10. pc' \notin {"autoboot", "settle"}
  BY <1>1
<1> QED
  BY <1>1, <1>4, <1>5, <1>6, <1>7, <1>8, <1>9, <1>10 DEF Screened

(* A short press: the menu is drawn over itself. *)
LEMMA ReleaseScreened ==
  ASSUME Screened, DrawnRelease
  PROVE  Screened'
<1>1. /\ pc = "menu" /\ pc' = "menu" /\ cur_y' = cur_y /\ log' = log
      /\ fb' = IF held < HoldLimit THEN draw_menu(fb, shown') ELSE fb
      /\ \/ held < HoldLimit
         \/ shown' = shown /\ ~(held < HoldLimit)
  <2>1. /\ pc = "menu" /\ pc' = "menu" /\ cur_y' = cur_y /\ log' = log
        /\ fb' = IF held < HoldLimit THEN draw_menu(fb, shown') ELSE fb
    BY DEF DrawnRelease, SampleReleased
  <2>2. held < HoldLimit \/ shown' = shown
    BY DEF DrawnRelease, SampleReleased
  <2> QED
    BY <2>1, <2>2
<1>2. /\ fb \in [Words -> Colours] /\ MenuOn(fb, shown) /\ ShowsLogo(fb, LogoY)
      /\ Alone(fb) /\ log = <<>> /\ cur_y \in Nat
      /\ cur_y <= ConY + (Len(log) + 1) * ConPitch /\ Above(log, cur_y)
  BY <1>1 DEF Screened, MenuPcs
<1>3. CASE held < HoldLimit
  <2>1. fb' = draw_menu(fb, shown')
    BY <1>1, <1>3
  <2>2. /\ fb' \in [Words -> Colours]
        /\ \A n \in DOMAIN Titles : TitleShown(fb', n, shown')
        /\ \A p \in Words : p < MenuY * XRES \/ OffTitles(p) => fb'[p] = fb[p]
    BY <1>2, <2>1, MenuDrawn
  <2>3. ShowsLogo(fb', LogoY)
    BY <1>2, <2>2, LogoKept, ConsolePlace, Sizes
  <2>4. Alone(fb') /\ MenuOn(fb', shown')
    BY <1>2, <2>2, Zenon DEF Alone, MenuOn
  <2>5. Readable(fb', log') /\ log' \in Seq(({Prompt} \cup Messages) \X Nat)
    BY <1>1, <1>2 DEF Readable
  <2> QED
    BY <1>1, <1>2, <2>2, <2>3, <2>4, <2>5 DEF Screened
<1>4. CASE ~(held < HoldLimit)
  <2>1. fb' = fb /\ shown' = shown
    BY <1>1, <1>4
  <2> QED
    BY <1>1, <2>1 DEF Screened, MenuPcs
<1> QED
  BY <1>3, <1>4

(* A message is printed below those before. *)
LEMMA ReportScreened ==
  ASSUME Screened, Reports
  PROVE  Screened'
<1>1. PICK text \in Messages :
         /\ fb' = draw_string(fb, ConX, cur_y, text, "white", "black")
         /\ cur_y' = cur_y + ConPitch /\ log' = Append(log, <<text, cur_y>>)
  BY DEF Reports, Report, video_printf
<1>2. pc = "loading" /\ pc' = "loading" /\ Len(log) < MaxMessages
  BY DEF Reports, Report, vars, program
<1>3. /\ fb \in [Words -> Colours] /\ cur_y \in Nat
      /\ cur_y <= ConY + (Len(log) + 1) * ConPitch
      /\ log \in Seq(({Prompt} \cup Messages) \X Nat)
      /\ Above(log, cur_y) /\ Readable(fb, log)
  BY DEF Screened
<1> DEFINE n == Len(log)
<1>4. n \in Nat /\ n + 1 <= MaxMessages /\ DOMAIN log = 1 .. n
  BY <1>2, <1>3, ConsolePlace
<1>5. /\ Len(log') = n + 1 /\ log' \in Seq(({Prompt} \cup Messages) \X Nat)
      /\ DOMAIN log' = 1 .. n + 1
      /\ log'[n + 1] = <<text, cur_y>> /\ \A m \in 1 .. n : log'[m] = log[m]
  <2>1. <<text, cur_y>> \in ({Prompt} \cup Messages) \X Nat
    BY <1>3
  <2> QED
    BY <1>1, <1>3, <2>1
<1> HIDE DEF n
<1>6. cur_y + FONTH <= YRES
  <2> DEFINE a == (n + 1) * ConPitch
             b == MaxMessages * ConPitch
             c == (MaxMessages - (n + 1)) * ConPitch
  <2>1. n + 1 \in Nat /\ MaxMessages - (n + 1) \in Nat /\ MaxMessages \in Nat
    BY <1>4, ConsolePlace
  <2>2. a \in Nat /\ b \in Nat /\ c \in Nat
    BY <2>1, Sizes
  <2>3. b = a + c
    <3>1. MaxMessages * ConPitch
            = ((n + 1) + (MaxMessages - (n + 1))) * ConPitch
      BY <2>1
    <3> QED
      BY <2>1, <3>1, Sizes
  <2>4. cur_y <= ConY + a /\ ConY + b + FONTH <= YRES
    BY <1>3, ConsolePlace DEF n
  <2> HIDE DEF a, b, c
  <2> QED
    BY <1>3, <2>2, <2>3, <2>4, Sizes
<1>7. LineIn(fb', fb, ConX, cur_y, text, "white", "black")
  <2>1. text \in Seq(DOMAIN Glyph) /\ ConX + Len(text) * FONTW <= XRES
    BY ConsolePlace
  <2>2. "white" \in Colours /\ "black" \in Colours /\ ConX \in Nat
    BY Sizes DEF Colours
  <2> QED
    BY <1>1, <1>3, <1>6, <2>1, <2>2, LineDrawn
<1>8. /\ fb' \in [Words -> Colours]
      /\ Shows(fb', ConX, cur_y, text, "white", "black")
      /\ \A p \in Words : p < cur_y * XRES => fb'[p] = fb[p]
  BY <1>7, Zenon DEF LineIn
<1>9. Readable(fb', log)
  BY <1>3, <1>8, ReadableKept
<1>10. Readable(fb', log')
  <2>1. ASSUME NEW m \in DOMAIN log'
        PROVE  Shows(fb', ConX, log'[m][2], log'[m][1], "white", "black")
    <3>1. CASE m = n + 1
      <4>1. log'[m][2] = cur_y /\ log'[m][1] = text
        BY <1>5, <3>1
      <4> QED
        BY <1>8, <4>1
    <3>2. CASE m # n + 1
      <4>1. m \in 1 .. n
        BY <1>4, <1>5, <3>2
      <4>2. log'[m] = log[m] /\ m \in DOMAIN log
        BY <1>4, <1>5, <4>1
      <4> QED
        BY <1>9, <4>2, Zenon DEF Readable
    <3> QED
      BY <3>1, <3>2
  <2> QED
    BY <2>1 DEF Readable
<1>11. Above(log', cur_y')
  <2>1. ASSUME NEW m \in DOMAIN log' PROVE log'[m][2] + FONTH <= cur_y'
    <3>1. CASE m = n + 1
      <4>1. log'[m][2] = cur_y
        BY <1>5, <3>1
      <4>2. cur_y + FONTH <= cur_y'
        BY <1>1, <1>3, ConsolePlace, Sizes
      <4> QED
        BY <4>1, <4>2
    <3>2. CASE m # n + 1
      <4>1. m \in 1 .. n
        BY <1>4, <1>5, <3>2
      <4>2. log'[m] = log[m] /\ m \in DOMAIN log
        BY <1>4, <1>5, <4>1
      <4> DEFINE r == log[m][2]
      <4>3. r \in Nat
        BY <1>3, <4>2, ElementOfSeq
      <4>4. r + FONTH <= cur_y
        BY <1>3, <4>2 DEF Above
      <4>5. log'[m][2] = r
        BY <4>2
      <4> HIDE DEF r
      <4>6. r + FONTH <= cur_y'
        BY <1>1, <1>3, <4>3, <4>4, Sizes
      <4> QED
        BY <4>5, <4>6
    <3> QED
      BY <3>1, <3>2
  <2> QED
    BY <2>1 DEF Above
<1>12. cur_y' \in Nat /\ cur_y' <= ConY + (Len(log') + 1) * ConPitch
  <2> DEFINE a == (n + 1) * ConPitch
  <2>1. (n + 1 + 1) * ConPitch = a + ConPitch /\ a \in Nat
    BY <1>4, Sizes
  <2>2. cur_y <= ConY + a
    BY <1>3 DEF n
  <2> HIDE DEF a
  <2>3. cur_y + ConPitch <= ConY + (a + ConPitch) /\ cur_y + ConPitch \in Nat
    BY <1>3, <2>1, <2>2, Sizes
  <2> QED
    BY <1>1, <1>5, <2>1, <2>3
<1>13. pc' \notin MenuPcs /\ pc' \notin {"autoboot", "settle"}
  BY <1>2 DEF MenuPcs
<1> QED
  BY <1>5, <1>8, <1>10, <1>11, <1>12, <1>13 DEF Screened

(* What draws nothing neither comes to the menu nor changes its entry. *)
LEMMA UndrawnScreened ==
  ASSUME Screened, UNCHANGED screen,
         \/ Undrawn \/ Tick \/ Press \/ Release \/ UNCHANGED vars
  PROVE  Screened'
<1>1. fb' = fb /\ cur_y' = cur_y /\ log' = log
  BY DEF screen
<1>2. /\ shown' = shown
      /\ pc' \in MenuPcs => pc \in MenuPcs
      /\ pc' \in {"autoboot", "settle"} => pc \in {"autoboot", "settle"}
  <2>1. CASE Undrawn
    <3>1. CASE Interrupt \/ CountDown \/ Autoboot
      BY <3>1 DEF Interrupt, CountDown, Autoboot, MenuPcs
    <3>2. CASE SamplePressed \/ KeepHolding \/ RunCommand
      BY <3>2 DEF SamplePressed, KeepHolding, RunCommand, MenuPcs
    <3>3. CASE RestartWrite \/ RestartReturns
      BY <3>3 DEF RestartWrite, RestartReturns, MenuPcs
    <3> QED
      BY <2>1, <3>1, <3>2, <3>3 DEF Undrawn
  <2>2. CASE Tick
    BY <2>2 DEF Tick, MenuPcs
  <2>3. CASE Press \/ Release \/ UNCHANGED vars
    BY <2>3 DEF Press, Release, vars, program
  <2> QED
    BY <2>1, <2>2, <2>3
<1> QED
  BY <1>1, <1>2 DEF Screened

(* Screened holds at every step, with or without a drawing.                  *)
LEMMA ScreenInvariance == AllSpec => []Screened
<1>1. AllInit => Screened
  BY InitScreened
<1>2. Screened /\ [AllNext]_all => Screened'
  <2> SUFFICES ASSUME Screened, [AllNext]_all PROVE Screened'
    OBVIOUS
  <2>1. CASE TimerRuns \/ Start \/ UNCHANGED all
    <3>1. UNCHANGED screen /\ UNCHANGED vars
      BY <2>1 DEF TimerRuns, Start, all
    <3> QED
      BY <3>1, UndrawnScreened
  <2>2. CASE ProgramOnScreen
    <3>1. CASE DrawnEnterMenu
      BY <3>1, EnterScreened
    <3>2. CASE DrawnRelease
      BY <3>2, ReleaseScreened
    <3>3. CASE Undrawn
      <4>1. UNCHANGED screen
        BY <3>3 DEF Undrawn
      <4> QED
        BY <3>3, <4>1, UndrawnScreened
    <3> QED
      BY <2>2, <3>1, <3>2, <3>3 DEF ProgramOnScreen
  <2>3. CASE World
    <3>1. UNCHANGED screen /\ (Tick \/ Press \/ Release)
      BY <2>3 DEF World
    <3> QED
      BY <3>1, UndrawnScreened
  <2>4. CASE Reports
    BY <2>4, ReportScreened
  <2> QED
    BY <2>1, <2>2, <2>3, <2>4 DEF AllNext
<1> QED
  BY <1>1, <1>2, PTL DEF AllSpec

(* Where nothing is drawn the menu's screen is black.                        *)
LEMMA AloneIs ==
  ASSUME Alone(fb), pc \in MenuPcs
  PROVE  MenuStandsAlone
<1> DEFINE title(n) == UNION {Cell((MenuY + (n - 1) * MenuPitch) * XRES
                                   + MenuX + k * FONTW) :
                                  k \in 0 .. Len(Titles[n]) - 1}
           line(n) == UNION {Cell((LogoY + (n - 1) * FONTH) * XRES
                                  + LogoX + k * FONTW) :
                                 k \in 0 .. LogoWidth - 1}
           cells == {title(n) : n \in DOMAIN Titles}
                      \cup {line(n) : n \in 1 .. LogoLines}
           drawn == UNION cells
<1>1. ASSUME NEW p \in Words \ drawn PROVE fb[p] = "black"
  <2>1. OffTitles(p)
    <3>1. ASSUME NEW n \in DOMAIN Titles, NEW k \in 0 .. Len(Titles[n]) - 1
          PROVE  p \notin TitleCell(n, k)
      <4>1. p \notin title(n)
        <5>1. title(n) \in cells
          <6> HIDE DEF title, line
          <6> QED
            OBVIOUS
        <5> HIDE DEF cells, title, line
        <5> QED
          BY <5>1
      <4>2. p \notin Cell((MenuY + (n - 1) * MenuPitch) * XRES + MenuX
              + k * FONTW)
        BY <4>1
      <4> QED
        BY <4>2 DEF TitleCell
    <3> QED
      BY <3>1, Zenon DEF OffTitles
  <2>2. OffLogo(p)
    <3>1. ASSUME NEW n \in 1 .. LogoLines, NEW k \in 0 .. LogoWidth - 1
          PROVE  p \notin Cell((LogoY + (n - 1) * FONTH) * XRES + LogoX
                   + k * FONTW)
      <4>1. p \notin line(n)
        <5>1. line(n) \in cells
          <6> HIDE DEF title, line
          <6> QED
            OBVIOUS
        <5> HIDE DEF cells, title, line
        <5> QED
          BY <5>1
      <4> QED
        BY <4>1
    <3> QED
      BY <3>1, Zenon DEF OffLogo
  <2> QED
    BY <2>1, <2>2 DEF Alone
<1>2. \A p \in Words \ drawn : fb[p] = "black"
  BY <1>1
<1> QED
  BY <1>2, Zenon DEF MenuStandsAlone

(* With what it draws the menu does what it does without: each theorem above *)
(* of Spec holds of the program with its screen (main.c:42-71).             *)
THEOREM DrawingIsTheMenu == AllSpec => Spec
<1>1. AllInit => Init
  BY DEF AllInit
<1>2. [AllNext]_all => [Next]_vars
  <2> SUFFICES ASSUME [AllNext]_all PROVE [Next]_vars
    OBVIOUS
  <2>1. CASE TimerRuns \/ Start \/ Reports \/ UNCHANGED all
    BY <2>1 DEF TimerRuns, Start, Reports, Report, all
  <2>2. CASE ProgramOnScreen
    BY <2>2 DEF ProgramOnScreen, DrawnEnterMenu, DrawnRelease, Undrawn, Next,
                Program
  <2>3. CASE World
    BY <2>3 DEF World, Next
  <2> QED
    BY <2>1, <2>2, <2>3 DEF AllNext
<1> QED
  BY <1>1, <1>2, PTL DEF AllSpec, Spec

(* In the menu every title is on the screen, the selected one and no other   *)
(* on a bright ground, below a whole logo and with nothing else: for every  *)
(* menu, logo and layout without overlaps (bootmenu.c:10-82).               *)
THEOREM ScreenShowsState == AllSpec => []ScreenAgrees
<1>1. Screened => ScreenAgrees
  <2> SUFFICES ASSUME Screened PROVE ScreenAgrees
    OBVIOUS
  <2>1. MenuOnScreen
    <3>1. pc \in MenuPcs => \A n \in DOMAIN Titles : TitleShown(fb, n, shown)
      BY DEF Screened, MenuOn
    <3> QED
      BY <3>1, Zenon DEF MenuOnScreen, TitleShown
  <2>2. LogoStays
    BY DEF LogoStays, Screened
  <2>3. MenuStandsAlone
    <3>1. CASE pc \in MenuPcs
      BY <3>1, AloneIs DEF Screened
    <3>2. CASE pc \notin MenuPcs
      BY <3>2, Zenon DEF MenuStandsAlone
    <3> QED
      BY <3>1, <3>2
  <2> QED
    BY <2>1, <2>2, <2>3 DEF ScreenAgrees
<1> QED
  BY <1>1, ScreenInvariance, PTL

(* Every message since the screen was cleared can be read, up to the number  *)
(* of messages the screen has room for (console.c:7-13).                    *)
THEOREM MessagesStay == AllSpec => []MessagesReadable
<1>1. Screened => MessagesReadable
  BY DEF Screened, Readable, MessagesReadable
<1> QED
  BY <1>1, ScreenInvariance, PTL

=============================================================================
