------------------------------ MODULE BootMenu ------------------------------
(***************************************************************************)
(* What the user sees of cowboot: the autoboot countdown of main           *)
(* (init/main.c), the one-key menu (boot/bootmenu.c), the commands of the  *)
(* board (board/qogir/board.c) and the restart through the watchdog        *)
(* (drivers/timer/timer.c), with the key and the watchdog as environment.  *)
(*                                                                         *)
(* A tick is one count of the watchdog (about 2 ms).  Code takes no time   *)
(* beside its udelay calls; `wait' is what is left of the current one.     *)
(***************************************************************************)
EXTENDS Naturals, Sequences

CONSTANTS
    Options,         \* board_boot_options, in menu order
    HoldLimit,       \* samples that make a long press (30)
    SampleTicks,     \* udelay(10000) in ticks (5)
    SettleTicks,     \* udelay(300) in ticks, rounded up
    CountdownTicks,  \* udelay(1000000) in ticks (512)
    Countdown,       \* key samples before autoboot (4)
    WdtTicks,        \* WDT_TDR_TIME (2)
    KeyHold          \* ticks the key keeps a position, at least

BootCommands == {"embed_boot", "continue_boot", "boot_recovery"}
RestartCommands == {"machine_reset", "reboot_recovery", "machine_poweroff"}
Commands == BootCommands \cup RestartCommands

\* The key does not bounce, and is not pressed and released within a sample.
ASSUME MenuAssumption ==
    /\ Options \in Seq(Commands) /\ Options # <<>>
    /\ {HoldLimit, SampleTicks, Countdown, WdtTicks} \subseteq Nat \ {0}
    /\ SettleTicks \in Nat /\ CountdownTicks \in Nat
    /\ WdtTicks < SampleTicks
    /\ KeyHold \in Nat /\ KeyHold > SampleTicks

VARIABLES
    pc,           \* where the program is
    wait,         \* ticks left of the current udelay
    i,            \* main: key samples taken
    held,         \* cycle_menu: samples the key has been down
    was_pressed,  \* cycle_menu: the last sample saw the key down
    selection,    \* cycle_menu: index of the selected entry
    shown,        \* the entry highlighted on the screen
    writes,       \* register writes _machine_restart has left
    regs,         \* watchdog and CPM registers
    key,          \* the key is down
    quiet,        \* ticks since the key moved, up to KeyHold
    chosen,       \* history: the menu command run last
    runs,         \* history: menu commands run
    fresh,        \* history: the last press began in the menu
    effects,      \* history: what the last press has brought about
    down,         \* history: ticks the last press lasted, up to LongPress
    left          \* history: CPPSR at power-on

program == <<pc, wait, i, held, was_pressed, selection, shown, writes>>
user == <<key, quiet>>
record == <<chosen, runs, fresh, effects, down, left>>
vars == <<program, regs, user, record>>

MenuPcs == {"menu", "held", "restart"}
REBOOT_SIGNATURE == 13621     \* 0x3535
RECOVERY_SIGNATURE == 6682    \* 0x1a1a
CPPSR_KEY == 23130            \* 0x5a5a
Signatures == {0, REBOOT_SIGNATURE, RECOVERY_SIGNATURE}
Registers == {"CPSPPR", "CPPSR", "TSCR", "TCNT", "TDR", "TCSR", "TCER"}
Last == Len(Options) - 1
\* What HoldLimit samples of a key that is down take at least.
LongPress == (HoldLimit - 1) * SampleTicks

TypeOK ==
    /\ pc \in {"autoboot", "settle", "loading", "reset"} \cup MenuPcs
    /\ wait \in 0 .. (SampleTicks + SettleTicks + CountdownTicks)
    /\ i \in 0 .. Countdown
    /\ held \in Nat /\ was_pressed \in BOOLEAN
    /\ selection \in 0 .. Last /\ shown \in 0 .. Last
    /\ writes \in Seq(Registers \X Nat)
    /\ regs \in [Registers -> Nat] /\ regs.CPPSR \in Signatures
    /\ key \in BOOLEAN /\ quiet \in 0 .. KeyHold
    /\ chosen \in Commands \cup {"none"}
    /\ runs \in Nat /\ effects \in Nat /\ down \in 0 .. LongPress
    /\ fresh \in BOOLEAN /\ left \in Signatures

\* The stage before may have left a signature; the watchdog is stopped.
Init ==
    /\ pc = "autoboot" /\ wait = 0 /\ i = 0
    /\ held = 0 /\ was_pressed = FALSE /\ selection = 0 /\ shown = 0
    /\ writes = <<>>
    /\ left \in Signatures
    /\ regs = [r \in Registers |-> IF r = "CPPSR" THEN left ELSE 0]
    /\ key \in BOOLEAN /\ quiet = KeyHold
    /\ chosen = "none" /\ runs = 0 /\ fresh = FALSE /\ effects = 0
    /\ down = 0

-----------------------------------------------------------------------------
(* main: sample the key, a second apart, then boot. *)

Interrupt ==
    /\ pc = "autoboot" /\ wait = 0 /\ i < Countdown /\ key
    /\ pc' = "settle" /\ wait' = SettleTicks
    /\ UNCHANGED <<i, held, was_pressed, selection, shown, writes>>
    /\ UNCHANGED <<regs, user, record>>

CountDown ==
    /\ pc = "autoboot" /\ wait = 0 /\ i < Countdown /\ ~key
    /\ i' = i + 1 /\ wait' = CountdownTicks
    /\ UNCHANGED <<pc, held, was_pressed, selection, shown, writes>>
    /\ UNCHANGED <<regs, user, record>>

Autoboot ==
    /\ pc = "autoboot" /\ wait = 0 /\ i = Countdown
    /\ pc' = "loading"
    /\ UNCHANGED <<wait, i, held, was_pressed, selection, shown, writes>>
    /\ UNCHANGED <<regs, user, record>>

EnterMenu ==
    /\ pc = "settle" /\ wait = 0
    /\ pc' = "menu"
    /\ selection' = 0 /\ shown' = 0 /\ held' = 0 /\ was_pressed' = FALSE
    /\ UNCHANGED <<wait, i, writes, regs, user, record>>

-----------------------------------------------------------------------------
(* cycle_menu. *)

\* Mutant: `held' does not accumulate.
SamplePressed_NoCount ==
    /\ pc = "menu" /\ wait = 0 /\ key
    /\ was_pressed' = TRUE /\ held' = 1
    /\ pc' = "held" /\ wait' = SampleTicks
    /\ UNCHANGED <<i, selection, shown, writes, regs, user, record>>

SamplePressed ==
    /\ pc = "menu" /\ wait = 0 /\ key
    /\ was_pressed' = TRUE /\ held' = held + 1
    /\ pc' = "held" /\ wait' = SampleTicks
    /\ UNCHANGED <<i, selection, shown, writes, regs, user, record>>

KeepHolding ==
    /\ pc = "held" /\ wait = 0 /\ held # HoldLimit
    /\ pc' = "menu"
    /\ UNCHANGED <<wait, i, held, was_pressed, selection, shown, writes>>
    /\ UNCHANGED <<regs, user, record>>

\* Mutant: the timeout is off by the factor between its units.
WDT_TDR_TIME_Long == 10 * WdtTicks

WDT_TDR_TIME == WdtTicks

\* What a restart asks of the stage before.
Signature(command) == IF command = "reboot_recovery" THEN RECOVERY_SIGNATURE
                                                      ELSE REBOOT_SIGNATURE

\* _machine_restart: the signature goes through the CPPSR lock, then the
\* watchdog is set up and started.
\* Mutant: the lock is not opened before the signature is written.
SignatureWrites_Locked(command) ==
    CASE command = "machine_poweroff" -> <<>>
      [] OTHER -> << <<"CPPSR", Signature(command)>>,
                     <<"CPSPPR", 0>> >>

SignatureWrites(command) ==
    CASE command = "machine_poweroff" -> <<>>
      [] OTHER -> << <<"CPSPPR", CPPSR_KEY>>,
                     <<"CPPSR", Signature(command)>>,
                     <<"CPSPPR", 0>> >>

WatchdogWrites == << <<"TSCR", 1>>, <<"TCNT", 0>>, <<"TDR", WDT_TDR_TIME>>,
                     <<"TCSR", 1>>, <<"TCER", 0>>, <<"TCER", 1>> >>

RunCommand ==
    /\ pc = "held" /\ wait = 0 /\ held = HoldLimit
    /\ LET command == Options[selection + 1] IN
          /\ chosen' = command
          /\ \/ /\ command \in BootCommands
                /\ pc' = "loading" /\ UNCHANGED writes
             \/ /\ command \in RestartCommands
                /\ pc' = "restart"
                /\ writes' = SignatureWrites(command) \o WatchdogWrites
    /\ runs' = runs + 1 /\ effects' = effects + 1
    /\ UNCHANGED <<wait, i, held, was_pressed, selection, shown>>
    /\ UNCHANGED <<regs, user, fresh, down, left>>

\* CPPSR takes a value only while CPSPPR unlocks it.
Written(reg, value) ==
    IF reg = "CPPSR" /\ regs.CPSPPR # CPPSR_KEY
    THEN regs ELSE [regs EXCEPT ![reg] = value]

\* Mutant: the watchdog is set up again and again.
RestartWrite_Again ==
    /\ pc = "restart" /\ writes # <<>>
    /\ regs' = Written(Head(writes)[1], Head(writes)[2])
    /\ writes' = IF Len(writes) = 1 THEN WatchdogWrites ELSE Tail(writes)
    /\ UNCHANGED <<pc, wait, i, held, was_pressed, selection, shown>>
    /\ UNCHANGED <<user, record>>

RestartWrite ==
    /\ pc = "restart" /\ writes # <<>>
    /\ regs' = Written(Head(writes)[1], Head(writes)[2])
    /\ writes' = Tail(writes)
    /\ UNCHANGED <<pc, wait, i, held, was_pressed, selection, shown>>
    /\ UNCHANGED <<user, record>>

\* _machine_restart does not wait for the watchdog: the menu goes on.
RestartReturns ==
    /\ pc = "restart" /\ writes = <<>>
    /\ pc' = "menu"
    /\ UNCHANGED <<wait, i, held, was_pressed, selection, shown, writes>>
    /\ UNCHANGED <<regs, user, record>>

\* Mutant: the menu is not drawn again.
Advance_NoDraw == /\ selection' = (selection + 1) % Len(Options)
                  /\ UNCHANGED shown

Advance == /\ selection' = (selection + 1) % Len(Options)
           /\ shown' = selection'

\* Mutant: any release moves the selection.
SampleReleased_AnyPress ==
    /\ pc = "menu" /\ wait = 0 /\ ~key /\ was_pressed
    /\ Advance /\ effects' = effects + 1
    /\ was_pressed' = FALSE /\ held' = 0
    /\ UNCHANGED <<pc, wait, i, writes, regs, user>>
    /\ UNCHANGED <<chosen, runs, fresh, down, left>>

\* Mutant: `held' survives the release.
SampleReleased_KeepHeld ==
    /\ pc = "menu" /\ wait = 0 /\ ~key /\ was_pressed
    /\ \/ /\ held < HoldLimit
          /\ Advance /\ effects' = effects + 1
       \/ /\ held >= HoldLimit
          /\ UNCHANGED <<selection, shown, effects>>
    /\ was_pressed' = FALSE
    /\ UNCHANGED <<pc, wait, i, held, writes, regs, user>>
    /\ UNCHANGED <<chosen, runs, fresh, down, left>>

\* With was_pressed unset the sample changes nothing.
SampleReleased ==
    /\ pc = "menu" /\ wait = 0 /\ ~key /\ was_pressed
    /\ \/ /\ held < HoldLimit
          /\ Advance /\ effects' = effects + 1
       \/ /\ held >= HoldLimit
          /\ UNCHANGED <<selection, shown, effects>>
    /\ was_pressed' = FALSE /\ held' = 0
    /\ UNCHANGED <<pc, wait, i, writes, regs, user>>
    /\ UNCHANGED <<chosen, runs, fresh, down, left>>

Program == \/ Interrupt \/ CountDown \/ Autoboot \/ EnterMenu
           \/ SamplePressed \/ KeepHolding \/ RunCommand
           \/ RestartWrite \/ RestartReturns \/ SampleReleased

-----------------------------------------------------------------------------
(* The environment: time with the watchdog, and the user. *)

\* The program polls a key that stays up.
Polling == pc = "menu" /\ ~key /\ ~was_pressed
Dead == pc \in {"loading", "reset"}
Counting == regs.TSCR = 1 /\ regs.TCSR = 1 /\ regs.TCER = 1

Tick ==
    /\ ~Dead /\ (wait > 0 \/ Polling)
    /\ wait' = IF wait > 0 THEN wait - 1 ELSE 0
    /\ quiet' = IF quiet < KeyHold THEN quiet + 1 ELSE KeyHold
    /\ regs' = [regs EXCEPT !.TCNT = IF Counting THEN @ + 1 ELSE @]
    /\ pc' = IF Counting /\ regs'.TCNT >= regs.TDR THEN "reset" ELSE pc
    /\ UNCHANGED <<i, held, was_pressed, selection, shown, writes>>
    /\ down' = IF key /\ down < LongPress THEN down + 1 ELSE down
    /\ UNCHANGED <<key, chosen, runs, fresh, effects, left>>

Press ==
    /\ ~Dead /\ ~key /\ quiet = KeyHold
    /\ key' = TRUE /\ quiet' = 0 /\ down' = 0
    /\ fresh' = (pc \in MenuPcs) /\ effects' = 0
    /\ UNCHANGED <<program, regs, chosen, runs, left>>

Release ==
    /\ ~Dead /\ key /\ quiet = KeyHold
    /\ key' = FALSE /\ quiet' = 0
    /\ UNCHANGED <<program, regs, record>>

Next == Program \/ Tick \/ Press \/ Release

Spec == Init /\ [][Next]_vars

\* The program runs, and time passes.
FairSpec == Spec /\ WF_vars(Program) /\ WF_vars(Tick)

-----------------------------------------------------------------------------
(* Properties. *)

\* A press made in the menu does one thing: it moves the selection or runs a
\* command, and once the key is up again it has done so (bootmenu.c:65-86).
PressHasOneEffect ==
    fresh => effects <= 1 /\ (Polling /\ wait = 0 => effects = 1)

\* Restart commands return to the menu while the watchdog counts; nothing
\* else is run before it bites (timer.c:56-62, bootmenu.c:71-74).
AtMostOneCommand == runs <= 1

\* The command run is the one highlighted on the screen when the key reached
\* the limit (bootmenu.c:15-18, 71-82).
RunsWhatIsShown == [][runs' # runs => chosen' = Options[shown + 1]]_vars

\* When the board resets, CPPSR tells the next stage what the user chose; a
\* power-off leaves it as it was (timer.c:43-54).
RestartKeepsPromise ==
    pc = "reset" =>
        regs.CPPSR = CASE chosen = "machine_reset" -> REBOOT_SIGNATURE
                       [] chosen = "reboot_recovery" -> RECOVERY_SIGNATURE
                       [] OTHER -> left

\* No run of short presses adds up to a long one: a command needs the key
\* down for all its samples (bootmenu.c:66-85).
OnlyLongPressRuns == [][runs' # runs => down = LongPress]_vars

\* The countdown ends in the menu or in a boot (main.c:60-71).
CountdownEnds == pc = "autoboot" ~> pc # "autoboot"

\* In the menu a key that is kept down runs a command (bootmenu.c:66-74).
HoldRunsCommand == pc \in MenuPcs ~> ~key \/ chosen # "none"

\* A restart command is followed by the reset (timer.c:56-62).
RestartHappens == chosen \in RestartCommands ~> pc = "reset"

\* "wait for release" (main.c:62): the press that interrupts the countdown
\* does not itself choose a command in the menu.
EntryPressChoosesNothing == chosen # "none" => fresh
=============================================================================
