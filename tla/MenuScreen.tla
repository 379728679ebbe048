----------------------------- MODULE MenuScreen -----------------------------
(***************************************************************************)
(* The countdown and the menu with what they draw, and the timer main      *)
(* starts before (init/main.c, boot/bootmenu.c).                           *)
(***************************************************************************)
EXTENDS BootMenu, Screen, Timer

CONSTANT MaxMessages   \* bound on the messages of one boot

ASSUME MenuScreenAssumption ==
    /\ Len(Titles) = Len(Options) /\ MaxMessages \in Nat

\* The layout: every text has one line within the screen but the logo, whose
\* lines end in newlines; titles and messages are a row apart or more; the
\* logo is above the menu, and below the prompt.
ASSUME LayoutAssumption ==
    /\ Titles \in Seq(Seq(DOMAIN Glyph))
    /\ \A n \in DOMAIN Titles : MenuX + Len(Titles[n]) * FONTW <= XRES
    /\ FONTH <= MenuPitch
    /\ MenuY + (Len(Titles) - 1) * MenuPitch + FONTH <= YRES
    /\ \A text \in {Prompt} \cup Messages :
          text \in Seq(DOMAIN Glyph) /\ ConX + Len(text) * FONTW <= XRES
    /\ FONTH <= ConPitch /\ ConY + MaxMessages * ConPitch + FONTH <= YRES
    /\ Logo \in Seq(DOMAIN Glyph \cup {Newline}) /\ Logo # <<>>
    /\ Logo[Len(Logo)] = Newline
    /\ LogoWidth \in Nat /\ LogoWidth * FONTW <= XRES
    /\ \A k \in DOMAIN Logo : Logo[k] # Newline => Column(Logo, k) < LogoWidth
    /\ LogoY + LogoLines * FONTH <= MenuY
    /\ ConY + FONTH <= PromptLogoY /\ PromptLogoY + LogoLines * FONTH <= YRES

VARIABLE started   \* main runs: timer_init has been called

all == <<vars, screen, timer, started>>

AllInit == Init /\ ScreenInit /\ TimerInit /\ started = FALSE

\* udelay by itself, from any count.
TimerRuns == /\ ~started /\ TimerNext
             /\ UNCHANGED <<vars, screen, started>>

\* main begins.
Start == /\ ~started /\ at = "idle" /\ started' = TRUE
         /\ timer_init
         /\ UNCHANGED <<vars, screen>>

\* main clears the screen, cycle_menu draws the logo and the menu.
DrawnEnterMenu ==
    /\ EnterMenu
    /\ fb' = draw_menu(draw_logo(clear_fb, LogoY), shown')
    /\ log' = <<>> /\ UNCHANGED cur_y

\* A short press draws the menu again.
DrawnRelease ==
    /\ SampleReleased
    /\ fb' = IF held < HoldLimit THEN draw_menu(fb, shown') ELSE fb
    /\ UNCHANGED <<cur_y, log>>

\* The steps that draw nothing.
Undrawn ==
    /\ \/ Interrupt \/ CountDown \/ Autoboot \/ SamplePressed
       \/ KeepHolding \/ RunCommand \/ RestartWrite \/ RestartReturns
    /\ UNCHANGED screen

\* The loader reports what goes wrong.
Report ==
    /\ pc = "loading" /\ Len(log) < MaxMessages
    /\ \E text \in Messages : video_printf(text)
    /\ UNCHANGED vars

ProgramOnScreen ==
    /\ started /\ (DrawnEnterMenu \/ DrawnRelease \/ Undrawn)
    /\ UNCHANGED <<timer, started>>
World ==
    /\ started /\ (Tick \/ Press \/ Release)
    /\ UNCHANGED <<screen, timer, started>>
Reports == started /\ Report /\ UNCHANGED <<timer, started>>

AllNext == TimerRuns \/ Start \/ ProgramOnScreen \/ World \/ Reports

\* The program runs, and time passes.  Drawing holds up no step, so fairness
\* is stated of the steps without it.
AllSpec ==
    /\ AllInit /\ [][AllNext]_all
    /\ WF_timer(~started /\ Delay) /\ WF_timer(~started /\ Count)
    /\ WF_<<started>>(Start)
    /\ WF_vars(started /\ Program) /\ WF_vars(started /\ Tick)

-----------------------------------------------------------------------------
(* Properties. *)

\* In the menu every title stands on the screen, the selected one and no
\* other on a bright ground (bootmenu.c:10-19, 58-63, 78-82).
MenuOnScreen ==
    pc \in MenuPcs =>
        \A n \in DOMAIN Titles :
            IF n - 1 = shown
            THEN Shows(fb, MenuX, MenuY + (n - 1) * MenuPitch, Titles[n],
                       "black", "white")
            ELSE Shows(fb, MenuX, MenuY + (n - 1) * MenuPitch, Titles[n],
                       "white", "black")

\* The logo is whole during the countdown and as long as the menu is up
\* (main.c:42, bootmenu.c:12, 50-62).
LogoStays ==
    /\ pc \in {"autoboot", "settle"} => ShowsLogo(fb, PromptLogoY)
    /\ pc \in MenuPcs => ShowsLogo(fb, LogoY)

\* Nothing of the screen before shows in the menu: what is neither a title
\* nor the logo is black (main.c:64, fb.c:13-16).
MenuStandsAlone ==
    pc \in MenuPcs =>
        LET title(n) == UNION {Cell((MenuY + (n - 1) * MenuPitch) * XRES
                                    + MenuX + k * FONTW) :
                                   k \in 0 .. Len(Titles[n]) - 1}
            line(n) == UNION {Cell((LogoY + (n - 1) * FONTH) * XRES
                                   + LogoX + k * FONTW) :
                                  k \in 0 .. LogoWidth - 1}
            drawn == UNION ({title(n) : n \in DOMAIN Titles}
                            \cup {line(n) : n \in 1 .. LogoLines})
        IN  \A p \in Words \ drawn : fb[p] = "black"

\* Every message since the screen was cleared can be read: no later message
\* is drawn over it, and all are within the screen (console.c:7-13).
MessagesReadable ==
    \A n \in DOMAIN log :
        Shows(fb, ConX, log[n][2], log[n][1], "white", "black")

\* What is seen is what the program is at (main.c:42-64, bootmenu.c:10-82).
ScreenAgrees == MenuOnScreen /\ LogoStays /\ MenuStandsAlone

\* No wait is for ever: the delay ends, the countdown ends, and a restart
\* command is followed by the reset (main.c:60-71, timer.c:38, 56-62).
WaitsEnd == DelayEnds /\ CountdownEnds /\ RestartHappens
=============================================================================
