------------------------------- MODULE Screen -------------------------------
(***************************************************************************)
(* The display: drawing of text in the frame buffer (drivers/video/fb.c),  *)
(* the console (drivers/video/console.c) and what the menu draws           *)
(* (boot/bootmenu.c).  A frame is a function from the words of the frame   *)
(* buffer to colours; a word behind the end of a row is in the next row.   *)
(***************************************************************************)
EXTENDS Integers, Sequences, FiniteSets, FiniteSetsExt

CONSTANTS
    XRES, YRES,       \* the screen (360, 360)
    FbSize,           \* words clear_fb clears (0x1fb000 / 4)
    FONTW, FONTH,     \* a character cell (8, 16)
    Glyph,            \* letters: the set of <<row, col>> lit, by character
    Newline,
    Titles,           \* of board_boot_options
    Logo, LogoWidth,  \* the logo and its longest line (36)
    MenuX, MenuY, MenuPitch,       \* 120, 180, 20
    LogoY, PromptLogoY,            \* 60, 240
    ConX, ConY, ConPitch,          \* 50, 50, 16
    Prompt,           \* "Press key to interrupt autoboot"
    Messages          \* what the loader prints

ASSUME ScreenAssumption ==
    /\ {XRES, YRES, FONTW, FONTH} \subseteq Nat \ {0}
    /\ {MenuX, MenuY, MenuPitch, LogoY, PromptLogoY, ConX, ConY, ConPitch}
           \subseteq Nat
    /\ FbSize \in Nat /\ FbSize >= XRES * YRES
    /\ Newline \notin DOMAIN Glyph
    /\ \A ch \in DOMAIN Glyph :
          Glyph[ch] \subseteq (0 .. FONTH - 1) \X (0 .. FONTW - 1)

VARIABLES
    fb,       \* the frame buffer
    cur_y,    \* console: where the next message goes
    log       \* history: messages since the screen was cleared, and where

screen == <<fb, cur_y, log>>

Words == 0 .. FbSize - 1
Colours == {"black", "white", "green", "uboot"}

ScreenTypeOK == /\ fb \in [Words -> Colours] /\ cur_y \in Nat
                /\ log \in Seq(({Prompt} \cup Messages) \X Nat)

-----------------------------------------------------------------------------
(* fb.c *)

clear_fb == [p \in Words |-> "black"]

\* The first frame shows what the stage before has left; the rest is unused.
copy_uboot_logo ==
    [p \in Words |-> IF p < XRES * YRES THEN "uboot" ELSE "black"]

\* The words of the cell that begins with the word `first'.
Cell(first) == {first + row * XRES + col : row \in 0 .. FONTH - 1,
                                           col \in 0 .. FONTW - 1}

\* A word of a cell takes one colour or the other.
draw_char(ch, first, p, fg, bg) ==
    IF <<(p - first) \div XRES, (p - first) % XRES>> \in Glyph[ch]
    THEN fg ELSE bg

\* The first word of the cell of s[k]: the pen is a cell further right with
\* each character, and at the start of the next line after a newline.
Breaks(s, k) == {j \in 1 .. k - 1 : s[j] = Newline}
Column(s, k) == k - 1 - Max({0} \cup Breaks(s, k))
Pen(x, y, s, k) == (y + Cardinality(Breaks(s, k)) * FONTH) * XRES
                       + x + Column(s, k) * FONTW

\* A character without a glyph leaves its cell as it is, and what is drawn
\* later covers what was drawn before.
draw_string(frame, x, y, s, fg, bg) ==
    LET drawn(p) == {k \in DOMAIN s : /\ s[k] \in DOMAIN Glyph
                                      /\ p \in Cell(Pen(x, y, s, k))}
    IN  [p \in Words |->
            IF drawn(p) = {} THEN frame[p]
            ELSE LET k == Max(drawn(p))
                 IN  draw_char(s[k], Pen(x, y, s, k), p, fg, bg)]

-----------------------------------------------------------------------------
(* bootmenu.c and console.c *)

LogoX == (XRES - LogoWidth * FONTW) \div 2

draw_logo(frame, y) ==
    draw_string(frame, LogoX, y, Logo, "green", "black")

Entry(frame, n, selection) ==
    IF n - 1 = selection
    THEN draw_string(frame, MenuX, MenuY + (n - 1) * MenuPitch, Titles[n],
                     "black", "white")
    ELSE draw_string(frame, MenuX, MenuY + (n - 1) * MenuPitch, Titles[n],
                     "white", "black")

\* Mutant: only the entry that is now selected is drawn.
draw_menu_OnlySelected(frame, selection) ==
    Entry(frame, selection + 1, selection)

draw_menu(frame, selection) ==
    LET drawn[n \in 0 .. Len(Titles)] ==
            IF n = 0 THEN frame ELSE Entry(drawn[n - 1], n, selection)
    IN  drawn[Len(Titles)]

\* Mutant: the console stays on its line.
video_printf_SameLine(text) ==
    /\ fb' = draw_string(fb, ConX, cur_y, text, "white", "black")
    /\ log' = Append(log, <<text, cur_y>>)
    /\ UNCHANGED cur_y

video_printf(text) ==
    /\ fb' = draw_string(fb, ConX, cur_y, text, "white", "black")
    /\ cur_y' = cur_y + ConPitch
    /\ log' = Append(log, <<text, cur_y>>)

\* early_init of an AUTOBOOT build.
ScreenInit ==
    /\ fb = draw_logo(draw_string(copy_uboot_logo, ConX, ConY, Prompt,
                                  "white", "black"), PromptLogoY)
    /\ cur_y = ConY + ConPitch
    /\ log = << <<Prompt, ConY>> >>

-----------------------------------------------------------------------------
(* What is seen. *)

\* The text, of one line, stands at (x, y) within the screen.
Shows(frame, x, y, s, fg, bg) ==
    /\ x + Len(s) * FONTW <= XRES /\ y + FONTH <= YRES
    /\ \A k \in DOMAIN s :
          LET first == y * XRES + x + (k - 1) * FONTW
              lit == {first + l[1] * XRES + l[2] : l \in Glyph[s[k]]}
          IN  \A p \in Cell(first) : frame[p] = IF p \in lit THEN fg ELSE bg

\* The lines of the logo, each ended by a newline.
LogoEnds == {k \in DOMAIN Logo : Logo[k] = Newline}
LogoLines == Cardinality(LogoEnds)
LineEnd(n) ==
    CHOOSE e \in {0} \cup LogoEnds : Cardinality({k \in LogoEnds : k <= e}) = n
LogoLine(n) == SubSeq(Logo, LineEnd(n - 1) + 1, LineEnd(n) - 1)

ShowsLogo(frame, y) ==
    \A n \in 1 .. LogoLines :
        Shows(frame, LogoX, y + (n - 1) * FONTH, LogoLine(n), "green", "black")
=============================================================================
