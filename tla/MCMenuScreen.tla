---------------------------- MODULE MCMenuScreen ----------------------------
(* A screen of 12 by 26 words with cells of 2 by 2, laid out like the      *)
(* board's: the logo above the menu, the menu entries a row apart, the     *)
(* console's lines without a gap.  A glyph is one lit word.                *)
EXTENDS MenuScreen

MCOptions == <<"embed_boot", "continue_boot", "boot_recovery",
               "machine_reset", "reboot_recovery", "machine_poweroff">>
MCTitles == << <<"a", "b">>, <<"b", "a", "c">>, <<"c">>, <<"a", "c">>,
               <<"a", "c", "b">>, <<"c", "c">> >>
\* The blank is drawn, the tab has no glyph.
MCGlyph == [ch \in {"a", "b", "c", "_"} |->
              CASE ch = "a" -> {<<0, 0>>} [] ch = "b" -> {<<0, 1>>}
                [] ch = "c" -> {<<1, 0>>, <<1, 1>>} [] OTHER -> {}]
MCLogo == <<"_", "a", "_", "c", "newline", "b", "_", "b", "c", "newline">>
MCPrompt == <<"a", "a", "b">>
MCMessages == {<<"b", "b", "c", "a">>, <<"c", "a">>}
=============================================================================
