----------------------------- MODULE MCBootMenu -----------------------------
(* The board's five entries (without DOWNSTREAM_BOOT), a long press of     *)
(* three samples, and ticks chosen so that a restart is shorter than a     *)
(* sample and a press may fit between two samples of the countdown.        *)
EXTENDS BootMenu

MCOptions == <<"continue_boot", "boot_recovery", "machine_reset",
               "reboot_recovery", "machine_poweroff">>

\* The menu of a DOWNSTREAM_BOOT build.
MCDownstream == <<"embed_boot">> \o MCOptions
=============================================================================
