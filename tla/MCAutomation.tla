---------------------------- MODULE MCAutomation ----------------------------
(* Instances of Automation for TLC. *)
EXTENDS Automation
MCUses == {{"scripts"}, {"scheduler"}, {"autodj"}, {"scripts", "scheduler"}}
=============================================================================
