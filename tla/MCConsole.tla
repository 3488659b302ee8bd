------------------------------- MODULE MCConsole -------------------------------
(* Two CPUs that log. *)
EXTENDS Console, TLC

CONSTANTS bsp, ap1

MCCpus == {bsp, ap1}
MCId == (bsp :> 0) @@ (ap1 :> 1)
MCMarked == {ap1}
===============================================================================
