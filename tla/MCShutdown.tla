------------------------------ MODULE MCShutdown ------------------------------
(* Instances of Shutdown, and with it of FormatPool, for TLC.              *)
EXTENDS Shutdown
===============================================================================
