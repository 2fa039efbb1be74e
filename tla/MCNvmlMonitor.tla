----------------------------- MODULE MCNvmlMonitor -----------------------------
(***************************************************************************)
(* An instance of NvmlMonitor: a client that moves a monitor only into one *)
(* that holds nothing.                                                     *)
(***************************************************************************)
EXTENDS NvmlMonitor
===============================================================================
