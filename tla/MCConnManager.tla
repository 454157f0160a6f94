--------------------------- MODULE MCConnManager ---------------------------
(***************************************************************************)
(* TLC instances of ConnManager: handlers, devices and proxies are model   *)
(* values and interchangeable.                                             *)
(***************************************************************************)
EXTENDS ConnManager, TLC

Symm == Permutations(Calls) \cup Permutations(Devices) \cup Permutations(Proxies)
=============================================================================
