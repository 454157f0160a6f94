--------------------------- MODULE MCNodeSession ---------------------------
(***************************************************************************)
(* The TLC instance of NodeSession with two builds, which are model values *)
(* and interchangeable.                                                    *)
(***************************************************************************)
EXTENDS NodeSession, TLC

Symm == Permutations(Builders)

\* A behaviour is followed up to its first stray report: a report changes
\* neither vpnBase nor a lock.
NoneAstray == astray = {}
=============================================================================
