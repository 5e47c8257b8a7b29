---------------------------- MODULE MCGameMonitor ----------------------------
(***************************************************************************)
(* GameMonitor on small instances.                                         *)
(***************************************************************************)
EXTENDS GameMonitor, TLC

\* Debounce workers differ in nothing but their slot.  For safety runs only.
WorkerSymmetry == Permutations(Workers)
=============================================================================
