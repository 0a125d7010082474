--------------------------- MODULE MCSymbolRuntime ---------------------------
(* Instances of SymbolRuntime for TLC. *)
EXTENDS SymbolRuntime, TLC

\* Slots 1..k: one for the current runtime of a symbol, the others for stale
\* runtimes that threads inside a call may still hold.
Alike == Permutations(Clients) \cup Permutations(Symbols)
=============================================================================
