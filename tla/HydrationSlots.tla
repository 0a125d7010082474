--------------------------- MODULE HydrationSlots ---------------------------
(***************************************************************************)
(* What the symbol runtime manager promises of historical hydration: a     *)
(* pool of slots in which a thread holds at most one key, a key has at     *)
(* most one holder, and no more than Capacity keys are held at a time.     *)
(* "One cold symbol request must trigger at most one upstream hydration    *)
(* job" (docs/terminal-runtime-architecture-guidance.md).  SymbolRuntime   *)
(* implements this module, whatever its calls, failures and evictions do   *)
(* in between.                                                             *)
(***************************************************************************)
EXTENDS Naturals, FiniteSets

CONSTANTS Holders, Keys, Capacity

VARIABLE holds   \* the pairs of a holder and the key it hydrates

SlotsInit == holds = {}

Acquire(t, k) ==
  /\ \A h \in holds : h[1] # t /\ h[2] # k
  /\ Cardinality(holds) < Capacity
  /\ holds' = holds \cup {<<t, k>>}

Release(t, k) ==
  /\ <<t, k>> \in holds
  /\ holds' = holds \ {<<t, k>>}

SlotsNext == \E t \in Holders, k \in Keys : Acquire(t, k) \/ Release(t, k)

SlotsSpec == SlotsInit /\ [][SlotsNext]_holds
=============================================================================
