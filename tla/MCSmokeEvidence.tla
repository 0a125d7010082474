-------------------------- MODULE MCSmokeEvidence --------------------------
\* Model checking of SmokeEvidence: nothing tells one trader from another.
EXTENDS SmokeEvidence, TLC

MachineSymmetry == Permutations(Machines)
=============================================================================
