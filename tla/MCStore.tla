------------------------------ MODULE MCStore ------------------------------
(* CapabilityStore with a bounded ledger, for model checking. *)
EXTENDS CapabilityStore, TLC

CONSTANT MaxEvents   \* bound on the ledger's length

MCNext == Len(ledger) < MaxEvents /\ StoreNext

MCSpec == StoreInit /\ [][MCNext]_storeVars

Symmetry == Permutations(Caps) \cup Permutations(Execs) \cup Permutations(TotpSteps)
============================================================================
