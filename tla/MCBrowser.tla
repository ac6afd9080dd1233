----------------------------- MODULE MCBrowser -----------------------------
(* BrowserPath on small instances. *)
EXTENDS BrowserPath, TLC

PathSymmetry == Permutations(Ports) \cup Permutations(Execs) \cup Permutations(Loops)
============================================================================
