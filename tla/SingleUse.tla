----------------------------- MODULE SingleUse -----------------------------
(***************************************************************************)
(* What a capability promises, with nothing said about how it is kept: it  *)
(* is minted once, it can be used at most once while it is live, and a     *)
(* capability that was used or withdrawn stays so.  This is the life cycle *)
(* CapabilityState::transition_to allows for single-use capabilities       *)
(* (max_uses is always 1 when the broker mints).                           *)
(***************************************************************************)
CONSTANT Caps

VARIABLE status     \* the life-cycle stage of every capability id

Stage == {"unminted", "live", "used", "withdrawn"}

Init == status = [c \in Caps |-> "unminted"]

Mint(c) ==
  /\ status[c] = "unminted"
  /\ status' = [status EXCEPT ![c] = "live"]

Use(c) ==
  /\ status[c] = "live"
  /\ status' = [status EXCEPT ![c] = "used"]

\* Revocation, expiry and recovery withdraw any number of live capabilities.
Withdraw(S) ==
  /\ \A c \in S : status[c] = "live"
  /\ status' = [c \in Caps |-> IF c \in S THEN "withdrawn" ELSE status[c]]

Next ==
  \/ \E c \in Caps : Mint(c) \/ Use(c)
  \/ \E S \in SUBSET Caps : Withdraw(S)

Spec == Init /\ [][Next]_status
============================================================================
