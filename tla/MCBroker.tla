------------------------------ MODULE MCBroker ------------------------------
(* Broker on small instances: each configuration is one scenario. *)
EXTENDS Broker, TLC

BrokerSymmetry == 
  Permutations(Requests) \cup Permutations(Execs) \cup Permutations(Executors) \cup Permutations(Caps)
  \cup Permutations(Admins) \cup Permutations(Policies)

Asked == {r \in Requests : reqState[r] # "none"}
Asks(kinds) == \A r \in Requests : task[r].auth # NULL => task[r].auth.action \in kinds
Holds(kinds) == \A c \in Caps : memCap[c] # NULL => memCap[c].auth.action \in kinds

Reloaded == Happened("policy.reloaded") > 0
Lapsed == Happened("browser.stale") > 0 \/ session = "stale" \/ ~ At(Ticker, "idle")

\* One fill or sign-in, whatever is done to it, a reload or a lapse of the session included.
OneUse ==
  /\ restarts = 0
  /\ Cardinality(Asked) <= 1 /\ Asks({"fill", "oauth"}) /\ Holds({"fill", "oauth"})
  /\ \A t \in TotpSteps : totpStep <= t
  /\ ~ (Reloaded /\ Lapsed)

\* Codes for two requests, and nobody interferes.
TwoCodes ==
  /\ restarts = 0
  /\ Asks({"totp"}) /\ Holds({"totp"})
  /\ \A d \in Admins : At(d, "idle")
  /\ ~ Reloaded /\ ~ Lapsed
  /\ \A e \in Execs : memExec[e] # NULL => memExec[e].state \notin Statuses
  /\ \A x \in Executors : task[x].pc \notin {"result", "resultMem", "resultReq"}

\* The daemon is back, and nothing new is asked of it.
Recovered == restarts > 0 /\ Asked = {} /\ \A x \in Handlers : At(x, "idle")

Scenarios == OneUse \/ TwoCodes \/ Recovered
============================================================================
