---------------------------- MODULE PolicyRules ----------------------------
(***************************************************************************)
(* Policy evaluation and risk.  A rule says whom it is about, which uses   *)
(* of a credential (credential, action, destination, assurance: together a *)
(* target), whether it allows them, and whether a person must be present.  *)
(***************************************************************************)
EXTENDS Naturals, Sequences

CONSTANTS
  Agents,
  Targets,
  Risk,            \* target -> rank of the risk of its action
  Assured,         \* targets in a browser of managed assurance
  PresenceLimit,   \* highest risk for which the platform can show a person's presence
  MaxGrantable     \* highest risk a standing grant may carry

Low == 0
High == 2
Critical == 3

Rule == [effect : {"allow", "deny"}, agents : SUBSET Agents, targets : SUBSET Targets,
         presence : BOOLEAN]

ASSUME RiskAssumption ==
  /\ Risk \in [Targets -> Low .. Critical]
  /\ Assured \subseteq Targets
  /\ PresenceLimit \in Low .. Critical
  /\ MaxGrantable \in Low .. Critical

RuleMatches(rule, a, t) == a \in rule.agents /\ t \in rule.targets

\* Seeded fault: the first rule that matches decides.
FirstMatch(rule, so_far, a, t) ==
  IF so_far # "default" \/ ~ RuleMatches(rule, a, t) THEN so_far
  ELSE IF rule.effect = "deny" THEN "deny"
  ELSE IF rule.presence THEN "presence" ELSE "allow"

\* One rule of the scan: a matching deny rule decides at once, the first matching allow rule
\* is remembered.
ScanRule(rule, so_far, a, t) ==
  IF so_far = "deny" \/ ~ RuleMatches(rule, a, t) THEN so_far
  ELSE IF rule.effect = "deny" THEN "deny"
  ELSE IF so_far # "default" THEN so_far
  ELSE IF rule.presence THEN "presence" ELSE "allow"

Evaluate(rules, a, t) ==
  LET Scan[i \in 0 .. Len(rules)] ==
        IF i = 0 THEN "default" ELSE ScanRule(rules[i], Scan[i - 1], a, t)
  IN Scan[Len(rules)]

Verdicts == {"default", "deny", "allow", "presence"}

CalculateRisk(t, presence) ==
  IF t \notin Assured THEN Critical ELSE IF presence THEN High ELSE Risk[t]

\* The evaluated risk must be one for which presence can be had, even when the rule does
\* not ask for it.
PresenceAvailable(t, presence) == CalculateRisk(t, presence) <= PresenceLimit

Grantable(t) == CalculateRisk(t, FALSE) <= MaxGrantable

(***************************************************************************)
(* What the scan stands for, without an order of evaluation.               *)
(***************************************************************************)
Permits(rules, a, t) ==
  /\ \A i \in 1 .. Len(rules) : RuleMatches(rules[i], a, t) => rules[i].effect = "allow"
  /\ \E i \in 1 .. Len(rules) : RuleMatches(rules[i], a, t)

\* No person need be present: the first rule that speaks of the use does not ask for one.
PermitsAlone(rules, a, t) ==
  /\ Permits(rules, a, t)
  /\ \E i \in 1 .. Len(rules) :
       /\ RuleMatches(rules[i], a, t) /\ ~ rules[i].presence
       /\ \A j \in 1 .. i - 1 : ~ RuleMatches(rules[j], a, t)
============================================================================
