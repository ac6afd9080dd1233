------------------------------ MODULE MCAgents ------------------------------
EXTENDS AgentCalls, TLC
CONSTANTS a1, a2, t1, q1, q2, q3, r1

AdminSymmetry == Permutations(Admins)

\* A connection is lost or renewed only where little else changes.
Scenarios == drops > 0 => changes <= 1

MCRisk == [t \in Targets |-> 1]

\* The first and the third call name the same request, for the same target; the second
\* leaves the id to the broker.
MCCaller == (q1 :> a1) @@ (q2 :> a1) @@ (q3 :> a2)
MCSubject == [q \in Calls |-> t1]
MCNamed == (q1 :> r1) @@ (q2 :> NULL) @@ (q3 :> r1)

All(effect, presence) ==
  [effect |-> effect, agents |-> Agents, targets |-> Targets, presence |-> presence]

\* A person is asked; nobody is; all is denied by a later rule.
Asked == << All("allow", TRUE) >>
Alone == << All("allow", FALSE) >>
Denied == << All("allow", FALSE), All("deny", FALSE) >>
AllPolicies == {Asked, Alone, Denied}
NoDenial == {Asked, Alone}
=============================================================================
