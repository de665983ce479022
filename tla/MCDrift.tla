------------------------------ MODULE MCDrift ------------------------------
(* Small instances of Drift. *)
EXTENDS Drift, TLC

\* Requests, agents and event types are interchangeable.
MCSymmetry == Permutations(Clients) \cup Permutations(Agents) \cup Permutations(Types)

\* Five events, of which a score may be any threshold, are events of one agent.
MCManyOfOneAgent ==
    Cardinality(events) > 3 => \E g \in Agents : \A e \in events : e.agent = g
=============================================================================
