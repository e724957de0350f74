------------------------------- MODULE MCJobs -------------------------------
(* Instances of Jobs for TLC.                                              *)
EXTENDS Jobs, FiniteSets, TLC

CONSTANTS a1, a2

Symmetry == Permutations({a1, a2})

\* Bound: a request of the user and a fault, as long as no two agents have claims; once they
\* have, one of the two, one AI job less than there may be (they get their ids in turn), and
\* two jobs whose claims overlap.
Alone == shared = {} /\ \A a, b \in Agents : held[a] # Idle /\ held[b] # Idle => a = b
Crowded == clicks + faults <= 1 /\ status[MaxAIJobs] = "absent" /\ Cardinality(shared) <= 2
Bounded == Crowded \/ Alone
BoundedSpec == Init /\ [][Next /\ Bounded']_vars
=============================================================================
