------------------------------ MODULE MCIngest ------------------------------
(* Instances of Ingest for TLC: two uploads with ids of their own, or two  *)
(* uploads that share one.                                                 *)
EXTENDS Ingest, TLC

CONSTANTS u1, u2, i1, i2, p1, a1, a2

OwnIds == u1 :> i1 @@ u2 :> i2
SharedId == u1 :> i1 @@ u2 :> i1
SamePage == u1 :> p1 @@ u2 :> p1

Symmetry == Permutations({a1, a2})

\* Two uploads with ids of their own are alike, each together with its id.
Swap == u1 :> u2 @@ u2 :> u1 @@ i1 :> i2 @@ i2 :> i1
OwnIdsSymmetry == Symmetry \cup {Swap @@ f : f \in Symmetry}
=============================================================================
