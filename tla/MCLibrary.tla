----------------------------- MODULE MCLibrary -----------------------------
(***************************************************************************)
(* Pages and their captures, and what users arrange around them.  All that *)
(* the second needs of a page is that it exists, and it has its own        *)
(* deletion of pages, so no interleaving of the two is worth exploring:    *)
(* part says which of them takes the steps of a behaviour, and the other   *)
(* stays in its initial state.                                             *)
(***************************************************************************)
EXTENDS Library, Curation, TLC

CONSTANTS u1, u2, u3, A, s1, s2, v1, v2, n1, n2, slug

VARIABLE part

\* Three captures of one URL, taken in turn.
OneUrl == [u \in Uploads |-> A]
InTurn == [u \in Uploads |-> CASE u = u1 -> 1 [] u = u2 -> 2 [] u = u3 -> 3]
Symmetry == Permutations({s1, s2})

\* A page and a link of each user, or all kinds of one user, the third row being deleted
\* already; two tag names with one slug.
Item(kind, u) == Row(kind, u, 0, Nobody, Nobody)
MCStarts ==
  { 1 :> Item("page", v1) @@ 2 :> Item("link", v1) @@ 3 :> Item("page", v2) @@ 4 :> Item("link", v2),
    1 :> Item("page", v1) @@ 2 :> Item("collection", v1) @@ 4 :> Item("link", v1) }
MCSlugOf == [n \in Names |-> slug]

BothInit ==
  /\ part \in {"captures", "curation"} /\ LibraryInit /\ Init
  /\ part = "captures" => rows = CHOOSE start \in Starts : TRUE

CapturesStep == part = "captures" /\ LibraryNext /\ UNCHANGED <<part, vars>>
CurationStep == part = "curation" /\ Next /\ UNCHANGED <<part, libraryVars>>

BothSpec == BothInit /\ [][CapturesStep \/ CurationStep]_<<part, vars, libraryVars>>
=============================================================================
