------------------------------ MODULE Delivery ------------------------------
(***************************************************************************)
(* What the hand-off between the Worker and the archive promises a device  *)
(* that was told "201 Created": the upload stays in the buffer (R2 plus an *)
(* unfetched pending_captures row) until it has been archived at least     *)
(* once, and only what is in the buffer is ever archived.  A user may      *)
(* delete an archived capture at any time.                                 *)
(***************************************************************************)
CONSTANT Uploads

VARIABLES
  buffer,    \* uploads accepted and still held for the backend
  archive,   \* uploads with at least one capture in the archive
  archived   \* uploads that have been archived at some time

vars == <<buffer, archive, archived>>

Init ==
  /\ buffer = {}
  /\ archive = {}
  /\ archived = {}

Accept(u) ==
  /\ u \notin buffer \cup archived
  /\ buffer' = buffer \cup {u}
  /\ UNCHANGED <<archive, archived>>

Archive(u) ==
  /\ archive' = archive \cup {u}
  /\ archived' = archived \cup {u}
  /\ u \in buffer \cup archived
  /\ UNCHANGED buffer

\* The buffer lets go of an upload only after it has been archived.
Release(u) ==
  /\ u \in buffer \cap archived
  /\ buffer' = buffer \ {u}
  /\ UNCHANGED <<archive, archived>>

\* Deleting a page deletes all its captures at once.
Delete(S) ==
  /\ archive' = archive \ S
  /\ UNCHANGED <<buffer, archived>>

Next ==
  \/ \E u \in Uploads : Accept(u) \/ Archive(u) \/ Release(u)
  \/ \E S \in SUBSET Uploads : Delete(S)

Spec == Init /\ [][Next]_vars

\* Nothing that was accepted stays unarchived for ever.
Delivered == \A u \in Uploads : (u \in buffer) ~> (u \in archived)
=============================================================================
