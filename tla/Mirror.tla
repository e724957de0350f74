------------------------------- MODULE Mirror -------------------------------
(***************************************************************************)
(* The copy of pages and links that devices see: the agent's Syncer keeps  *)
(* the D1 tables archived_pages and archived_links in step with Postgres.  *)
(* A cycle runs table by table: an incremental push of the rows updated    *)
(* after a checkpoint, which is the latest updated_at found in D1, then    *)
(* the removal of rows that Postgres does not have any more.               *)
(*                                                                         *)
(* A row's updated_at is NOW(), which is when its transaction began; the   *)
(* row shows when it commits.  Every write has a NOW() of its own, so      *)
(* updated_at also stands for what the row says.                           *)
(*                                                                         *)
(* There is one Syncer: one agent process with the mirror on.  The         *)
(* Worker's upsert has no guard by updated_at, so what a second one pushes *)
(* late is not covered here.                                               *)
(*                                                                         *)
(* Abstracted: the columns of a row, users, HTTP.  What the writers are is *)
(* in Library and Links; here they insert, update, exclude and delete.     *)
(***************************************************************************)
EXTENDS Naturals, FiniteSets

CONSTANTS
  Rows,            \* rows of both tables, named by their id
  LinkRows,        \* those of links; the others are pages
  Sessions,        \* connections that write
  LinksEnabled,    \* the links feature flag
  TicksPerSecond,  \* of the clock
  MaxClock,        \* bound: transactions
  MaxFaults,       \* bound: calls that fail, crashes
  None

ASSUME MirrorAssumption ==
  /\ LinkRows \subseteq Rows
  /\ LinksEnabled \in BOOLEAN
  /\ TicksPerSecond \in Nat \ {0} /\ MaxClock \in Nat /\ MaxFaults \in Nat
  /\ None \notin Nat

VARIABLES
  rows,       \* Postgres
  clock,      \* NOW() of the latest transaction
  tx,         \* a session's open upsert
  d1,         \* the updated_at of a row's copy in D1
  hasLinks,   \* is the deployed Worker one with routes for links?
  cycle,      \* local variables of the Syncer
  faults,
  overtaken   \* history: rows that committed with a NOW() the push had passed

postgres == <<rows, clock, tx>>
vars == <<postgres, d1, hasLinks, cycle, faults, overtaken>>

Times == 1..MaxClock
Tables == {"pages", "links"}
RowsOf(t) == IF t = "links" THEN LinkRows ELSE Rows \ LinkRows
TableOf(r) == IF r \in LinkRows THEN "links" ELSE "pages"

Idle == [table |-> "pages", at |-> "idle", since |-> 0,
         batch |-> [r \in Rows |-> None], ids |-> {}]

TypeOK ==
  /\ rows \in [Rows -> [updated : Times, excluded : BOOLEAN] \cup {None}]
  /\ clock \in 0..MaxClock
  /\ tx \in [Sessions -> [row : Rows, now : Times] \cup {None}]
  /\ d1 \in [Rows -> Times \cup {None}]
  /\ hasLinks \in BOOLEAN
  /\ cycle \in [table : Tables, at : {"idle", "last", "query", "push", "ids", "eligible", "delete"},
                since : 0..MaxClock, batch : [Rows -> Times \cup {None}], ids : SUBSET Rows]
  /\ faults \in 0..MaxFaults
  /\ overtaken \subseteq Rows

Init ==
  /\ rows = [r \in Rows |-> None]
  /\ clock = 0
  /\ tx = [s \in Sessions |-> None]
  /\ d1 = [r \in Rows |-> None]
  /\ hasLinks \in BOOLEAN
  /\ cycle = Idle
  /\ faults = 0
  /\ overtaken = {}

-----------------------------------------------------------------------------
(* Postgres.                                                               *)

Now == clock + 1
Stamps(t) == {d1[r] : r \in RowsOf(t)} \ {None}
Pushing(t) == {cycle.batch[r] : r \in RowsOf(t)} \ {None}

\* A transaction that began at `now` commits row r.
Write(r, excluded, now) ==
  /\ rows' = [rows EXCEPT ![r] = [updated |-> now, excluded |-> excluded]]
  /\ overtaken' = IF \E at \in Stamps(TableOf(r)) \cup Pushing(TableOf(r)) : now < at
                  THEN overtaken \cup {r} ELSE overtaken \ {r}

\* writeToPostgres: BEGIN; UpsertPage and COMMIT are CommitUpsert.
BeginUpsert(s, r) ==
  /\ tx[s] = None
  /\ clock < MaxClock
  /\ clock' = Now
  /\ tx' = [tx EXCEPT ![s] = [row |-> r, now |-> Now]]
  /\ UNCHANGED <<rows, d1, hasLinks, cycle, faults, overtaken>>

CommitUpsert(s) ==
  /\ tx[s] # None
  /\ LET r == tx[s].row
     IN Write(r, rows[r] # None /\ rows[r].excluded, tx[s].now)
  /\ tx' = [tx EXCEPT ![s] = None]
  /\ UNCHANGED <<clock, d1, hasLinks, cycle, faults>>

\* A single statement: an edit, UpsertLink, or a change of excluded_from_mirror.
Set(r, excluded) ==
  /\ rows[r] # None \/ (r \in LinkRows /\ ~excluded)
  /\ clock < MaxClock
  /\ clock' = Now
  /\ Write(r, excluded, Now)
  /\ UNCHANGED <<tx, d1, hasLinks, cycle, faults>>

DeleteRow(r) ==
  /\ rows[r] # None
  /\ rows' = [rows EXCEPT ![r] = None]
  /\ overtaken' = overtaken \ {r}
  /\ UNCHANGED <<clock, tx, d1, hasLinks, cycle, faults>>

-----------------------------------------------------------------------------
(* The Syncer.                                                             *)

Here == RowsOf(cycle.table)
Eligible(r) == rows[r] # None /\ ~rows[r].excluded

\* The links table's calls answer 404 on an old Worker: the cycle ends.
Served == cycle.table = "pages" \/ hasLinks

SyncOnce ==
  /\ cycle.at = "idle"
  /\ cycle' = [Idle EXCEPT !.at = "last"]
  /\ UNCHANGED <<postgres, d1, hasLinks, faults, overtaken>>

\* One table is done, or has failed: the other one is independent of that.
Proceed == cycle' = IF cycle.table = "pages" /\ LinksEnabled
                    THEN [Idle EXCEPT !.table = "links", !.at = "last"] ELSE Idle

\* MAX(updated_at) of texts in RFC 3339 without trailing zeros.  Within one second
\* a shorter fraction sorts after the longer ones that it begins.
LastOf(times) ==
  IF times = {} THEN {0}
  ELSE {t \in times : \A u \in times : u \div TicksPerSecond <= t \div TicksPerSecond}

GetLastSync ==
  /\ cycle.at = "last"
  /\ Served
  /\ \E since \in LastOf(Stamps(cycle.table)) :
       cycle' = [cycle EXCEPT !.at = "query", !.since = since]
  /\ UNCHANGED <<postgres, d1, hasLinks, faults, overtaken>>

WorkerWithoutLinks ==
  /\ cycle.at = "last"
  /\ ~Served
  /\ Proceed
  /\ UNCHANGED <<postgres, d1, hasLinks, faults, overtaken>>

GetUpdatedSince ==
  /\ cycle.at = "query"
  /\ LET changed == {r \in Here : Eligible(r) /\ rows[r].updated > cycle.since}
     IN cycle' = IF changed = {} THEN [cycle EXCEPT !.at = "ids"]
                 ELSE [cycle EXCEPT !.at = "push",
                         !.batch = [r \in Rows |-> IF r \in changed THEN rows[r].updated ELSE None]]
  /\ UNCHANGED <<postgres, d1, hasLinks, faults, overtaken>>

Pushed == [r \in Rows |-> IF cycle.batch[r] # None THEN cycle.batch[r] ELSE d1[r]]

\* Mutant: the batch is not atomic, and stops after any of its rows.
MirrorArchivedPartly(answered) ==
  /\ cycle.at = "push"
  /\ \E done \in SUBSET Rows : d1' = [r \in Rows |-> IF r \in done THEN Pushed[r] ELSE d1[r]]
  /\ IF answered THEN cycle' = [cycle EXCEPT !.at = "ids", !.batch = Idle.batch]
                 ELSE Proceed
  /\ UNCHANGED <<postgres, hasLinks, overtaken>>

\* POST /internal/archived-pages/mirror: one batch, all or nothing.
MirrorArchived(answered) ==
  /\ cycle.at = "push"
  /\ d1' = Pushed
  /\ IF answered THEN cycle' = [cycle EXCEPT !.at = "ids", !.batch = Idle.batch]
                 ELSE Proceed
  /\ UNCHANGED <<postgres, hasLinks, overtaken>>

\* Mutant: the ids listed are those the checkpoint covers.
ListIDsSince ==
  /\ cycle.at = "ids"
  /\ LET ids == {r \in Here : d1[r] # None /\ d1[r] > cycle.since}
     IN IF ids = {} THEN Proceed ELSE cycle' = [cycle EXCEPT !.at = "eligible", !.ids = ids]
  /\ UNCHANGED <<postgres, d1, hasLinks, faults, overtaken>>

ListIDs ==
  /\ cycle.at = "ids"
  /\ LET ids == {r \in Here : d1[r] # None}
     IN IF ids = {} THEN Proceed ELSE cycle' = [cycle EXCEPT !.at = "eligible", !.ids = ids]
  /\ UNCHANGED <<postgres, d1, hasLinks, faults, overtaken>>

\* GetMirrorEligiblePageIDs, idsNotIn.
GetMirrorEligibleIDs ==
  /\ cycle.at = "eligible"
  /\ LET stale == {r \in cycle.ids : ~Eligible(r)}
     IN IF stale = {} THEN Proceed ELSE cycle' = [cycle EXCEPT !.at = "delete", !.ids = stale]
  /\ UNCHANGED <<postgres, d1, hasLinks, faults, overtaken>>

DeleteArchived(answered) ==
  /\ cycle.at = "delete"
  /\ d1' = [r \in Rows |-> IF r \in cycle.ids THEN None ELSE d1[r]]
  /\ Proceed
  /\ UNCHANGED <<postgres, hasLinks, overtaken>>

\* A call fails before it has an effect.
CallFails ==
  /\ cycle.at # "idle"
  /\ Proceed
  /\ UNCHANGED <<postgres, d1, hasLinks, overtaken>>

Crash ==
  /\ cycle.at # "idle"
  /\ cycle' = Idle
  /\ UNCHANGED <<postgres, d1, hasLinks, overtaken>>

\* A call fails before its effect, or after it; or the agent dies.
Fault ==
  /\ faults < MaxFaults
  /\ faults' = faults + 1
  /\ MirrorArchived(FALSE) \/ DeleteArchived(FALSE) \/ CallFails \/ Crash

\* The Worker is redeployed after the backend.
DeployWorker ==
  /\ ~hasLinks
  /\ hasLinks' = TRUE
  /\ UNCHANGED <<postgres, d1, cycle, faults, overtaken>>

Step ==
  \/ SyncOnce \/ GetLastSync \/ WorkerWithoutLinks \/ GetUpdatedSince
  \/ MirrorArchived(TRUE) /\ UNCHANGED faults
  \/ ListIDs \/ GetMirrorEligibleIDs
  \/ DeleteArchived(TRUE) /\ UNCHANGED faults

Writer ==
  \/ \E s \in Sessions : CommitUpsert(s) \/ \E r \in Rows \ LinkRows : BeginUpsert(s, r)
  \/ \E r \in Rows, excluded \in BOOLEAN : Set(r, excluded)
  \/ \E r \in Rows : DeleteRow(r)

Next == Step \/ Fault \/ Writer \/ DeployWorker

Spec == Init /\ [][Next]_vars

\* The agent's ticker runs cycle after cycle, each call ends.
FairSpec == Spec /\ WF_vars(Step)

-----------------------------------------------------------------------------
\* SyncOnce: the next query still finds every row whose copy is missing or old,
\* whatever the checkpoint is, unless the row committed late.
NothingSkipped ==
  \A r \in Rows \ overtaken :
    Eligible(r) /\ d1[r] # rows[r].updated =>
      \A since \in LastOf(Stamps(TableOf(r))) : rows[r].updated > since

\* SyncOnce: the state is well typed, and nothing that is missing in D1 is behind
\* the checkpoint.
MirrorInv == TypeOK /\ NothingSkipped

Mirrors(r) == d1[r] = IF Eligible(r) THEN rows[r].updated ELSE None

\* The Syncer needs no list of changes: whatever is written, excluded or deleted,
\* and whichever calls fail, in the end D1 has what Postgres has, of the links too as
\* soon as the Worker has their routes; except for rows that committed late.
Converges ==
  /\ <>[](\A r \in RowsOf("pages") \ overtaken : Mirrors(r))
  /\ <>[]hasLinks => <>[](\A r \in LinkRows \ overtaken : Mirrors(r))
=============================================================================
