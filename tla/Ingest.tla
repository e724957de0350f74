------------------------------- MODULE Ingest -------------------------------
(***************************************************************************)
(* The hand-off of a finished capture from the Worker (D1 pending_captures *)
(* rows and R2 objects) to the archive (the directories of archive.Store   *)
(* and the captures and pages rows of Postgres), as internal/ingest        *)
(* performs it: every access to one of the four stores is an action of its *)
(* own, any of them may fail, an agent may crash between any two, and      *)
(* several agents may run.                                                 *)
(*                                                                         *)
(* Abstracted: the bytes of a blob (an upload stands for them, and for     *)
(* their content_hash), the favicon (best effort, never fails a capture),  *)
(* and clock time (a claimed_at is one of four age classes).               *)
(***************************************************************************)
EXTENDS Naturals, FiniteSets

CONSTANTS
  Uploads,     \* captures taken by devices, each with its own bytes
  Ids,         \* client generated capture ids, also the R2 object keys
  IdOf,        \* the id the device gave to an upload
  Pages,       \* (user_id, normalized_url) pairs
  PageOf,      \* the page an upload's URL normalizes to
  Agents,      \* backend agent processes
  BatchLimit,  \* rows claimed by one poll
  MaxDirs,     \* bound: archive directories ever minted
  MaxFaults,   \* bound: failed calls and crashes
  None         \* SQL NULL, a missing object, a missing row

ASSUME UploadsAssumption ==
  /\ IdOf \in [Uploads -> Ids]
  /\ PageOf \in [Uploads -> Pages]

\* A backend generated UUID is never equal to a client generated one: the
\* one minted for the capture in directory d is written d.
ASSUME IdsAssumption == Ids \cap Nat = {} /\ None \notin Ids \cup Uploads \cup Nat

ASSUME BoundsAssumption ==
  /\ BatchLimit \in Nat \ {0}
  /\ MaxDirs \in Nat
  /\ MaxFaults \in Nat

VARIABLES
  device,   \* what the device has done with an upload
  r2,       \* the object stored under a capture id's key
  pending,  \* the pending_captures row of a capture id
  age,      \* its claimed_at: never claimed, or how long ago
  rows,     \* the captures row whose html_path is in a directory
  pages,    \* the pages rows
  nextDir,  \* the next directory NewCapture mints
  batch,    \* capture ids an agent claimed and has not finished with
  pc,       \* where an agent is in processOne
  cur,      \* the capture id it is working on
  blob,     \* the upload it read from R2
  dir,      \* the directory it wrote
  row,      \* the captures row it ended up with
  faults,   \* failed calls and crashes so far
  archived, \* history: uploads for which a captures row was ever inserted
  overrun   \* history: ids whose claim expired while an agent held them

deviceVars == <<device, r2, pending, age>>
pgVars == <<rows, pages>>
agentVars == <<batch, pc, cur, blob, dir, row>>
historyVars == <<archived, overrun>>
vars == <<deviceVars, pgVars, nextDir, agentVars, faults, historyVars>>

Dirs == 1..MaxDirs
SourceIds == Ids \cup Dirs \cup {None}
Captures == [up : Uploads, sid : SourceIds, jobs : Nat]

ASSUME NullAssumption == None \notin Captures

StoresTypeOK ==
  /\ device \in [Uploads -> {"new", "put", "acked"}]
  /\ r2 \in [Ids -> Uploads \cup {None}]
  /\ pending \in [Ids -> {"absent", "waiting", "fetched"}]
  /\ age \in [Ids -> {"none", "fresh", "stale", "old"}]
  /\ rows \in [Dirs -> Captures \cup {None}]
  /\ pages \in SUBSET Pages
  /\ nextDir \in Nat \ {0}

AgentsTypeOK ==
  /\ batch \in [Agents -> SUBSET Ids]
  /\ pc \in [Agents -> {"idle", "write", "commit", "lookup", "delete", "mark", "clear"}]
  /\ cur \in [Agents -> Ids \cup {None}]
  /\ blob \in [Agents -> Uploads \cup {None}]
  /\ dir \in [Agents -> Dirs \cup {None}]
  /\ row \in [Agents -> Dirs \cup {None}]

TypeOK ==
  /\ StoresTypeOK
  /\ AgentsTypeOK
  /\ faults \in 0..MaxFaults
  /\ archived \in SUBSET Uploads
  /\ overrun \in SUBSET Ids

Init ==
  /\ device = [u \in Uploads |-> "new"]
  /\ r2 = [i \in Ids |-> None]
  /\ pending = [i \in Ids |-> "absent"]
  /\ age = [i \in Ids |-> "none"]
  /\ rows = [d \in Dirs |-> None]
  /\ pages = {}
  /\ nextDir = 1
  /\ batch = [a \in Agents |-> {}]
  /\ pc = [a \in Agents |-> "idle"]
  /\ cur = [a \in Agents |-> None]
  /\ blob = [a \in Agents |-> None]
  /\ dir = [a \in Agents |-> None]
  /\ row = [a \in Agents |-> None]
  /\ faults = 0
  /\ archived = {}
  /\ overrun = {}

Live == {d \in Dirs : rows[d] # None}

\* A call fails, or its answer is lost.
Fault == faults < MaxFaults /\ faults' = faults + 1

-----------------------------------------------------------------------------
(* The device: PUT to the presigned URL, then POST /captures/complete.     *)

PutObject(u) ==
  /\ device[u] = "new"
  /\ device' = [device EXCEPT ![u] = "put"]
  /\ r2' = [r2 EXCEPT ![IdOf[u]] = u]
  /\ UNCHANGED <<pending, age, pgVars, nextDir, agentVars, faults, historyVars>>

\* 201 when the row is new, 204 when a row with this id is already there.
CompleteCapture(u) ==
  LET i == IdOf[u] IN
  /\ device[u] = "put"
  /\ device' = [device EXCEPT ![u] = "acked"]
  /\ \/ /\ pending[i] = "absent"
        /\ pending' = [pending EXCEPT ![i] = "waiting"]
     \/ /\ pending[i] # "absent"
        /\ UNCHANGED pending
  /\ UNCHANGED <<r2, age, pgVars, nextDir, agentVars, faults, historyVars>>

-----------------------------------------------------------------------------
(* Time.  A claim is stale after 60 minutes, and 72 hours after the claim  *)
(* a fetched row may be swept.                                             *)

ClaimGoesStale(i) ==
  /\ age[i] = "fresh"
  /\ age' = [age EXCEPT ![i] = "stale"]
  /\ overrun' = IF \E a \in Agents : i \in batch[a] THEN overrun \cup {i} ELSE overrun
  /\ UNCHANGED <<device, r2, pending, pgVars, nextDir, agentVars, faults, archived>>

RetentionPasses(i) ==
  /\ age[i] = "stale"
  /\ age' = [age EXCEPT ![i] = "old"]
  /\ UNCHANGED <<device, r2, pending, pgVars, nextDir, agentVars, faults, historyVars>>

-----------------------------------------------------------------------------
(* The Worker's internal endpoints that touch more than one row.           *)

\* Mutants: the age of a claim is not looked at; a stale claim is never retaken.
ClaimableAnyAge == {i \in Ids : pending[i] = "waiting"}
ClaimableNeverClaimed == {i \in Ids : pending[i] = "waiting" /\ age[i] = "none"}

Claimable == {i \in Ids : pending[i] = "waiting" /\ age[i] # "fresh"}

\* POST /internal/pending-captures: one UPDATE ... RETURNING, LIMIT rows of
\* the claimable ones.
ClaimPendingCaptures(a) ==
  /\ pc[a] = "idle"
  /\ batch[a] = {}
  /\ \E b \in SUBSET Claimable :
       /\ b # {}
       /\ \/ b = Claimable /\ Cardinality(b) <= BatchLimit
          \/ b # Claimable /\ Cardinality(b) = BatchLimit
       /\ batch' = [batch EXCEPT ![a] = b]
       /\ age' = [i \in Ids |-> IF i \in b THEN "fresh" ELSE age[i]]
  /\ UNCHANGED <<device, r2, pending, pgVars, nextDir, pc, cur, blob, dir, row,
                 faults, historyVars>>

\* Mutant: the DELETE forgets "fetched_at IS NOT NULL".
CleanupUnfetchedToo ==
  LET swept == {i \in Ids : pending[i] # "absent" /\ age[i] = "old"} IN
  /\ swept # {}
  /\ pending' = [i \in Ids |-> IF i \in swept THEN "absent" ELSE pending[i]]
  /\ age' = [i \in Ids |-> IF i \in swept THEN "none" ELSE age[i]]
  /\ UNCHANGED <<device, r2, pgVars, nextDir, agentVars, faults, historyVars>>

\* POST /internal/pending-captures/cleanup: one DELETE.
CleanupPendingCaptures ==
  LET swept == {i \in Ids : pending[i] = "fetched" /\ age[i] = "old"} IN
  /\ swept # {}
  /\ pending' = [i \in Ids |-> IF i \in swept THEN "absent" ELSE pending[i]]
  /\ age' = [i \in Ids |-> IF i \in swept THEN "none" ELSE age[i]]
  /\ UNCHANGED <<device, r2, pgVars, nextDir, agentVars, faults, historyVars>>

-----------------------------------------------------------------------------
(* processOne and captureAndCommit.                                        *)

Goto(a, label) == pc' = [pc EXCEPT ![a] = label]

\* processOne returns: RunOnce goes on with the rest of the batch.
Return(a) ==
  /\ Goto(a, "idle")
  /\ batch' = [batch EXCEPT ![a] = @ \ {cur[a]}]
  /\ cur' = [cur EXCEPT ![a] = None]
  /\ blob' = [blob EXCEPT ![a] = None]
  /\ dir' = [dir EXCEPT ![a] = None]
  /\ row' = [row EXCEPT ![a] = None]

\* r2.Get.  A missing object is an error like any other.
ReadBlob(a, i) ==
  /\ pc[a] = "idle"
  /\ i \in batch[a]
  /\ cur' = [cur EXCEPT ![a] = i]
  /\ \/ /\ r2[i] # None
        /\ blob' = [blob EXCEPT ![a] = r2[i]]
        /\ Goto(a, "write")
        /\ UNCHANGED faults
     \/ /\ r2[i] = None
        /\ Goto(a, "lookup")
        /\ UNCHANGED <<blob, faults>>
     \/ /\ Fault
        /\ Goto(a, "lookup")
        /\ UNCHANGED blob
  /\ UNCHANGED <<deviceVars, pgVars, nextDir, batch, dir, row, historyVars>>

\* NewCapture and WriteHTML: every attempt mints a directory of its own.
WriteArchive(a) ==
  /\ pc[a] = "write"
  /\ nextDir \in Dirs
  /\ nextDir' = nextDir + 1
  /\ dir' = [dir EXCEPT ![a] = nextDir]
  /\ Goto(a, "commit")
  /\ UNCHANGED <<deviceVars, pgVars, batch, cur, blob, row, faults, historyVars>>

\* Mutant: a failed attempt falls through to the deletion of the object.
AttemptFallsThrough(a) ==
  /\ pc[a] \in {"write", "commit"}
  /\ Fault
  /\ Goto(a, "delete")
  /\ UNCHANGED <<deviceVars, pgVars, nextDir, batch, cur, blob, dir, row, historyVars>>

\* Writing the file, resolving the language, normalizing the URL or the
\* transaction fails, and nothing is committed.
AttemptFails(a) ==
  /\ pc[a] \in {"write", "commit"}
  /\ Fault
  /\ Goto(a, "lookup")
  /\ UNCHANGED <<deviceVars, pgVars, nextDir, batch, cur, blob, dir, row, historyVars>>

\* The rows an INSERT with this source_capture_id conflicts with.
Conflicting(sid) == {d \in Live : rows[d].sid = sid}

\* Mutant: the parameters of the INSERT are swapped.
InsertSwapped(d, u, sid) ==
  /\ rows' = [rows EXCEPT ![d] = [up |-> sid, sid |-> u, jobs |-> 1]]
  /\ archived' = archived \cup {u}

\* A new captures row comes with one screenshot and one readability job.
InsertCapture(d, u, sid) ==
  /\ rows' = [rows EXCEPT ![d] = [up |-> u, sid |-> sid, jobs |-> 1]]
  /\ archived' = archived \cup {u}

\* Mutants: a retry enqueues the jobs again; a conflict is always a retry.
InsertOrFindEnqueues(a, found) ==
  \/ /\ Conflicting(cur[a]) = {}
     /\ InsertCapture(dir[a], blob[a], cur[a])
     /\ found = dir[a]
  \/ /\ found \in Conflicting(cur[a])
     /\ rows' = [rows EXCEPT ![found].jobs = @ + 1]
     /\ UNCHANGED archived

InsertOrFindAny(a, found) ==
  \/ /\ Conflicting(cur[a]) = {}
     /\ InsertCapture(dir[a], blob[a], cur[a])
     /\ found = dir[a]
  \/ /\ found \in Conflicting(cur[a])
     /\ UNCHANGED <<rows, archived>>

\* insertCaptureWithCollisionHandling: no conflict, a conflict with the same
\* content (a retry, nothing is inserted), or one with other content (a
\* collision, the insert is repeated under a fresh id).
InsertOrFind(a, found) ==
  LET d == dir[a]
      u == blob[a]
      i == cur[a]
  IN
  \/ /\ Conflicting(i) = {}
     /\ InsertCapture(d, u, i)
     /\ found = d
  \/ /\ found \in Conflicting(i)
     /\ rows[found].up = u
     /\ UNCHANGED <<rows, archived>>
  \/ /\ \E c \in Conflicting(i) : rows[c].up # u
     /\ InsertCapture(d, u, d)
     /\ found = d

\* The transaction of writeToPostgres.  The answer to the COMMIT may be lost
\* after it took effect: the caller then sees an error.
Commit(a) ==
  /\ pc[a] = "commit"
  /\ pages' = pages \cup {PageOf[blob[a]]}
  /\ \E found \in Dirs :
       /\ InsertOrFind(a, found)
       /\ \/ /\ Goto(a, "delete")
             /\ row' = [row EXCEPT ![a] = found]
             /\ UNCHANGED faults
          \/ /\ Fault
             /\ Goto(a, "lookup")
             /\ UNCHANGED row
  /\ UNCHANGED <<deviceVars, nextDir, batch, cur, blob, dir, overrun>>

\* Mutant: an error of the lookup is taken for a row that was found.
LookupErrorIsFound(a) ==
  /\ pc[a] = "lookup"
  /\ \/ /\ \E d \in Conflicting(cur[a]) : row' = [row EXCEPT ![a] = d]
        /\ Goto(a, "delete")
        /\ UNCHANGED <<batch, cur, blob, dir, faults>>
     \/ /\ Conflicting(cur[a]) = {}
        /\ Return(a)
        /\ UNCHANGED faults
     \/ /\ Fault
        /\ Goto(a, "delete")
        /\ UNCHANGED <<batch, cur, blob, dir, row>>
  /\ UNCHANGED <<deviceVars, pgVars, nextDir, historyVars>>

\* After a failed attempt: has an earlier one committed this id?
LookupSourceId(a) ==
  /\ pc[a] = "lookup"
  /\ \/ /\ \E d \in Conflicting(cur[a]) : row' = [row EXCEPT ![a] = d]
        /\ Goto(a, "delete")
        /\ UNCHANGED <<batch, cur, blob, dir, faults>>
     \/ /\ Conflicting(cur[a]) = {}
        /\ Return(a)
        /\ UNCHANGED faults
     \/ /\ Fault
        /\ Return(a)
  /\ UNCHANGED <<deviceVars, pgVars, nextDir, historyVars>>

\* Mutant: a failure to delete the object is logged and otherwise ignored.
DeleteBlobIgnored(a) ==
  /\ pc[a] = "delete"
  /\ \/ /\ r2' = [r2 EXCEPT ![cur[a]] = None]
        /\ UNCHANGED faults
     \/ /\ Fault
        /\ UNCHANGED r2
  /\ Goto(a, "mark")
  /\ UNCHANGED <<device, pending, age, pgVars, nextDir, batch, cur, blob, dir, row,
                 historyVars>>

DeleteBlob(a) ==
  /\ pc[a] = "delete"
  /\ \/ /\ r2' = [r2 EXCEPT ![cur[a]] = None]
        /\ Goto(a, "mark")
        /\ UNCHANGED <<batch, cur, blob, dir, row, faults>>
     \/ /\ Fault
        /\ Return(a)
        /\ UNCHANGED r2
  /\ UNCHANGED <<device, pending, age, pgVars, nextDir, historyVars>>

\* POST /internal/pending-captures/:id/fetched: 404 when the row is gone.
\* On a failure the flag may have been set all the same.
MarkFetched(a) ==
  LET i == cur[a]
      Set == pending' = [pending EXCEPT ![i] = "fetched"]
  IN
  /\ pc[a] = "mark"
  /\ \/ /\ pending[i] # "absent"
        /\ Set
        /\ Goto(a, "clear")
        /\ UNCHANGED <<batch, cur, blob, dir, row, faults>>
     \/ /\ pending[i] = "absent"
        /\ Return(a)
        /\ UNCHANGED <<pending, faults>>
     \/ /\ Fault
        /\ Return(a)
        /\ \/ pending[i] # "absent" /\ Set
           \/ UNCHANGED pending
  /\ UNCHANGED <<device, r2, age, pgVars, nextDir, historyVars>>

\* A failure to clear is logged and otherwise ignored.
ClearSourceId(a) ==
  LET d == row[a] IN
  /\ pc[a] = "clear"
  /\ Return(a)
  /\ \/ /\ rows[d] # None
        /\ rows' = [rows EXCEPT ![d] = [up |-> @.up, sid |-> None, jobs |-> @.jobs]]
        /\ UNCHANGED faults
     \/ /\ rows[d] = None
        /\ UNCHANGED <<rows, faults>>
     \/ /\ Fault
        /\ UNCHANGED rows
  /\ UNCHANGED <<deviceVars, pages, nextDir, historyVars>>

\* The process dies.  Its claims stay in D1 until they go stale.
Crash(a) ==
  /\ batch[a] # {}
  /\ Fault
  /\ Goto(a, "idle")
  /\ batch' = [batch EXCEPT ![a] = {}]
  /\ cur' = [cur EXCEPT ![a] = None]
  /\ blob' = [blob EXCEPT ![a] = None]
  /\ dir' = [dir EXCEPT ![a] = None]
  /\ row' = [row EXCEPT ![a] = None]
  /\ UNCHANGED <<deviceVars, pgVars, nextDir, historyVars>>

-----------------------------------------------------------------------------
(* The dashboard.                                                          *)

OnPage(p) == {d \in Live : PageOf[rows[d].up] = p}

\* DELETE /api/captures/{id}: a page's last capture takes the page with it.
DeleteCapture(d) ==
  LET p == PageOf[rows[d].up] IN
  /\ d \in Live
  /\ rows' = [rows EXCEPT ![d] = None]
  /\ pages' = IF OnPage(p) = {d} THEN pages \ {p} ELSE pages
  /\ UNCHANGED <<deviceVars, nextDir, agentVars, faults, historyVars>>

\* DELETE /api/pages/{id}: the captures rows go by ON DELETE CASCADE.
DeletePage(p) ==
  /\ p \in pages
  /\ pages' = pages \ {p}
  /\ rows' = [d \in Dirs |-> IF d \in OnPage(p) THEN None ELSE rows[d]]
  /\ UNCHANGED <<deviceVars, nextDir, agentVars, faults, historyVars>>

-----------------------------------------------------------------------------
Device == \E u \in Uploads : PutObject(u) \/ CompleteCapture(u)

Time == \E i \in Ids : ClaimGoesStale(i) \/ RetentionPasses(i)

ProcessOne(a) ==
  \/ \E i \in Ids : ReadBlob(a, i)
  \/ WriteArchive(a)
  \/ Commit(a)
  \/ LookupSourceId(a)
  \/ DeleteBlob(a)
  \/ MarkFetched(a)
  \/ ClearSourceId(a)

Agent(a) == ClaimPendingCaptures(a) \/ ProcessOne(a) \/ AttemptFails(a) \/ Crash(a)

Dashboard == (\E d \in Dirs : DeleteCapture(d)) \/ (\E p \in Pages : DeletePage(p))

Next ==
  \/ Device
  \/ Time
  \/ \E a \in Agents : Agent(a)
  \/ CleanupPendingCaptures
  \/ Dashboard

Spec == Init /\ [][Next]_vars

-----------------------------------------------------------------------------
(* The properties below speak of uploads that share their id with no other;*)
(* what ingestion does when two uploads share one is RetryOrCollision.     *)

HasOwnId(u) == \A v \in Uploads : IdOf[v] = IdOf[u] => v = u

\* Once a device was told its capture is recorded, that capture is either
\* still held for the backend, bytes and row, or has been archived: no crash,
\* failed call, stale claim or sweep of processOne and the cleanup endpoints
\* loses it.
CaptureNeverLost ==
  \A u \in Uploads : HasOwnId(u) /\ device[u] = "acked" =>
    \/ pending[IdOf[u]] = "waiting" /\ r2[IdOf[u]] = u
    \/ u \in archived

\* A capture is never archived twice (source_capture_id against a sequential
\* retry, the claim against a concurrent agent), unless an agent was still
\* working on it when its claim went stale.
ArchivedAtMostOnce ==
  \A c, d \in Live : c # d /\ rows[c].up = rows[d].up /\ HasOwnId(rows[c].up) =>
    IdOf[rows[c].up] \in overrun

\* The row is flagged fetched only after its object is gone: nothing is left
\* in R2 that no later poll would ever delete.
NoBlobLeak ==
  \A u \in Uploads : HasOwnId(u) /\ pending[IdOf[u]] = "fetched" => r2[IdOf[u]] = None

\* Every captures row has exactly the jobs of its own insertion, however
\* often its upload is processed again.
JobsEnqueuedOnce == \A d \in Live : rows[d].jobs = 1

\* insertCaptureWithCollisionHandling resolves to a row that holds the bytes
\* this attempt read, also when another capture already uses its id.
RetryOrCollision ==
  [][\A a \in Agents :
       pc[a] = "commit" /\ pc'[a] = "delete" => rows'[row'[a]].up = blob[a]]_vars

\* ingest.go and DESIGN 3c: a retry does not fail forever re-fetching an
\* object an earlier attempt deleted, because that attempt's row is found.
\* (The violated property: a waiting row no agent holds can be finished.)
RetryRecovers ==
  \A u \in Uploads :
    /\ HasOwnId(u)
    /\ pending[IdOf[u]] = "waiting"
    /\ \A a \in Agents : IdOf[u] \notin batch[a]
    => r2[IdOf[u]] # None \/ Conflicting(IdOf[u]) # {}

\* The inductive strengthening of CaptureNeverLost and NoBlobLeak: what the
\* stores and every agent in processOne know about one upload.
StoresAgree(u) ==
  LET i == IdOf[u] IN
  /\ r2[i] \in {u, None}
  /\ device[u] = "put" => r2[i] = u
  /\ pending[i] # "absent" => device[u] = "acked"
  /\ pending[i] = "fetched" => r2[i] = None /\ u \in archived
  /\ device[u] = "acked" =>
       \/ pending[i] = "waiting" /\ r2[i] = u
       \/ u \in archived
  /\ \A d \in Live : rows[d].sid = i => rows[d].up = u /\ u \in archived

AgentAgrees(a, u) ==
  LET i == IdOf[u] IN
  /\ i \in batch[a] => device[u] = "acked"
  /\ cur[a] = i /\ pc[a] \in {"write", "commit"} => blob[a] = u
  /\ cur[a] = i /\ pc[a] \in {"delete", "mark", "clear"} => u \in archived
  /\ cur[a] = i /\ pc[a] \in {"mark", "clear"} => r2[i] = None

\* An agent outside RunOnce's loop body holds nothing; inside, it works on an
\* id of its batch.
AgentShape(a) ==
  /\ pc[a] # "idle" => cur[a] \in batch[a]
  /\ pc[a] \in {"write", "commit"} => blob[a] # None
  /\ pc[a] = "commit" => dir[a] # None
  /\ pc[a] \in {"delete", "mark", "clear"} => row[a] # None

\* What ties the four stores and the agents together at every step of
\* processOne, for every upload with an id of its own.
HandOffInv ==
  /\ \A a \in Agents : AgentShape(a)
  /\ \A u \in Uploads : HasOwnId(u) =>
       StoresAgree(u) /\ \A a \in Agents : AgentAgrees(a, u)

-----------------------------------------------------------------------------
(* Refinement of Delivery.                                                 *)

Held == {u \in Uploads : /\ device[u] = "acked"
                         /\ pending[IdOf[u]] = "waiting"
                         /\ r2[IdOf[u]] = u}

D == INSTANCE Delivery WITH
       buffer <- Held, archive <- {rows[d].up : d \in Live}, archived <- archived

\* The hand-off implements Delivery.
ImplementsDelivery == D!Spec

\* An agent's poll loop keeps running and time passes; devices, users and the
\* operator owe nothing.
Fairness ==
  /\ \A a \in Agents : WF_vars(ClaimPendingCaptures(a)) /\ WF_vars(ProcessOne(a))
  /\ \A i \in Ids : WF_vars(ClaimGoesStale(i))

FairSpec == Spec /\ Fairness

\* Every recorded capture is archived eventually, whatever finite number of
\* calls fail or agents crash: a claim that was never finished goes stale and
\* is taken over.
EventuallyArchived == D!Delivered
=============================================================================
