------------------------------- MODULE Queue -------------------------------
(***************************************************************************)
(* The work queue in D1: devices claim queued URLs and resolve each by     *)
(* saving a capture or a link.  A Worker handler is not a transaction:     *)
(* every D1 query of the completion and failure handlers is an action of   *)
(* its own, so claims, other requests, token revocations and cleanups may  *)
(* happen between a check and the write it guards.                         *)
(*                                                                         *)
(* Abstracted: the bytes and the URL of a save; its way from the           *)
(* pending_captures or pending_links table to the archive (see Ingest);    *)
(* clock time (three ages of an item's claimed_at); users (one).           *)
(***************************************************************************)
EXTENDS Naturals, FiniteSets

CONSTANTS
  Items,      \* client generated queue_items ids
  Devices,    \* tokens
  Saves,      \* client generated capture and link ids
  LinkSaves,  \* those that are link ids
  KeepsId,    \* devices whose client sends the same id again on a retry
  Slots,      \* bound: requests the Worker handles at a time
  Revocable,  \* bound: tokens the user may revoke
  LinksMayGo, \* may the operator turn the links feature off?
  None        \* SQL NULL, an idle slot, nothing yet

ASSUME QueueAssumption ==
  /\ LinkSaves \subseteq Saves
  /\ KeepsId \subseteq Devices
  /\ Revocable \subseteq Devices
  /\ LinksMayGo \in BOOLEAN
  /\ None \notin Items \cup Devices \cup Saves

VARIABLES
  status,    \* queue_items.status, "absent" before and "deleted" after
  claimant,  \* claimed_by_token_id
  age,       \* claimed_at: under 15 minutes, up to 72 hours, or over
  retry,     \* manual_retry
  row,       \* the pending_captures or pending_links row of a save
  linksOn,   \* the links feature, on the Worker and on the agent
  revoked,   \* deleted tokens
  tabs,      \* items a device has a tab open for
  owner,     \* the device that minted a save's id
  target,    \* the item it is for
  answer,    \* what the device was told about the save
  req,       \* the requests in the Worker; held is history
  recorded,  \* history: saves whose row was inserted
  overtaken, \* history: saves written when the claim, checked, was gone
  raced,     \* history: items failed when the claim, checked, was gone
  asked      \* history: items the user retried since they last failed

itemVars == <<status, claimant, age, retry>>
deviceVars == <<tabs, owner, target, answer>>
historyVars == <<recorded, overtaken, raced, asked>>
vars == <<itemVars, row, linksOn, revoked, deviceVars, req, historyVars>>

Requests == [op : {"save", "fail"}, dev : Devices, item : Items,
             save : Saves \cup {None}, at : {"seek", "read", "write"}, held : BOOLEAN]

TypeOK ==
  /\ status \in [Items -> {"absent", "pending", "claimed", "captured", "failed", "deleted"}]
  /\ claimant \in [Items -> Devices \cup {None}]
  /\ age \in [Items -> {"fresh", "stale", "expired"}]
  /\ retry \in [Items -> BOOLEAN]
  /\ row \in [Saves -> {"absent", "waiting", "fetched", "swept"}]
  /\ linksOn \in BOOLEAN
  /\ revoked \in SUBSET Devices
  /\ tabs \in [Devices -> SUBSET Items]
  /\ owner \in [Saves -> Devices \cup {None}]
  /\ target \in [Saves -> Items \cup {None}]
  /\ answer \in [Saves -> {"none", "saved", "refused"}]
  /\ req \in [Slots -> Requests \cup {None}]
  /\ recorded \in SUBSET Saves
  /\ overtaken \in SUBSET Saves
  /\ raced \in SUBSET Items
  /\ asked \in SUBSET Items

Init ==
  /\ status = [q \in Items |-> "absent"]
  /\ claimant = [q \in Items |-> None]
  /\ age = [q \in Items |-> "fresh"]
  /\ retry = [q \in Items |-> FALSE]
  /\ row = [s \in Saves |-> "absent"]
  /\ linksOn = TRUE
  /\ revoked = {}
  /\ tabs = [d \in Devices |-> {}]
  /\ owner = [s \in Saves |-> None]
  /\ target = [s \in Saves |-> None]
  /\ answer = [s \in Saves |-> "none"]
  /\ req = [r \in Slots |-> None]
  /\ recorded = {}
  /\ overtaken = {}
  /\ raced = {}
  /\ asked = {}

-----------------------------------------------------------------------------
(* Enqueueing, claiming and retrying: one statement each.                  *)

\* POST /queue or POST /internal/queue-items.  ON CONFLICT DO NOTHING.
Enqueue(q) ==
  /\ status[q] = "absent"
  /\ status' = [status EXCEPT ![q] = "pending"]
  /\ UNCHANGED <<claimant, age, retry, row, linksOn, revoked, deviceVars, req, historyVars>>

Claimable(q) ==
  \/ status[q] = "pending"
  \/ status[q] = "claimed" /\ age[q] # "fresh"
  \/ status[q] = "failed" /\ retry[q]

\* Mutant: manual_retry is kept.
ClaimKeepsRetry(d, q) ==
  /\ d \notin revoked
  /\ Claimable(q)
  /\ status' = [status EXCEPT ![q] = "claimed"]
  /\ claimant' = [claimant EXCEPT ![q] = d]
  /\ age' = [age EXCEPT ![q] = "fresh"]
  /\ tabs' = [tabs EXCEPT ![d] = @ \cup {q}]
  /\ UNCHANGED <<retry, row, linksOn, revoked, owner, target, answer, req, historyVars>>

\* The conditional UPDATE of POST /queue/:id/claim.  The device opens a tab
\* for the item when the answer reaches it.
Claim(d, q) ==
  /\ d \notin revoked
  /\ Claimable(q)
  /\ status' = [status EXCEPT ![q] = "claimed"]
  /\ claimant' = [claimant EXCEPT ![q] = d]
  /\ age' = [age EXCEPT ![q] = "fresh"]
  /\ retry' = [retry EXCEPT ![q] = FALSE]
  /\ \/ tabs' = [tabs EXCEPT ![d] = @ \cup {q}]
     \/ UNCHANGED tabs
  /\ UNCHANGED <<row, linksOn, revoked, owner, target, answer, req, historyVars>>

\* POST /internal/queue-items/:id/retry.
RetryItem(q) ==
  /\ status[q] = "failed"
  /\ retry' = [retry EXCEPT ![q] = TRUE]
  /\ asked' = asked \cup {q}
  /\ UNCHANGED <<status, claimant, age, row, linksOn, revoked, deviceVars, req,
                 recorded, overtaken, raced>>

-----------------------------------------------------------------------------
(* The device.  The extension mints a new id for every click on Save.      *)

Send(r, request) == req[r] = None /\ req' = [req EXCEPT ![r] = request]

SaveRequest(s, d, q) ==
  [op |-> "save", dev |-> d, item |-> q, save |-> s, at |-> "seek", held |-> FALSE]
FailRequest(d, q) ==
  [op |-> "fail", dev |-> d, item |-> q, save |-> None, at |-> "read", held |-> FALSE]

StartSave(d, q, s, r) ==
  /\ q \in tabs[d]
  /\ owner[s] = None
  /\ d \in KeepsId =>
       \A t \in Saves : owner[t] = d /\ target[t] = q => answer[t] # "none"
  /\ owner' = [owner EXCEPT ![s] = d]
  /\ target' = [target EXCEPT ![s] = q]
  /\ Send(r, SaveRequest(s, d, q))
  /\ UNCHANGED <<itemVars, row, linksOn, revoked, tabs, answer, historyVars>>

\* A client that keeps its id may send it again while the first request is
\* still being handled.
Resend(s, r) ==
  /\ owner[s] \in KeepsId
  /\ answer[s] = "none"
  /\ Send(r, SaveRequest(s, owner[s], target[s]))
  /\ UNCHANGED <<itemVars, row, linksOn, revoked, deviceVars, historyVars>>

StartFail(d, q, r) ==
  /\ q \in tabs[d]
  /\ Send(r, FailRequest(d, q))
  /\ UNCHANGED <<itemVars, row, linksOn, revoked, deviceVars, historyVars>>

CloseTab(d, q) ==
  /\ q \in tabs[d]
  /\ tabs' = [tabs EXCEPT ![d] = @ \ {q}]
  /\ UNCHANGED <<itemVars, row, linksOn, revoked, owner, target, answer, req, historyVars>>

-----------------------------------------------------------------------------
(* handleCompleteQueueItem, handleCompleteQueueItemAsLink and              *)
(* handleFailQueueItem, query by query.                                    *)

Finish(r) == req' = [req EXCEPT ![r] = None]

\* The answer to the save in slot r arrives, or is lost.  The extension closes
\* the tab on a success and keeps it on a failure.
Reply(r, outcome) ==
  LET s == req[r].save
      d == req[r].dev
  IN
  \/ /\ answer' = [answer EXCEPT ![s] = outcome]
     /\ tabs' = IF outcome = "saved" THEN [tabs EXCEPT ![d] = @ \ {req[r].item}] ELSE tabs
  \/ UNCHANGED <<answer, tabs>>

\* Is this id already in the table?  Then an earlier attempt recorded it.
SeekRow(r) ==
  /\ req[r] # None
  /\ req[r].at = "seek"
  /\ req[r].save \in LinkSaves => linksOn
  /\ req[r].dev \notin revoked
  /\ \/ /\ row[req[r].save] \notin {"absent", "swept"}
        /\ Reply(r, "saved")
        /\ Finish(r)
     \/ /\ row[req[r].save] \in {"absent", "swept"}
        /\ req' = [req EXCEPT ![r].at = "read"]
        /\ UNCHANGED <<answer, tabs>>
  /\ UNCHANGED <<itemVars, row, linksOn, revoked, owner, target, historyVars>>

\* The check of the handlers, on what the query returned.
HeldBy(q, d) == status[q] = "claimed" /\ claimant[q] = d

\* History: who had claimed the item when it was read, whatever was checked.
Holder(q) == IF status[q] = "claimed" THEN claimant[q] ELSE None
ToWrite(r) ==
  req' = [req EXCEPT ![r].at = "write", ![r].held = Holder(req[r].item) = req[r].dev]

\* The request's check passed, and the claim that it saw is gone.
Overtaken(r) == req[r].held /\ Holder(req[r].item) # req[r].dev

\* Mutant: the handlers write whatever their query has returned.
ReadItemUnchecked(r) ==
  /\ req[r] # None
  /\ req[r].at = "read"
  /\ ToWrite(r)
  /\ UNCHANGED <<itemVars, row, linksOn, revoked, deviceVars, historyVars>>

\* Mutant: a retry is recognized by its item's status instead of by its id.
ReadItemCapturedIsDone(r) ==
  /\ req[r] # None
  /\ req[r].at = "read"
  /\ \/ /\ HeldBy(req[r].item, req[r].dev)
        /\ ToWrite(r)
        /\ UNCHANGED <<answer, tabs>>
     \/ /\ ~HeldBy(req[r].item, req[r].dev)
        /\ req[r].op = "save"
        /\ Reply(r, IF status[req[r].item] = "captured" THEN "saved" ELSE "refused")
        /\ Finish(r)
  /\ UNCHANGED <<itemVars, row, linksOn, revoked, owner, target, historyVars>>

\* 404, 410 or 409 unless this device holds the claim.
ReadItem(r) ==
  /\ req[r] # None
  /\ req[r].at = "read"
  /\ \/ /\ HeldBy(req[r].item, req[r].dev)
        /\ ToWrite(r)
        /\ UNCHANGED <<answer, tabs>>
     \/ /\ ~HeldBy(req[r].item, req[r].dev)
        /\ IF req[r].op = "save" THEN Reply(r, "refused") ELSE UNCHANGED <<answer, tabs>>
        /\ Finish(r)
  /\ UNCHANGED <<itemVars, row, linksOn, revoked, owner, target, historyVars>>

NoteSave(r) ==
  /\ recorded' = recorded \cup {req[r].save}
  /\ overtaken' = IF Overtaken(r) THEN overtaken \cup ({req[r].save} \ recorded) ELSE overtaken

\* Mutant: two statements instead of one batch, and the second is lost.
WriteSaveUnbatched(r) ==
  LET s == req[r].save IN
  /\ req[r] # None
  /\ req[r].op = "save" /\ req[r].at = "write"
  /\ row[s] \in {"absent", "swept"} /\ status[req[r].item] # "deleted"
  /\ row' = [row EXCEPT ![s] = "waiting"]
  /\ NoteSave(r)
  /\ Finish(r)
  /\ UNCHANGED <<itemVars, linksOn, revoked, deviceVars, raced, asked>>

\* The batch: INSERT the row and set the item captured, whatever the item has
\* become since it was read.  The primary key and the foreign key may refuse it.
WriteSave(r) ==
  LET s == req[r].save
      q == req[r].item
      InsertOK == row[s] \in {"absent", "swept"} /\ status[q] # "deleted"
  IN
  /\ req[r] # None
  /\ req[r].op = "save" /\ req[r].at = "write"
  /\ \/ /\ InsertOK
        /\ row' = [row EXCEPT ![s] = "waiting"]
        /\ status' = [status EXCEPT ![q] = "captured"]
        /\ NoteSave(r)
        /\ Reply(r, "saved")
     \/ /\ ~InsertOK
        /\ UNCHANGED <<row, status, recorded, overtaken, answer, tabs>>
  /\ Finish(r)
  /\ UNCHANGED <<claimant, age, retry, linksOn, revoked, owner, target, raced, asked>>

\* UPDATE ... SET status = 'failed' WHERE id = ?.
WriteFail(r) ==
  LET q == req[r].item IN
  /\ req[r] # None
  /\ req[r].op = "fail" /\ req[r].at = "write"
  /\ status' = IF status[q] = "deleted" THEN status ELSE [status EXCEPT ![q] = "failed"]
  /\ raced' = IF Overtaken(r) THEN raced \cup {q} ELSE raced
  /\ asked' = asked \ {q}
  /\ Finish(r)
  /\ UNCHANGED <<claimant, age, retry, row, linksOn, revoked, deviceVars, recorded, overtaken>>

\* The request is lost, refused (401, links off) or the Worker fails under it.
Drop(r) ==
  /\ req[r] # None
  /\ Finish(r)
  /\ UNCHANGED <<itemVars, row, linksOn, revoked, deviceVars, historyVars>>

-----------------------------------------------------------------------------
(* Time, the operator, the user and the agent.                             *)

ClaimGoesStale(q) ==
  /\ status[q] = "claimed" /\ age[q] = "fresh"
  /\ age' = [age EXCEPT ![q] = "stale"]
  /\ UNCHANGED <<status, claimant, retry, row, linksOn, revoked, deviceVars, req, historyVars>>

ItemExpires(q) ==
  /\ status[q] = "captured" /\ age[q] # "expired"
  /\ age' = [age EXCEPT ![q] = "expired"]
  /\ UNCHANGED <<status, claimant, retry, row, linksOn, revoked, deviceVars, req, historyVars>>

\* DELETE /internal/tokens/:id: ON DELETE SET NULL clears its claims.
RevokeToken(d) ==
  /\ d \in Revocable \ revoked
  /\ revoked' = revoked \cup {d}
  /\ claimant' = [q \in Items |-> IF claimant[q] = d THEN None ELSE claimant[q]]
  /\ UNCHANGED <<status, age, retry, row, linksOn, deviceVars, req, historyVars>>

TurnLinksOff ==
  /\ LinksMayGo /\ linksOn
  /\ linksOn' = FALSE
  /\ UNCHANGED <<itemVars, row, revoked, deviceVars, req, historyVars>>

\* The agent has ingested a save.  It leaves links alone when they are off.
Fetch(s) ==
  /\ row[s] = "waiting"
  /\ s \in LinkSaves => linksOn
  /\ row' = [row EXCEPT ![s] = "fetched"]
  /\ UNCHANGED <<itemVars, linksOn, revoked, deviceVars, req, historyVars>>

\* Mutant: nothing sweeps the pending_links rows.
CleanupCapturesOnly(table) ==
  /\ table = Saves \ LinkSaves
  /\ \E old \in SUBSET {s \in table : row[s] = "fetched"} :
       /\ old # {}
       /\ row' = [s \in Saves |-> IF s \in old THEN "swept" ELSE row[s]]
  /\ UNCHANGED <<itemVars, linksOn, revoked, deviceVars, req, historyVars>>

\* POST /internal/pending-captures/cleanup, and its counterpart for links,
\* which the agent skips when they are off.  Any fetched row may be among those
\* claimed over 72 hours ago.
CleanupRows(table) ==
  /\ table = LinkSaves => linksOn
  /\ \E old \in SUBSET {s \in table : row[s] = "fetched"} :
       /\ old # {}
       /\ row' = [s \in Saves |-> IF s \in old THEN "swept" ELSE row[s]]
  /\ UNCHANGED <<itemVars, linksOn, revoked, deviceVars, req, historyVars>>

Referenced(q) == \E s \in Saves : target[s] = q /\ row[s] \notin {"absent", "swept"}

\* POST /internal/queue-items/cleanup.  One DELETE: if any of its rows is still
\* referenced by a pending row the foreign key fails the whole statement.
CleanupQueue ==
  LET old == {q \in Items : status[q] = "captured" /\ age[q] = "expired"} IN
  /\ old # {}
  /\ \A q \in old : ~Referenced(q)
  /\ status' = [q \in Items |-> IF q \in old THEN "deleted" ELSE status[q]]
  /\ UNCHANGED <<claimant, age, retry, row, linksOn, revoked, deviceVars, req, historyVars>>

-----------------------------------------------------------------------------
Device(d) ==
  \E q \in Items :
    \/ Claim(d, q)
    \/ CloseTab(d, q)
    \/ \E r \in Slots : StartFail(d, q, r) \/ \E s \in Saves : StartSave(d, q, s, r)

Worker(r) == SeekRow(r) \/ ReadItem(r) \/ WriteSave(r) \/ WriteFail(r) \/ Drop(r)

Agent ==
  \/ \E s \in Saves : Fetch(s)
  \/ CleanupRows(Saves \ LinkSaves) \/ CleanupRows(LinkSaves)
  \/ CleanupQueue

Next ==
  \/ \E q \in Items : Enqueue(q) \/ RetryItem(q) \/ ClaimGoesStale(q) \/ ItemExpires(q)
  \/ \E s \in Saves, r \in Slots : Resend(s, r)
  \/ \E d \in Devices : Device(d) \/ RevokeToken(d)
  \/ \E r \in Slots : Worker(r)
  \/ Agent
  \/ TurnLinksOff

Spec == Init /\ [][Next]_vars

-----------------------------------------------------------------------------
SavesOf(q) == {s \in recorded : target[s] = q}

\* However devices, retries, stale claims and revocations interleave, a queue
\* item is resolved by one save only.  Left out are the saves of a request that
\* checked its claim and lost it before its batch, and the items that such a
\* request set failed; a write that did not check is not left out.
ResolvedOnce == \A q \in Items \ raced : Cardinality(SavesOf(q) \ overtaken) <= 1

\* The item and the save move together (the batch of handleCompleteQueueItem):
\* an item is done if and only if a save of it was recorded, also when the
\* same save is sent twice, the insert is refused, or the claim was lost
\* between check and batch.  Only an overtaken failure may undo it.
ItemMatchesSave ==
  \A q \in Items :
    /\ status[q] \in {"captured", "deleted"} => SavesOf(q) # {}
    /\ SavesOf(q) # {} /\ q \notin raced => status[q] \in {"captured", "deleted"}

\* A device is told that its save succeeded only if it was recorded.
SavedMeansRecorded == \A s \in Saves : answer[s] = "saved" => s \in recorded

\* One manual retry buys one attempt: a failed item is offered to devices again
\* only if the user asked for it after its last failure (an overtaken one aside).
RetryIsAsked ==
  \A q \in Items \ raced : status[q] = "failed" /\ Claimable(q) => q \in asked

\* What ties the requests in the Worker, the saves and the items together: a
\* request carries a save of its own device and item, only saves that a device
\* has sent have a row, and a claim has used up the user's retry.
RequestAgrees(r) ==
  LET s == req[r].save IN
  /\ req[r].at = "seek" => req[r].op = "save"
  /\ req[r].op = "save" => s \in Saves /\ owner[s] = req[r].dev /\ target[s] = req[r].item

SaveAgrees(s) ==
  /\ owner[s] = None <=> target[s] = None
  /\ row[s] # "absent" => s \in recorded
  /\ s \in recorded => owner[s] # None

Agreement ==
  /\ \A r \in Slots : req[r] # None => RequestAgrees(r)
  /\ \A s \in Saves : SaveAgrees(s)
  /\ \A q \in Items : status[q] = "claimed" => ~retry[q]

\* Completion and failure of items, by whatever requests interleave in the
\* Worker: an item is resolved by one save, and requests, saves and items agree.
QueueInv == TypeOK /\ ResolvedOnce /\ Agreement

\* The agent's cycles keep calling the sweeps and time passes; devices, users
\* and the operator owe nothing.  Nor does ingestion: a row whose ingestion fails
\* is kept indefinitely (index.js:1317) and tried again.
Fairness ==
  /\ \A q \in Items : WF_vars(ItemExpires(q))
  /\ WF_vars(CleanupRows(Saves \ LinkSaves)) /\ WF_vars(CleanupRows(LinkSaves))
  /\ WF_vars(CleanupQueue)

FairSpec == Spec /\ Fairness

\* No row that the agent looks at fails ingestion for ever.
IngestionSucceeds ==
  \A s \in Saves : []<>(row[s] # "waiting" \/ (s \in LinkSaves /\ ~linksOn))

SweptEventually == \A q \in Items : (status[q] = "captured") ~> (status[q] # "captured")

\* handleCleanupQueueItems: captured items do not pile up once their saves are
\* fetched; the agent's sweeps delete each one in the end, although each sweep is
\* all or nothing, as long as links are never turned off.  A row that can never be
\* ingested blocks the sweep, which is why it is a condition and not a promise.
CapturedSwept == []linksOn /\ IngestionSucceeds => SweptEventually

\* runCleanup: the sweeps are independent, "there's no ordering between them",
\* so queue items are swept whether or not the agent still looks after links.
SweepsIndependent == IngestionSucceeds => SweptEventually
=============================================================================
