# Formal model of recueil

recueil saves web pages: a browser extension captures a page, a Cloudflare
Worker (D1 and R2) takes it in while nobody is at home, and a Go backend
(Postgres and a directory tree) polls the Worker, archives the capture, enriches
it and serves a dashboard. Almost every operation crosses two or more stores
that share no transaction. This project models those operations in TLA+, checks
them with TLC on small instances, and proves most of the safety properties with
TLAPS for every size.

Paths are relative to the repository. `worker/index.js` stands for
`terraform/worker/index.js`.

## 1. Inventory

| Component | State it keeps | Operations | Hard behaviour | What makes it correct | Module |
|---|---|---|---|---|---|
| **Capture ingestion** `internal/ingest/ingest.go`, `queries/captures.sql`, the `/internal/pending-captures` endpoints | R2 objects, D1 `pending_captures`, archive directories, Postgres `captures`, `pages` | device: PUT, complete; agent: claim, `processOne`; Worker: mark fetched, clean up | crash between any two stores; lost answers, the one of COMMIT too; a claim that goes stale while its agent works; client generated ids that collide; a user who deletes what is being processed | an acknowledged capture is never lost, archived once, leaves nothing in R2 | `Ingest` |
| **Work queue** `worker/index.js`, migrations 0003, 0004, 0006, `extension/src/background/{queue,capture,link}.js` | D1 `queue_items`, pending rows, the extension's claimed tabs | enqueue, claim, complete (capture or link), fail, retry, revoke, three sweeps | handlers check in one query and write in another; stale claims; resent saves; foreign keys between swept tables | one resolution per item; the item and its save move together; nothing piles up | `Queue` |
| **Enrichment jobs** `internal/{screenshot,readability,ai}`, `queries/*_jobs.sql` | three job tables, `captures.reader_text`, `captures.ai_summary` | claim due jobs, attempt, commit, fail with backoff; retry, regenerate | overlapping claims, attempts counted from a value read earlier, jobs reset while running, a successor job created by the first | attempts bounded, the dead letters stay dead, the summary is of the current text, every job settles | `Jobs` |
| **Library** `internal/httpapi/{handlers,manualupload}.go`, `queries/pages.sql` | `pages` with denormalized title, favicon, latest capture | upsert, manual upload, delete capture or page, rename | captures ingested out of order; deletion against ingestion | denormalized fields describe the latest capture; a page with captures survives | `Library` |
| **Collections, tags, relations** `internal/httpapi/{handlers,links,linkrelations,pagelinkrelations}.go`, migration 00017, `ai.commitDone` | `tags`, `collections`, seven relation tables | add, remove, create, rename, delete; the AI's tags | rows checked in one query and joined in another; a removal that checks one side | a relation joins two rows of one user, and only its user removes it | `Curation` |
| **Mirror** `internal/mirror` | D1 `archived_pages`, `archived_links` | incremental push from a checkpoint, reconciliation of deletions | timestamps of transactions that commit out of order; a checkpoint that is a maximum of texts; lists read at different moments | nothing falls behind the checkpoint; D1 converges to Postgres | `Mirror` |
| **Bookmark folders** `extension/src/background/bookmarks.js` | `storage.local`, bookmarks, a permission | enable, disable, sync on an alarm | runs that overlap, a service worker killed at any await, a user who deletes the folder | one folder per kind, none that is off; the folder shows the Worker's list in the end | `Bookmarks` |
| **Wayback** `internal/wayback` | a row per URL's submission | submit, resolve, sweep | an answer for a submission that was replaced; no answer at all | a row settles, with the answer to its own job | `Wayback` |
| **Links** `internal/ingest/links.go`, `internal/httpapi/{links,linkcreate}.go` | `links`, `pending_links` | claim and upsert (last save wins), create, edit, clean, delete | a failed older save processed after a newer one; batches without an order | the later save sticks, and the row is of one save | `Links` |
| **Accounts, pairing** `internal/auth/{bootstrap,pairing}.go`, `cmd/user.go`, D1 `users` | users, pairing tokens in two stores, the bootstrap token | setup, register, user create, regenerate, revoke, resync | concurrent setups, restarts, a best effort push | one setup; the Worker accepts the token that Postgres has | `Accounts` |
| **Sessions, API tokens** `internal/auth/session.go`, `cmd/user.go` | `sessions`, `api_tokens` | login, logout, revoke, reset password | a login that verified the old password during a reset | no old session survives a reset | `Sessions` |
| **Archive, garbage collection** `internal/{archive,gc}`, `cmd/gc.go` | files | atomic write, sweep of unreferenced files | files written before the row that refers to them; deletions during a sweep; the refusal threshold | what is referenced exists; an unforced sweep spares half | `Gc` |
| **URL normalization** `internal/urlnorm` | none | `ClearURLs`, `Canonicalize` | providers that uncover work for each other | the rules are exhausted; the key is stable | `Urlnorm` |
| **Agent process** `cmd/agent.go` | none | cycles of ingestion, links, mirror, clean-up, runners | one failing cycle must not stop the others | every cycle keeps running | fairness |
| HTTP routing, search, metrics, MCP, configuration, migrations, sidecar, dashboard, PWA | none of their own | reads, forwarding, start-up | | | |

How they interact:

    extension --PUT--> R2 ; --POST--> Worker (D1: queue_items, pending_*)
    agent --claim/fetched/cleanup--> Worker ; --Get/Delete--> R2
    agent --write--> archive ; --transaction--> Postgres (captures, pages, jobs)
    runners --claim/commit--> Postgres ; read and write the archive
    dashboard --HTTP--> Postgres (delete, regenerate), Worker (queue, tokens)
    agent --mirror--> Worker (archived_pages, archived_links)

The full list of hazards, each at the line where it bites and with the property
that would catch it, is in `PROJECT.json`.

## 2. Modules

| Module | Models | Built on |
|---|---|---|
| `Delivery` | the promise of the hand-off: an accepted upload stays in the buffer until it has been archived | |
| `Ingest` | the hand-off as `processOne` performs it, store access by store access | instantiates `Delivery` |
| `Queue` | D1 queue and completion handlers, query by query; tokens; sweeps | |
| `Jobs` | readability and AI job tables, their runners, the dashboard's requests | |
| `Library` | pages and captures in Postgres: archiving against deleting and editing, statement by statement | |
| `Curation` | tags, collections and relations: requests of two statements, and the AI commit | |
| `Mirror` | Postgres to D1: the Syncer's cycle, call by call | |
| `Bookmarks` | the extension's bookmark folders, await by await | |
| `Wayback` | one row of `wayback_submissions` and archive.org | |
| `Links` | one URL's saves, its row, the agents and the dashboard | |
| `Accounts` | setup, registration, pairing tokens in two stores | |
| `Sessions` | logins, revocations and the password reset | |
| `Gc` | writers of files, deletions, and `recueil gc` | |
| `Urlnorm` | the passes of the URL rules | |
| `MCIngest`, `MCQueue`, `MCJobs` | values for TLC; `BoundedSpec`, the part of `Jobs` that `jobs_agents` explores | extend their module |
| `MCLibrary` | `Library` beside `Curation` | extends both |
| `MCConverge` | `Mirror`, `Bookmarks`, `Wayback`, `Links` and `Jobs` side by side | extends `Mirror`, instantiates the others |
| `MCServer` | `Accounts`, `Sessions`, `Gc` and `Urlnorm` side by side | extends `Accounts`, instantiates the others |
| `IngestProofs`, `QueueProofs`, `JobsProofs`, `MirrorProofs` | the theorems about a module (section 4) | extend it, or the module of its runs |
| `LibraryProofs` | the theorems about `Library` and `Curation` | extends `MCLibrary` |
| `ServerProofs`, `GcProofs` | the theorems about `Accounts`, `Sessions` and `Urlnorm`, and about `Gc` | extend `MCServer` |
| `ConvergeProofs` | the theorems about `Wayback`, `Links` and `Bookmarks` | extends `MCConverge` |

`MCLibrary`, `MCConverge` and `MCServer` are sums, not products: their variable `part` is chosen at the start and
says whose steps a behaviour takes. The parts share no variable that matters (`faults`, the
number of failed calls, is counted by the one part that moves), so interleaving
them would multiply states and show nothing. Where two components do meet, the
interaction is inside a module: `Ingest` has the deletions of the dashboard, `Queue` the
tokens and the sweeps, `Gc` the writers, `Curation` the AI commit, `Mirror` the transactions.

### Ingest

Variables are the four stores (`r2`; `pending` with `age`; `rows`, `pages`;
`nextDir`), the local variables of `processOne` in every agent (`pc`, `cur`,
`blob`, `dir`, `row`, and `batch`, the ids it claimed), and two histories.

* One action per call that touches a store: `ReadBlob` (`r2.Get`), `WriteArchive`
  (`NewCapture` and `WriteHTML`), `Commit` (the transaction of `writeToPostgres`
  with `insertCaptureWithCollisionHandling`), `LookupSourceId` (the fallback
  after a failed attempt), `DeleteBlob`, `MarkFetched`, `ClearSourceId`.
  Each has an outcome for a failed call; `Commit` and `MarkFetched` also the one
  that takes effect and is reported as failed.
* `Crash` forgets an agent's local state between any two of them.
* A `claimed_at` is an age class: never claimed, fresh (under 60 minutes), stale,
  old (over 72 hours). A claimed row is offered again once stale; a fetched one is
  swept once old.
* An upload stands for its bytes, so equality of uploads is equality of
  `content_hash`. `IdOf` is the id its device chose; two uploads may share one.
* A captures row is named by the directory in its `html_path`; that is unique,
  because every attempt mints a directory. It holds the upload, the
  `source_capture_id` and the number of job pairs created for it.
* `overrun` remembers ids whose claim went stale while an agent held them. The
  claim is a lease without fencing; the code accepts that a capture may be
  archived twice then, and `ArchivedAtMostOnce` excludes exactly those ids.

The favicon is left out: every failure of it is logged and ignored and it shares
the directory and the transaction of the capture.

### Queue

A Worker handler is a sequence of D1 queries without a transaction, so a request
is a record (`req`) at one of the queries `seek`, `read`, `write`, and anything may
happen between two. `WriteSave` is `env.DB.batch`: the insert and the status
update happen together, with whatever the item has become since it was read; the
primary key and the foreign key refuse it as SQLite would. `answer` is what the
device was told; an answer may be lost. The extension mints an id per click
(`capture.js:129`); `KeepsId` names devices whose request may reach the Worker
twice under one id, which is the case that the handler's lookup by id, and the
Worker's tests of it, are for.

The check of a handler is not repeated by its write, so a request whose check passed may write when
its claim is gone; that is how the code is, and two histories mark it. `held` of a request says whether
the device really had the item when the query of `ReadItem` ran; it is computed from the tables and not
from what the handler decides. A write is overtaken if `held` was true and the claim is gone by then:
`overtaken` remembers such saves, `raced` the items that such a request set failed. `ResolvedOnce` (in `QueueInv`)
leaves both out, `ItemMatchesSave` and `RetryIsAsked` leave out `raced`. A write that never had its claim is not left out:
without the check of `handleCompleteQueueItem` (index.js:1823-1831) `QueueInv` fails, which is the mutant `ReadItemUnchecked`. What becomes of an item
after an overtaken failure (`handleFailQueueItem` writes by id alone) is told nowhere.

The sweeps are modelled with their SQL: `CleanupQueue` deletes all expired
captured items in one statement, which the foreign keys of `pending_captures` and
`pending_links` fail as a whole.

### Jobs

A readability job is named by its capture, an AI job by a number, which also
names the extraction that created it, so `text[c]` says which extraction
`captures.reader_text` is of and `summary[c]` which one the summary was made
from. `held[a][j]` is what an agent read when it claimed job j: the attempts,
and for an AI job the text. `CommitReadability`, `CommitAI` and `HandleFailure` write by id
and look at nothing the row has become meanwhile, as the queries do. `Claim` needs
an idle agent, because `runLocalCycle` runs the runners (`RunReadability`, `RunAI`) one after the
other and each waits for its workers. `shared` and `crossed` remember overlaps that only two
agents, or a claim that goes stale, can cause: `shared` a job claimed while another agent still had it, `crossed` a capture of which
a job was claimed while an agent was still summarizing an older text (`Outdated`). Screenshot jobs have the same life and no successor.

### Library

`Ingest` takes the deletion of a capture as one step; `Library` takes it apart. A session
(a connection of the pool) has at most one transaction, `tx[s]`, at one of its
statements: `BeginUpsert` and `CommitUpsert` for `writeToPostgres` and the manual upload;
`DeleteRow`, `CountCaptures`, then `ReadLatest` and `SetPageFavicon`, or `DropPage`, for
`DeleteCapture`. The isolation level is Postgres' default, READ COMMITTED, since `Begin`
is called without options: `Remaining` is what a statement sees, the committed rows
without those its own transaction deleted. Row locks decide what is one step:
`UpsertPage` locks the page to the end of its transaction, so its statements and COMMIT
are `CommitUpsert`; a captures row being deleted stays locked (`LockedBy`), and another
deletion of it, or the cascade of its page, waits. `Rollback` is a failed
statement, a deadlock that Postgres breaks, or a crash. `clock` gives each transaction its
NOW(), which is the time it began and not the time it committed.

Two histories mark the pages where two transactions met: `skewed` (two deletions at a
time) and `crossed` (archived to while a deletion was under way). The safety
properties hold outside them; what happens inside is told in section 3.

### Curation

The four tables that own things share one numbering (`rows`), and the seven relation
tables are one function from a pair of ids to the pair's source. A request is at
`tag` (`UpsertTag` is next), `check` (the other row is looked up), `relate` (the insert),
`nest` (the insert of a collection) or `remove`. `Accepts` is the composite foreign key of
migration 00017, with which Postgres refuses an insert whose rows are gone. `TagSlugTaken`
and `CommitDone` are the AI's transaction before and from its first insert on: what commits in
between is what its pre-check did not see. A collection is never moved (no query updates
`parent_id`), so its tree needs no protocol.

### Mirror

`rows[r].updated` is `updated_at`, the start of the writing transaction, and doubles as the
version of the row. `cycle` holds the Syncer's local variables: the table it is at, the
checkpoint `since`, the batch, the ids. `LastOf` is the checkpoint as the Worker computes it, the maximum
of RFC 3339 *texts*: within one second a shorter fraction sorts after longer ones that
it is a prefix of, so any timestamp of the latest second may come out. `overtaken` holds rows
that committed with a `NOW()` older than what was pushed before, which the
checkpoint then hides; an upsert that is open during a push can do that.
`hasLinks` is a Worker deployed before or after its routes for links.

There is one Syncer. DESIGN.md (line 1335) allows two agent processes, and the Worker's upsert (index.js:2759) replaces a copy whatever its
`updated_at`, so a push of one Syncer may put back what another has just renewed. `MirrorInv` and `Converges` are about one
agent that mirrors; they say nothing of two.

### Bookmarks

Every await is a step of a run: `run[r]` has the place, the folder, what is to be created and
removed. (`disableSync` ends in two: `Relinquish` reads whether the other sync is on, `RemovePermission` gives the permission
up, and its failure is swallowed.) Two runs may overlap (the alarm and the popup); `raced` remembers the kinds of
which two did. `Kill` is the browser ending the service worker, `Throws` a rejected promise.
`stored` has the folders whose id reached `storage.local`: a killed run may leave
one that did not.

### Wayback

One row with the job of its latest attempt, requests that check, ask archive.org and record
(`click`), agents that list, ask and settle (`sweep`), and archive.org's own jobs. `Save` may
answer with the job of an earlier capture, as archive.org does within an hour.

### Links

Saves are numbered by `saved_at`; `raw`, `title` and `favicon` say which save each column is of, and 0
is what the user typed. `Current` is the sort after the claim. `StoreFavicon` yields nothing declared, a
file, or `Failed`, which selects `UpsertLinkKeepingFavicon`. `excused` remembers saves that were claimed a
second time, or beside or after a newer one: for those the code promises no order.

### Accounts and Sessions

`op[o]` is a request or command between its steps; `push` are the mirror pushes it still owes,
`wire` those that were given up and may still arrive. `drift` marks the accounts of which a push was
lost or two overlapped, and a later push on its own clears it: that is what `recueil user resync` is for.
`boot` is the `BootstrapTokenHolder` with its mutex. In `Sessions` a login remembers the password it compared, so a
session knows whether it is older than a reset.

### Gc

A directory is an attempt; its files are the asset, the thumbnail and temporary names. The command
is `ListReferenced` (the query), `TakeCutoff` (the time, later), `Walk` per directory, `Check`, and `Remove` or `FailRemove` per file.
A removal may fail for any reason; the sweep counts it (`failed`) and goes on. `late` marks paths that a row began to
refer to after the query and whose file was past the grace period then, or had passed it by the cutoff, or was being written
anew: removal looks neither at the row nor at the time again.

### Urlnorm

A URL is a sequence of layers, because a redirection rule replaces a URL by one that it
carries. `Apply` is one provider, `Again` the end of a pass. Patterns are sets of hosts and parameter names.
Each result is normalized once more, which is what a saved link that was cleaned goes through. `Sorted` (Go's
`Values.Encode`) is a recursive function over the parameter names in alphabetical order, a constant.

## 3. What is checked

Every run lists its properties in its `.cfg`; their comments in the modules state
them in words. A name ending in `Inv` of a sum run joins a module's type invariant to
its state invariant.

| Run | Instance | Shows |
|---|---|---|
| `ingest_safety` | 2 uploads on one page, 2 agents, 3 directories, 1 fault | `CaptureNeverLost`, `ArchivedAtMostOnce`, `NoBlobLeak`, `JobsEnqueuedOnce`, and the inductive `HandOffInv` |
| `ingest_delivery` | 2 uploads, 1 agent, 4 directories, 2 faults, fair | refinement of `Delivery`; every recorded capture is archived (`EventuallyArchived`) |
| `ingest_collision` | 2 uploads with one id, 2 agents, 2 faults | an insert resolves to a row with the bytes it read (`RetryOrCollision`) |
| `ingest_retry` | as delivery, 1 fault | **violated**: `RetryRecovers` |
| `queue_safety` | 1 item, 2 devices (one resends), 2 saves of one kind, 2 requests at a time | `QueueInv` (an item is resolved once, overtaken requests aside), `ItemMatchesSave`, `SavedMeansRecorded`, `RetryIsAsked` |
| `queue_sweep` | 2 items, a capture and a link, 1 device that may be revoked, links may be turned off, fair | `CapturedSwept`, if ingestion succeeds |
| `queue_linksoff` | as sweep | **violated**: `SweepsIndependent` |
| `jobs_agents` | 1 capture, 2 agents, 2 attempts, 2 AI jobs, one request of the user or one fault, claims of two jobs overlapping; both, and 3 AI jobs, as long as no two agents have claims | `AgentsInv` (attempts bounded, summary current also after the text is regenerated), `FailedIsFinal` with overlapping claims |
| `library_safety` | 3 captures of one URL, 2 sessions, 5 transactions that write pages; 2 users, two starts, one row made, 1 request against deletions and the AI commit | `LatestCoversCaptures`, `NoEmptyPageInv`, `FaviconOfSurvivor`, `OnlyNamedDeleted`; `RelationsJoinOwn`, `OnlyOwnRelations` |
| `copies_safety` | see the `.cfg`: 3 mirrored rows, 2 bookmark runs, 2 Wayback clicks and jobs, 2 saves and 2 agents; 1 fault | `MirrorInv`, `BookmarksInv`, `WaybackInv`, `LinksInv`, `LaterSaveSticks` |
| `copies_settle` | the same parts a little smaller, and `Jobs` with 1 agent, fair | `Converges`, `FolderConverges`, `Settles`, `EverySaveFetched`, `JobsSettle` |
| `server_safety` | 2 users, 2 operations, 2 starts of the server; 2 requests and 2 credentials; 2 directories; about nine thousand URLs and 4 providers | `SetupInv`, `PairingMirrored`, `SessionsInv`, `GcInv`, `SweepExact`, `NothingLeft`, `StableKey` |

### Why the bounds are enough

* *Two uploads, two agents.* The properties relate one upload, one row and at most
  two agents; a second upload makes batches, sweeps of several rows, a shared page
  and collisions happen. The proofs remove these bounds, and those of the other modules
  that section 4 lists: there every set is arbitrary, and every bound any number.
* *`MaxDirs`* bounds attempts: three allow one upload two attempts and the other
  one, or one upload three. `WriteArchive` waits for a directory that never comes
  when they are used up, so `ingest_delivery` has enough for its faults: each
  upload takes one, and each of the two faults costs at most one more per upload in
  hand.
* *`MaxFaults`*: one failed call or crash per behaviour in the large runs, two in the
  smaller ones. Stale claims, deletions and refused requests are not faults and are
  unbounded.
* *`Slots = 2`*: two requests are what a check and a write can be interleaved with.
* *`MaxAttempts = 2`* is the smallest with a retry, `MaxAIJobs` one more than the number of
  extractions that a click can cause. `Bounded` (a conjunct of the steps of `jobs_agents`) keeps a
  behaviour to one request or one fault, two AI jobs and two jobs with claims that overlap; as long as no two agents have claims, it
  may have both and three AI jobs. The proofs have no such bound.
* *Three captures, two sessions* in `Library`: one transaction to delete and one to archive or delete
  against it, with a capture that survives both; one URL, because pages of different URLs share nothing.
  `MaxClock = 5`: three captures archived, and two more transactions (a retry, a deletion, an edit).
* *One request* in `Curation`: deletions, renames and the AI job come at any of its steps, and two
  requests meet only in the tables, where a pair is a single statement. The starts
  (`MCStarts`) are a page and a link of each of two users, and a page, a collection and a link of one
  user with a row deleted before; `MaxRows = 5` lets one row more be made.
* *Two pages and a link, four ticks, two to a second* in `Mirror`: the checkpoint of one row
  against the commit of another, within a second and across two.
* *Four folders and bookmarks, two events* in `Bookmarks`: two folders of one kind need two runs that overlap;
  an event is a toggle, a change of the list, a failure or a kill.
* *Two clicks, two jobs, one sweeper* in `Wayback`: an attempt, the one that replaces it, and a sweep
  that is late for the first; the clock goes on for a whole `PendingTimeout` after each.
* *Two saves, two agents* in `Links`: an older and a newer save, in one batch, in two, or in two agents.
* *`MinFiles = 3`* in `Gc` stands for the hundred files of the threshold, so that both sides of it and of
  one half occur; one tick of grace.
* *Three layers* in `Urlnorm`: a wrapper in a wrapper uncovers a rule for an earlier provider twice; six queries,
  three fragments, up to two slashes.
* Symmetry is used over agents, slots and sessions, and in `ingest_safety` over uploads (each together
  with its id), in safety runs only; no property tells them apart.
* Deadlock checking is off: in all these systems everything may come to rest
  (all captures archived, all jobs settled), and the bounds stop the rest.

### Fairness

* `Ingest`: an agent's poll loop keeps claiming and keeps executing `processOne` (a Go loop on
  a ticker; calls have timeouts, so they end, well or badly), and an hour passes.
  Nothing is assumed of devices, users, crashes or failures, whose number is finite
  by `MaxFaults`: with infinitely many, no poll ever succeeds.
* `Queue`: the agent runs each sweep, cycle after cycle (`cmd/agent.go:398`), and 72 hours pass. Devices need
  not finish, or ever send, anything. Nor is ingestion assumed: a row that fails it is "kept indefinitely"
  (index.js:1317-1324, DESIGN.md:1375-1382), perhaps "retried forever" (DESIGN.md:2760), as `ingest_retry` shows of one, and it then blocks the sweep of the queue.
  So `CapturedSwept` is conditional: if no row that the agent looks at waits for ever (`IngestionSucceeds`) and links are never turned off.
  `SweepsIndependent` drops the second condition only, and is violated.
* `Jobs`: each agent keeps running its runners and time passes (the tickers of
  `cmd/agent.go:256`). Which outcome an attempt has is free.
* `Mirror`: the one Syncer keeps taking its next step. Writers, faults and the deployment of a
  Worker with links are not fair; `Converges` promises the links only if it happens.
* `Bookmarks`: awaits end, and the alarm rings again and again (`chrome.alarms` survives the service worker). The
  popup is not fair.
* `Wayback`: time passes and the local cycle sweeps. archive.org owes nothing, not even an answer.
* `Links`: agents poll and claims go stale.

`copies_settle` states the fairness of each part for the part that moves, `WF_v(part = p /\ A)`: for the
others the action is never enabled, so nothing is assumed.

### Where the code and its documentation disagree

Two runs check a property that states what the repository says and find it violated (1, 2). One passing run shows the opposite of what
comments say (3).


1. **`ingest_retry`.** DESIGN.md says that a retry must not fail for ever on an
   object that an earlier attempt deleted. The earlier attempt is recognized by its
   captures row. If the user deletes that capture after the object was deleted and
   before the fetched flag is set, and the attempt dies there, row and object are gone
   and the `pending_captures` row stays claimable; every poll fails on it.
2. **`queue_linksoff`.** `runCleanup` calls its sweeps independent. The sweep of queue
   items is blocked by a pending row, and with links turned off `pending_links` rows
   are neither ingested nor swept, so no captured item is deleted as long as one
   expired item has such a row.
3. **`jobs_agents`.** Comments say that regenerating the reader text does not re-queue the AI job, that a stale summary "is left
   exactly as stale as it was", and that a separate click is what refreshes it (handlers.go:2014-2017, readability_jobs.sql:123-125). The request
   leaves the AI job alone, and its test (handlers_test.go:3282) looks no further. But the extraction that follows ends in `commitDone`, which creates an
   AI job every time (readability.go:294; `ai_jobs.capture_id` is not unique), so the new text is summarized without a click.
   `SummaryIsCurrent` states what the code does, and holds.

The others appear as the exceptions that a property has to make:

4. *`DeleteCapture`* (handlers.go:1876, "no page is ever left with zero captures"; exceptions `skewed`, `crossed` of
   `Library`). The transaction counts the remaining captures without a lock. A capture of the page archived between the
   count and the deletion of the page goes with the cascade, though nobody deleted it; and two concurrent deletions of the last two
   captures each count the other's and leave an empty page.
5. *Regenerate* (readability_jobs.sql:121, "clean-slate reset"; exception in `AttemptsBounded`, which allows one attempt more per
   request). If the request falls into the job's last attempt and that fails, `handleFailure` marks the job failed
   with the old count, and the redo is never tried.
6. *Gc* (cmd/gc.go:62, "Anything modified in the last 15 minutes is left alone regardless"; exception `late`). The time that
   "15 minutes" counts back from is read (gc.go:287) after the query for what is referenced (gc.go:243), so a file that was younger when its row was committed
   between the two is removed if it has turned 15 minutes old by the second. And the time of a file is looked at during the walk; `Remove` (gc.go:339) does not look again, so a screenshot that is rendered anew in
   between is removed although it was just written.
7. *Wayback* (wayback.sql, the guard "can't clobber" a newer attempt; exception `Shared`). Two attempts that archive.org answers with
   one job id are the same for the guard: the timeout of the older one may land on the newer.
8. *Links* (ingest/links.go, "the refresh is faithful to what the extension just saw"; exceptions in `OneSave`). A save whose favicon failed,
   or that is retried after its object was deleted, keeps the favicon of another save.
9. *URL normalization* (canonicalize_test.go:118, "is idempotent"; exceptions of `StableKey`). `Canonicalize` removes one trailing
   slash, so a path that ends in two is shortened again when it is normalized again; and an exception that matched
   in a fragment no longer matches when the fragment has been dropped. A redirection nested in another
   loses the parameters of the inner URL that decoding turns into its own.
10. *Setup* (exception `unsure`). A creation that is reported as failed and was not leaves the bootstrap token valid. With open registration
   on, an account registered before setup leaves the instance without an administrator from the setup screen.
11. *Mirror* (exception `overtaken`). A page whose transaction began before, and committed after, a push of a newer page is not
    pushed until it changes again.
12. *Tags*. A tag made by `AddPageTag` stays when the relation is refused after it; a slug taken between the AI's pre-check and its insert aborts
    the whole attempt, summary included, which is then retried. The comment of `CreateCollection` that "parent_id's own FK
    has no user_id check" is older than migration 00017.

## 4. What is proved

For any sets and any bounds, with an arbitrary number of everything that the modules
declare as a CONSTANT. A theorem with a property proves what a run checks.

| Module | Theorem | States |
|---|---|---|
| `IngestProofs` | `TypeCorrect`, `HandOff` | `Spec => []TypeOK`, `Spec => []HandOffInv` |
| | `NeverLost`, `NoLeak`, `JobsOnce` | `[]CaptureNeverLost`, `[]NoBlobLeak`, `[]JobsEnqueuedOnce` |
| | `Once` | `[]ArchivedAtMostOnce` |
| | `RetryFinds` | `RetryOrCollision`, an action property |
| | `Implements` | `ImplementsDelivery`, the refinement, if no two uploads share an id |
| `QueueProofs` | `Invariance` | the inductive invariant |
| | `Resolution`, `ItemsMatch` | `[]QueueInv`, `[]ItemMatchesSave` |
| | `Answers`, `Retries` | `[]SavedMeansRecorded`, `[]RetryIsAsked` |
| `JobsProofs` | `Overlaps` | `[]AgentsInv`: the budget of attempts, the summary of the current text |
| | `Revival` | `FailedIsFinal`, an action property |
| `LibraryProofs` | `LibraryInvariance` | the inductive invariant |
| | `PagesKept`, `FaviconsKept`, `LatestCovers` | `[]NoEmptyPageInv`, `[]FaviconOfSurvivor`, `[]LatestCoversCaptures` |
| | `NamedOnly` | `OnlyNamedDeleted`, an action property |
| | `CurationInvariance`, `RelationsOfOneUser` | the inductive invariant of `Curation`; `[]RelationsJoinOwn` |
| | `RemovesOwn` | `OnlyOwnRelations`, an action property |
| | `LibraryParts` | `BothSpec` implies the specification of the part that moves |
| `MirrorProofs` | `SyncInvariance`, `NothingBehind` | the inductive invariant; `[]MirrorInv` |
| `ServerProofs` | `AccountsInvariance` | the inductive invariant of `Accounts` |
| | `SetupOnce`, `PairingKept` | `[]SetupInv`, `[]PairingMirrored` |
| | `ResetEnds` | `[]SessionsInv` |
| | `UrlsInvariance` | the inductive invariant of `Urlnorm` |
| | `PassesEnd`, `KeyIsStable` | `[]NothingLeft`, `[]StableKey` |
| | `ServerParts` | `ServerSpec` implies the specification of each of its parts |
| `GcProofs` | `GcInvariance` | the inductive invariant |
| | `ReferencedKept`, `SweepIsExact` | `[]GcInv`, `[]SweepExact` |
| `ConvergeProofs` | `WaybackInvariance`, `OutcomesAreTrue` | the inductive invariant of `Wayback`; `[]WaybackInv` |
| | `LinksInvariance`, `LinksAreOfOneSave` | the inductive invariant of `Links`; `[]LinksInv` |
| | `LaterSavesStick` | `LaterSaveSticks`, an action property |
| | `BookmarksInvariance`, `OneFolderPerKind` | the inductive invariant of `Bookmarks`; `[]BookmarksInv` |
| | `ConvergeParts` | `UnfairSpec` implies the specification of the part that moves |

Every safety invariant and action property of a passing run is a theorem. They are about the specification of the
component (`Spec`, `LibrarySpec`, `S!Spec`, `G!Spec`, `U!Spec`, `W!Spec`, `L!Spec`, `B!Spec`). What the sum runs explore are
behaviours of it by `LibraryParts`, `ServerParts` and `ConvergeParts`; `jobs_agents` has those steps of `Jobs` that keep its bound.

### Assumptions

They are in the modules that declare the constants, except those of the parts that
`MCServer` and `MCConverge` instantiate, which are there; TLC evaluates all of them on the runs.

* Bounds are numbers (`BoundsAssumption` of `Ingest`, and a conjunct in each other module).
* `None` is no id, row, agent, user, device or transaction; where rows are records or sets,
  it is none of those either (`NullAssumption`, both `RowAssumption`s, `NoneAssumption`, `AbsenceAssumption`).
  It stands for SQL's NULL, Go's nil, or an absent row.
* `Ingest`: every upload has an id and a page; the ids the backend mints differ from those of clients.
* `Queue` and `Mirror`: the rows and saves of links are among the rows and saves, and devices that resend or are revoked
  are devices. `Jobs`: captures are not numbers, which name the AI jobs. `Library`: uploads are finitely many (there
  is a latest among them), each of a URL and taken at a time.
* `Curation`: names are finitely many (a model suggests no more); some rows were made before the start, each of a user.
* `Links`: `Failed`, the favicon that could not be fetched, is neither a save nor absent. `Bookmarks`: what the popup starts
  are runs.
* `Urlnorm`: URLs have one to three layers, there is one, and the rules are about hosts and parameter names. No order or
  distinctness of the names is needed.
* `MCConverge`: what a run is about are parts that there are.
* `Gc`: the grace period (`recentThreshold`, a positive constant of the code) is at least a tick. With none, a
  file created in the very tick of the query would count as old, and `SweepExact` would fail.

### The arguments

**Ingest.** `CaptureNeverLost` is not inductive: `DeleteBlob` may run only because
the agent got to that point, and it says nothing of agents. `HandOffInv` adds, for an
upload with an id of its own,

* `StoresAgree`: the object under its key is its own or gone; a D1 row exists only after
  the device was answered; a fetched flag means the object is gone and the upload was
  archived; a captures row with its `source_capture_id` is of that upload;
* `AgentAgrees`: an agent that has read its object holds its bytes, and one past the
  transaction or the lookup works on an upload that was archived;
* `AgentShape`: an agent inside `processOne` works on an id of its batch and has the local
  variables that its position needs.

`TypeOK /\ HandOffInv` is inductive; each action is one lemma about the state it
disturbs. `NeverLost` and `NoLeak` follow at once. `RetryFinds` and `JobsOnce` come
from the same invariant, and each step of `Implements` is mapped to the action of `Delivery` it
performs: `Commit` is `Archive` or a stutter, `DeleteBlob` or `MarkFetched` is `Release`,
`CompleteCapture` is `Accept`. `Once` needs `OnceInv` besides: an id whose claim never went stale
under its agent has one holder, its claim is fresh, and until `MarkFetched` its row is waiting; so no
second agent can begin what the first one archived. `Implements` needs distinct ids: with a shared id
the second capture can be released unarchived, after a failed attempt finds the row of the first one.

**Queue.** `Inv` joins the two properties to `Agreement`, which says that a request in the Worker carries
a save of its own device and item, that only saves a device has sent have a row, and that a claim has used up the user's
retry, to `SingleSave`, a form of `ResolvedOnce` without cardinalities, and to `CheckedClaims`: a request that goes on to write had
its item when it was read, because `ReadItem` checks. So at the write it finds its claim, and the item has no save yet, or it is
overtaken (`ClaimOrOvertaken`); a request that wrote without its claim would be neither. `Answers` and `Retries` are inductive relative to `Inv`.

**Jobs.** The row of a job is read by an agent (`held`) and written back by id later. `Agreement`, a part of
`AgentsInv`, says that a job which is not settled has an attempt left (`BudgetLeft`), that AI jobs descend from a readability
job (`Lineage`), and of an agent with a job (`HolderAgrees`): the attempts it read leave one, it holds the job alone
unless the job is in `shared`, and if the text it read is outdated, the AI job that came with the new text has not been begun (`NotBegun`), unless the
capture is in `crossed`. So what is written of an old text is written before the new one is summarized.

**Library.** `RowsAgree`: a capture is on a page of its URL, a URL has one page, ids are given out in turn.
`DeletionsAgree`, of each open deletion at its statement: its row is still there and locked by nobody else; outside
`skewed` it is alone on its page, and the capture that it chose for the favicon is there; outside `crossed` the page that it
goes to drop has no other capture. So dropping the page, or pointing its favicon at the survivor, keeps what is said of
pages. That there is a latest capture among finitely many (`LatestIsOne`) is a lemma by well-founded sets.

**Curation.** `RelationsJoinOwn` holds by the foreign keys, but only as long as no row changes its user and no id is given
out again: `UsersStay`, which every step is shown to satisfy. `RemovalsOwn` says that the row a removal has checked is its user's
as long as it is there; with `RelationsJoinOwn`, the other row of the pair is then the user's too.

**Mirror.** That a row which D1 lacks is newer than every copy in D1 is not inductive; the checkpoint is
computed from copies, carried through a cycle, and may be of any row of the latest second. The invariant says that a
transaction's time is its own (`StampsOwn`), that a row D1 lacks is ahead of D1 and of the batch on its way (`AheadOfD1`,
`BatchAgrees`), that the checkpoint is a copy's time (`SinceIsStamp`), and that a copy that is behind is behind a time
still to be pushed (`StaleStays`).

**Accounts.** `SetupAgrees`: at most one request of the setup screen is about to create the account, under the
lock, and none once there is one, unless a creation was reported as failed (`unsure`). `AloneAgrees`: an operation
that is alone with its accounts pushes their present tokens; the mirror then agrees when it has ended.

**Sessions.** `RequestsAgree`: a request acts for the user and with the password that it resolved; a
session of an old password was made late or is about to be deleted.

**Gc.** That a referenced file exists is not inductive: it must not be an orphan of the sweep, and the walk
decides that by time. `SweepAgrees` says that from the cutoff on (`Unread` is the time before it) a path which became referenced since the query is young, judged by
the cutoff, or late; `TakeCutoff` establishes it for what was committed between query and cutoff; `TimesAgree` that the time on disk is that of the last write, and that a retried
thumbnail is newer than the one it replaces; `AssetIsNew` that an asset is written once, so a sweep that saw it saw the
last of it; `KnownKept` that what a row, the page, an open deletion or a writer knows of was written. `OldSeen` is the
completeness of the walk: a file that is old and was unreferenced is in a directory still to be visited, is an
orphan not yet removed, or was seen under its temporary name; at the end only orphans whose removal failed remain (`Remaining` is empty).

**Urlnorm.** That a pass which ends where it began had nothing to do is what needs an argument: a later provider could restore
what an earlier one changed. `Reduced` says that it cannot. Once a pass has changed the URL, a layer or a parameter is gone, or the
parameters are in order and were not before; each provider keeps that, a redirection because it takes a layer. So `PassAgrees`: the
providers so far were idle, or the end of the pass sees a difference. For the second round, `ResultAgrees`: dropping the fragment and
sorting leaves every provider idle unless an exception was in the fragment (`spared`), and a canonical URL without a slash at the end is its own
canonical form. What `Sorted` keeps (`UpToAll`) is shown for the set of positions up to which it holds, by its least missing member:
the library's induction theorem takes an operator, its theorem on well-founded sets does not.

**Wayback.** `OutcomeIsTrue` reads the row and archive.org at one moment; what a sweep or a click has in hand was
read earlier. `AttemptsRecorded`: a row, and what was read of it, is of an attempt that was recorded at that time, and of
a job that archive.org knows. `AnswersTrue`: an answer in hand is what became of the job it was asked about, and jobs that
ended do not change; a timeout in hand is of an attempt that had expired. `RowTrue` is then kept by the guard of the
update, which compares job and time, unless two attempts have one job id (`Shared`).

**Links.** Saves are numbered by `saved_at`. `InOrder`: outside `excused` a save that an agent has in hand is newer than
what other agents have in hand, and not older than what the row shows or a cleaning under way may make it show.
`ClaimedFirst`: what is in hand or shown has been claimed, so the saves that still wait cannot be shown before. `ObjectsKept`
and `FaviconsTrue`: the object of a save is in R2 until its agent is done with it, so the favicon that was read is that of
the save, or the read failed.

**Bookmarks.** Everything is about kinds outside `raced`; a run that moves alone in its kind changes nothing of the other
kind (`Confined`), so only its own kind is in question. `Alone`: two runs in progress have what they share in
`raced`, also an enable of one kind and a disable of the other, which share the permission. `Sound` says of a kind that it has
one folder, with no URL twice, whose id is the stored one if it ever was stored; that on means permission; and that off
means gone. `Fits` says that what a run has found out still holds: nothing bears the title when it is about to create, the
folder in its hand is the only one, and no URL that it is about to add is there. `Withdraws`: a run that is about to give the permission up has
read that the other kind is off, and outside `raced` it still is.

## 5. What is only model-checked

Liveness: `EventuallyArchived`, `CapturedSwept`, `Converges`, `FolderConverges`, `Settles`, `EverySaveFetched` and
`JobsSettle` need fairness and ENABLED, which the prover does not support. That the passes of `Urlnorm` come to an end is
not stated: `NothingLeft` says what holds when they do.

## 6. What is not modelled

* Empty directories in the sweep of the archive, compression, `archive/check.go` and dry runs' output. `gc` is the
  same code for the archive and the store of link icons.
* `DeleteCapture` is one step in `Ingest`, which has the other stores; `Library` has its statements,
  and not the other stores.
* Notes and descriptions: columns nothing else reads.
* Expiry of sessions, the rehash of a password at login, cookies and the cryptography: no protocol.
* A device that unpairs itself: the local storage of one extension. Revocation is in `Queue`.
* The extension mints a new id on each click (`capture.js:129`), although the Worker's comment on the
  completion (`worker/index.js:1743`) expects one id to be reused on a retry. `Queue` has both kinds of
  device (`KeepsId`).
* Slug transliteration, the exponential backoff, percent-encoding and punycode: pure functions with table tests.
  `PageOf` in `Ingest` stands for the normalized URL, taken to be the same for every attempt of an upload.
* An AI job over an empty text (`failPermanently` from `processOne`): the code's own comment says why it cannot happen.
* Search, metrics, MCP, rendering, configuration, migrations, user interfaces: reads, forwarding, start-up.

## 7. Plan

The modules planned at the start are written, and every safety invariant and action property that a passing run checks is proved. What
would come next, with the code:

1. That the passes of the ClearURLs step end: by `Reduced` every pass but the last takes a layer or a parameter, or puts them in order.
2. The heartbeat of the agent and the expiry of sessions, if something comes to depend on them.
