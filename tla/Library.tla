------------------------------ MODULE Library ------------------------------
(***************************************************************************)
(* Pages and captures in Postgres: archiving a capture (the agent's        *)
(* writeToPostgres, a manual upload) against deleting captures and pages   *)
(* and editing pages from the dashboard.  Transactions run under READ      *)
(* COMMITTED: each statement sees what others have committed by then, and  *)
(* NOW() is the time a transaction began.                                  *)
(*                                                                         *)
(* A statement that changes a row keeps it locked until its transaction    *)
(* ends.  The upsert of a page and what follows it are therefore one step, *)
(* at the COMMIT: nobody else can touch that page in between, and nobody   *)
(* sees the new rows before.  So are the last statement of a deletion and  *)
(* its COMMIT.  The other statements of a deletion are steps of their own. *)
(*                                                                         *)
(* Abstracted: users (one), files, jobs (see Ingest, Jobs), notes.         *)
(***************************************************************************)
EXTENDS Naturals, FiniteSets, FiniteSetsExt

CONSTANTS
  Uploads,   \* captures, those of the extension and those of manual uploads
  Urls,      \* normalized URLs
  UrlOf,     \* of an upload
  TakenAt,   \* its captured_at
  Sessions,  \* connections of the pool
  Edited,    \* a title the user typed
  MaxClock,  \* bound: transactions that write pages
  None       \* no row, no transaction

ASSUME LibraryAssumption ==
  /\ IsFiniteSet(Uploads)
  /\ UrlOf \in [Uploads -> Urls]
  /\ TakenAt \in [Uploads -> Nat]
  /\ MaxClock \in Nat
  /\ {Edited, None} \cap Uploads = {} /\ Edited # None /\ None \notin Nat

VARIABLES
  pages,     \* the pages row with an id
  nextPage,  \* the next id
  pageOf,    \* the page_id of an upload's captures row, None without a row
  upload,    \* is an upload new, committed, or marked fetched?
  clock,     \* NOW() of the latest transaction
  tx,        \* what a session's transaction has done and read
  skewed,    \* history: pages two deletions were under way on at a time
  crossed    \* history: pages archived to while a deletion was under way

pgVars == <<pages, nextPage, pageOf>>
libraryHistory == <<skewed, crossed>>
libraryVars == <<pgVars, upload, clock, tx, libraryHistory>>

PageIds == 1..MaxClock

Page == [url : Urls, title : Uploads \cup {Edited}, favicon : Uploads,
         latest : Nat, updated : 1..MaxClock, excluded : BOOLEAN]

Transaction == [op : {"upsert", "delete"}, up : Uploads, page : PageIds \cup {None},
                now : 1..MaxClock, at : {"commit", "count", "latest", "favicon", "drop"},
                favicon : Uploads \cup {None}]

ASSUME RowAssumption == None \notin Page \cup Transaction

LibraryTypeOK ==
  /\ pages \in [PageIds -> Page \cup {None}]
  /\ nextPage \in Nat \ {0}
  /\ pageOf \in [Uploads -> PageIds \cup {None}]
  /\ upload \in [Uploads -> {"new", "committed", "fetched"}]
  /\ clock \in 0..MaxClock
  /\ tx \in [Sessions -> Transaction \cup {None}]
  /\ skewed \in SUBSET PageIds
  /\ crossed \in SUBSET PageIds

LibraryInit ==
  /\ pages = [p \in PageIds |-> None]
  /\ nextPage = 1
  /\ pageOf = [u \in Uploads |-> None]
  /\ upload = [u \in Uploads |-> "new"]
  /\ clock = 0
  /\ tx = [s \in Sessions |-> None]
  /\ skewed = {}
  /\ crossed = {}

Rows == {p \in PageIds : pages[p] # None}
CapturesOf(p) == {u \in Uploads : pageOf[u] = p}
Active == {s \in Sessions : tx[s] # None}

\* Sessions that have deleted a capture of page p and not committed yet.
Deleting(p) == {s \in Active : tx[s].op = "delete" /\ tx[s].page = p}

\* The captures rows that deletions of these sessions keep locked.
LockedBy(S) == {tx[s].up : s \in {t \in S \cap Active : tx[t].op = "delete"}}

\* The uploads an attempt is under way for; claims that overlap are in Ingest.
Archiving == {tx[s].up : s \in {t \in Active : tx[t].op = "upsert"}}

Now == clock + 1
Begin == clock < MaxClock /\ clock' = Now
End(s) == tx' = [tx EXCEPT ![s] = None]

Latest(U) == CHOOSE u \in U : \A v \in U : TakenAt[v] <= TakenAt[u]

-----------------------------------------------------------------------------
(* Archiving.                                                              *)

\* A pending upload is archived, or archived again when an earlier attempt
\* failed after its COMMIT.
BeginUpsert(s, u) ==
  /\ tx[s] = None
  /\ upload[u] # "fetched"
  /\ u \notin Archiving
  /\ Begin
  /\ tx' = [tx EXCEPT ![s] = [op |-> "upsert", up |-> u, page |-> None, now |-> Now,
                              at |-> "commit", favicon |-> None]]
  /\ UNCHANGED <<pgVars, upload, libraryHistory>>

\* Mutant: the capture archived last is taken for the latest.
UpsertedLast(p, u, now) ==
  IF p \in Rows
  THEN [pages[p] EXCEPT !.title = u, !.favicon = u, !.updated = now, !.latest = TakenAt[u]]
  ELSE [url |-> UrlOf[u], title |-> u, favicon |-> u, latest |-> TakenAt[u],
        updated |-> now, excluded |-> FALSE]

\* UpsertPage: ON CONFLICT (user_id, normalized_url) DO UPDATE.
Upserted(p, u, now) ==
  IF p \in Rows
  THEN [pages[p] EXCEPT !.title = u, !.favicon = u, !.updated = now,
                        !.latest = Max({@, TakenAt[u]})]
  ELSE [url |-> UrlOf[u], title |-> u, favicon |-> u, latest |-> TakenAt[u],
        updated |-> now, excluded |-> FALSE]

\* UpsertPage, InsertCaptureIdempotent, COMMIT.
CommitUpsert(s) ==
  /\ tx[s] # None
  /\ tx[s].op = "upsert"
  /\ tx[s].up \notin LockedBy(Sessions)
  /\ LET u == tx[s].up
         existing == {p \in Rows : pages[p].url = UrlOf[u]}
     IN \E p \in IF existing = {} THEN {nextPage} \cap PageIds ELSE existing :
          /\ pages' = [pages EXCEPT ![p] = Upserted(p, u, tx[s].now)]
          /\ nextPage' = IF p = nextPage THEN nextPage + 1 ELSE nextPage
          /\ pageOf' = [pageOf EXCEPT ![u] = p]
          /\ upload' = [upload EXCEPT ![u] = "committed"]
          /\ crossed' = IF Deleting(p) # {} THEN crossed \cup {p} ELSE crossed
  /\ End(s)
  /\ UNCHANGED <<clock, skewed>>

\* MarkFetched: no attempt will follow.
MarkFetched(u) ==
  /\ upload[u] = "committed"
  /\ u \notin Archiving
  /\ upload' = [upload EXCEPT ![u] = "fetched"]
  /\ UNCHANGED <<pgVars, clock, tx, libraryHistory>>

-----------------------------------------------------------------------------
(* DELETE /api/captures/{id}, statement by statement.                      *)

\* GetCaptureByIDForUser, BEGIN, DeleteCapture.
DeleteRow(s, u) ==
  LET p == pageOf[u] IN
  /\ tx[s] = None
  /\ p # None
  /\ u \notin LockedBy(Sessions)
  /\ Begin
  /\ tx' = [tx EXCEPT ![s] = [op |-> "delete", up |-> u, page |-> p, now |-> Now,
                              at |-> "count", favicon |-> None]]
  /\ skewed' = IF Deleting(p) # {} THEN skewed \cup {p} ELSE skewed
  /\ UNCHANGED <<pgVars, upload, crossed>>

At(s, label) == tx[s] # None /\ tx[s].at = label

\* What a statement of this transaction sees: committed rows but for its own.
Remaining(s) == CapturesOf(tx[s].page) \ {tx[s].up}

\* Mutant: the count still has the row just deleted.
CountOffByOne(s) ==
  /\ At(s, "count")
  /\ tx' = [tx EXCEPT ![s].at = IF Cardinality(Remaining(s)) <= 1 THEN "drop" ELSE "latest"]
  /\ UNCHANGED <<pgVars, upload, clock, libraryHistory>>

\* CountCapturesByPage.
CountCaptures(s) ==
  /\ At(s, "count")
  /\ tx' = [tx EXCEPT ![s].at = IF Remaining(s) = {} THEN "drop" ELSE "latest"]
  /\ UNCHANGED <<pgVars, upload, clock, libraryHistory>>

\* GetLatestCaptureByPage; when it finds no row any more the request fails.
ReadLatest(s) ==
  /\ At(s, "latest")
  /\ IF Remaining(s) = {}
     THEN End(s)
     ELSE tx' = [tx EXCEPT ![s].at = "favicon", ![s].favicon = Latest(Remaining(s))]
  /\ UNCHANGED <<pgVars, upload, clock, libraryHistory>>

\* Mutant: the page keeps the favicon of the deleted capture.
KeepFavicon(s) ==
  /\ At(s, "favicon")
  /\ pages' = [pages EXCEPT ![tx[s].page].updated = tx[s].now]
  /\ pageOf' = [pageOf EXCEPT ![tx[s].up] = None]
  /\ End(s)
  /\ UNCHANGED <<nextPage, upload, clock, libraryHistory>>

\* SetPageFavicon, COMMIT.
SetPageFavicon(s) ==
  /\ At(s, "favicon")
  /\ pages' = [pages EXCEPT ![tx[s].page].favicon = tx[s].favicon,
                            ![tx[s].page].updated = tx[s].now]
  /\ pageOf' = [pageOf EXCEPT ![tx[s].up] = None]
  /\ End(s)
  /\ UNCHANGED <<nextPage, upload, clock, libraryHistory>>

Cascade(p) ==
  /\ pages' = [pages EXCEPT ![p] = None]
  /\ pageOf' = [u \in Uploads |-> IF pageOf[u] = p THEN None ELSE pageOf[u]]

\* Mutant: the page stays when its last capture goes.
DropRowOnly(s) ==
  /\ At(s, "drop")
  /\ pageOf' = [pageOf EXCEPT ![tx[s].up] = None]
  /\ End(s)
  /\ UNCHANGED <<pages, nextPage, upload, clock, libraryHistory>>

\* DeletePage, COMMIT.  The cascade waits for captures others have locked, and
\* takes those that were committed since the count.
DropPage(s) ==
  /\ At(s, "drop")
  /\ LockedBy(Sessions \ {s}) \cap CapturesOf(tx[s].page) = {}
  /\ Cascade(tx[s].page)
  /\ End(s)
  /\ UNCHANGED <<nextPage, upload, clock, libraryHistory>>

\* A statement fails, Postgres breaks a deadlock, or the process dies.
Rollback(s) ==
  /\ tx[s] # None
  /\ End(s)
  /\ UNCHANGED <<pgVars, upload, clock, libraryHistory>>

-----------------------------------------------------------------------------
(* Single statements of the dashboard.                                     *)

DeletePage(p) ==
  /\ p \in Rows
  /\ LockedBy(Sessions) \cap CapturesOf(p) = {}
  /\ Cascade(p)
  /\ UNCHANGED <<nextPage, upload, clock, tx, libraryHistory>>

SetPageTitle(p) ==
  /\ p \in Rows
  /\ Begin
  /\ pages' = [pages EXCEPT ![p].title = Edited, ![p].updated = Now]
  /\ UNCHANGED <<nextPage, pageOf, upload, tx, libraryHistory>>

SetPageExcludedFromMirror(p, excluded) ==
  /\ p \in Rows
  /\ Begin
  /\ pages' = [pages EXCEPT ![p].excluded = excluded, ![p].updated = Now]
  /\ UNCHANGED <<nextPage, pageOf, upload, tx, libraryHistory>>

-----------------------------------------------------------------------------
DeleteCapture(s) ==
  \/ \E u \in Uploads : DeleteRow(s, u)
  \/ CountCaptures(s) \/ ReadLatest(s) \/ SetPageFavicon(s) \/ DropPage(s)

Archive(s) == CommitUpsert(s) \/ \E u \in Uploads : BeginUpsert(s, u)

Edit(p) ==
  \/ SetPageTitle(p) \/ DeletePage(p)
  \/ \E excluded \in BOOLEAN : SetPageExcludedFromMirror(p, excluded)

LibraryNext ==
  \/ \E s \in Sessions : Archive(s) \/ DeleteCapture(s) \/ Rollback(s)
  \/ \E u \in Uploads : MarkFetched(u)
  \/ \E p \in PageIds : Edit(p)

LibrarySpec == LibraryInit /\ [][LibraryNext]_libraryVars

-----------------------------------------------------------------------------
\* UpsertPage: latest_capture_at "tolerates an out-of-order arrival without
\* regressing": no page claims to be older than a capture it has, in whichever
\* order captures are archived, archived again and deleted.
LatestCoversCaptures ==
  \A u \in Uploads : pageOf[u] # None => TakenAt[u] <= pages[pageOf[u]].latest

\* DeleteCapture: no page is ever left with zero captures, unless two of its
\* captures were being deleted at the same time.
NoEmptyPage == \A p \in Rows \ skewed : CapturesOf(p) # {}

\* What the rows say of each other: a capture is on a page of its URL, a URL has one
\* page, and ids are given out in turn.
RowsAgree ==
  /\ \A u \in Uploads : pageOf[u] # None => pageOf[u] \in Rows /\ pages[pageOf[u]].url = UrlOf[u]
  /\ \A p, q \in Rows : pages[p].url = pages[q].url => p = q
  /\ \A p \in Rows : p < nextPage

\* What a deletion under way holds and has read: its row is still there and locked
\* by nobody else; alone on its page, the capture it found for the favicon is there,
\* and the page it goes to drop has no capture but those archived meanwhile.
DeletionAgrees(s) ==
  LET t == tx[s] IN
  /\ t.page \in PageIds /\ t.at # "commit"
  /\ pageOf[t.up] = t.page
  /\ \A o \in Active : tx[o].op = "delete" /\ tx[o].up = t.up => o = s
  /\ t.at = "favicon" => t.favicon \in Uploads
  /\ t.page \notin skewed =>
       /\ Deleting(t.page) = {s}
       /\ t.at = "favicon" => t.favicon \in CapturesOf(t.page) \ {t.up}
  /\ t.at = "drop" /\ t.page \notin crossed => CapturesOf(t.page) = {t.up}

DeletionsAgree ==
  \A s \in Active : IF tx[s].op = "delete" THEN DeletionAgrees(s) ELSE tx[s].at = "commit"

\* DeleteCapture: what no statement of the two transactions may break, whatever the
\* other has committed in between; a page without captures is left only by two deletions
\* that overlap on it.
NoEmptyPageInv == LibraryTypeOK /\ NoEmptyPage /\ RowsAgree /\ DeletionsAgree

\* DeleteCapture: a page's favicon is that of a capture it still has, with the
\* same exception.
FaviconOfSurvivor == \A p \in Rows \ skewed : pageOf[pages[p].favicon] = p

\* The step that removes a captures row was asked to: the user deleted it, or
\* its page.
Named(u) ==
  \/ \E s \in Active : tx[s].op = "delete" /\ tx[s].up = u /\ tx'[s] = None
  \/ DeletePage(pageOf[u])

\* DeleteCapture removes no other capture, unless one was archived to the page
\* while the deletion was under way.
OnlyNamedDeleted ==
  [][\A u \in Uploads :
       pageOf[u] # None /\ pageOf'[u] = None /\ pageOf[u] \notin crossed => Named(u)]_libraryVars
=============================================================================
