---------------------------- MODULE LibraryProofs ----------------------------
(* The proofs about Library, for any captures, URLs, connections and any     *)
(* number of transactions: what deleting a capture, statement by statement,  *)
(* leaves of its page while others delete and archive; and about Curation,   *)
(* for any users, requests and names: whose rows a relation joins.           *)
EXTENDS MCLibrary, FiniteSetTheorems, WellFoundedInduction, TLAPS

USE DEF pgVars, libraryHistory

\* The later of two times.
LEMMA MaxOfTwo ==
  ASSUME NEW x \in Nat, NEW y \in Nat
  PROVE  Max({x, y}) \in Nat /\ x <= Max({x, y}) /\ y <= Max({x, y})
<1>1. \E m \in {x, y} : \A n \in {x, y} : m >= n
  <2>1. x >= y \/ y >= x
    OBVIOUS
  <2>2. QED
    BY <2>1
<1>2. Max({x, y}) \in {x, y} /\ \A n \in {x, y} : Max({x, y}) >= n
  BY <1>1 DEF Max
<1>3. QED
  BY <1>2

\* Of any captures there is a latest: a set of them with the fewest later ones.
LEMMA LatestIsOne ==
  ASSUME NEW U \in SUBSET Uploads, U # {}
  PROVE  Latest(U) \in U
<1> USE LibraryAssumption
<1> DEFINE Later(u) == {v \in U : TakenAt[u] < TakenAt[v]}
           T == {Later(u) : u \in U}
<1>1. IsFiniteSet(U)
  BY FS_Subset
<1>2. IsWellFoundedOn(StrictSubsetOrdering(U), SUBSET U)
  <2>1. FiniteSubsetsOf(U) = SUBSET U
    BY <1>1, FS_FiniteSubsetsOfFinite
  <2>2. IsWellFoundedOn(StrictSubsetOrdering(U), FiniteSubsetsOf(U))
    BY FS_StrictSubsetOrderingWellFounded
  <2>3. QED
    BY <2>1, <2>2
<1>3. T \subseteq SUBSET U /\ T # {}
  <2>1. ASSUME NEW t \in T PROVE t \in SUBSET U
    <3>1. PICK u \in U : t = Later(u)
      OBVIOUS
    <3>2. QED
      BY <3>1
  <2>2. PICK u \in U : TRUE
    OBVIOUS
  <2>3. Later(u) \in T
    OBVIOUS
  <2>4. QED
    BY <2>1, <2>3
<1>4. PICK m \in T : \A t \in T : <<t, m>> \notin StrictSubsetOrdering(U)
  BY <1>2, <1>3, WFMin
<1>5. PICK u \in U : m = Later(u)
  BY <1>4
<1>6. Later(u) = {}
  <2>1. SUFFICES ASSUME NEW v \in Later(u) PROVE FALSE
    OBVIOUS
  <2>2. v \in U /\ TakenAt[u] < TakenAt[v] /\ TakenAt[u] \in Nat /\ TakenAt[v] \in Nat
    OBVIOUS
  <2>3. Later(v) \subseteq Later(u) /\ v \notin Later(v)
    <3>1. ASSUME NEW w \in Later(v) PROVE w \in Later(u)
      BY <2>2, <3>1
    <3>2. QED
      BY <2>2, <3>1
  <2>4. <<Later(v), Later(u)>> \in StrictSubsetOrdering(U)
    BY <2>1, <2>3 DEF StrictSubsetOrdering
  <2>5. QED
    BY <1>4, <1>5, <2>2, <2>4
<1>7. \A v \in U : TakenAt[v] <= TakenAt[u]
  BY <1>6
<1>8. QED
  BY <1>7 DEF Latest

\* What a step of the library is, with the nesting of LibraryNext taken apart.
LEMMA StepKinds ==
  ASSUME [LibraryNext]_libraryVars
  PROVE  \/ \E s \in Sessions, u \in Uploads : BeginUpsert(s, u)
         \/ \E s \in Sessions : CommitUpsert(s)
         \/ \E u \in Uploads : MarkFetched(u)
         \/ \E s \in Sessions, u \in Uploads : DeleteRow(s, u)
         \/ \E s \in Sessions : CountCaptures(s)
         \/ \E s \in Sessions : ReadLatest(s)
         \/ \E s \in Sessions : SetPageFavicon(s)
         \/ \E s \in Sessions : DropPage(s)
         \/ \E s \in Sessions : Rollback(s)
         \/ \E p \in PageIds : DeletePage(p)
         \/ \E p \in PageIds, x \in BOOLEAN : SetPageTitle(p) \/ SetPageExcludedFromMirror(p, x)
         \/ UNCHANGED libraryVars
BY DEF LibraryNext, Archive, DeleteCapture, Edit

\* A page that is upserted is a page, of the capture's URL and as late as it.
LEMMA UpsertedPage ==
  ASSUME LibraryTypeOK, NEW p \in PageIds, NEW u \in Uploads, NEW now \in 1..MaxClock
  PROVE  /\ Upserted(p, u, now) \in Page
         /\ Upserted(p, u, now).favicon = u /\ TakenAt[u] <= Upserted(p, u, now).latest
         /\ p \in Rows => /\ Upserted(p, u, now).url = pages[p].url
                          /\ pages[p].latest <= Upserted(p, u, now).latest
         /\ p \notin Rows => Upserted(p, u, now).url = UrlOf[u]
<1> USE LibraryAssumption
<1>1. CASE p \in Rows
  <2>1. pages[p] \in Page
    BY <1>1 DEF Rows, LibraryTypeOK
  <2>2. /\ Max({pages[p].latest, TakenAt[u]}) \in Nat /\ TakenAt[u] <= Max({pages[p].latest, TakenAt[u]})
        /\ pages[p].latest <= Max({pages[p].latest, TakenAt[u]})
    BY <2>1, MaxOfTwo DEF Page
  <2>3. Upserted(p, u, now) = [pages[p] EXCEPT !.title = u, !.favicon = u, !.updated = now,
                                               !.latest = Max({pages[p].latest, TakenAt[u]})]
    BY <1>1, <2>1 DEF Upserted, Page
  <2>4. QED
    BY <1>1, <2>1, <2>2, <2>3 DEF Page
<1>2. CASE p \notin Rows
  BY <1>2 DEF Upserted, Page
<1>3. QED
  BY <1>1, <1>2

\* The page that CommitUpsert writes: the one of the capture's URL, or a new one.
LEMMA CommitKinds ==
  ASSUME LibraryTypeOK, RowsAgree, NEW s \in Sessions, CommitUpsert(s)
  PROVE  \E p \in PageIds :
           /\ tx[s].up \in Uploads /\ tx[s].now \in 1..MaxClock
           /\ \/ p \in Rows /\ pages[p].url = UrlOf[tx[s].up] /\ nextPage' \in {nextPage, nextPage + 1}
              \/ p = nextPage /\ p \notin Rows /\ nextPage' = nextPage + 1 /\ \A q \in Rows : pages[q].url # UrlOf[tx[s].up]
           /\ pages' = [pages EXCEPT ![p] = Upserted(p, tx[s].up, tx[s].now)]
           /\ pageOf' = [pageOf EXCEPT ![tx[s].up] = p]
           /\ upload' = [upload EXCEPT ![tx[s].up] = "committed"]
           /\ crossed' = IF Deleting(p) # {} THEN crossed \cup {p} ELSE crossed
           /\ tx' = [tx EXCEPT ![s] = None] /\ UNCHANGED <<clock, skewed>>
<1> DEFINE u == tx[s].up
           existing == {p \in Rows : pages[p].url = UrlOf[u]}
<1>1. u \in Uploads /\ tx[s].now \in 1..MaxClock
  BY DEF CommitUpsert, LibraryTypeOK, Transaction
<1>2. PICK p \in IF existing = {} THEN {nextPage} \cap PageIds ELSE existing :
          /\ pages' = [pages EXCEPT ![p] = Upserted(p, u, tx[s].now)]
          /\ nextPage' = IF p = nextPage THEN nextPage + 1 ELSE nextPage
          /\ pageOf' = [pageOf EXCEPT ![u] = p]
          /\ upload' = [upload EXCEPT ![u] = "committed"]
          /\ crossed' = IF Deleting(p) # {} THEN crossed \cup {p} ELSE crossed
  BY DEF CommitUpsert
<1>3. tx' = [tx EXCEPT ![s] = None] /\ UNCHANGED <<clock, skewed>>
  BY DEF CommitUpsert, End
<1>4. p \in PageIds /\ (p = nextPage => p \notin Rows)
  <2>1. \A q \in Rows : q \in Nat /\ q < nextPage
    BY LibraryAssumption DEF RowsAgree, Rows, PageIds
  <2>2. QED
    BY <1>2, <2>1 DEF Rows, LibraryTypeOK
<1>5. QED
  BY <1>1, <1>2, <1>3, <1>4

\* Every step keeps the variables typed, as long as deletions know what they read.
LEMMA TypeStep ==
  ASSUME LibraryTypeOK, RowsAgree, DeletionsAgree, [LibraryNext]_libraryVars
  PROVE  LibraryTypeOK'
<1> USE LibraryAssumption
<1>1. ASSUME NEW s \in Sessions, NEW u \in Uploads, BeginUpsert(s, u) PROVE LibraryTypeOK'
  BY <1>1 DEF BeginUpsert, Begin, Now, Transaction, LibraryTypeOK
<1>2. ASSUME NEW s \in Sessions, CommitUpsert(s) PROVE LibraryTypeOK'
  <2>1. PICK p \in PageIds :
           /\ tx[s].up \in Uploads /\ tx[s].now \in 1..MaxClock
           /\ nextPage' \in {nextPage, nextPage + 1}
           /\ pages' = [pages EXCEPT ![p] = Upserted(p, tx[s].up, tx[s].now)]
           /\ pageOf' = [pageOf EXCEPT ![tx[s].up] = p]
           /\ upload' = [upload EXCEPT ![tx[s].up] = "committed"]
           /\ crossed' = IF Deleting(p) # {} THEN crossed \cup {p} ELSE crossed
           /\ tx' = [tx EXCEPT ![s] = None] /\ UNCHANGED <<clock, skewed>>
    BY <1>2, CommitKinds
  <2>2. Upserted(p, tx[s].up, tx[s].now) \in Page
    BY <2>1, UpsertedPage
  <2>3. pages' \in [PageIds -> Page \cup {None}]
    BY <2>1, <2>2 DEF LibraryTypeOK
  <2>4. nextPage' \in Nat \ {0}
    BY <2>1 DEF LibraryTypeOK
  <2>5. QED
    BY <2>1, <2>3, <2>4 DEF LibraryTypeOK
<1>3. ASSUME NEW u \in Uploads, MarkFetched(u) PROVE LibraryTypeOK'
  BY <1>3 DEF MarkFetched, LibraryTypeOK
<1>4. ASSUME NEW s \in Sessions, NEW u \in Uploads, DeleteRow(s, u) PROVE LibraryTypeOK'
  <2>1. pageOf[u] \in PageIds /\ clock' \in 1..MaxClock
    BY <1>4 DEF DeleteRow, Begin, Now, LibraryTypeOK
  <2>2. QED
    BY <1>4, <2>1 DEF DeleteRow, Begin, Now, Transaction, LibraryTypeOK
<1>5. ASSUME NEW s \in Sessions, CountCaptures(s) PROVE LibraryTypeOK'
  BY <1>5 DEF CountCaptures, At, Transaction, LibraryTypeOK
<1>6. ASSUME NEW s \in Sessions, ReadLatest(s) PROVE LibraryTypeOK'
  <2>1. Remaining(s) \subseteq Uploads
    BY DEF Remaining, CapturesOf
  <2>2. Remaining(s) # {} => Latest(Remaining(s)) \in Uploads
    BY <2>1, LatestIsOne
  <2>3. QED
    BY <1>6, <2>2 DEF ReadLatest, End, At, Transaction, LibraryTypeOK
<1>7. ASSUME NEW s \in Sessions, SetPageFavicon(s) PROVE LibraryTypeOK'
  <2>1. tx[s] \in Transaction /\ tx[s].op = "delete" /\ DeletionAgrees(s)
    BY <1>7 DEF SetPageFavicon, At, Active, DeletionsAgree, LibraryTypeOK
  <2>2. tx[s].favicon \in Uploads /\ tx[s].page \in Rows
    BY <1>7, <2>1 DEF SetPageFavicon, At, DeletionAgrees, RowsAgree, Transaction, PageIds
  <2>3. pages[tx[s].page] \in Page /\ tx[s].now \in 1..MaxClock
    BY <2>1, <2>2 DEF Rows, LibraryTypeOK, Transaction
  <2>4. [pages[tx[s].page] EXCEPT !.favicon = tx[s].favicon, !.updated = tx[s].now] \in Page
    BY <2>2, <2>3 DEF Page
  <2>5. pages' = [pages EXCEPT ![tx[s].page] = [pages[tx[s].page] EXCEPT !.favicon = tx[s].favicon, !.updated = tx[s].now]]
    BY <1>7, <2>2 DEF SetPageFavicon, Rows, LibraryTypeOK
  <2>6. pages' \in [PageIds -> Page \cup {None}]
    BY <2>4, <2>5 DEF LibraryTypeOK
  <2>7. QED
    BY <1>7, <2>6 DEF SetPageFavicon, End, LibraryTypeOK
<1>8. ASSUME NEW s \in Sessions, DropPage(s) PROVE LibraryTypeOK'
  BY <1>8 DEF DropPage, Cascade, End, LibraryTypeOK
<1>9. ASSUME NEW s \in Sessions, Rollback(s) PROVE LibraryTypeOK'
  BY <1>9 DEF Rollback, End, LibraryTypeOK
<1>10. ASSUME NEW p \in PageIds, DeletePage(p) PROVE LibraryTypeOK'
  BY <1>10 DEF DeletePage, Cascade, LibraryTypeOK
<1>11. ASSUME NEW p \in PageIds, NEW x \in BOOLEAN, SetPageTitle(p) \/ SetPageExcludedFromMirror(p, x)
       PROVE  LibraryTypeOK'
  BY <1>11 DEF SetPageTitle, SetPageExcludedFromMirror, Begin, Now, Rows, Page, LibraryTypeOK
<1>12. CASE UNCHANGED libraryVars
  BY <1>12 DEF libraryVars, LibraryTypeOK
<1>13. QED
  BY StepKinds, <1>1, <1>2, <1>3, <1>4, <1>5, <1>6, <1>7, <1>8, <1>9, <1>10, <1>11, <1>12

-----------------------------------------------------------------------------
\* The pages that there are stay, with their URL.
RowsEdited == \A p \in PageIds : (pages'[p] # None <=> pages[p] # None) /\ (p \in Rows => pages'[p].url = pages[p].url)

\* An edit of a page is of one that is there, and leaves alone what it is not about.
LEMMA EditKinds ==
  ASSUME LibraryTypeOK, NEW p \in PageIds, NEW x \in BOOLEAN, SetPageTitle(p) \/ SetPageExcludedFromMirror(p, x)
  PROVE  /\ RowsEdited
         /\ \A q \in Rows : pages'[q].latest = pages[q].latest /\ pages'[q].favicon = pages[q].favicon
<1>1. pages[p] \in Page
  BY DEF SetPageTitle, SetPageExcludedFromMirror, Rows, LibraryTypeOK
<1>2. PICK t \in Uploads \cup {Edited}, e \in BOOLEAN : pages' = [pages EXCEPT ![p] = [pages[p] EXCEPT !.title = t, !.excluded = e, !.updated = clock']]
  <2>1. CASE SetPageTitle(p)
    <3>1. pages' = [pages EXCEPT ![p] = [pages[p] EXCEPT !.title = Edited, !.excluded = pages[p].excluded, !.updated = clock']]
      BY <1>1, <2>1 DEF SetPageTitle, Begin, Now, Page, LibraryTypeOK
    <3>2. QED
      BY <1>1, <3>1 DEF Page
  <2>2. CASE SetPageExcludedFromMirror(p, x)
    <3>1. pages' = [pages EXCEPT ![p] = [pages[p] EXCEPT !.title = pages[p].title, !.excluded = x, !.updated = clock']]
      BY <1>1, <2>2 DEF SetPageExcludedFromMirror, Begin, Now, Page, LibraryTypeOK
    <3>2. QED
      BY <1>1, <3>1 DEF Page
  <2>3. QED
    BY <2>1, <2>2
<1>3. clock' \in 1..MaxClock
  BY LibraryAssumption DEF SetPageTitle, SetPageExcludedFromMirror, Begin, Now, LibraryTypeOK
<1>4. [pages[p] EXCEPT !.title = t, !.excluded = e, !.updated = clock'] \in Page
  BY <1>1, <1>2, <1>3 DEF Page
<1>5. QED
  BY <1>1, <1>2, <1>4, RowAssumption DEF RowsEdited, Rows, Page, LibraryTypeOK

\* Rows only go, and pages keep their URL.
RowsKept ==
  /\ \A p \in PageIds : pages'[p] # None => pages[p] # None /\ pages'[p].url = pages[p].url
  /\ \A u \in Uploads : pageOf'[u] # None => pageOf'[u] = pageOf[u] /\ pages'[pageOf[u]] # None
  /\ UNCHANGED nextPage

LEMMA RowsKeptAgree == RowsAgree /\ RowsKept => RowsAgree'
BY DEF RowsAgree, RowsKept, Rows

\* A page and its captures go together.
LEMMA CascadeKeeps ==
  ASSUME LibraryTypeOK, RowsAgree, NEW p \in PageIds, Cascade(p), UNCHANGED nextPage
  PROVE  RowsKept
BY LibraryAssumption DEF Cascade, RowsKept, RowsAgree, Rows, LibraryTypeOK

\* SetPageFavicon with its COMMIT writes a page that is there.
LEMMA SetPageFaviconKinds ==
  ASSUME LibraryTypeOK, RowsAgree, DeletionsAgree, NEW s \in Sessions, SetPageFavicon(s)
  PROVE  /\ tx[s].op = "delete" /\ DeletionAgrees(s) /\ tx[s].page \in Rows /\ tx[s].up \in Uploads
         /\ tx[s].favicon \in Uploads /\ tx[s].now \in 1..MaxClock /\ tx[s].at = "favicon"
         /\ pages[tx[s].page] \in Page
         /\ pages' = [pages EXCEPT ![tx[s].page] =
                        [pages[tx[s].page] EXCEPT !.favicon = tx[s].favicon, !.updated = tx[s].now]]
         /\ pageOf' = [pageOf EXCEPT ![tx[s].up] = None]
<1>1. tx[s] \in Transaction /\ tx[s].op = "delete" /\ DeletionAgrees(s) /\ tx[s].at = "favicon"
  BY DEF SetPageFavicon, At, Active, DeletionsAgree, LibraryTypeOK
<1>2. tx[s].favicon \in Uploads /\ tx[s].page \in Rows /\ tx[s].up \in Uploads /\ tx[s].now \in 1..MaxClock
  BY <1>1, LibraryAssumption DEF DeletionAgrees, RowsAgree, Transaction, PageIds
<1>3. pages[tx[s].page] \in Page
  BY <1>2 DEF Rows, LibraryTypeOK
<1>4. QED
  BY <1>1, <1>2, <1>3 DEF SetPageFavicon, Rows, LibraryTypeOK

\* Every step keeps captures on the one page of their URL.
LEMMA RowsStep ==
  ASSUME LibraryTypeOK, RowsAgree, DeletionsAgree, [LibraryNext]_libraryVars
  PROVE  RowsAgree'
<1> USE LibraryAssumption
<1>1. ASSUME NEW s \in Sessions, CommitUpsert(s) PROVE RowsAgree'
  <2>1. PICK p \in PageIds :
           /\ tx[s].up \in Uploads /\ tx[s].now \in 1..MaxClock
           /\ \/ p \in Rows /\ pages[p].url = UrlOf[tx[s].up] /\ nextPage' \in {nextPage, nextPage + 1}
              \/ p = nextPage /\ p \notin Rows /\ nextPage' = nextPage + 1 /\ \A q \in Rows : pages[q].url # UrlOf[tx[s].up]
           /\ pages' = [pages EXCEPT ![p] = Upserted(p, tx[s].up, tx[s].now)]
           /\ pageOf' = [pageOf EXCEPT ![tx[s].up] = p]
    BY <1>1, CommitKinds
  <2>2. /\ Upserted(p, tx[s].up, tx[s].now) # None
        /\ Upserted(p, tx[s].up, tx[s].now).url = UrlOf[tx[s].up]
    BY <2>1, UpsertedPage, RowAssumption
  <2>3. Rows' = Rows \cup {p}
    BY <2>1, <2>2 DEF Rows, LibraryTypeOK
  <2>4. \A q \in Rows' : pages'[q].url = IF q = p THEN UrlOf[tx[s].up] ELSE pages[q].url
    BY <2>1, <2>2, <2>3 DEF Rows, LibraryTypeOK
  <2>5. \A v \in Uploads : pageOf'[v] # None => pageOf'[v] \in Rows' /\ pages'[pageOf'[v]].url = UrlOf[v]
    BY <2>1, <2>3, <2>4 DEF RowsAgree, LibraryTypeOK
  <2>6. \A q, r \in Rows' : pages'[q].url = pages'[r].url => q = r
    BY <2>1, <2>3, <2>4 DEF RowsAgree
  <2>7. \A q \in Rows' : q < nextPage'
    <3>1. nextPage \in Nat /\ \A q \in Rows : q \in Nat /\ q < nextPage
      BY DEF LibraryTypeOK, RowsAgree, Rows, PageIds
    <3>2. QED
      BY <2>1, <2>3, <3>1
  <2>8. QED
    BY <2>5, <2>6, <2>7 DEF RowsAgree
<1>2. ASSUME NEW s \in Sessions, SetPageFavicon(s) PROVE RowsAgree'
  <2>1. RowsKept
    <3>1. PICK page \in Page : page.url = pages[tx[s].page].url /\ pages' = [pages EXCEPT ![tx[s].page] = page]
      BY <1>2, SetPageFaviconKinds DEF Page
    <3>2. RowsEdited
      BY <1>2, <3>1, SetPageFaviconKinds, RowAssumption DEF RowsEdited, Rows, LibraryTypeOK
    <3>3. pageOf' = [pageOf EXCEPT ![tx[s].up] = None] /\ UNCHANGED nextPage
      BY <1>2 DEF SetPageFavicon
    <3>4. QED
      BY <3>2, <3>3 DEF RowsEdited, RowsKept, RowsAgree, Rows, LibraryTypeOK
  <2>2. QED
    BY <2>1, RowsKeptAgree
<1>3. ASSUME NEW s \in Sessions, DropPage(s) PROVE RowsAgree'
  <2>1. tx[s].page \in PageIds
    BY <1>3 DEF DropPage, At, Active, DeletionsAgree, DeletionAgrees
  <2>2. QED
    BY <1>3, <2>1, CascadeKeeps, RowsKeptAgree DEF DropPage
<1>4. ASSUME NEW p \in PageIds, DeletePage(p) PROVE RowsAgree'
  BY <1>4, CascadeKeeps, RowsKeptAgree DEF DeletePage
<1>5. ASSUME NEW p \in PageIds, NEW x \in BOOLEAN, SetPageTitle(p) \/ SetPageExcludedFromMirror(p, x)
      PROVE  RowsAgree'
  <2>1. RowsEdited /\ UNCHANGED <<nextPage, pageOf>>
    BY <1>5, EditKinds DEF SetPageTitle, SetPageExcludedFromMirror
  <2>2. QED
    BY <2>1, RowsKeptAgree DEF RowsEdited, RowsKept, RowsAgree, Rows
<1>6. ASSUME UNCHANGED <<pages, nextPage, pageOf>> PROVE RowsAgree'
  BY <1>6 DEF RowsAgree, Rows
<1>7. QED
  BY StepKinds, <1>1, <1>2, <1>3, <1>4, <1>5, <1>6
     DEF BeginUpsert, MarkFetched, DeleteRow, CountCaptures, ReadLatest, Rollback, libraryVars

-----------------------------------------------------------------------------
IsDeletion(s) == s \in Active /\ tx[s].op = "delete"

\* A deletion that another's step leaves its row and what it has read.
LEMMA OtherDeletion ==
  ASSUME LibraryTypeOK, NEW o \in Sessions, IsDeletion(o), DeletionAgrees(o),
         tx'[o] = tx[o], skewed \subseteq skewed', crossed \subseteq crossed',
         pageOf'[tx[o].up] = pageOf[tx[o].up],
         \A q \in Sessions \ {o} : IsDeletion(q)' =>
           /\ tx'[q].up # tx[o].up
           /\ tx'[q].page = tx[o].page => tx[o].page \in skewed' \/ (IsDeletion(q) /\ tx[q].page = tx[o].page),
         tx[o].page \notin skewed' /\ tx[o].at = "favicon" => pageOf'[tx[o].favicon] = pageOf[tx[o].favicon],
         tx[o].page \notin crossed' /\ tx[o].at = "drop" =>
           \A v \in Uploads : pageOf'[v] = tx[o].page => pageOf[v] = tx[o].page
  PROVE  DeletionAgrees(o)'
<1> DEFINE t == tx[o]
<1>1. t \in Transaction /\ t.up \in Uploads
  BY DEF IsDeletion, Active, LibraryTypeOK, Transaction
<1>2. t.page \notin skewed' => Deleting(t.page)' = {o}
  BY DEF DeletionAgrees, Deleting, IsDeletion, Active
<1>3. t.page \notin crossed' /\ t.at = "drop" => CapturesOf(t.page)' = {t.up}
  BY <1>1 DEF DeletionAgrees, CapturesOf
<1>4. t.page \notin skewed' /\ t.at = "favicon" => t.favicon \in CapturesOf(t.page)' \ {t.up}
  BY DEF DeletionAgrees, CapturesOf
<1>5. \A q \in Active' : tx'[q].op = "delete" /\ tx'[q].up = t.up => q = o
  BY DEF IsDeletion, Active
<1>6. QED
  BY <1>2, <1>3, <1>4, <1>5 DEF DeletionAgrees

\* A transaction ends, and the others keep theirs.
LEMMA Ended ==
  ASSUME LibraryTypeOK, NEW s \in Sessions, End(s)
  PROVE  /\ Active' = Active \ {s}
         /\ \A q \in Active' : q # s /\ tx'[q] = tx[q]
BY DEF End, Active, LibraryTypeOK

\* Every step keeps deletions in agreement with the rows.
LEMMA DeletionsStep ==
  ASSUME LibraryTypeOK, RowsAgree, DeletionsAgree, [LibraryNext]_libraryVars
  PROVE  DeletionsAgree'
<1> USE LibraryAssumption
<1>0. \A q, r \in Sessions : IsDeletion(q) /\ IsDeletion(r) /\ q # r => tx[q].up # tx[r].up
  BY DEF DeletionsAgree, DeletionAgrees, IsDeletion, Active
<1>1. ASSUME NEW s \in Sessions, NEW u \in Uploads, BeginUpsert(s, u) PROVE DeletionsAgree'
  <2>1. /\ tx[s] = None /\ tx' = [tx EXCEPT ![s] = tx'[s]] /\ tx'[s].op = "upsert" /\ tx'[s].at = "commit"
        /\ UNCHANGED <<pageOf, skewed, crossed>>
    BY <1>1 DEF BeginUpsert, LibraryTypeOK
  <2>2. ASSUME NEW o \in Active', o # s PROVE o \in Active /\ tx'[o] = tx[o]
    BY <2>1, <2>2 DEF Active, LibraryTypeOK
  <2>3. \A q \in Sessions : IsDeletion(q)' => IsDeletion(q) /\ tx'[q] = tx[q]
    BY <2>1, <2>2 DEF IsDeletion, Active
  <2>4. ASSUME NEW o \in Active', o # s, tx'[o].op = "delete" PROVE DeletionAgrees(o)'
    BY <1>0, <2>1, <2>2, <2>3, <2>4, OtherDeletion DEF DeletionsAgree, IsDeletion, Active
  <2>5. QED
    BY <2>1, <2>2, <2>4 DEF DeletionsAgree
<1>2. ASSUME NEW s \in Sessions, CommitUpsert(s) PROVE DeletionsAgree'
  <2>0. tx[s].op = "upsert" /\ tx[s].up \notin LockedBy(Sessions)
    BY <1>2 DEF CommitUpsert
  <2>1. PICK p \in PageIds :
           /\ tx[s].up \in Uploads
           /\ \/ p \in Rows /\ pages[p].url = UrlOf[tx[s].up]
              \/ \A q \in Rows : pages[q].url # UrlOf[tx[s].up]
           /\ pageOf' = [pageOf EXCEPT ![tx[s].up] = p]
           /\ crossed' = IF Deleting(p) # {} THEN crossed \cup {p} ELSE crossed
           /\ End(s) /\ UNCHANGED <<clock, skewed>>
    BY <1>2, CommitKinds DEF End
  <2>2. pageOf[tx[s].up] \in {None, p}
    BY <2>1 DEF RowsAgree, Rows, LibraryTypeOK
  <2>3. \A v \in Uploads : pageOf[v] # None => pageOf'[v] = pageOf[v]
    BY <2>1, <2>2 DEF LibraryTypeOK
  <2>4. ASSUME NEW o \in Active', tx'[o].op = "delete" PROVE DeletionAgrees(o)'
    <3>1. o \in Sessions /\ o # s /\ tx'[o] = tx[o] /\ IsDeletion(o) /\ DeletionAgrees(o)
      BY <2>1, <2>4, Ended DEF IsDeletion, Active, DeletionsAgree
    <3>2. tx[o].page \in PageIds /\ tx[o].up \in Uploads /\ pageOf[tx[o].up] = tx[o].page /\ tx[o].page # None
      BY <3>1 DEF DeletionAgrees, IsDeletion, Active, LibraryTypeOK, Transaction, PageIds
    <3>3. tx[o].page \notin skewed /\ tx[o].at = "favicon" =>
            tx[o].favicon \in Uploads /\ pageOf[tx[o].favicon] = tx[o].page
      BY <3>1 DEF DeletionAgrees, CapturesOf
    <3>4. o \in Deleting(tx[o].page)
      BY <3>1 DEF Deleting, IsDeletion
    <3>5. tx[o].page \notin crossed' => p # tx[o].page
      BY <2>1, <3>4
    <3>6. tx[o].page \notin crossed' => \A v \in Uploads : pageOf'[v] = tx[o].page => pageOf[v] = tx[o].page
      BY <2>1, <3>5 DEF LibraryTypeOK
    <3>7. \A q \in Sessions : IsDeletion(q)' => IsDeletion(q) /\ tx'[q] = tx[q]
      BY <2>1, Ended DEF IsDeletion
    <3>8. skewed' = skewed /\ crossed \subseteq crossed'
      BY <2>1
    <3>9. QED
      BY <1>0, <2>3, <3>1, <3>2, <3>3, <3>6, <3>7, <3>8, OtherDeletion
  <2>5. \A o \in Active' : o \in Active /\ tx'[o] = tx[o]
    BY <2>1, Ended
  <2>6. QED
    BY <2>4, <2>5 DEF DeletionsAgree
<1>3. ASSUME NEW s \in Sessions, NEW u \in Uploads, DeleteRow(s, u) PROVE DeletionsAgree'
  <2> DEFINE p == pageOf[u]
  <2>1. /\ tx[s] = None /\ tx' = [tx EXCEPT ![s] = tx'[s]] /\ tx'[s].op = "delete" /\ tx'[s].at = "count"
        /\ tx'[s].up = u /\ tx'[s].page = p /\ p \in PageIds /\ u \notin LockedBy(Sessions)
        /\ skewed' = IF Deleting(p) # {} THEN skewed \cup {p} ELSE skewed
        /\ UNCHANGED <<pageOf, crossed>>
    BY <1>3 DEF DeleteRow, LibraryTypeOK
  <2>2. \A q \in Sessions : IsDeletion(q) => tx[q].up # u
    BY <2>1 DEF LockedBy, IsDeletion, Active
  <2>3. \A o \in Active' : o # s => o \in Active /\ tx'[o] = tx[o]
    BY <2>1 DEF Active, LibraryTypeOK
  <2>4. \A q \in Sessions \ {s} : IsDeletion(q)' => IsDeletion(q) /\ tx'[q] = tx[q]
    BY <2>3 DEF IsDeletion, Active
  <2>5. ASSUME NEW o \in Active', o # s, tx'[o].op = "delete" PROVE DeletionAgrees(o)'
    <3>1. o \in Sessions /\ tx'[o] = tx[o] /\ IsDeletion(o) /\ DeletionAgrees(o)
      BY <2>3, <2>5 DEF IsDeletion, Active, DeletionsAgree
    <3>2. tx[o].page = p => p \in skewed'
      BY <2>1, <3>1 DEF Deleting, IsDeletion
    <3>3. QED
      BY <1>0, <2>1, <2>2, <2>4, <3>1, <3>2, OtherDeletion
  <2>6. DeletionAgrees(s)'
    <3>1. p \notin skewed' => Deleting(p)' = {s} \cap Active'
      BY <2>1, <2>3 DEF Deleting, Active
    <3>2. s \in Active'
      <4>1. [op |-> "delete", up |-> u, page |-> p, now |-> Now, at |-> "count", favicon |-> None] \in Transaction
        BY <1>3, <2>1 DEF DeleteRow, Begin, Now, Transaction, LibraryTypeOK
      <4>2. QED
        BY <1>3, <4>1, RowAssumption DEF DeleteRow, Active, LibraryTypeOK
    <3>3. \A o \in Active' : tx'[o].op = "delete" /\ tx'[o].up = u => o = s
      BY <2>2, <2>3 DEF IsDeletion, Active
    <3>4. QED
      BY <2>1, <3>1, <3>2, <3>3 DEF DeletionAgrees
  <2>7. QED
    BY <2>1, <2>3, <2>5, <2>6 DEF DeletionsAgree
<1>4. ASSUME NEW s \in Sessions, IsDeletion(s), UNCHANGED <<pageOf, skewed, crossed>>,
             NEW at \in {"count", "latest", "favicon", "drop"}, NEW f,
             tx' = [tx EXCEPT ![s] = [tx[s] EXCEPT !.at = at, !.favicon = f]],
             at = "favicon" => f \in Remaining(s), at = "drop" => Remaining(s) = {}
      PROVE  DeletionsAgree'
  <2>1. tx[s] \in Transaction /\ DeletionAgrees(s)
    BY <1>4 DEF IsDeletion, Active, DeletionsAgree, LibraryTypeOK
  <2>2. /\ tx'[s].op = "delete" /\ tx'[s].up = tx[s].up /\ tx'[s].page = tx[s].page
        /\ tx'[s].at = at /\ tx'[s].favicon = f
    BY <1>4, <2>1 DEF IsDeletion, Active, LibraryTypeOK, Transaction
  <2>3. \A q \in Sessions \ {s} : tx'[q] = tx[q]
    BY <1>4 DEF LibraryTypeOK
  <2>4. \A q \in Active' : q \in Active /\ (q # s => tx'[q] = tx[q])
    BY <1>4, <2>3 DEF IsDeletion, Active
  <2>5. \A q \in Sessions : IsDeletion(q)' => IsDeletion(q) /\ tx'[q].up = tx[q].up /\ tx'[q].page = tx[q].page
    BY <1>4, <2>2, <2>4 DEF IsDeletion, Active
  <2>6. ASSUME NEW o \in Active', o # s, tx'[o].op = "delete" PROVE DeletionAgrees(o)'
    <3>1. o \in Sessions /\ tx'[o] = tx[o] /\ IsDeletion(o) /\ DeletionAgrees(o)
      BY <2>4, <2>6 DEF IsDeletion, Active, DeletionsAgree
    <3>2. QED
      BY <1>0, <1>4, <2>5, <3>1, OtherDeletion
  <2>7. s \in Active' => DeletionAgrees(s)'
    <3>1. pageOf'[tx'[s].up] = tx'[s].page /\ tx'[s].page \in PageIds /\ tx'[s].at # "commit"
      BY <1>4, <2>1, <2>2 DEF DeletionAgrees
    <3>2. \A o \in Active' : tx'[o].op = "delete" /\ tx'[o].up = tx[s].up => o = s
      BY <2>1, <2>4 DEF DeletionAgrees
    <3>3. Remaining(s) = CapturesOf(tx[s].page) \ {tx[s].up} /\ tx[s].up \in CapturesOf(tx[s].page)
      BY <2>1 DEF Remaining, CapturesOf, DeletionAgrees, Transaction
    <3>4. at = "favicon" => f \in Uploads /\ f \in CapturesOf(tx[s].page) \ {tx[s].up}
      BY <1>4, <3>3 DEF CapturesOf
    <3>5. at = "drop" => CapturesOf(tx[s].page) = {tx[s].up}
      BY <1>4, <3>3
    <3>6. CapturesOf(tx[s].page)' = CapturesOf(tx[s].page)
      BY <1>4, <2>2 DEF CapturesOf
    <3>7. tx[s].page \notin skewed /\ s \in Active' => Deleting(tx[s].page)' = {s}
      <4>0. PICK p : p = tx[s].page
        OBVIOUS
      <4>1. Deleting(p)' \subseteq Deleting(p)
        BY <1>4, <2>2, <2>4 DEF Deleting, IsDeletion
      <4>2. s \in Active' => s \in Deleting(p)'
        BY <2>2, <4>0 DEF Deleting
      <4>3. (tx[s].page)' = p
        BY <2>2, <4>0
      <4>4. QED
        BY <2>1, <4>0, <4>1, <4>2, <4>3 DEF DeletionAgrees
    <3>8. QED
      BY <1>4, <2>2, <3>1, <3>2, <3>4, <3>5, <3>6, <3>7 DEF DeletionAgrees, CapturesOf
  <2>8. QED
    BY <2>2, <2>4, <2>6, <2>7 DEF DeletionsAgree
<1>5. ASSUME NEW s \in Sessions, End(s), UNCHANGED <<skewed, crossed>>,
             \A v \in Uploads : pageOf'[v] # None => pageOf'[v] = pageOf[v],
             \A o \in Active \ {s} : tx[o].op = "delete" =>
               /\ pageOf'[tx[o].up] = pageOf[tx[o].up]
               /\ tx[o].page \notin skewed /\ tx[o].at = "favicon" => pageOf'[tx[o].favicon] = pageOf[tx[o].favicon]
      PROVE  DeletionsAgree'
  <2>1. \A q \in Active' : q \in Active \ {s} /\ tx'[q] = tx[q]
    BY <1>5, Ended
  <2>2. \A q \in Sessions : IsDeletion(q)' => IsDeletion(q) /\ tx'[q] = tx[q]
    BY <2>1 DEF IsDeletion
  <2>3. ASSUME NEW o \in Active', tx'[o].op = "delete" PROVE DeletionAgrees(o)'
    <3>1. o \in Sessions /\ o \in Active \ {s} /\ tx'[o] = tx[o] /\ IsDeletion(o) /\ DeletionAgrees(o)
      BY <2>1, <2>3 DEF IsDeletion, Active, DeletionsAgree
    <3>2. \A v \in Uploads : pageOf'[v] = tx[o].page => pageOf[v] = tx[o].page
      BY <1>5, <3>1 DEF DeletionAgrees, PageIds
    <3>3. QED
      BY <1>0, <1>5, <2>2, <3>1, <3>2, OtherDeletion DEF IsDeletion
  <2>4. QED
    BY <2>1, <2>3 DEF DeletionsAgree
<1>6. ASSUME NEW s \in Sessions, CountCaptures(s) PROVE DeletionsAgree'
  <2>1. IsDeletion(s) /\ tx[s] \in Transaction
    BY <1>6 DEF CountCaptures, At, IsDeletion, Active, DeletionsAgree, LibraryTypeOK, Transaction
  <2>2. tx' = [tx EXCEPT ![s] = [tx[s] EXCEPT !.at = IF Remaining(s) = {} THEN "drop" ELSE "latest", !.favicon = tx[s].favicon]]
    BY <1>6, <2>1 DEF CountCaptures, Transaction
  <2>3. QED
    BY <1>4, <1>6, <2>1, <2>2 DEF CountCaptures
<1>7. ASSUME NEW s \in Sessions, ReadLatest(s) PROVE DeletionsAgree'
  <2>1. IsDeletion(s) /\ tx[s] \in Transaction
    BY <1>7 DEF ReadLatest, At, IsDeletion, Active, DeletionsAgree, LibraryTypeOK, Transaction
  <2>2. CASE Remaining(s) = {}
    BY <1>5, <1>7, <2>2 DEF ReadLatest
  <2>3. CASE Remaining(s) # {}
    <3>1. Latest(Remaining(s)) \in Remaining(s)
      BY <2>3, LatestIsOne DEF Remaining, CapturesOf
    <3>2. tx' = [tx EXCEPT ![s] = [tx[s] EXCEPT !.at = "favicon", !.favicon = Latest(Remaining(s))]]
      BY <1>7, <2>1, <2>3 DEF ReadLatest, Transaction
    <3>3. QED
      BY <1>4, <1>7, <2>1, <3>1, <3>2 DEF ReadLatest
  <2>4. QED
    BY <2>2, <2>3
<1>8. ASSUME NEW s \in Sessions, SetPageFavicon(s) PROVE DeletionsAgree'
  <2>1. /\ IsDeletion(s) /\ DeletionAgrees(s) /\ tx[s].up \in Uploads
        /\ pageOf' = [pageOf EXCEPT ![tx[s].up] = None] /\ End(s) /\ UNCHANGED <<skewed, crossed>>
    BY <1>8, SetPageFaviconKinds DEF SetPageFavicon, At, IsDeletion, Active
  <2>2. ASSUME NEW o \in Active \ {s}, tx[o].op = "delete"
        PROVE  /\ pageOf'[tx[o].up] = pageOf[tx[o].up]
               /\ tx[o].page \notin skewed /\ tx[o].at = "favicon" => pageOf'[tx[o].favicon] = pageOf[tx[o].favicon]
    <3>1. IsDeletion(o) /\ DeletionAgrees(o) /\ tx[o].up \in Uploads
      BY <2>2 DEF IsDeletion, Active, DeletionsAgree, LibraryTypeOK, Transaction
    <3>2. tx[o].up # tx[s].up
      BY <1>0, <2>1, <2>2, <3>1 DEF Active
    <3>3. tx[o].page \notin skewed => tx[s].page # tx[o].page
      BY <2>1, <2>2, <3>1 DEF DeletionAgrees, Deleting, IsDeletion
    <3>4. tx[o].page \notin skewed /\ tx[o].at = "favicon" => tx[o].favicon # tx[s].up /\ tx[o].favicon \in Uploads
      BY <2>1, <3>1, <3>3 DEF DeletionAgrees, CapturesOf
    <3>5. QED
      BY <2>1, <3>1, <3>2, <3>4 DEF LibraryTypeOK
  <2>3. \A v \in Uploads : pageOf'[v] # None => pageOf'[v] = pageOf[v]
    BY <2>1 DEF LibraryTypeOK
  <2>4. QED
    BY <1>5, <2>1, <2>2, <2>3
<1>9. ASSUME NEW p \in PageIds, Cascade(p),
             NEW S \in SUBSET Sessions, LockedBy(S) \cap CapturesOf(p) = {}
      PROVE  /\ \A v \in Uploads : pageOf'[v] # None => pageOf'[v] = pageOf[v]
             /\ \A o \in Active \cap S : tx[o].op = "delete" =>
                  /\ pageOf'[tx[o].up] = pageOf[tx[o].up]
                  /\ tx[o].page \notin skewed /\ tx[o].at = "favicon" => pageOf'[tx[o].favicon] = pageOf[tx[o].favicon]
  <2>1. \A v \in Uploads : pageOf'[v] = IF pageOf[v] = p THEN None ELSE pageOf[v]
    BY <1>9 DEF Cascade
  <2>2. ASSUME NEW o \in Active \cap S, tx[o].op = "delete"
        PROVE  /\ pageOf'[tx[o].up] = pageOf[tx[o].up]
               /\ tx[o].page \notin skewed /\ tx[o].at = "favicon" => pageOf'[tx[o].favicon] = pageOf[tx[o].favicon]
    <3>1. DeletionAgrees(o) /\ tx[o].up \in Uploads /\ tx[o].up \in LockedBy(S)
      BY <2>2 DEF Active, DeletionsAgree, LibraryTypeOK, Transaction, LockedBy
    <3>2. tx[o].page # p
      BY <1>9, <3>1 DEF DeletionAgrees, CapturesOf
    <3>3. QED
      BY <2>1, <3>1, <3>2 DEF DeletionAgrees, CapturesOf
  <2>3. QED
    BY <2>1, <2>2
<1>10. ASSUME NEW s \in Sessions, DropPage(s) PROVE DeletionsAgree'
  <2>1. tx[s].page \in PageIds /\ Cascade(tx[s].page) /\ LockedBy(Sessions \ {s}) \cap CapturesOf(tx[s].page) = {}
    BY <1>10 DEF DropPage, At, Active, DeletionsAgree, DeletionAgrees
  <2>2. Active \ {s} = Active \cap (Sessions \ {s})
    BY DEF Active
  <2>3. QED
    BY <1>5, <1>9, <1>10, <2>1, <2>2 DEF DropPage
<1>11. ASSUME NEW p \in PageIds, DeletePage(p) PROVE DeletionsAgree'
  <2>1. /\ \A v \in Uploads : pageOf'[v] # None => pageOf'[v] = pageOf[v]
        /\ \A o \in Active : tx[o].op = "delete" =>
             /\ pageOf'[tx[o].up] = pageOf[tx[o].up]
             /\ tx[o].page \notin skewed /\ tx[o].at = "favicon" => pageOf'[tx[o].favicon] = pageOf[tx[o].favicon]
    BY <1>9, <1>11 DEF DeletePage, Active
  <2>2. UNCHANGED <<tx, skewed, crossed>>
    BY <1>11 DEF DeletePage
  <2>3. ASSUME NEW o \in Active, tx[o].op = "delete" PROVE DeletionAgrees(o)'
    <3>1. o \in Sessions /\ IsDeletion(o) /\ DeletionAgrees(o)
      BY <2>3 DEF IsDeletion, Active, DeletionsAgree
    <3>2. \A v \in Uploads : pageOf'[v] = tx[o].page => pageOf[v] = tx[o].page
      BY <2>1, <3>1 DEF DeletionAgrees, PageIds
    <3>3. \A q \in Sessions : IsDeletion(q)' => IsDeletion(q) /\ tx'[q] = tx[q]
      BY <2>2 DEF IsDeletion, Active
    <3>4. QED
      BY <1>0, <2>1, <2>2, <2>3, <3>1, <3>2, <3>3, OtherDeletion
  <2>4. QED
    BY <2>2, <2>3 DEF DeletionsAgree, Active
<1>12. ASSUME NEW s \in Sessions, Rollback(s) PROVE DeletionsAgree'
  BY <1>5, <1>12 DEF Rollback
<1>13. ASSUME UNCHANGED <<pageOf, tx, skewed, crossed>> PROVE DeletionsAgree'
  BY <1>13 DEF DeletionsAgree, DeletionAgrees, Active, Deleting, CapturesOf
<1>14. QED
  BY StepKinds, <1>1, <1>2, <1>3, <1>6, <1>7, <1>8, <1>10, <1>11, <1>12, <1>13
     DEF MarkFetched, SetPageTitle, SetPageExcludedFromMirror, libraryVars

-----------------------------------------------------------------------------
\* Of two deletions that do not overlap on a page none leaves it empty, or with the
\* favicon of a capture it no longer has.
Furnished == NoEmptyPage /\ FaviconOfSurvivor

\* Every step keeps what pages say of the captures they have.
LEMMA PagesStep ==
  ASSUME LibraryTypeOK, RowsAgree, DeletionsAgree, Furnished, LatestCoversCaptures, [LibraryNext]_libraryVars
  PROVE  Furnished' /\ LatestCoversCaptures'
<1> USE LibraryAssumption
<1>1. ASSUME NEW s \in Sessions, CommitUpsert(s) PROVE Furnished' /\ LatestCoversCaptures'
  <2> DEFINE u == tx[s].up
             page(p) == Upserted(p, u, tx[s].now)
  <2>1. PICK p \in PageIds :
           /\ u \in Uploads /\ tx[s].now \in 1..MaxClock
           /\ \/ p \in Rows /\ pages[p].url = UrlOf[u]
              \/ p \notin Rows /\ \A q \in Rows : pages[q].url # UrlOf[u]
           /\ pages' = [pages EXCEPT ![p] = page(p)]
           /\ pageOf' = [pageOf EXCEPT ![u] = p] /\ UNCHANGED skewed
    BY <1>1, CommitKinds
  <2>2. /\ page(p) \in Page /\ page(p) # None /\ page(p).favicon = u /\ TakenAt[u] <= page(p).latest
        /\ p \in Rows => pages[p].latest <= page(p).latest
    BY <2>1, UpsertedPage, RowAssumption
  <2>3. pageOf[u] \in {None, p} /\ u \in Uploads
    BY <2>1 DEF RowsAgree
  <2>4. Rows' = Rows \cup {p}
    BY <2>1, <2>2 DEF Rows, LibraryTypeOK
  <2>5. \A v \in Uploads : pageOf'[v] = IF v = u THEN p ELSE pageOf[v]
    BY <2>1 DEF LibraryTypeOK
  <2>6. \A q \in PageIds : pages'[q] = IF q = p THEN page(p) ELSE pages[q]
    BY <2>1 DEF LibraryTypeOK
  <2>7. NoEmptyPage'
    <3>1. \A q \in Rows \ skewed : \E v \in Uploads : pageOf[v] = q
      BY DEF Furnished, NoEmptyPage, CapturesOf
    <3>2. \A q \in Rows' \ skewed' : \E v \in Uploads : pageOf'[v] = q
      <4>1. ASSUME NEW q \in Rows \ skewed, q # p PROVE \E v \in Uploads : pageOf'[v] = q
        <5>1. PICK v \in Uploads : pageOf[v] = q
          BY <3>1, <4>1
        <5>2. v # u
          BY <2>3, <4>1, <5>1 DEF Rows, PageIds
        <5>3. QED
          BY <2>5, <5>1, <5>2
      <4>2. QED
        BY <2>1, <2>3, <2>4, <2>5, <4>1
    <3>3. QED
      BY <3>2 DEF NoEmptyPage, CapturesOf
  <2>8. FaviconOfSurvivor'
    <3>1. ASSUME NEW q \in Rows \ skewed, q # p PROVE pageOf'[pages'[q].favicon] = q
      <4>1. pageOf[pages[q].favicon] = q /\ pages[q].favicon \in Uploads
        BY <3>1 DEF Furnished, FaviconOfSurvivor, Rows, LibraryTypeOK, Page
      <4>2. pages[q].favicon # u
        BY <2>3, <3>1, <4>1 DEF Rows, PageIds
      <4>3. QED
        BY <2>5, <2>6, <3>1, <4>1, <4>2 DEF Rows
    <3>2. pageOf'[pages'[p].favicon] = p
      BY <2>1, <2>2, <2>5, <2>6
    <3>3. QED
      BY <2>1, <2>4, <3>1, <3>2 DEF FaviconOfSurvivor
  <2>9. LatestCoversCaptures'
    <3>1. ASSUME NEW v \in Uploads, pageOf'[v] # None PROVE TakenAt[v] <= pages'[pageOf'[v]].latest
      <4>1. CASE v = u
        BY <2>1, <2>2, <2>5, <2>6, <4>1
      <4>2. CASE v # u /\ pageOf[v] # p
        BY <2>5, <2>6, <3>1, <4>2 DEF LatestCoversCaptures, RowsAgree, Rows
      <4>3. CASE v # u /\ pageOf[v] = p
        <5>1. p \in Rows /\ TakenAt[v] <= pages[p].latest /\ pages[p].latest \in Nat
          BY <2>5, <3>1, <4>3 DEF LatestCoversCaptures, RowsAgree, Rows, LibraryTypeOK, Page
        <5>2. TakenAt[v] \in Nat /\ page(p).latest \in Nat
          BY <2>2 DEF Page
        <5>3. QED
          BY <2>2, <2>5, <2>6, <4>3, <5>1, <5>2
      <4>4. QED
        BY <4>1, <4>2, <4>3
    <3>2. QED
      BY <3>1 DEF LatestCoversCaptures
  <2>10. QED
    BY <2>7, <2>8, <2>9 DEF Furnished
<1>2. ASSUME NEW s \in Sessions, SetPageFavicon(s) PROVE Furnished' /\ LatestCoversCaptures'
  <2> DEFINE p == tx[s].page
             u == tx[s].up
  <2>1. /\ DeletionAgrees(s) /\ p \in Rows /\ u \in Uploads /\ tx[s].favicon \in Uploads /\ pages[p] \in Page
        /\ tx[s].at = "favicon" /\ UNCHANGED skewed /\ p \in PageIds
        /\ pages' = [pages EXCEPT ![p] = [pages[p] EXCEPT !.favicon = tx[s].favicon, !.updated = tx[s].now]]
        /\ pageOf' = [pageOf EXCEPT ![u] = None]
        /\ [pages[p] EXCEPT !.favicon = tx[s].favicon, !.updated = tx[s].now] \in Page
    BY <1>2, SetPageFaviconKinds DEF SetPageFavicon, Rows, Page
  <2>2. /\ \A q \in PageIds \ {p} : pages'[q] = pages[q]
        /\ pages'[p] # None /\ pages'[p].favicon = tx[s].favicon /\ pages'[p].latest = pages[p].latest
        /\ \A v \in Uploads : pageOf'[v] = IF v = u THEN None ELSE pageOf[v]
    BY <2>1, RowAssumption DEF LibraryTypeOK, Page
  <2>3. Rows' = Rows
    BY <2>1, <2>2 DEF Rows
  <2>4. pageOf[u] = p /\ (p \notin skewed => pageOf[tx[s].favicon] = p /\ tx[s].favicon # u)
    BY <2>1 DEF DeletionAgrees, CapturesOf
  <2>5. FaviconOfSurvivor'
    <3>1. ASSUME NEW q \in Rows \ skewed, q # p PROVE pageOf'[pages'[q].favicon] = q
      <4>1. pageOf[pages[q].favicon] = q /\ pages[q].favicon \in Uploads
        BY <3>1 DEF Furnished, FaviconOfSurvivor, Rows, LibraryTypeOK, Page
      <4>2. QED
        BY <2>2, <2>4, <3>1, <4>1 DEF Rows
    <3>2. p \notin skewed => pageOf'[pages'[p].favicon] = p
      BY <2>1, <2>2, <2>4
    <3>3. QED
      BY <2>1, <2>3, <3>1, <3>2 DEF FaviconOfSurvivor
  <2>6. NoEmptyPage'
    <3>1. \A q \in Rows' \ skewed' : pages'[q].favicon \in Uploads
      BY <2>1, <2>2, <2>3 DEF Rows, LibraryTypeOK, Page
    <3>2. QED
      BY <2>5, <3>1 DEF FaviconOfSurvivor, NoEmptyPage, CapturesOf
  <2>7. LatestCoversCaptures'
    BY <2>1, <2>2 DEF LatestCoversCaptures, RowsAgree, Rows
  <2>8. QED
    BY <2>5, <2>6, <2>7 DEF Furnished
<1>3. ASSUME NEW p \in PageIds, Cascade(p), UNCHANGED skewed PROVE Furnished' /\ LatestCoversCaptures'
  <2>1. /\ Rows' = Rows \ {p} /\ \A q \in Rows' : pages'[q] = pages[q]
        /\ \A v \in Uploads : pageOf'[v] = IF pageOf[v] = p THEN None ELSE pageOf[v]
    BY <1>3 DEF Cascade, Rows, LibraryTypeOK
  <2>2. \A q \in Rows : pages[q].favicon \in Uploads
    BY DEF Rows, LibraryTypeOK, Page
  <2>3. FaviconOfSurvivor'
    BY <1>3, <2>1, <2>2 DEF Furnished, FaviconOfSurvivor
  <2>4. NoEmptyPage'
    BY <1>3, <2>1 DEF Furnished, NoEmptyPage, CapturesOf
  <2>5. LatestCoversCaptures'
    BY <1>3, <2>1 DEF LatestCoversCaptures, RowsAgree
  <2>6. QED
    BY <2>3, <2>4, <2>5 DEF Furnished
<1>4. ASSUME NEW s \in Sessions, DropPage(s) PROVE Furnished' /\ LatestCoversCaptures'
  <2>1. tx[s].page \in PageIds
    BY <1>4 DEF DropPage, At, Active, DeletionsAgree, DeletionAgrees
  <2>2. QED
    BY <1>3, <1>4, <2>1 DEF DropPage
<1>5. ASSUME NEW p \in PageIds, DeletePage(p) PROVE Furnished' /\ LatestCoversCaptures'
  BY <1>3, <1>5 DEF DeletePage
<1>6. ASSUME NEW p \in PageIds, NEW x \in BOOLEAN, SetPageTitle(p) \/ SetPageExcludedFromMirror(p, x)
      PROVE  Furnished' /\ LatestCoversCaptures'
  <2>1. /\ Rows' = Rows
        /\ \A q \in Rows : pages'[q].latest = pages[q].latest /\ pages'[q].favicon = pages[q].favicon
        /\ UNCHANGED <<pageOf, skewed>>
    BY <1>6, EditKinds DEF SetPageTitle, SetPageExcludedFromMirror, RowsEdited, Rows
  <2>2. QED
    BY <2>1 DEF Furnished, NoEmptyPage, FaviconOfSurvivor, CapturesOf, LatestCoversCaptures, RowsAgree
<1>7. ASSUME UNCHANGED <<pages, pageOf>>, skewed \subseteq skewed' PROVE Furnished' /\ LatestCoversCaptures'
  BY <1>7 DEF Furnished, NoEmptyPage, FaviconOfSurvivor, CapturesOf, LatestCoversCaptures, Rows
<1>8. QED
  BY StepKinds, <1>1, <1>2, <1>4, <1>5, <1>6, <1>7
     DEF BeginUpsert, MarkFetched, DeleteRow, CountCaptures, ReadLatest, Rollback, libraryVars

-----------------------------------------------------------------------------
LibraryInv == NoEmptyPageInv /\ FaviconOfSurvivor /\ LatestCoversCaptures

\* What every reachable state has, for any captures, URLs and connections: the rows
\* agree, deletions under way know them, and pages say what their captures are.
THEOREM LibraryInvariance == LibrarySpec => []LibraryInv
<1>1. LibraryInit => LibraryInv
  BY LibraryAssumption
     DEF LibraryInit, LibraryInv, NoEmptyPageInv, LibraryTypeOK, NoEmptyPage, RowsAgree, DeletionsAgree, Rows, Active,
         FaviconOfSurvivor, LatestCoversCaptures
<1>2. LibraryInv /\ [LibraryNext]_libraryVars => LibraryInv'
  BY TypeStep, RowsStep, DeletionsStep, PagesStep DEF LibraryInv, NoEmptyPageInv, Furnished
<1>3. QED
  BY <1>1, <1>2, PTL DEF LibrarySpec

\* DeleteCapture: a page without captures is left only by two deletions that overlap
\* on it, whatever is archived, deleted and rolled back around them.
THEOREM PagesKept == LibrarySpec => []NoEmptyPageInv
<1>1. LibraryInv => NoEmptyPageInv
  BY DEF LibraryInv
<1>2. QED
  BY <1>1, LibraryInvariance, PTL

\* DeleteCapture: a page's favicon is that of a capture it has, with the same exception.
THEOREM FaviconsKept == LibrarySpec => []FaviconOfSurvivor
<1>1. LibraryInv => FaviconOfSurvivor
  BY DEF LibraryInv
<1>2. QED
  BY <1>1, LibraryInvariance, PTL

\* UpsertPage: no page claims to be older than a capture it has, in whichever order
\* captures are archived, archived again and deleted.
THEOREM LatestCovers == LibrarySpec => []LatestCoversCaptures
<1>1. LibraryInv => LatestCoversCaptures
  BY DEF LibraryInv
<1>2. QED
  BY <1>1, LibraryInvariance, PTL

\* A step that removes a captures row was asked to.
LEMMA NamedStep ==
  ASSUME LibraryTypeOK, RowsAgree, DeletionsAgree, [LibraryNext]_libraryVars, NEW u \in Uploads,
         pageOf[u] # None, pageOf'[u] = None, pageOf[u] \notin crossed
  PROVE  Named(u)
<1> USE LibraryAssumption
<1>1. ASSUME NEW s \in Sessions, CommitUpsert(s) PROVE FALSE
  <2>1. PICK p \in PageIds : pageOf' = [pageOf EXCEPT ![tx[s].up] = p]
    BY <1>1, CommitKinds
  <2>2. p # None
    BY DEF PageIds
  <2>3. QED
    BY <2>1, <2>2 DEF LibraryTypeOK
<1>2. ASSUME NEW s \in Sessions, SetPageFavicon(s) PROVE Named(u)
  <2>1. tx[s].op = "delete" /\ pageOf' = [pageOf EXCEPT ![tx[s].up] = None] /\ s \in Active /\ tx'[s] = None
    <3>1. tx[s].op = "delete" /\ pageOf' = [pageOf EXCEPT ![tx[s].up] = None]
      BY <1>2, SetPageFaviconKinds
    <3>2. s \in Active /\ tx'[s] = None
      BY <1>2 DEF SetPageFavicon, At, Active, End, LibraryTypeOK
    <3>3. QED
      BY <3>1, <3>2
  <2>2. tx[s].up = u
    BY <2>1 DEF LibraryTypeOK
  <2>3. QED
    BY <2>1, <2>2 DEF Named
<1>3. ASSUME NEW s \in Sessions, DropPage(s) PROVE Named(u)
  <2>1. s \in Active /\ tx[s].op = "delete" /\ DeletionAgrees(s) /\ tx[s].at = "drop" /\ tx'[s] = None
    BY <1>3 DEF DropPage, At, Active, End, DeletionsAgree, LibraryTypeOK
  <2>2. pageOf[u] = tx[s].page
    BY <1>3 DEF DropPage, Cascade
  <2>3. CapturesOf(tx[s].page) = {tx[s].up}
    BY <2>1, <2>2 DEF DeletionAgrees
  <2>4. tx[s].up = u
    BY <2>2, <2>3 DEF CapturesOf
  <2>5. QED
    BY <2>1, <2>4 DEF Named
<1>4. ASSUME NEW p \in PageIds, DeletePage(p) PROVE Named(u)
  <2>1. pageOf[u] = p
    BY <1>4 DEF DeletePage, Cascade
  <2>2. QED
    BY <1>4, <2>1 DEF Named
<1>5. QED
  BY StepKinds, <1>1, <1>2, <1>3, <1>4
     DEF BeginUpsert, MarkFetched, DeleteRow, CountCaptures, ReadLatest, Rollback, SetPageTitle,
         SetPageExcludedFromMirror, libraryVars

\* DeleteCapture removes no other capture than the one it was asked to, unless one was
\* archived to the page while the deletion was under way.
THEOREM NamedOnly == LibrarySpec => OnlyNamedDeleted
<1>1. LibraryInv /\ [LibraryNext]_libraryVars =>
        [\A u \in Uploads :
           pageOf[u] # None /\ pageOf'[u] = None /\ pageOf[u] \notin crossed => Named(u)]_libraryVars
  BY NamedStep DEF LibraryInv, NoEmptyPageInv
<1>2. QED
  BY <1>1, LibraryInvariance, PTL DEF LibrarySpec, OnlyNamedDeleted


-----------------------------------------------------------------------------
(* Curation: the inductive invariant.                                      *)

RequestRecords == [at : {"idle", "tag", "check", "remove", "relate", "nest"}, user : Users \cup {Nobody},
                   item : Nat, other : Nat, name : Names \cup {Nobody}]

IsRow(row) == "user" \in DOMAIN row

CurationTyped ==
  /\ made \in Nat
  /\ \A i \in Live : i \in Nat /\ i <= made /\ IsRow(rows[i])
  /\ request \in [Requests -> RequestRecords]
  /\ job \in [Tagged -> [at : {"due", "checked", "done"}, tags : SUBSET Names]]

\* What a removal has checked: as long as the row is there, it is the user's.
RemovalsOwn ==
  \A r \in Requests : request[r].at = "remove" =>
    /\ request[r].item <= made
    /\ request[r].item \in Live => rows[request[r].item].user = request[r].user

CurationInv == CurationTyped /\ RemovalsOwn /\ RelationsJoinOwn

\* Ids are given out in turn, and a row keeps its user.
UsersStay ==
  /\ made' \in Nat /\ made <= made'
  /\ \A i \in Live' :
       /\ i \in Nat /\ i <= made' /\ IsRow(rows'[i])
       /\ (i \in Live /\ rows'[i].user = rows[i].user) \/ i > made

-----------------------------------------------------------------------------
(* Curation: the steps.                                                    *)

LEMMA AcceptedPair ==
  ASSUME NEW pair
  PROVE  Accepts(pair) <=> pair \subseteq Live /\ \A i, j \in pair : rows[i].user = rows[j].user
BY DEF Accepts

\* A step of requests and jobs that touches no table.
LEMMA AskingStep ==
  ASSUME CurationInv, UNCHANGED <<rows, made, related>>, request' \in [Requests -> RequestRecords],
         job' \in [Tagged -> [at : {"due", "checked", "done"}, tags : SUBSET Names]],
         \A r \in Requests : request'[r].at = "remove" =>
           \/ request'[r] = request[r]
           \/ Owned(request'[r].item, request'[r].user)
  PROVE  CurationInv'
<1>1. CurationTyped'
  BY DEF CurationInv, CurationTyped, Live
<1>2. RemovalsOwn'
  BY DEF CurationInv, CurationTyped, RemovalsOwn, Owned, Live
<1>3. RelationsJoinOwn'
  BY DEF CurationInv, RelationsJoinOwn, Accepts, Live
<1>4. QED
  BY <1>1, <1>2, <1>3 DEF CurationInv

\* A step that touches the tables, and starts no removal.
LEMMA TablesStep ==
  ASSUME CurationInv, UsersStay, request' \in [Requests -> RequestRecords],
         job' \in [Tagged -> [at : {"due", "checked", "done"}, tags : SUBSET Names]],
         \A r \in Requests : request'[r].at = "remove" => request'[r] = request[r],
         RelationsJoinOwn'
  PROVE  CurationInv'
<1>1. CurationTyped'
  BY DEF UsersStay, CurationTyped
<1>2. RemovalsOwn'
  <2> SUFFICES ASSUME NEW r \in Requests, request'[r].at = "remove"
               PROVE  /\ request'[r].item <= made'
                      /\ request'[r].item \in Live' => rows'[request'[r].item].user = request'[r].user
    BY DEF RemovalsOwn
  <2>1. request'[r] = request[r] /\ request[r].item \in Nat /\ made \in Nat
    BY DEF CurationInv, CurationTyped, RequestRecords
  <2>2. request[r].item <= made /\ (request[r].item \in Live => rows[request[r].item].user = request[r].user)
    BY <2>1 DEF CurationInv, RemovalsOwn
  <2>3. QED
    BY <2>1, <2>2 DEF UsersStay
<1>3. QED
  BY <1>1, <1>2 DEF CurationInv

\* New rows alone break no relation.
LEMMA GrowthKeeps ==
  ASSUME CurationInv, \A i \in Live : i \in Live' /\ rows'[i] = rows[i], NEW pair \in DOMAIN related
  PROVE  Accepts(pair)'
BY DEF CurationInv, RelationsJoinOwn, Accepts

\* One row more.
LEMMA NewRow ==
  ASSUME CurationInv, NEW row, IsRow(row), made' = made + 1,
         rows' = [i \in Live \cup {made'} |-> IF i \in Live THEN rows[i] ELSE row]
  PROVE  UsersStay /\ \A i \in Live : i \in Live' /\ rows'[i] = rows[i]
BY DEF CurationInv, CurationTyped, UsersStay, Live

LEMMA RequestStarts ==
  ASSUME CurationInv, NEW r \in Requests, NEW u \in Users, NEW item, NEW other \in Live \cup {0},
         NEW n \in Names \cup {Nobody}, NEW at \in {"tag", "check", "remove"}, Start(r, u, item, other, n, at)
  PROVE  CurationInv'
<1> DEFINE mine == [at |-> at, user |-> u, item |-> item, other |-> other, name |-> n]
<1>0. CurationTyped /\ Owned(item, u) /\ item \in Nat /\ other \in Nat
  BY DEF CurationInv, CurationTyped, Start, Owned
<1>1. request' = [request EXCEPT ![r] = mine]
  BY DEF Start
<1>2. mine \in RequestRecords /\ mine.item = item /\ mine.user = u
  BY <1>0 DEF RequestRecords
<1> HIDE DEF mine
<1>3. request' \in [Requests -> RequestRecords]
  BY <1>0, <1>1, <1>2 DEF CurationTyped
<1>4. \A q \in Requests : request'[q] = request[q] \/ Owned(request'[q].item, request'[q].user)
  BY <1>0, <1>1, <1>2 DEF CurationTyped
<1>5. QED
  BY <1>0, <1>3, <1>4, AskingStep DEF Start, CurationTyped

\* What any request does first.
Asks(r, u) ==
  \/ AddPageTag(r, u) \/ AddLinkTag(r, u)
  \/ AddPageToCollection(r, u) \/ AddLinkToCollection(r, u)
  \/ AddPageRelation(r, u) \/ AddLinkRelation(r, u)
  \/ AddPageRelatedLink(r, u) \/ AddLinkRelatedPage(r, u)
  \/ RemovePageTag(r, u) \/ RemoveLinkTag(r, u)
  \/ RemovePageFromCollection(r, u) \/ RemoveLinkFromCollection(r, u)
  \/ RemovePageRelation(r, u) \/ RemoveLinkRelation(r, u)
  \/ RemovePageRelatedLink(r, u) \/ RemoveLinkRelatedPage(r, u)

LEMMA AsksStep ==
  ASSUME CurationInv, NEW r \in Requests, NEW u \in Users, Asks(r, u)
  PROVE  CurationInv' /\ request[r].at = "idle" /\ \A q \in Requests \ {r} : request'[q] = request[q]
<1>1. PICK item, other \in Live \cup {0}, n \in Names \cup {Nobody}, at \in {"tag", "check", "remove"} :
        Start(r, u, item, other, n, at)
  <2>1. ASSUME NEW kind, StartTag(r, u, kind)
        PROVE  \E item, other \in Live \cup {0}, n \in Names \cup {Nobody}, at \in {"tag", "check", "remove"} :
                 Start(r, u, item, other, n, at)
    <3>1. PICK i \in Of(kind), n \in {m \in Names : SlugOf[m] # NoSlug} : Start(r, u, i, 0, n, "tag")
      BY <2>1 DEF StartTag
    <3>2. i \in Live \cup {0} /\ 0 \in Live \cup {0} /\ n \in Names \cup {Nobody}
      BY DEF Of
    <3>3. QED
      BY <3>1, <3>2, Zenon
  <2>2. ASSUME NEW kind, NEW to, StartAdd(r, u, kind, to) \/ StartRemove(r, u, kind, to)
        PROVE  \E item, other \in Live \cup {0}, n \in Names \cup {Nobody}, at \in {"tag", "check", "remove"} :
                 Start(r, u, item, other, n, at)
    BY <2>2 DEF StartAdd, StartRemove, Of
  <2>3. QED
    BY <2>1, <2>2 DEF Asks, AddPageTag, AddLinkTag, AddPageToCollection, AddLinkToCollection, AddPageRelation,
       AddLinkRelation, AddPageRelatedLink, AddLinkRelatedPage, RemovePageTag, RemoveLinkTag,
       RemovePageFromCollection, RemoveLinkFromCollection, RemovePageRelation, RemoveLinkRelation,
       RemovePageRelatedLink, RemoveLinkRelatedPage
<1>2. QED
  BY <1>1, RequestStarts DEF Start, CurationInv, CurationTyped

LEMMA CheckOtherStep ==
  ASSUME CurationInv, NEW r \in Requests, CheckOther(r)
  PROVE  CurationInv'
<1>1. PICK mine \in RequestRecords : request' = [request EXCEPT ![r] = mine] /\ mine.at # "remove"
  <2>1. Idle \in RequestRecords /\ Idle.at # "remove"
    BY DEF Idle, RequestRecords
  <2> DEFINE checked == [request[r] EXCEPT !.at = "relate"]
  <2>2. checked \in RequestRecords /\ checked.at # "remove"
    BY DEF CurationInv, CurationTyped, RequestRecords
  <2>3. request' = [request EXCEPT ![r] = checked] \/ request' = [request EXCEPT ![r] = Idle]
    BY DEF CheckOther, Become, Finish, CurationInv, CurationTyped
  <2>4. QED
    BY <2>1, <2>2, <2>3
<1>2. /\ request' \in [Requests -> RequestRecords]
      /\ \A q \in Requests : request'[q].at = "remove" => request'[q] = request[q]
  BY <1>1 DEF CurationInv, CurationTyped
<1>3. QED
  BY <1>2, AskingStep DEF CheckOther, CurationInv, CurationTyped

LEMMA CreateCollectionStep ==
  ASSUME CurationInv, NEW r \in Requests, NEW u \in Users, NEW n \in Names, CreateCollection(r, u, n)
  PROVE  CurationInv'
<1>1. PICK parent \in Live \cup {0} :
        request' = [request EXCEPT ![r] = [Idle EXCEPT !.at = "nest", !.user = u, !.other = parent, !.name = n]]
  BY DEF CreateCollection, Of
<1> DEFINE mine == [Idle EXCEPT !.at = "nest", !.user = u, !.other = parent, !.name = n]
<1>2. mine \in RequestRecords /\ mine.at # "remove"
  <2>1. parent \in Nat
    BY DEF CurationInv, CurationTyped
  <2>2. QED
    BY <2>1 DEF RequestRecords, Idle
<1>3. /\ request' \in [Requests -> RequestRecords]
      /\ \A q \in Requests : request'[q].at = "remove" => request'[q] = request[q]
  <2> HIDE DEF mine
  <2>1. request' = [request EXCEPT ![r] = mine]
    BY <1>1 DEF mine
  <2>2. QED
    BY <1>2, <2>1 DEF CurationInv, CurationTyped
<1>4. QED
  BY <1>3, AskingStep DEF CreateCollection, CurationInv, CurationTyped

\* A request goes on, and removes nothing.
LEMMA RequestGoesOn ==
  ASSUME CurationInv, NEW r \in Requests, NEW mine \in RequestRecords, mine.at # "remove",
         request' = [request EXCEPT ![r] = mine]
  PROVE  /\ request' \in [Requests -> RequestRecords]
         /\ \A q \in Requests : request'[q].at = "remove" => request'[q] = request[q]
BY DEF CurationInv, CurationTyped

LEMMA IdleRequest == Idle \in RequestRecords /\ Idle.at = "idle"
BY DEF Idle, RequestRecords

LEMMA UpsertTagStep ==
  ASSUME CurationInv, NEW r \in Requests, UpsertTag(r)
  PROVE  CurationInv'
<1> DEFINE row == Row("tag", request[r].user, 0, request[r].name, SlugOf[request[r].name])
<1>0. CurationTyped /\ request[r] \in RequestRecords /\ UNCHANGED <<related, job>> /\ IsRow(row)
  BY DEF CurationInv, CurationTyped, UpsertTag, IsRow, Row
<1>1. ASSUME NEW i \in Live, request' = [request EXCEPT ![r].at = "relate", ![r].other = i], UNCHANGED <<rows, made>>
      PROVE  CurationInv'
  <2> DEFINE mine == [request[r] EXCEPT !.at = "relate", !.other = i]
  <2>1. request' = [request EXCEPT ![r] = mine]
    BY <1>0, <1>1 DEF CurationTyped
  <2>2. mine \in RequestRecords /\ mine.at # "remove"
    BY <1>0 DEF RequestRecords, CurationTyped
  <2> HIDE DEF mine
  <2>3. QED
    BY <1>0, <1>1, <2>1, <2>2, RequestGoesOn, AskingStep DEF CurationTyped
<1>2. ASSUME Finish(r), UNCHANGED <<rows, made>> PROVE CurationInv'
  BY <1>0, <1>2, IdleRequest, RequestGoesOn, AskingStep DEF Finish, CurationTyped
<1>3. ASSUME made' = made + 1, rows' = [i \in Live \cup {made'} |-> IF i \in Live THEN rows[i] ELSE row],
             request' = [request EXCEPT ![r].at = "relate", ![r].other = made']
      PROVE  CurationInv'
  <2>0. PICK id \in Nat : id = made'
    BY <1>0, <1>3 DEF CurationTyped
  <2> DEFINE mine == [request[r] EXCEPT !.at = "relate", !.other = id]
  <2>1. request' = [request EXCEPT ![r] = mine]
    BY <1>0, <1>3, <2>0 DEF CurationTyped
  <2>2. mine \in RequestRecords /\ mine.at # "remove"
    BY <1>0 DEF RequestRecords
  <2> HIDE DEF mine, row
  <2>3. UsersStay /\ \A i \in Live : i \in Live' /\ rows'[i] = rows[i]
    BY <1>0, <1>3, NewRow
  <2>4. RelationsJoinOwn'
    BY <1>0, <2>3, GrowthKeeps DEF RelationsJoinOwn
  <2>5. QED
    BY <1>0, <2>1, <2>2, <2>3, <2>4, RequestGoesOn, TablesStep DEF CurationTyped
<1>4. QED
  BY <1>1, <1>2, <1>3 DEF UpsertTag, Of

LEMMA AddRelatedStep ==
  ASSUME CurationInv, NEW r \in Requests, AddRelated(r)
  PROVE  CurationInv'
<1> DEFINE pair == {request[r].item, request[r].other}
<1>1. CurationTyped /\ UNCHANGED <<rows, made, job>> /\ request' = [request EXCEPT ![r] = Idle]
  BY DEF CurationInv, AddRelated, Finish
<1>2. UsersStay
  BY <1>1 DEF UsersStay, CurationTyped, Live
<1>3. RelationsJoinOwn'
  <2>1. \A p \in DOMAIN related' : p \in DOMAIN related \/ (p = pair /\ Accepts(pair))
    BY DEF AddRelated, Relate
  <2>2. \A p \in DOMAIN related' : Accepts(p)
    BY <2>1 DEF CurationInv, RelationsJoinOwn
  <2>3. QED
    BY <1>1, <2>2 DEF RelationsJoinOwn, Accepts, Live
<1>4. QED
  BY <1>1, <1>2, <1>3, IdleRequest, RequestGoesOn, TablesStep DEF CurationTyped

LEMMA RemoveRelatedStep ==
  ASSUME CurationInv, NEW r \in Requests, RemoveRelated(r)
  PROVE  CurationInv'
<1>1. /\ CurationTyped /\ UNCHANGED <<rows, made, job>> /\ request' = [request EXCEPT ![r] = Idle]
      /\ DOMAIN related' \subseteq DOMAIN related
  BY DEF CurationInv, RemoveRelated, Finish
<1>2. UsersStay
  BY <1>1 DEF UsersStay, CurationTyped, Live
<1>3. RelationsJoinOwn'
  BY <1>1 DEF CurationInv, RelationsJoinOwn, Accepts, Live
<1>4. QED
  BY <1>1, <1>2, <1>3, IdleRequest, RequestGoesOn, TablesStep DEF CurationTyped

LEMMA InsertCollectionStep ==
  ASSUME CurationInv, NEW r \in Requests, InsertCollection(r)
  PROVE  CurationInv'
<1> DEFINE row == Row("collection", request[r].user, request[r].other, request[r].name, SlugOf[request[r].name])
<1>0. /\ CurationTyped /\ UNCHANGED <<related, job>> /\ IsRow(row) /\ request' = [request EXCEPT ![r] = Idle]
      /\ \/ UNCHANGED <<rows, made>>
         \/ made' = made + 1 /\ rows' = [i \in Live \cup {made'} |-> IF i \in Live THEN rows[i] ELSE row]
  BY DEF CurationInv, InsertCollection, IsRow, Row, Finish
<1> HIDE DEF row
<1>1. CASE UNCHANGED <<rows, made>>
  BY <1>0, <1>1, IdleRequest, RequestGoesOn, AskingStep DEF CurationTyped
<1>2. CASE made' = made + 1 /\ rows' = [i \in Live \cup {made'} |-> IF i \in Live THEN rows[i] ELSE row]
  <2>1. UsersStay /\ \A i \in Live : i \in Live' /\ rows'[i] = rows[i]
    BY <1>0, <1>2, NewRow
  <2>2. RelationsJoinOwn'
    BY <1>0, <2>1, GrowthKeeps DEF RelationsJoinOwn
  <2>3. QED
    BY <1>0, <2>1, <2>2, IdleRequest, RequestGoesOn, TablesStep DEF CurationTyped
<1>3. QED
  BY <1>0, <1>1, <1>2

LEMMA RenameStep ==
  ASSUME CurationInv, NEW u, NEW kind, Rename(u, kind)
  PROVE  CurationInv'
<1>1. PICK i \in Live, n \in Names, s \in {SlugOf[m] : m \in Names} :
        rows' = [rows EXCEPT ![i] = [rows[i] EXCEPT !.name = n, !.slug = s]]
  BY DEF Rename, Of
<1>2. CurationTyped /\ UNCHANGED <<made, related, request, job>>
  BY DEF CurationInv, Rename
<1> DEFINE row == [rows[i] EXCEPT !.name = n, !.slug = s]
<1>3. IsRow(row) /\ row.user = rows[i].user
  BY <1>2 DEF CurationTyped, IsRow
<1>4. rows' = [rows EXCEPT ![i] = row]
  BY <1>1
<1> HIDE DEF row
<1>5. Live' = Live /\ rows'[i] = row /\ \A j \in Live \ {i} : rows'[j] = rows[j]
  BY <1>4 DEF Live
<1>6. UsersStay
  BY <1>2, <1>3, <1>5 DEF UsersStay, CurationTyped
<1>7. RelationsJoinOwn'
  <2>1. \A j \in Live : rows'[j].user = rows[j].user
    BY <1>3, <1>5
  <2>2. QED
    BY <1>2, <1>5, <2>1 DEF CurationInv, RelationsJoinOwn, Accepts
<1>8. QED
  BY <1>2, <1>6, <1>7, TablesStep DEF CurationTyped

LEMMA DeleteStep ==
  ASSUME CurationInv, NEW u, NEW kind, Delete(u, kind)
  PROVE  CurationInv'
<1>1. PICK gone : /\ rows' = [j \in Live \ gone |-> rows[j]]
                  /\ related' = [p \in {q \in DOMAIN related : q \cap gone = {}} |-> related[p]]
  BY DEF Delete
<1>2. CurationTyped /\ UNCHANGED <<made, request, job>>
  BY DEF CurationInv, Delete
<1>3. Live' = Live \ gone /\ \A j \in Live' : rows'[j] = rows[j]
  BY <1>1 DEF Live
<1>4. UsersStay
  BY <1>2, <1>3 DEF UsersStay, CurationTyped
<1>5. RelationsJoinOwn'
  BY <1>1, <1>3 DEF CurationInv, RelationsJoinOwn, Accepts
<1>6. QED
  BY <1>2, <1>4, <1>5, TablesStep DEF CurationTyped

LEMMA TagSlugTakenStep ==
  ASSUME CurationInv, NEW p \in Tagged, TagSlugTaken(p)
  PROVE  CurationInv'
<1>1. PICK tags \in SUBSET Names : job' = [job EXCEPT ![p] = [at |-> "checked", tags |-> tags]]
  BY DEF TagSlugTaken
<1>2. job' \in [Tagged -> [at : {"due", "checked", "done"}, tags : SUBSET Names]]
  BY <1>1 DEF CurationInv, CurationTyped
<1>3. QED
  BY <1>2, AskingStep DEF TagSlugTaken, CurationInv, CurationTyped

LEMMA CommitDoneStep ==
  ASSUME CurationInv, NEW p \in Tagged, CommitDone(p)
  PROVE  CurationInv'
<1> DEFINE u == rows[p].user
<1> DEFINE tag(n) == Row("tag", u, 0, n, SlugOf[n])
<1> DEFINE Called(n, R) == {i \in DOMAIN R : R[i].kind = "tag" /\ R[i].user = u /\ R[i].name = n}
<1> DEFINE fresh == {n \in job[p].tags : Called(n, rows) = {}}
<1>0. CurationTyped /\ request' = request /\ job[p].tags \subseteq Names
  BY DEF CurationInv, CurationTyped, CommitDone
<1>1. CASE p \in Live /\ \A n \in fresh : ~Clash(tag(n), 0)
  <2>1. PICK id \in [fresh -> made + 1..made + Cardinality(fresh)] :
          LET after == [i \in Live \cup {id[n] : n \in fresh} |->
                          IF i \in Live THEN rows[i] ELSE tag(CHOOSE n \in fresh : id[n] = i)]
          IN /\ made' = made + Cardinality(fresh)
             /\ rows' = after
             /\ Relate({{p, i} : i \in UNION {Called(n, after) : n \in job[p].tags}}, "ai")
             /\ job' = [job EXCEPT ![p] = [at |-> "done", tags |-> {}]]
    BY <1>1 DEF CommitDone
  <2>2. Cardinality(fresh) \in Nat
    BY <1>0, CurationAssumption, FS_Subset, FS_CardinalityType
  <2>3. /\ \A n \in fresh : id[n] \in Nat /\ id[n] > made /\ id[n] <= made'
        /\ made' \in Nat /\ made <= made'
    <3>1. made \in Nat /\ made' = made + Cardinality(fresh)
      BY <1>0, <2>1 DEF CurationTyped
    <3> HIDE DEF fresh
    <3>2. PICK k \in Nat : k = Cardinality(fresh)
      BY <2>2
    <3>3. id \in [fresh -> made + 1..made + k]
      BY <3>2
    <3>4. QED
      BY <3>1, <3>2, <3>3
  <2> DEFINE new(i) == tag(CHOOSE n \in fresh : id[n] = i)
  <2>4. \A i : IsRow(new(i)) /\ new(i).user = u
    BY DEF Row, IsRow
  <2>5. rows' = [i \in Live \cup {id[n] : n \in fresh} |-> IF i \in Live THEN rows[i] ELSE new(i)]
    BY <2>1
  <2> HIDE DEF new
  <2>6. /\ \A i \in Live : i \in Live' /\ rows'[i] = rows[i]
        /\ \A i \in Live' \ Live : rows'[i] = new(i) /\ \E n \in fresh : i = id[n]
    BY <2>5 DEF Live
  <2>7. UsersStay
    BY <1>0, <2>3, <2>4, <2>6 DEF UsersStay, CurationTyped
  <2>8. RelationsJoinOwn'
    <3>1. ASSUME NEW pair \in DOMAIN related' PROVE Accepts(pair)'
      <4>1. CASE pair \in DOMAIN related
        BY <2>6, <4>1, GrowthKeeps
      <4>2. CASE pair \notin DOMAIN related
        <5>1. PICK after : rows' = after /\ Relate({{p, i} : i \in UNION {Called(n, after) : n \in job[p].tags}}, "ai")
          <6> HIDE DEF Called
          <6>1. QED
            BY <2>1
        <5>2. PICK i \in UNION {Called(n, after) : n \in job[p].tags} : pair = {p, i}
          <6> HIDE DEF Called
          <6>1. QED
            BY <4>2, <5>1 DEF Relate
        <5>3. i \in Live' /\ rows'[i].user = u
          BY <5>1 DEF Live
        <5>4. rows'[p].user = u /\ p \in Live'
          BY <1>1, <2>6
        <5>5. QED
          BY <5>2, <5>3, <5>4 DEF Accepts
      <4>3. QED
        BY <4>1, <4>2
    <3>2. QED
      BY <3>1 DEF RelationsJoinOwn
  <2>9. job' \in [Tagged -> [at : {"due", "checked", "done"}, tags : SUBSET Names]]
    BY <1>0, <2>1 DEF CurationTyped
  <2>10. QED
    BY <1>0, <2>7, <2>8, <2>9, TablesStep DEF CurationTyped
<1>2. CASE ~(p \in Live /\ \A n \in fresh : ~Clash(tag(n), 0))
  <2>1. job' = [job EXCEPT ![p] = [at |-> "due", tags |-> {}]] /\ UNCHANGED <<rows, made, related>>
    BY <1>2 DEF CommitDone
  <2>2. job' \in [Tagged -> [at : {"due", "checked", "done"}, tags : SUBSET Names]]
    BY <1>0, <2>1 DEF CurationTyped
  <2>3. QED
    BY <1>0, <2>1, <2>2, AskingStep DEF CurationTyped
<1>3. QED
  BY <1>1, <1>2

\* The steps that start no request.
LEMMA OtherSteps ==
  ASSUME CurationInv, NEW u \in Users,
         \/ RenameTag(u) \/ RenameCollection(u)
         \/ DeleteTag(u) \/ DeleteCollection(u) \/ DeletePageRow(u) \/ DeleteLink(u)
  PROVE  CurationInv' /\ request' = request
<1>1. ASSUME NEW kind, Rename(u, kind) PROVE CurationInv' /\ request' = request
  BY <1>1, RenameStep DEF Rename
<1>2. ASSUME NEW kind, Delete(u, kind) PROVE CurationInv' /\ request' = request
  <2>1. request' = request
    BY <1>2 DEF Delete
  <2>2. QED
    BY <1>2, <2>1, DeleteStep
<1>3. QED
  BY <1>1, <1>2 DEF RenameTag, RenameCollection, DeleteTag, DeleteCollection, DeletePageRow, DeleteLink

\* What users arrange, what the AI tags and what is deleted meanwhile: ids are given out in
\* turn, rows keep their users, and a removal has checked its row.
THEOREM CurationInvariance == Spec => []CurationInv
<1>1. Init => CurationInv
  <2> SUFFICES ASSUME Init PROVE CurationInv
    OBVIOUS
  <2>1. made \in Nat /\ \A i \in Live : i \in Nat /\ i <= made /\ IsRow(rows[i])
    <3>1. /\ Live \subseteq Nat /\ \A i \in Live : IsRow(rows[i])
          /\ \E last \in Live : \A i \in Live : i <= last
      BY CurationAssumption DEF Init, Live, IsRow
    <3>2. made \in Live /\ \A i \in Live : i <= made
      BY <3>1 DEF Init
    <3>3. QED
      BY <3>1, <3>2
  <2>2. request \in [Requests -> RequestRecords] /\ \A r \in Requests : request[r].at = "idle"
    BY IdleRequest DEF Init
  <2>3. job \in [Tagged -> [at : {"due", "checked", "done"}, tags : SUBSET Names]]
    BY DEF Init
  <2>4. CurationTyped
    BY <2>1, <2>2, <2>3 DEF CurationTyped
  <2>5. RemovalsOwn
    BY <2>2 DEF RemovalsOwn
  <2>6. RelationsJoinOwn
    BY DEF Init, RelationsJoinOwn
  <2>7. QED
    BY <2>4, <2>5, <2>6 DEF CurationInv
<1>2. CurationInv /\ [Next]_vars => CurationInv'
  <2> SUFFICES ASSUME CurationInv, [Next]_vars PROVE CurationInv'
    OBVIOUS
  <2>1. ASSUME NEW r \in Requests, NEW u \in Users, Asks(r, u) PROVE CurationInv'
    BY <2>1, AsksStep
  <2>2. ASSUME NEW r \in Requests, NEW u \in Users, NEW n \in Names, CreateCollection(r, u, n) PROVE CurationInv'
    BY <2>2, CreateCollectionStep
  <2>3. ASSUME NEW r \in Requests,
               UpsertTag(r) \/ CheckOther(r) \/ AddRelated(r) \/ RemoveRelated(r) \/ InsertCollection(r)
        PROVE  CurationInv'
    BY <2>3, UpsertTagStep, CheckOtherStep, AddRelatedStep, RemoveRelatedStep, InsertCollectionStep
  <2>4. ASSUME NEW u \in Users,
               \/ RenameTag(u) \/ RenameCollection(u)
               \/ DeleteTag(u) \/ DeleteCollection(u) \/ DeletePageRow(u) \/ DeleteLink(u)
        PROVE  CurationInv'
    BY <2>4, OtherSteps
  <2>5. ASSUME NEW p \in Tagged, TagSlugTaken(p) \/ CommitDone(p) PROVE CurationInv'
    BY <2>5, TagSlugTakenStep, CommitDoneStep
  <2>6. CASE UNCHANGED vars
    BY <2>6, AskingStep DEF vars, CurationInv, CurationTyped
  <2>7. DOMAIN job = Tagged
    BY DEF CurationInv, CurationTyped
  <2>8. QED
    BY <2>1, <2>2, <2>3, <2>4, <2>5, <2>6, <2>7 DEF Next, Asks
<1>3. QED
  BY <1>1, <1>2, PTL DEF Spec

\* The foreign keys hold what the checks of a request cannot: a relation joins two rows
\* that exist, of one user.
THEOREM RelationsOfOneUser == Spec => []RelationsJoinOwn
<1>1. CurationInv => RelationsJoinOwn
  BY DEF CurationInv
<1>2. QED
  BY <1>1, CurationInvariance, PTL

\* Only the removal itself ends a request that is to remove.
LEMMA RemovalEnds ==
  ASSUME CurationInv, Next, NEW r \in Requests, request[r].at = "remove", request'[r].at = "idle"
  PROVE  RemoveRelated(r)
<1>0. request \in [Requests -> RequestRecords] /\ DOMAIN job = Tagged /\ request'[r] # request[r]
  BY DEF CurationInv, CurationTyped
<1>1. ASSUME NEW q \in Requests, NEW u \in Users, Asks(q, u) PROVE FALSE
  BY <1>0, <1>1, AsksStep
<1>2. ASSUME NEW q \in Requests, NEW u \in Users, NEW n \in Names, CreateCollection(q, u, n) PROVE FALSE
  BY <1>0, <1>2 DEF CreateCollection
<1>3. ASSUME NEW q \in Requests, UpsertTag(q) \/ CheckOther(q) \/ AddRelated(q) \/ InsertCollection(q) PROVE FALSE
  <2>1. q = r
    BY <1>0, <1>3 DEF UpsertTag, CheckOther, AddRelated, InsertCollection, Finish, Become
  <2>2. QED
    BY <1>3, <2>1 DEF UpsertTag, CheckOther, AddRelated, InsertCollection
<1>4. ASSUME NEW q \in Requests, RemoveRelated(q) PROVE q = r
  BY <1>0, <1>4 DEF RemoveRelated, Finish
<1>5. ASSUME NEW u \in Users,
             \/ RenameTag(u) \/ RenameCollection(u)
             \/ DeleteTag(u) \/ DeleteCollection(u) \/ DeletePageRow(u) \/ DeleteLink(u)
      PROVE  FALSE
  BY <1>0, <1>5, OtherSteps
<1>6. ASSUME NEW p \in Tagged, TagSlugTaken(p) \/ CommitDone(p) PROVE FALSE
  BY <1>0, <1>6 DEF TagSlugTaken, CommitDone
<1>7. QED
  BY <1>0, <1>1, <1>2, <1>3, <1>4, <1>5, <1>6 DEF Next, Asks

\* A request removes relations of its own user only, though it checks one row of the two.
THEOREM RemovesOwn == Spec => OnlyOwnRelations
<1> DEFINE Removes == \A r \in Requests : \A pair \in DOMAIN related \ DOMAIN related' :
                        request[r].at = "remove" /\ request'[r].at = "idle" =>
                          \A i \in pair : Owned(i, request[r].user)
<1>1. CurationInv /\ [Next]_vars => [Removes]_vars
  <2> SUFFICES ASSUME CurationInv, Next, NEW r \in Requests, NEW pair \in DOMAIN related \ DOMAIN related',
                      request[r].at = "remove", request'[r].at = "idle"
               PROVE  \A i \in pair : Owned(i, request[r].user)
    BY DEF vars
  <2>1. RemoveRelated(r)
    BY RemovalEnds
  <2>2. pair = {request[r].item, request[r].other}
    BY <2>1 DEF RemoveRelated
  <2>3. pair \subseteq Live /\ \A i, j \in pair : rows[i].user = rows[j].user
    BY DEF CurationInv, RelationsJoinOwn, Accepts
  <2>4. rows[request[r].item].user = request[r].user
    BY <2>2, <2>3 DEF CurationInv, RemovalsOwn
  <2>5. QED
    BY <2>2, <2>3, <2>4 DEF Owned
<1>2. QED
  BY <1>1, CurationInvariance, PTL DEF Spec, OnlyOwnRelations

-----------------------------------------------------------------------------
(* The two parts together.                                                 *)

\* What the run explores behaves as the part that moves: what is proved of a part holds of
\* the behaviours in which it does.
THEOREM LibraryParts ==
  BothSpec =>
    /\ part = "captures" => LibrarySpec
    /\ part = "curation" => Spec
<1>1. BothInit => LibraryInit /\ Init
  BY Zenon DEF BothInit
<1>2. part = "captures" /\ [CapturesStep \/ CurationStep]_<<part, vars, libraryVars>> =>
        (part = "captures")' /\ [LibraryNext]_libraryVars
  BY DEF CapturesStep, CurationStep, libraryVars
<1>3. part = "curation" /\ [CapturesStep \/ CurationStep]_<<part, vars, libraryVars>> =>
        (part = "curation")' /\ [Next]_vars
  BY DEF CapturesStep, CurationStep, vars
<1>4. BothSpec => (part = "captures" => LibrarySpec)
  BY <1>1, <1>2, PTL DEF BothSpec, LibrarySpec
<1>5. BothSpec => (part = "curation" => Spec)
  BY <1>1, <1>3, PTL DEF BothSpec, Spec
<1>6. QED
  BY <1>4, <1>5, Zenon

===============================================================================
