----------------------------- MODULE MCConverge -------------------------------
(***************************************************************************)
(* What has to settle in the end: the mirror in D1, the bookmarks of the   *)
(* extension, the attempts of the Wayback Machine, the saves of links and  *)
(* the enrichment jobs.  The five share no state, so no interleaving of    *)
(* two of them is worth exploring: part says which of them takes the       *)
(* steps of a behaviour, the others stay in their initial state.           *)
(***************************************************************************)
EXTENDS Mirror

CONSTANTS
  Parts,  \* the parts that a run is about
  Urls, Runs, PopupRuns, MaxFolders, MaxMarks, MaxEvents,
  JobIds, Clicks, Sweepers, Hour,
  MaxSaves, Inline, Objects, Limit, Agents, Requests, MaxEdits, Failed,
  Captures, JobAgents, MaxAttempts, MaxAIJobs, MaxClicks

\* Of the parts that are instantiated.
ASSUME ConvergeAssumption ==
  /\ Parts \subseteq {"mirror", "bookmarks", "wayback", "links", "jobs"}
  /\ Hour \in Nat /\ MaxSaves \in Nat /\ MaxEdits \in Nat
  /\ MaxFolders \in Nat /\ MaxMarks \in Nat /\ MaxEvents \in Nat /\ PopupRuns \subseteq Runs
  /\ Failed \notin Nat \cup {None} /\ None \notin {"pages", "links"}

VARIABLES
  part,
  served, folders, marks, tracked, enabled, permission, run, events, raced, stored,
  now, job, row, click, sweep, sent,
  pending, objects, link, agent, request, edits, excused,
  status, attempts, due, capture, text, summary, held, clicks, shared, crossed

B == INSTANCE Bookmarks
W == INSTANCE Wayback
L == INSTANCE Links
J == INSTANCE Jobs WITH Agents <- JobAgents

\* None stands for a job that archive.org does not know, for a list that the Worker does
\* not serve, and for the absence of a row.
ASSUME AbsenceAssumption ==
  /\ None \notin [state : W!States, at : 0..MaxClock]
  /\ None \notin W!Submissions /\ \A list \in SUBSET Urls : None # list
  /\ None \notin [raw : L!Saves \cup {L!Typed}, clean : BOOLEAN, title : L!Saves \cup {L!Typed}, favicon : L!Favicons]

mVars == <<rows, clock, tx, d1, hasLinks, cycle, overtaken>>
bVars == <<served, folders, marks, tracked, enabled, permission, run, events, raced, stored>>
wVars == <<now, job, row, click, sweep, sent>>
lVars == <<pending, objects, link, agent, request, edits, excused>>
jVars == <<status, attempts, due, capture, text, summary, held, clicks, shared, crossed>>

ConvergeInit ==
  /\ part \in Parts
  /\ Init /\ B!Init /\ W!Init /\ L!Init /\ J!Init
  /\ part # "mirror" => hasLinks

MirrorStep == part = "mirror" /\ Next /\ UNCHANGED <<part, bVars, wVars, lVars, jVars>>
BookmarksStep == part = "bookmarks" /\ B!Next /\ UNCHANGED <<part, faults, mVars, wVars, lVars, jVars>>
WaybackStep == part = "wayback" /\ W!Next /\ UNCHANGED <<part, mVars, bVars, lVars, jVars>>
LinksStep == part = "links" /\ L!Next /\ UNCHANGED <<part, mVars, bVars, wVars, jVars>>
JobsStep == part = "jobs" /\ J!Next /\ UNCHANGED <<part, mVars, bVars, wVars, lVars>>

ConvergeNext == MirrorStep \/ BookmarksStep \/ WaybackStep \/ LinksStep \/ JobsStep
convergeVars == <<part, faults, mVars, bVars, wVars, lVars, jVars>>

\* Whatever is scheduled: for the runs about what must never happen.
UnfairSpec == ConvergeInit /\ [][ConvergeNext]_convergeVars

\* The fairness of each part's own specification, for the part that moves.
ConvergeSpec ==
  /\ UnfairSpec
  /\ WF_vars(part = "mirror" /\ Step)
  /\ \A r \in Runs : WF_bVars(part = "bookmarks" /\ B!Step(r))
  /\ \A r \in Runs \ PopupRuns : WF_bVars(part = "bookmarks" /\ B!SyncAll(r))
  /\ WF_<<faults, wVars>>(part = "wayback" /\ W!Tick)
  /\ \A s \in Sweepers : WF_<<faults, wVars>>(part = "wayback" /\ W!SweepPending(s))
  /\ \A a \in Agents : WF_<<faults, lVars>>(part = "links" /\ L!RunOnce(a))
  /\ \A s \in L!Saves : WF_<<faults, lVars>>(part = "links" /\ L!ClaimGoesStale(s))
  /\ \A a \in JobAgents : WF_<<faults, jVars>>(part = "jobs" /\ J!RunOnce(a))
  /\ WF_<<faults, jVars>>(part = "jobs" /\ \E j \in J!Jobs : J!TimePasses(j))

-----------------------------------------------------------------------------
\* Bookmarks: one folder of each kind that is on, and none of one that is off.
BookmarksInv == B!TypeOK /\ B!OneFolder /\ B!OffIsGone

\* Wayback: the row tells what became of its own attempt.
WaybackInv == W!TypeOK /\ W!OutcomeIsTrue

\* Links: a link is made of one save.
LinksInv == L!TypeOK /\ L!OneSave

\* syncKind: the bookmark folder shows the Worker's list in the end.
FolderConverges == part = "bookmarks" => B!FolderConverges

\* PendingTimeout: every attempt of the Wayback Machine is settled.
Settles == W!Settles

\* RunOnce of links: the later of two saves is the one that sticks.
LaterSaveSticks == L!LaterSaveSticks

\* Every save of a link is ingested in the end.
EverySaveFetched == L!EverySaveFetched

\* Every enrichment job is done or has failed for good in the end.
JobsSettle == J!JobsSettle
=============================================================================
