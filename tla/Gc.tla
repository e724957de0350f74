--------------------------------- MODULE Gc ---------------------------------
(***************************************************************************)
(* `recueil gc` against everything that writes files.  The archive and the *)
(* store of link favicons hold one directory per ingestion attempt; a file *)
(* is written first and a row refers to it later, and deletions leave the  *)
(* files to this sweep.                                                    *)
(*                                                                         *)
(* A sweep reads which paths Postgres refers to, later the time, then      *)
(* walks the store, and removes at last what it found unreferenced and     *)
(* old, as far as it can.                                                  *)
(*                                                                         *)
(* Abstracted: bytes, compression, sharding (a directory emptied by a      *)
(* removal is pruned with its parents; MkdirAll makes them again), and all *)
(* pages but one.  The HTML and the favicon of an attempt are one asset,   *)
(* which its row refers to, and its page as the page's favicon.            *)
(***************************************************************************)
EXTENDS Naturals, FiniteSets, Functions

CONSTANTS
  Dirs,         \* directories, one per attempt; named by the row of the attempt
  Grace,        \* recentThreshold, in ticks
  MinFiles,     \* safetyCheckMinFiles
  MaxClock,     \* bound: ticks
  MaxRenders,   \* bound: screenshots
  None

VARIABLES
  clock,
  disk,      \* modification time of each file there is
  writer,    \* what writes in a directory, and which name is next
  rows,      \* the names of the files that the row of a directory refers to
  favicon,   \* pages.favicon_path: the directory that it points to
  deleting,  \* an open DeleteCapture: the survivor it has read
  sweep,     \* local variables of the command
  renders,
  wrote,     \* history: when a path was last written
  late       \* history: paths that a row referred to too late for the sweep

db == <<rows, favicon, deleting>>
vars == <<clock, disk, writer, rows, favicon, deleting, sweep, renders, wrote, late>>

Names == {"asset", "thumbnail", "tmp"}
Paths == Dirs \X Names \X (0..MaxRenders)
File(d, name) == <<d, name, 0>>
\* Temporary names are not used again.
Temp(d) == <<d, "tmp", writer[d].no>>
FilesIn(d) == {p \in DOMAIN disk : p[1] = d}
Without(f, S) == Restrict(f, DOMAIN f \ S)
At(p, t) == [x \in {p} |-> t]
Extend(f, g) == [x \in DOMAIN f \cup DOMAIN g |-> IF x \in DOMAIN g THEN g[x] ELSE f[x]]

Referenced ==
  (UNION {{File(d, name) : name \in rows[d]} : d \in {e \in Dirs : rows[e] # None}})
  \cup {File(d, "asset") : d \in {favicon} \ {None}}

Idle == [at |-> "idle", mode |-> "unread", live |-> {}, cutoff |-> 0, todo |-> {},
         scanned |-> 0, orphans |-> {}, removed |-> {}, failed |-> {}]

TypeOK ==
  /\ clock \in 0..MaxClock
  /\ DOMAIN disk \subseteq Paths /\ \A p \in DOMAIN disk : disk[p] \in 0..clock
  /\ writer \in [Dirs -> [at : {"idle", "temp", "written", "over"}, name : Names, no : 0..MaxRenders]]
  /\ rows \in [Dirs -> (SUBSET Names) \cup {None}]
  /\ favicon \in Dirs \cup {None}
  /\ deleting \in [Dirs -> [latest : Dirs \cup {None}] \cup {None}]
  /\ sweep.at \in {"idle", "listed", "walk", "remove", "over", "refused"}
  /\ sweep.orphans \cup sweep.removed \cup sweep.failed \cup sweep.live \subseteq Paths
  /\ renders \in 0..MaxRenders

Init ==
  /\ clock = 0
  /\ disk = [p \in {} |-> 0]
  /\ writer = [d \in Dirs |-> [at |-> "idle", name |-> "asset", no |-> 0]]
  /\ rows = [d \in Dirs |-> None] /\ favicon = None
  /\ deleting = [d \in Dirs |-> None]
  /\ sweep = Idle
  /\ renders = 0
  /\ wrote = [p \in Paths |-> 0] /\ late = {}

\* Bound: nothing begins when the command has ended.
Open == sweep.at \notin {"over", "refused"}

Tick ==
  /\ Open
  /\ clock < MaxClock
  /\ clock' = clock + 1
  /\ UNCHANGED <<disk, writer, db, sweep, renders, wrote, late>>

-----------------------------------------------------------------------------
(* Writers.                                                                *)

\* The grace period of the file has passed.
Aged(p) == clock >= wrote[p] + Grace

\* A row begins to refer to paths that the sweep did not list, and that were written too
\* long ago for it to spare them, or are written once more.  Before the sweep has its
\* cutoff it is TakeCutoff that tells which.
Refer(paths) ==
  late' = late \cup
    {p \in paths \ Referenced : sweep.at \notin {"idle", "listed"} /\ p \notin sweep.live /\
       (Aged(p) \/ (p[2] = "thumbnail" /\ p \in sweep.orphans))}

\* Store.NewCapture for a new attempt; writeAtomic: MkdirAll and CreateTemp.
CreateTemp(d) ==
  /\ Open
  /\ writer[d].at = "idle"
  /\ disk' = Extend(disk, At(Temp(d), clock))
  /\ writer' = [writer EXCEPT ![d].at = "temp"]
  /\ UNCHANGED <<clock, db, sweep, renders, wrote, late>>

\* The rename keeps the time of the last write to the file.
Rename(d) ==
  LET p == File(d, writer[d].name)
  IN /\ writer[d].at = "temp"
     /\ Temp(d) \in DOMAIN disk
     /\ disk' = Extend(Without(disk, {Temp(d)}), At(p, disk[Temp(d)]))
     /\ wrote' = [wrote EXCEPT ![p] = disk[Temp(d)]]
     /\ writer' = [writer EXCEPT ![d].at = "written"]
     /\ UNCHANGED <<clock, db, sweep, renders, late>>

\* A failed attempt removes its temporary file; one that died leaves it.
Abort(d) ==
  /\ writer[d].at \in {"temp", "written"}
  /\ \/ disk' = Without(disk, {Temp(d)})
     \/ UNCHANGED disk
  /\ writer' = [writer EXCEPT ![d].at = "over"]
  /\ UNCHANGED <<clock, db, sweep, renders, wrote, late>>

\* writeToPostgres: the row refers to the files.
Commit(d) ==
  /\ writer[d].at = "written" /\ writer[d].name = "asset"
  /\ rows' = [rows EXCEPT ![d] = {"asset"}]
  /\ favicon' = d
  /\ Refer({File(d, "asset")})
  /\ writer' = [writer EXCEPT ![d].at = "over"]
  /\ UNCHANGED <<clock, disk, deleting, sweep, renders, wrote>>

\* The screenshot of an archived capture, or the retry of it.
Render(d) ==
  /\ rows[d] # None /\ writer[d].at = "over"
  /\ Open
  /\ renders < MaxRenders
  /\ renders' = renders + 1
  /\ writer' = [writer EXCEPT ![d] = [at |-> "idle", name |-> "thumbnail", no |-> renders']]
  /\ UNCHANGED <<clock, disk, db, sweep, wrote, late>>

\* SetCaptureThumbnail updates nothing when the capture was deleted.
CommitThumbnail(d) ==
  /\ writer[d].at = "written" /\ writer[d].name = "thumbnail"
  /\ rows' = [rows EXCEPT ![d] = IF @ = None THEN None ELSE @ \cup {"thumbnail"}]
  /\ Refer(IF rows[d] = None THEN {} ELSE {File(d, "thumbnail")})
  /\ writer' = [writer EXCEPT ![d].at = "over"]
  /\ UNCHANGED <<clock, disk, favicon, deleting, sweep, renders, wrote>>

\* DeleteCapture, first part: any survivor may be the latest.
ReadLatest(d) ==
  /\ Open
  /\ rows[d] # None /\ deleting[d] = None
  /\ LET survivors == {c \in Dirs \ {d} : rows[c] # None}
     IN \E latest \in IF survivors = {} THEN {None} ELSE survivors :
          deleting' = [deleting EXCEPT ![d] = [latest |-> latest]]
  /\ UNCHANGED <<clock, disk, writer, rows, favicon, sweep, renders, wrote, late>>

\* Second part: SetPageFavicon, or DeletePage; COMMIT.
DeleteCapture(d) ==
  /\ deleting[d] # None
  /\ rows' = [rows EXCEPT ![d] = None]
  /\ favicon' = deleting[d].latest
  /\ Refer(IF favicon' = None THEN {} ELSE {File(favicon', "asset")})
  /\ deleting' = [deleting EXCEPT ![d] = None]
  /\ UNCHANGED <<clock, disk, writer, sweep, renders, wrote>>

-----------------------------------------------------------------------------
(* The command.                                                            *)

Quiet == UNCHANGED <<clock, writer, db, renders, wrote, late>>

\* Run: the query.
ListReferenced ==
  /\ sweep.at = "idle"
  /\ sweep' = [Idle EXCEPT !.at = "listed", !.live = Referenced]
  /\ Quiet /\ UNCHANGED disk

\* sweep, once the paths have arrived: the time.  What was referred to meanwhile and has
\* aged by now is late, however young it was when its row was committed.
TakeCutoff ==
  /\ sweep.at = "listed"
  /\ sweep' = [sweep EXCEPT !.at = "walk", !.cutoff = clock, !.todo = Dirs]
  /\ late' = late \cup {p \in Referenced \ sweep.live : Aged(p)}
  /\ UNCHANGED <<clock, disk, writer, db, renders, wrote>>

IsOld(t) == t + Grace <= sweep.cutoff

\* Mutant: no file is too recent to judge.
WalkAnyAge(d) ==
  /\ sweep.at = "walk" /\ d \in sweep.todo
  /\ sweep' = [sweep EXCEPT !.todo = @ \ {d}, !.scanned = @ + Cardinality(FilesIn(d)),
                 !.orphans = @ \cup (FilesIn(d) \ sweep.live)]
  /\ Quiet /\ UNCHANGED disk

\* Store.Walk visits one directory.
Walk(d) ==
  /\ sweep.at = "walk" /\ d \in sweep.todo
  /\ sweep' = [sweep EXCEPT !.todo = @ \ {d}, !.scanned = @ + Cardinality(FilesIn(d)),
                 !.orphans = @ \cup {p \in FilesIn(d) \ sweep.live : IsOld(disk[p])}]
  /\ Quiet /\ UNCHANGED disk

\* More than maxOrphanFraction, one half, of enough files.
TooManyOrphans ==
  sweep.scanned >= MinFiles /\ 2 * Cardinality(sweep.orphans) > sweep.scanned

\* Mutant: the check counts only the files that are not orphans.
CheckSurvivors(mode) ==
  /\ sweep.at = "walk" /\ sweep.todo = {} 
  /\ sweep' = [sweep EXCEPT !.mode = mode,
                 !.at = IF mode = "dry" THEN "over"
                        ELSE IF sweep.scanned - Cardinality(sweep.orphans) >= MinFiles
                                /\ TooManyOrphans /\ mode = "run" THEN "refused" ELSE "remove"]
  /\ Quiet /\ UNCHANGED disk

\* The options: --dry-run (with --force or not), --force, none.
Check(mode) ==
  /\ sweep.at = "walk" /\ sweep.todo = {} 
  /\ sweep' = [sweep EXCEPT !.mode = mode,
                 !.at = IF mode = "dry" THEN "over"
                        ELSE IF TooManyOrphans /\ mode = "run" THEN "refused" ELSE "remove"]
  /\ Quiet /\ UNCHANGED disk

Remaining == sweep.orphans \ (sweep.removed \cup sweep.failed)

\* Store.Remove.
Remove(p) ==
  /\ sweep.at = "remove" /\ p \in Remaining \cap DOMAIN disk
  /\ disk' = Without(disk, {p})
  /\ sweep' = [sweep EXCEPT !.removed = @ \cup {p}]
  /\ Quiet

\* It fails, for a path that is gone or for any other reason: the sweep counts the error
\* and goes on.
FailRemove(p) ==
  /\ sweep.at = "remove" /\ p \in Remaining
  /\ sweep' = [sweep EXCEPT !.failed = @ \cup {p}]
  /\ Quiet /\ UNCHANGED disk

EndRemoval ==
  /\ sweep.at = "remove" /\ Remaining = {}
  /\ sweep' = [sweep EXCEPT !.at = "over"]
  /\ Quiet /\ UNCHANGED disk

Writer ==
  \/ \E d \in Dirs : \/ CreateTemp(d) \/ Rename(d) \/ Abort(d) \/ Commit(d)
                     \/ Render(d) \/ CommitThumbnail(d)
  \/ \E d \in Dirs : ReadLatest(d) \/ DeleteCapture(d)

Sweep ==
  \/ ListReferenced \/ TakeCutoff \/ EndRemoval
  \/ \E d \in Dirs : Walk(d)
  \/ \E mode \in {"dry", "force", "run"} : Check(mode)
  \/ \E p \in Paths : Remove(p) \/ FailRemove(p)

Next == Tick \/ Writer \/ Sweep

Spec == Init /\ [][Next]_vars

-----------------------------------------------------------------------------
\* gc.Run: no file that a row refers to is ever missing, whatever is ingested,
\* rendered, edited or deleted during the sweep, unless the row began to refer to
\* it after the query of the sweep, and the file was older than the grace period
\* by then, or by the time of the cutoff if that came later.
ReferencedExists == \A p \in Referenced \ late : p \in DOMAIN disk

\* TooManyOrphansError: without --force at most half of what was scanned is removed
\* (when that is enough to tell), and a dry run or a refusal removes nothing.
UnforcedSparesHalf ==
  sweep.removed # {} =>
    /\ sweep.mode # "dry" /\ sweep.at # "refused"
    /\ sweep.mode = "force" \/ sweep.scanned < MinFiles \/ 2 * Cardinality(sweep.removed) <= sweep.scanned

\* What deletions and dead attempts leave behind is reclaimed: a sweep that ends
\* leaves only files that were referenced, or recent, or could not be removed (or that
\* it saw under their temporary name).
SweepComplete ==
  sweep.at = "over" /\ sweep.mode # "dry" =>
    \A p \in DOMAIN disk :
      IsOld(disk[p]) =>
        \/ p \in sweep.live \cup sweep.failed
        \/ \E q \in sweep.orphans : q[1] = p[1] /\ q[2] = "tmp"
=============================================================================
