------------------------------ MODULE Bookmarks ------------------------------
(***************************************************************************)
(* The extension's copy of archived pages and links in the browser's       *)
(* bookmarks: a folder of its own per kind, found by a stored id or by its *)
(* title, and reconciled by URL with the list that the Worker serves.      *)
(*                                                                         *)
(* Every await of bookmarks.js is a step.  Runs overlap: the alarm, the    *)
(* start of the browser and the popup's toggles know nothing of each other,*)
(* and the browser may kill the service worker at any await.               *)
(*                                                                         *)
(* Abstracted: titles of bookmarks, the probe that finds the default       *)
(* container, and pairing (the device stays paired).                       *)
(***************************************************************************)
EXTENDS Naturals, FiniteSets

CONSTANTS
  Urls,
  Runs,        \* runs of the service worker's functions that may overlap
  PopupRuns,   \* those that the popup starts; the others are the alarm's
  MaxFolders,  \* bound: folders at a time
  MaxMarks,    \* bound: bookmarks at a time
  MaxEvents,   \* bound: toggles, changes of the lists, failures, kills
  None

Kinds == {"pages", "links"}
Other(k) == IF k = "pages" THEN "links" ELSE "pages"
Folders == 1..MaxFolders
Marks == 1..MaxMarks

VARIABLES
  served,      \* what the Worker lists; None: no such route
  folders,     \* the folders there are: their kind, that is their title
  marks,       \* the bookmarks there are: folder and URL
  tracked, enabled,  \* storage.local
  permission,
  run,         \* the local variables of each run
  events,
  raced,       \* history: kinds of which two runs overlapped
  stored       \* history: folders whose id was ever stored

browser == <<folders, marks>>
storage == <<tracked, enabled>>
vars == <<served, browser, storage, permission, run, events, raced, stored>>

Idle == [op |-> "none", kind |-> "pages", at |-> "idle", folder |-> None, create |-> {}, remove |-> {}]

TypeOK ==
  /\ served \in [Kinds -> (SUBSET Urls) \cup {None}] /\ served["pages"] # None
  /\ folders \in [Folders -> Kinds \cup {None}]
  /\ marks \in [Marks -> [folder : Folders, url : Urls] \cup {None}]
  /\ tracked \in [Kinds -> Folders \cup {None}]
  /\ enabled \in [Kinds -> BOOLEAN] /\ permission \in BOOLEAN
  /\ run \in [Runs -> [op : {"none", "sync", "enable", "disable"}, kind : Kinds,
                       at : {"idle", "flag", "check", "search", "create", "track",
                             "fetch", "children", "apply", "tree", "forget", "off", "relinquish", "revoke"},
                       folder : Folders \cup {None}, create : SUBSET Urls, remove : SUBSET Marks]]
  /\ events \in 0..MaxEvents /\ raced \subseteq Kinds /\ stored \subseteq Folders

\* Links were turned on some time ago, and their first sync failed.
Init ==
  /\ served = [k \in Kinds |-> Urls]
  /\ folders = [f \in Folders |-> None] /\ marks = [m \in Marks |-> None]
  /\ tracked = [k \in Kinds |-> None] /\ enabled = [k \in Kinds |-> k = "links"]
  /\ permission = TRUE
  /\ run = [r \in Runs |-> Idle]
  /\ events = 0 /\ raced = {} /\ stored = {}

Exists(f) == f # None /\ folders[f] # None
Children(f) == {m \in Marks : marks[m] # None /\ marks[m].folder = f}
\* An id that nothing has or remembers stands for one that was never used.
NewIds(free) == {i \in free : \A j \in free : i <= j}
Drop(S) == marks' = [m \in Marks |-> IF m \in S THEN None ELSE marks[m]]

-----------------------------------------------------------------------------
(* The rest of the world.                                                  *)

Event == events < MaxEvents /\ events' = events + 1

ChangeList(k, list) ==
  /\ Event
  /\ list = None => k = "links"
  /\ served' = [served EXCEPT ![k] = list]
  /\ UNCHANGED <<browser, storage, permission, run, raced, stored>>

UserRemoves(f) ==
  /\ Event
  /\ folders[f] # None
  /\ Drop(Children(f)) /\ folders' = [folders EXCEPT ![f] = None]
  /\ UNCHANGED <<served, storage, permission, run, raced, stored>>

\* The service worker is killed.
Kill ==
  /\ Event
  /\ run' = [r \in Runs |-> Idle]
  /\ UNCHANGED <<served, browser, storage, permission, raced, stored>>

-----------------------------------------------------------------------------
(* Starts and ends of runs.                                                *)

KindsOf(op, k) == IF op = "sync" THEN Kinds ELSE {k}

\* Runs of two kinds meet in the permission, which a disable takes away.
Overlapping(r, op, k) ==
  UNION {LET o == run[q].op
             l == run[q].kind
         IN (KindsOf(op, k) \cap KindsOf(o, l))
            \cup (IF o = "disable" /\ op = "enable" THEN {k} ELSE {})
            \cup (IF op = "disable" /\ o = "enable" THEN {l} ELSE {})
         : q \in {p \in Runs \ {r} : run[p].at # "idle"}}

Start(r, op, k, at) ==
  /\ run[r].at = "idle"
  /\ run' = [run EXCEPT ![r] = [Idle EXCEPT !.op = op, !.kind = k, !.at = at]]
  /\ raced' = raced \cup Overlapping(r, op, k)

\* syncAllBookmarks: the alarm, the start of the browser, a pairing.
SyncAll(r) ==
  /\ Start(r, "sync", "pages", "check")
  /\ UNCHANGED <<served, browser, storage, permission, events, stored>>

\* The popup has asked for the permission when it sends its message.
Enable(r, k) ==
  /\ Event
  /\ ~enabled[k]
  /\ Start(r, "enable", k, "flag")
  /\ permission' = TRUE
  /\ UNCHANGED <<served, browser, storage, stored>>

Disable(r, k) ==
  /\ Event
  /\ enabled[k]
  /\ Start(r, "disable", k, "tree")
  /\ UNCHANGED <<served, browser, storage, permission, stored>>

Goto(r, at) == run' = [run EXCEPT ![r].at = at]

\* Mutant: the failure of the pages stops the links.
NextKindNone(r) == Idle

\* syncKind has returned or thrown: the kinds are independent.
NextKind(r) ==
  IF run[r].op = "sync" /\ run[r].kind = "pages"
  THEN [Idle EXCEPT !.op = "sync", !.kind = "links", !.at = "check"] ELSE Idle
Finish(r) == run' = [run EXCEPT ![r] = NextKind(r)]

\* The Worker cannot be reached.
Throws(r) ==
  /\ Event
  /\ run[r].at = "fetch"
  /\ Finish(r)
  /\ UNCHANGED <<served, browser, storage, permission, raced, stored>>

-----------------------------------------------------------------------------
(* syncKind, with ensureFolder.                                            *)

SetEnabled(r) ==
  /\ run[r].at = "flag"
  /\ enabled' = [enabled EXCEPT ![run[r].kind] = TRUE]
  /\ Goto(r, "check")
  /\ UNCHANGED <<served, browser, tracked, permission, events, raced, stored>>

\* isEnabled; then the stored id, if there is such a folder still.
GetFolder(r) ==
  LET f == tracked[run[r].kind]
  IN /\ run[r].at = "check"
     /\ run' = [run EXCEPT ![r] =
                  IF ~enabled[run[r].kind] THEN NextKind(r)
                  ELSE IF Exists(f) /\ permission THEN [run[r] EXCEPT !.at = "fetch", !.folder = f]
                  ELSE [run[r] EXCEPT !.at = "search"]]
     /\ UNCHANGED <<served, browser, storage, permission, events, raced, stored>>

\* Mutant: a folder that exists under the title is not looked for.
SearchNothing(r) ==
  /\ run[r].at = "search"
  /\ IF permission THEN Goto(r, "create") ELSE Finish(r)
  /\ UNCHANGED <<served, browser, storage, permission, events, raced, stored>>

\* The first sibling with the title is adopted.
SearchFolder(r) ==
  /\ run[r].at = "search"
  /\ LET titled == {f \in Folders : folders[f] = run[r].kind}
     IN IF ~permission THEN Finish(r)
        ELSE IF titled = {} THEN Goto(r, "create")
        ELSE \E f \in titled : run' = [run EXCEPT ![r].folder = f, ![r].at = "track"]
  /\ UNCHANGED <<served, browser, storage, permission, events, raced, stored>>

CreateFolder(r) ==
  /\ run[r].at = "create"
  /\ IF ~permission THEN Finish(r) /\ UNCHANGED <<folders, stored>>
     ELSE \E f \in NewIds({g \in Folders : folders[g] = None /\ \A q \in Runs : run[q].folder # g}
                          \ {tracked[k] : k \in Kinds}) :
            /\ folders' = [folders EXCEPT ![f] = run[r].kind]
            /\ stored' = stored \ {f}
            /\ run' = [run EXCEPT ![r].folder = f, ![r].at = "track"]
  /\ UNCHANGED <<served, marks, storage, permission, events, raced>>

SetFolderId(r) ==
  /\ run[r].at = "track"
  /\ tracked' = [tracked EXCEPT ![run[r].kind] = run[r].folder]
  /\ stored' = stored \cup {run[r].folder}
  /\ Goto(r, "fetch")
  /\ UNCHANGED <<served, browser, enabled, permission, events, raced>>

\* A missing route is no list, and the folder is left as it is.
FetchList(r) ==
  /\ run[r].at = "fetch"
  /\ LET list == served[run[r].kind]
     IN IF list = None THEN Finish(r)
        ELSE run' = [run EXCEPT ![r].at = "children", ![r].create = list]
  /\ UNCHANGED <<served, browser, storage, permission, events, raced, stored>>

\* Which URLs are missing in the folder, and which of its bookmarks are not listed.
Diff(r) ==
  /\ run[r].at = "children"
  /\ LET list == run[r].create
         here == Children(run[r].folder)
     IN IF ~Exists(run[r].folder) \/ ~permission THEN Finish(r)
        ELSE run' = [run EXCEPT ![r].at = "apply",
                       ![r].create = list \ {marks[m].url : m \in here},
                       ![r].remove = {m \in here : marks[m].url \notin list}]
  /\ UNCHANGED <<served, browser, storage, permission, events, raced, stored>>

CreateMark(r) ==
  /\ run[r].at = "apply" /\ run[r].create # {}
  /\ IF ~Exists(run[r].folder) \/ ~permission THEN Finish(r) /\ UNCHANGED marks
     ELSE \E url \in run[r].create,
             m \in NewIds({n \in Marks : marks[n] = None /\ \A q \in Runs : n \notin run[q].remove}) :
            /\ marks' = [marks EXCEPT ![m] = [folder |-> run[r].folder, url |-> url]]
            /\ run' = [run EXCEPT ![r].create = @ \ {url}]
  /\ UNCHANGED <<served, folders, storage, permission, events, raced, stored>>

\* A bookmark that is gone already is passed over.
RemoveMark(r) ==
  /\ run[r].at = "apply" /\ run[r].create = {} /\ run[r].remove # {}
  /\ \E m \in run[r].remove :
       /\ run' = [run EXCEPT ![r].remove = @ \ {m}]
       /\ IF permission THEN Drop({m}) ELSE UNCHANGED marks
  /\ UNCHANGED <<served, folders, storage, permission, events, raced, stored>>

EndSync(r) ==
  /\ run[r].at = "apply" /\ run[r].create = {} /\ run[r].remove = {}
  /\ Finish(r)
  /\ UNCHANGED <<served, browser, storage, permission, events, raced, stored>>

-----------------------------------------------------------------------------
(* disableSync.                                                            *)

RemoveTree(r) ==
  /\ run[r].at = "tree"
  /\ LET f == tracked[run[r].kind]
     IN IF Exists(f) /\ permission
        THEN Drop(Children(f)) /\ folders' = [folders EXCEPT ![f] = None]
        ELSE UNCHANGED <<marks, folders>>
  /\ Goto(r, "forget")
  /\ UNCHANGED <<served, storage, permission, events, raced, stored>>

ForgetFolder(r) ==
  /\ run[r].at = "forget"
  /\ tracked' = [tracked EXCEPT ![run[r].kind] = None]
  /\ Goto(r, "off")
  /\ UNCHANGED <<served, browser, enabled, permission, events, raced, stored>>

SetDisabled(r) ==
  /\ run[r].at = "off"
  /\ enabled' = [enabled EXCEPT ![run[r].kind] = FALSE]
  /\ Goto(r, "relinquish")
  /\ UNCHANGED <<served, browser, tracked, permission, events, raced, stored>>

\* disableSync asks whether the other kind still uses the permission,
Relinquish(r) ==
  /\ run[r].at = "relinquish"
  /\ IF enabled[Other(run[r].kind)] THEN Finish(r) ELSE Goto(r, "revoke")
  /\ UNCHANGED <<served, browser, storage, permission, events, raced, stored>>

\* and relinquishPermission gives it up, or fails and says nothing.
RemovePermission(r) ==
  /\ run[r].at = "revoke"
  /\ permission' \in {permission, FALSE}
  /\ Finish(r)
  /\ UNCHANGED <<served, browser, storage, events, raced, stored>>

Step(r) ==
  \/ SetEnabled(r) \/ GetFolder(r) \/ SearchFolder(r) \/ CreateFolder(r)
  \/ SetFolderId(r) \/ FetchList(r) \/ Diff(r) \/ CreateMark(r) \/ RemoveMark(r) \/ EndSync(r)
  \/ RemoveTree(r) \/ ForgetFolder(r) \/ SetDisabled(r) \/ Relinquish(r) \/ RemovePermission(r)

World ==
  \/ \E k \in Kinds, list \in (SUBSET Urls) \cup {None} : ChangeList(k, list)
  \/ \E f \in Folders : UserRemoves(f)
  \/ Kill
  \/ \E r \in PopupRuns, k \in Kinds : Enable(r, k) \/ Disable(r, k)
  \/ \E r \in Runs : Throws(r)

Next ==
  \/ World
  \/ \E r \in Runs : Step(r)
  \/ \E r \in Runs \ PopupRuns : SyncAll(r)

Spec == Init /\ [][Next]_vars

\* Every await ends, and the alarm rings for ever.
FairSpec ==
  /\ Spec
  /\ \A r \in Runs : WF_vars(Step(r))
  /\ \A r \in Runs \ PopupRuns : WF_vars(SyncAll(r))

-----------------------------------------------------------------------------
Working(k) == \E r \in Runs : run[r].at # "idle" /\ run[r].kind = k
UrlsIn(f) == {marks[m].url : m \in Children(f)}

\* ensureFolder: "exactly one bookmarks folder of each kind's name -- never two",
\* and no URL twice in it, whenever the service worker is killed and whatever the
\* user deletes, as long as no two runs of the kind overlap.
OneFolder ==
  \A k \in Kinds \ raced :
    LET own == {f \in Folders : folders[f] = k}
    IN /\ Cardinality(own) <= 1
       /\ \A f \in own : Cardinality(Children(f)) = Cardinality(UrlsIn(f))

\* disableSync: a kind that is off leaves no folder behind (unless a killed run had
\* made it and not stored its id), and one that is on has the permission that both
\* share; with no overlap, and nothing in progress.
OffIsGone ==
  \A k \in Kinds \ raced : ~Working(k) =>
    IF enabled[k] THEN permission ELSE \A f \in stored : folders[f] # k

\* syncKind: in the end the folder shows the list as the Worker has it, each URL of
\* it and no other, whatever runs overlapped, failed or were killed before.
FolderConverges ==
  \A k \in Kinds :
    <>[](enabled[k] /\ permission /\ served[k] # None =>
           Exists(tracked[k]) /\ UrlsIn(tracked[k]) = served[k])
=============================================================================
