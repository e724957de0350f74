-------------------------------- MODULE Links --------------------------------
(***************************************************************************)
(* One URL's row of the links table: the saves that devices leave in the   *)
(* Worker's pending_links, the agents that ingest them, and the dashboard, *)
(* which adds the link by hand, edits it, cleans its URL and deletes it.   *)
(*                                                                         *)
(* A link keeps no versions: the save that is processed last is what it    *)
(* shows.  Saves are numbered by saved_at; 0 is what the user typed.       *)
(*                                                                         *)
(* Abstracted: notes, tags (Curation), the queue items of saves (Queue),   *)
(* and normalization, which maps all these saves to one row.               *)
(***************************************************************************)
EXTENDS Naturals, FiniteSets

CONSTANTS
  MaxSaves,   \* bound: saves of the URL
  Inline,     \* saves that carry a favicon
  Objects,    \* saves that left one in R2; the others declare none
  Limit,      \* of a batch
  Agents,
  Requests,   \* requests of the dashboard that are more than one statement
  MaxEdits,   \* bound: what the user does
  MaxFaults,  \* bound: calls that fail, crashes
  Failed, None

VARIABLES
  pending,    \* pending_links
  objects,    \* R2
  link,       \* links
  agent,      \* local variables of RunOnce
  request,    \* local variables of the requests
  edits, faults,
  excused     \* history: saves claimed again, or after or beside a newer one

dashboard == <<request, edits>>
vars == <<pending, objects, link, agent, dashboard, faults, excused>>

Saves == 1..MaxSaves
Typed == 0
Favicons == Saves \cup {Typed, None}
IdleAgent == [at |-> "idle", todo |-> {}, favicon |-> None]

TypeOK ==
  /\ pending \in [Saves -> {"none", "new", "claimed", "stale", "fetched"}]
  /\ objects \subseteq Objects
  /\ link \in [raw : Saves \cup {Typed}, clean : BOOLEAN, title : Saves \cup {Typed}, favicon : Favicons] \cup {None}
  /\ agent \in [Agents -> [at : {"idle", "favicon", "upsert", "delete", "mark"}, todo : SUBSET Saves,
                           favicon : Favicons \cup {Failed}]]
  /\ request \in [Requests -> [op : {"create"}, favicon : {Typed, None}]
                              \cup [op : {"clean"}, raw : Saves \cup {Typed}] \cup {None}]
  /\ edits \in 0..MaxEdits /\ faults \in 0..MaxFaults
  /\ excused \subseteq Saves

Init ==
  /\ pending = [s \in Saves |-> "none"] /\ objects = {}
  /\ link = None
  /\ agent = [a \in Agents |-> IdleAgent]
  /\ request = [r \in Requests |-> None]
  /\ edits = 0 /\ faults = 0
  /\ excused = {}

\* A device's save is recorded, in any order.
Save(s) ==
  /\ pending[s] = "none"
  /\ pending' = [pending EXCEPT ![s] = "new"]
  /\ objects' = objects \cup ({s} \cap Objects)
  /\ UNCHANGED <<link, agent, dashboard, faults, excused>>

\* A claim is older than the Worker's timeout.
ClaimGoesStale(s) ==
  /\ pending[s] = "claimed"
  /\ pending' = [pending EXCEPT ![s] = "stale"]
  /\ UNCHANGED <<objects, link, agent, dashboard, faults, excused>>

-----------------------------------------------------------------------------
(* LinkIngester.                                                           *)

\* Mutant: a claim lasts for ever.
ClaimableNewOnly == {s \in Saves : pending[s] = "new"}

Claimable == {s \in Saves : pending[s] \in {"new", "stale"}}
Oldest(batch) ==
  /\ Cardinality(batch) = IF Cardinality(Claimable) < Limit THEN Cardinality(Claimable) ELSE Limit
  /\ \A s \in batch, t \in Claimable \ batch : s < t

\* A save has no promise of its place when it was claimed before, or when a newer
\* save had been claimed first, or is claimed by another agent at the same time.
Excuses(a, batch) ==
  {s \in batch : pending[s] = "stale" \/ \E t \in Saves : t > s /\ pending[t] \in {"claimed", "stale", "fetched"}}
  \cup {s \in (UNION {agent[b].todo : b \in Agents \ {a}}) : \E t \in batch : s < t}

\* ClaimPendingLinks: the agent gets the batch, or its answer is lost.
Claim(a, answered) ==
  /\ agent[a].at = "idle"
  /\ \E batch \in (SUBSET Claimable) \ {{}} :
       /\ Oldest(batch)
       /\ pending' = [s \in Saves |-> IF s \in batch THEN "claimed" ELSE pending[s]]
       /\ excused' = excused \cup Excuses(a, batch)
       /\ agent' = IF answered
                   THEN [agent EXCEPT ![a] = [IdleAgent EXCEPT !.at = "favicon", !.todo = batch]] ELSE agent
  /\ UNCHANGED <<objects, link, dashboard>>

\* Mutant: the batch in the order in which RETURNING gave it, newest first.
CurrentUnsorted(a) == CHOOSE s \in agent[a].todo : \A t \in agent[a].todo : s >= t

\* Oldest saved first.
Current(a) == CHOOSE s \in agent[a].todo : \A t \in agent[a].todo : s <= t

Goto(a, at) == agent' = [agent EXCEPT ![a].at = at]
NextLink(a) ==
  LET todo == agent[a].todo \ {Current(a)}
  IN agent' = [agent EXCEPT ![a] = [IdleAgent EXCEPT !.at = IF todo = {} THEN "idle" ELSE "favicon", !.todo = todo]]

\* storeFavicon: none declared, stored, or failed, as when an earlier attempt has
\* deleted the object.
StoreFavicon(a, works) ==
  LET s == Current(a)
  IN /\ agent[a].at = "favicon"
     /\ agent' = [agent EXCEPT ![a].at = "upsert",
                    ![a].favicon = IF s \notin Inline \cup Objects THEN None
                                   ELSE IF works /\ (s \in Inline \/ s \in objects) THEN s ELSE Failed]
     /\ UNCHANGED <<pending, objects, link, dashboard, excused>>

After(a) == Goto(a, IF Current(a) \in Objects THEN "delete" ELSE "mark")

\* Mutant: the favicon of a save that has none stays.
UpsertCoalesces(a) ==
  LET s == Current(a)
      favicon == agent[a].favicon
      kept == IF link = None THEN None ELSE link.favicon
  IN /\ agent[a].at = "upsert"
     /\ link' = [raw |-> s, clean |-> FALSE, title |-> s,
                 favicon |-> IF favicon \in {Failed, None} THEN kept ELSE favicon]
     /\ After(a)
     /\ UNCHANGED <<pending, objects, dashboard, faults, excused>>

\* UpsertLink, or UpsertLinkKeepingFavicon when the favicon failed.
Upsert(a) ==
  LET s == Current(a)
      favicon == agent[a].favicon
      kept == IF link = None THEN None ELSE link.favicon
  IN /\ agent[a].at = "upsert"
     /\ link' = [raw |-> s, clean |-> FALSE, title |-> s,
                 favicon |-> IF favicon = Failed THEN kept ELSE favicon]
     /\ After(a)
     /\ UNCHANGED <<pending, objects, dashboard, faults, excused>>

\* The R2 object is deleted, best effort.
DeleteObject(a, works) ==
  /\ agent[a].at = "delete"
  /\ objects' = IF works THEN objects \ {Current(a)} ELSE objects
  /\ Goto(a, "mark")
  /\ UNCHANGED <<pending, link, dashboard, excused>>

MarkFetched(a) ==
  /\ agent[a].at = "mark"
  /\ pending' = [pending EXCEPT ![Current(a)] = "fetched"]
  /\ NextLink(a)
  /\ UNCHANGED <<objects, link, dashboard, faults, excused>>

\* The upsert or the flag fails: the error is logged, and the next link is due.
ProcessFails(a) ==
  /\ agent[a].at \in {"upsert", "mark"}
  /\ NextLink(a)
  /\ UNCHANGED <<pending, objects, link, dashboard, excused>>

Crash(a) ==
  /\ agent[a].at # "idle"
  /\ agent' = [agent EXCEPT ![a] = IdleAgent]
  /\ UNCHANGED <<pending, objects, link, dashboard, excused>>

Fault(a) ==
  /\ faults < MaxFaults
  /\ faults' = faults + 1
  /\ \/ Claim(a, FALSE) \/ StoreFavicon(a, FALSE) \/ DeleteObject(a, FALSE)
     \/ ProcessFails(a) \/ Crash(a)

RunOnce(a) ==
  \/ (Claim(a, TRUE) \/ StoreFavicon(a, TRUE) \/ DeleteObject(a, TRUE)) /\ UNCHANGED faults
  \/ Upsert(a) \/ MarkFetched(a)

-----------------------------------------------------------------------------
(* The dashboard.                                                          *)

Edit == edits < MaxEdits /\ edits' = edits + 1
Ingest == <<pending, objects, agent, faults, excused>>

\* CreateLink, up to the file of the favicon, which may fail: a link that exists is
\* refused.  `favicon` is what the insert will carry.
StartCreate(r, favicon) ==
  /\ Edit
  /\ request[r] = None /\ link = None
  /\ request' = [request EXCEPT ![r] = [op |-> "create", favicon |-> favicon]]
  /\ UNCHANGED <<Ingest, link>>

\* CreateLinkIfAbsent: ON CONFLICT DO NOTHING.
CreateLink(r) ==
  /\ request[r] # None /\ request[r].op = "create"
  /\ link' = IF link # None THEN link
             ELSE [raw |-> Typed, clean |-> FALSE, title |-> Typed, favicon |-> request[r].favicon]
  /\ request' = [request EXCEPT ![r] = None]
  /\ UNCHANGED <<Ingest, edits>>

\* PatchLink: SetLinkTitle.
PatchLink ==
  /\ Edit
  /\ link # None
  /\ link' = [link EXCEPT !.title = Typed]
  /\ UNCHANGED <<Ingest, request>>

\* CleanLinkURL reads the row; a link that is clean already is left alone.
StartClean(r) ==
  /\ Edit
  /\ request[r] = None /\ link # None /\ ~link.clean
  /\ request' = [request EXCEPT ![r] = [op |-> "clean", raw |-> link.raw]]
  /\ UNCHANGED <<Ingest, link>>

\* SetLinkRawURL: the URL computed from the row as it was read.
CleanLinkURL(r) ==
  /\ request[r] # None /\ request[r].op = "clean"
  /\ link' = [link EXCEPT !.raw = request[r].raw, !.clean = TRUE]
  /\ request' = [request EXCEPT ![r] = None]
  /\ UNCHANGED <<Ingest, edits>>

\* A link that is saved later is another row: an UPDATE by its id finds nothing.
DeleteLink ==
  /\ Edit
  /\ link # None
  /\ link' = None
  /\ request' = [r \in Requests |-> IF request[r] # None /\ request[r].op = "clean" THEN None ELSE request[r]]
  /\ UNCHANGED Ingest

Dashboard ==
  \/ PatchLink \/ DeleteLink
  \/ \E r \in Requests : \/ \E favicon \in {Typed, None} : StartCreate(r, favicon)
                         \/ CreateLink(r) \/ StartClean(r) \/ CleanLinkURL(r)

Next ==
  \/ Dashboard
  \/ \E s \in Saves : Save(s) \/ ClaimGoesStale(s)
  \/ \E a \in Agents : RunOnce(a) \/ Fault(a)

Spec == Init /\ [][Next]_vars

\* Agents poll again and again, each call ends, and claims grow old.
FairSpec ==
  /\ Spec
  /\ \A a \in Agents : WF_vars(RunOnce(a))
  /\ \A s \in Saves : WF_vars(ClaimGoesStale(s))

-----------------------------------------------------------------------------
\* RunOnce: "the later of two saves of the same URL" is "the one that sticks",
\* across batches, agents, failures and edits, and a link added by hand overwrites
\* none; unless the older save was claimed again, after the newer one, or side by
\* side with it.
LaterSaveSticks ==
  [][link # None /\ link' # None /\ link'.raw # link.raw /\ ~link'.clean =>
       link'.raw > link.raw \/ link'.raw \in excused]_vars

\* UpsertLink: "the refresh is faithful to what the extension just saw": URL and
\* favicon are those of one save, unless that save's favicon failed or the URL
\* was cleaned meanwhile.
OneSave ==
  link # None /\ ~link.clean =>
    \/ link.favicon = IF link.raw \in Inline \cup Objects THEN link.raw ELSE None
    \/ link.raw = Typed
    \/ link.raw \in Inline \cup Objects /\ (faults > 0 \/ link.raw \in excused)

\* Every save is ingested in the end.
EverySaveFetched == \A s \in Saves : pending[s] # "none" ~> pending[s] = "fetched"
=============================================================================
