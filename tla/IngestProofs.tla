---------------------------- MODULE IngestProofs ----------------------------
(* The proofs about Ingest: types, the hand-off invariant and what follows *)
(* from it, and the refinement of Delivery, for every value of the         *)
(* constants.                                                              *)
EXTENDS Ingest, TLAPS

USE DEF deviceVars, pgVars, agentVars, historyVars

\* Counting a fault respects its bound.
LEMMA FaultTypes ==
  ASSUME faults \in 0..MaxFaults, Fault PROVE faults' \in 0..MaxFaults
BY BoundsAssumption DEF Fault

AgentsShape == \A a \in Agents : AgentShape(a)

\* An agent that returns from processOne is left well typed and idle.
LEMMA ReturnTypes ==
  ASSUME AgentsTypeOK, AgentsShape, NEW a \in Agents, Return(a)
  PROVE  AgentsTypeOK' /\ AgentsShape'
BY DEF AgentsTypeOK, AgentsShape, AgentShape, Return, Goto

\* Inserting or finding a captures row keeps the rows well typed.
LEMMA InsertTypes ==
  ASSUME TypeOK, NEW a \in Agents, NEW found \in Dirs, InsertOrFind(a, found),
         dir[a] \in Dirs, blob[a] \in Uploads, cur[a] \in Ids
  PROVE  rows' \in [Dirs -> Captures \cup {None}] /\ archived' \in SUBSET Uploads
<1>1. CASE UNCHANGED <<rows, archived>>
  BY <1>1 DEF TypeOK, StoresTypeOK
<1>2. ASSUME NEW sid \in SourceIds, InsertCapture(dir[a], blob[a], sid)
      PROVE  rows' \in [Dirs -> Captures \cup {None}] /\ archived' \in SUBSET Uploads
  <2>1. [up |-> blob[a], sid |-> sid, jobs |-> 1] \in Captures
    BY DEF Captures
  <2>2. QED
    BY <1>2, <2>1 DEF InsertCapture, TypeOK, StoresTypeOK
<1>3. cur[a] \in SourceIds /\ dir[a] \in SourceIds
  BY DEF SourceIds
<1>4. QED
  BY <1>1, <1>2, <1>3 DEF InsertOrFind

\* The states Init and Next keep to: every variable has its type, and an agent
\* holds what its place in processOne needs.
WellFormed == TypeOK /\ AgentsShape

\* A step of the device, of time, of the Worker's cleanup or of the dashboard
\* leaves the agents alone.
LEMMA OutsideStep ==
  ASSUME WellFormed, UNCHANGED <<agentVars, nextDir, faults, archived>>, StoresTypeOK',
         overrun' \in SUBSET Ids
  PROVE  WellFormed'
BY DEF WellFormed, TypeOK, AgentsTypeOK, AgentsShape, AgentShape

\* A step of an agent, once its effects on each part are known.
LEMMA AgentStep ==
  ASSUME WellFormed, StoresTypeOK', AgentsTypeOK', AgentsShape', faults' \in 0..MaxFaults,
         archived' \in SUBSET Uploads, UNCHANGED overrun
  PROVE  WellFormed'
BY DEF WellFormed, TypeOK

\* Every step keeps the variables typed and the agents in shape.
LEMMA WellFormedStep == WellFormed /\ [Next]_vars => WellFormed'
<1> SUFFICES ASSUME WellFormed, [Next]_vars PROVE WellFormed'
  OBVIOUS
<1>0. TypeOK /\ StoresTypeOK /\ AgentsTypeOK /\ AgentsShape /\ faults \in 0..MaxFaults
  BY DEF WellFormed, TypeOK
<1>1. ASSUME NEW u \in Uploads, PutObject(u) PROVE WellFormed'
  <2>1. StoresTypeOK'
    BY <1>0, <1>1, UploadsAssumption DEF PutObject, StoresTypeOK
  <2>2. QED
    BY <1>0, <1>1, <2>1, OutsideStep DEF PutObject, TypeOK
<1>2. ASSUME NEW u \in Uploads, CompleteCapture(u) PROVE WellFormed'
  <2>1. StoresTypeOK'
    BY <1>0, <1>2, UploadsAssumption DEF CompleteCapture, StoresTypeOK
  <2>2. QED
    BY <1>0, <1>2, <2>1, OutsideStep DEF CompleteCapture, TypeOK
<1>3. ASSUME NEW i \in Ids, ClaimGoesStale(i) \/ RetentionPasses(i) PROVE WellFormed'
  <2>1. StoresTypeOK' /\ overrun' \in SUBSET Ids
    BY <1>0, <1>3 DEF ClaimGoesStale, RetentionPasses, StoresTypeOK, TypeOK
  <2>2. QED
    BY <1>3, <2>1, OutsideStep DEF ClaimGoesStale, RetentionPasses
<1>4. ASSUME NEW a \in Agents, ClaimPendingCaptures(a) PROVE WellFormed'
  <2>1. StoresTypeOK' /\ AgentsTypeOK' /\ AgentsShape'
    BY <1>0, <1>4
       DEF ClaimPendingCaptures, Claimable, StoresTypeOK, AgentsTypeOK, AgentsShape, AgentShape
  <2>2. QED
    BY <1>0, <1>4, <2>1, AgentStep DEF ClaimPendingCaptures, TypeOK
<1>5. ASSUME NEW a \in Agents, NEW i \in Ids, ReadBlob(a, i) PROVE WellFormed'
  <2>1. StoresTypeOK' /\ UNCHANGED historyVars
    BY <1>0, <1>5 DEF ReadBlob, StoresTypeOK
  <2>2. AgentsTypeOK'
    BY <1>0, <1>5 DEF ReadBlob, Goto, StoresTypeOK, AgentsTypeOK
  <2>3. AgentsShape'
    BY <1>0, <1>5 DEF ReadBlob, Goto, AgentsTypeOK, AgentsShape, AgentShape
  <2>4. faults' \in 0..MaxFaults
    BY <1>0, <1>5, FaultTypes DEF ReadBlob
  <2>5. QED
    BY <1>0, <2>1, <2>2, <2>3, <2>4, AgentStep DEF TypeOK
<1>6. ASSUME NEW a \in Agents, WriteArchive(a) PROVE WellFormed'
  <2>1. StoresTypeOK'
    BY <1>0, <1>6 DEF WriteArchive, StoresTypeOK, Dirs
  <2>2. AgentsTypeOK'
    BY <1>0, <1>6 DEF WriteArchive, Goto, AgentsTypeOK
  <2>3. AgentsShape'
    BY <1>0, <1>6, IdsAssumption
       DEF WriteArchive, Goto, AgentsTypeOK, AgentsShape, AgentShape, Dirs
  <2>4. QED
    BY <1>0, <1>6, <2>1, <2>2, <2>3, AgentStep DEF WriteArchive, TypeOK
<1>7. ASSUME NEW a \in Agents, Commit(a) PROVE WellFormed'
  <2>1. dir[a] \in Dirs /\ blob[a] \in Uploads /\ cur[a] \in Ids
    BY <1>0, <1>7 DEF Commit, AgentsTypeOK, AgentsShape, AgentShape
  <2>2. PICK found \in Dirs :
          /\ InsertOrFind(a, found)
          /\ \/ /\ Goto(a, "delete")
                /\ row' = [row EXCEPT ![a] = found]
                /\ UNCHANGED faults
             \/ /\ Fault
                /\ Goto(a, "lookup")
                /\ UNCHANGED row
    BY <1>7 DEF Commit
  <2>3. rows' \in [Dirs -> Captures \cup {None}] /\ archived' \in SUBSET Uploads
    BY <1>0, <2>1, <2>2, InsertTypes
  <2>4. StoresTypeOK'
    BY <1>0, <1>7, <2>1, <2>3, UploadsAssumption DEF Commit, StoresTypeOK
  <2>5. AgentsTypeOK'
    BY <1>0, <1>7, <2>2 DEF Commit, Goto, AgentsTypeOK
  <2>6. AgentsShape'
    BY <1>0, <1>7, <2>2, IdsAssumption
       DEF Commit, Goto, AgentsTypeOK, AgentsShape, AgentShape, Dirs
  <2>7. faults' \in 0..MaxFaults
    BY <1>0, <2>2, FaultTypes
  <2>8. QED
    BY <1>7, <2>3, <2>4, <2>5, <2>6, <2>7, AgentStep DEF Commit
<1>8. ASSUME NEW a \in Agents, LookupSourceId(a) PROVE WellFormed'
  <2>1. StoresTypeOK' /\ UNCHANGED historyVars
    BY <1>0, <1>8 DEF LookupSourceId, StoresTypeOK
  <2>2. faults' \in 0..MaxFaults
    BY <1>0, <1>8, FaultTypes DEF LookupSourceId
  <2>3. CASE Return(a)
    BY <1>0, <2>1, <2>2, <2>3, ReturnTypes, AgentStep DEF TypeOK
  <2>4. CASE ~Return(a)
    <3>1. PICK d \in Live : /\ row' = [row EXCEPT ![a] = d]
                            /\ Goto(a, "delete")
                            /\ UNCHANGED <<batch, cur, blob, dir>>
      BY <1>8, <2>4 DEF LookupSourceId, Conflicting
    <3>2. AgentsTypeOK'
      BY <1>0, <3>1 DEF AgentsTypeOK, Goto, Live
    <3>3. AgentsShape'
      BY <1>0, <1>8, <3>1, IdsAssumption
         DEF LookupSourceId, AgentsTypeOK, AgentsShape, AgentShape, Goto, Live, Dirs
    <3>4. QED
      BY <1>0, <2>1, <2>2, <3>2, <3>3, AgentStep DEF TypeOK
  <2>5. QED
    BY <2>3, <2>4
<1>9. ASSUME NEW a \in Agents, DeleteBlob(a) PROVE WellFormed'
  <2>1. StoresTypeOK' /\ UNCHANGED historyVars
    BY <1>0, <1>9 DEF DeleteBlob, StoresTypeOK
  <2>2. faults' \in 0..MaxFaults
    BY <1>0, <1>9, FaultTypes DEF DeleteBlob
  <2>3. CASE Return(a)
    BY <1>0, <2>1, <2>2, <2>3, ReturnTypes, AgentStep DEF TypeOK
  <2>4. CASE Goto(a, "mark") /\ UNCHANGED <<batch, cur, blob, dir, row>>
    <3>1. AgentsTypeOK'
      BY <1>0, <2>4 DEF AgentsTypeOK, Goto
    <3>2. AgentsShape'
      BY <1>0, <1>9, <2>4 DEF DeleteBlob, AgentsTypeOK, AgentsShape, AgentShape, Goto
    <3>3. QED
      BY <1>0, <2>1, <2>2, <3>1, <3>2, AgentStep DEF TypeOK
  <2>5. QED
    BY <1>9, <2>3, <2>4 DEF DeleteBlob
<1>10. ASSUME NEW a \in Agents, MarkFetched(a) PROVE WellFormed'
  <2>1. StoresTypeOK' /\ UNCHANGED historyVars
    BY <1>0, <1>10 DEF MarkFetched, StoresTypeOK
  <2>2. faults' \in 0..MaxFaults
    BY <1>0, <1>10, FaultTypes DEF MarkFetched
  <2>3. CASE Return(a)
    BY <1>0, <2>1, <2>2, <2>3, ReturnTypes, AgentStep DEF TypeOK
  <2>4. CASE Goto(a, "clear") /\ UNCHANGED <<batch, cur, blob, dir, row>>
    <3>1. AgentsTypeOK'
      BY <1>0, <2>4 DEF AgentsTypeOK, Goto
    <3>2. AgentsShape'
      BY <1>0, <1>10, <2>4 DEF MarkFetched, AgentsTypeOK, AgentsShape, AgentShape, Goto
    <3>3. QED
      BY <1>0, <2>1, <2>2, <3>1, <3>2, AgentStep DEF TypeOK
  <2>5. QED
    BY <1>10, <2>3, <2>4 DEF MarkFetched
<1>11. ASSUME NEW a \in Agents, ClearSourceId(a) PROVE WellFormed'
  <2>1. rows' \in [Dirs -> Captures \cup {None}]
    BY <1>0, <1>11 DEF ClearSourceId, StoresTypeOK, Captures, SourceIds
  <2>2. StoresTypeOK' /\ UNCHANGED historyVars
    BY <1>0, <1>11, <2>1 DEF ClearSourceId, StoresTypeOK
  <2>3. faults' \in 0..MaxFaults
    BY <1>0, <1>11, FaultTypes DEF ClearSourceId
  <2>4. Return(a)
    BY <1>11 DEF ClearSourceId
  <2>5. QED
    BY <1>0, <2>2, <2>3, <2>4, ReturnTypes, AgentStep DEF TypeOK
<1>12. ASSUME NEW a \in Agents, AttemptFails(a) PROVE WellFormed'
  <2>1. StoresTypeOK' /\ faults' \in 0..MaxFaults
    BY <1>0, <1>12, FaultTypes DEF AttemptFails, StoresTypeOK
  <2>2. AgentsTypeOK' /\ AgentsShape'
    BY <1>0, <1>12 DEF AttemptFails, Goto, AgentsTypeOK, AgentsShape, AgentShape
  <2>3. QED
    BY <1>0, <1>12, <2>1, <2>2, AgentStep DEF AttemptFails, TypeOK
<1>13. ASSUME NEW a \in Agents, Crash(a) PROVE WellFormed'
  <2>1. StoresTypeOK' /\ faults' \in 0..MaxFaults
    BY <1>0, <1>13, FaultTypes DEF Crash, StoresTypeOK
  <2>2. AgentsTypeOK' /\ AgentsShape'
    BY <1>0, <1>13 DEF Crash, Goto, AgentsTypeOK, AgentsShape, AgentShape
  <2>3. QED
    BY <1>0, <1>13, <2>1, <2>2, AgentStep DEF Crash, TypeOK
<1>14. CASE CleanupPendingCaptures
  <2>1. StoresTypeOK'
    BY <1>0, <1>14 DEF CleanupPendingCaptures, StoresTypeOK
  <2>2. QED
    BY <1>0, <1>14, <2>1, OutsideStep DEF CleanupPendingCaptures, TypeOK
<1>15. ASSUME NEW d \in Dirs, DeleteCapture(d) PROVE WellFormed'
  <2>1. StoresTypeOK'
    BY <1>0, <1>15 DEF DeleteCapture, StoresTypeOK
  <2>2. QED
    BY <1>0, <1>15, <2>1, OutsideStep DEF DeleteCapture, TypeOK
<1>16. ASSUME NEW p \in Pages, DeletePage(p) PROVE WellFormed'
  <2>1. StoresTypeOK'
    BY <1>0, <1>16 DEF DeletePage, StoresTypeOK
  <2>2. QED
    BY <1>0, <1>16, <2>1, OutsideStep DEF DeletePage, TypeOK
<1>17. CASE UNCHANGED vars
  BY <1>0, <1>17, OutsideStep DEF vars, StoresTypeOK, TypeOK
<1>18. QED
  BY <1>1, <1>2, <1>3, <1>4, <1>5, <1>6, <1>7, <1>8, <1>9, <1>10, <1>11, <1>12,
     <1>13, <1>14, <1>15, <1>16, <1>17
     DEF Next, Device, Time, Agent, ProcessOne, Dashboard

\* Every reachable state is well formed.
LEMMA AlwaysWellFormed == Spec => []WellFormed
<1>1. Init => WellFormed
  BY UploadsAssumption, BoundsAssumption
     DEF Init, WellFormed, TypeOK, StoresTypeOK, AgentsTypeOK, AgentsShape, AgentShape,
         Dirs, Captures, SourceIds
<1>2. QED
  BY <1>1, WellFormedStep, PTL DEF Spec

\* Every reachable state of the hand-off is well typed: what an agent inserts,
\* reads or deletes is always a capture that was uploaded.
THEOREM TypeCorrect == Spec => []TypeOK
<1>1. WellFormed => TypeOK
  BY DEF WellFormed
<1>2. QED
  BY <1>1, AlwaysWellFormed, PTL

-----------------------------------------------------------------------------
(* The hand-off invariant, one upload at a time.                           *)

Agree(u) == StoresAgree(u) /\ \A a \in Agents : AgentAgrees(a, u)

\* What a step must keep for the agents it does not move: an acknowledgement
\* and an archiving are for good, and an object once deleted stays deleted.
Keeps(u) ==
  /\ device[u] = "acked" => device'[u] = "acked"
  /\ archived \subseteq archived'
  /\ r2'[IdOf[u]] \in {r2[IdOf[u]], None}

\* What agents know of an upload stays true when a step leaves them alone and
\* only lets the upload progress.
LEMMA AgentsKeep ==
  ASSUME NEW u \in Uploads, \A a \in Agents : AgentAgrees(a, u), Keeps(u),
         UNCHANGED agentVars
  PROVE  \A a \in Agents : AgentAgrees(a, u)'
BY DEF AgentAgrees, Keeps

\* An agent that returns from processOne knows nothing any more that could be
\* wrong.
LEMMA ReturnKeeps ==
  ASSUME NEW u \in Uploads, \A a \in Agents : AgentAgrees(a, u), Keeps(u), AgentsTypeOK,
         NEW a \in Agents, Return(a)
  PROVE  \A b \in Agents : AgentAgrees(b, u)'
BY DEF AgentAgrees, Keeps, AgentsTypeOK, Return, Goto

\* An agent goes on to another label with the same capture.
LEMMA GotoKeeps ==
  ASSUME NEW u \in Uploads, \A a \in Agents : AgentAgrees(a, u), Keeps(u), AgentsTypeOK,
         NEW a \in Agents, NEW label, Goto(a, label), UNCHANGED <<batch, cur, blob>>,
         cur[a] = IdOf[u] =>
           /\ label \notin {"write", "commit"} \/ blob[a] = u
           /\ label \in {"delete", "mark", "clear"} => u \in archived'
           /\ label \in {"mark", "clear"} => r2'[IdOf[u]] = None
  PROVE  \A b \in Agents : AgentAgrees(b, u)'
BY DEF AgentAgrees, Keeps, AgentsTypeOK, Goto

\* The transaction of writeToPostgres: whatever branch it takes, the upload
\* the agent works on has been archived afterwards, and the only row that ever
\* carries an upload's id is its own.
LEMMA CommitAgrees ==
  ASSUME WellFormed, NEW u \in Uploads, HasOwnId(u), Agree(u), NEW a \in Agents, Commit(a)
  PROVE  Agree(u)'
<1> DEFINE i == IdOf[u]
<1>1. i \in Ids /\ dir[a] \in Dirs /\ blob[a] \in Uploads /\ cur[a] \in Ids /\ pc[a] = "commit"
  BY UploadsAssumption
     DEF Commit, WellFormed, TypeOK, AgentsTypeOK, AgentsShape, AgentShape
<1>2. PICK found \in Dirs :
        /\ InsertOrFind(a, found)
        /\ \/ Goto(a, "delete")
           \/ Goto(a, "lookup")
  BY DEF Commit
<1>3. rows \in [Dirs -> Captures \cup {None}] /\ dir[a] # i
  BY <1>1, IdsAssumption DEF WellFormed, TypeOK, StoresTypeOK, Dirs
<1>4. cur[a] = i => blob[a] = u
  BY <1>1 DEF Agree, AgentAgrees
<1>5. /\ archived \subseteq archived'
      /\ cur[a] = i => u \in archived'
      /\ \A d \in Live' : rows'[d].sid = i => rows'[d].up = u /\ u \in archived'
  <2>1. ASSUME InsertCapture(dir[a], blob[a], cur[a]) PROVE <1>5
    BY <1>1, <1>3, <1>4, <2>1 DEF InsertCapture, Agree, StoresAgree, Live
  <2>2. ASSUME InsertCapture(dir[a], blob[a], dir[a]) PROVE <1>5
    BY <1>1, <1>3, <1>4, <2>2 DEF InsertCapture, Agree, StoresAgree, Live
  <2>3. ASSUME found \in Conflicting(cur[a]), UNCHANGED <<rows, archived>> PROVE <1>5
    BY <1>1, <1>3, <1>4, <2>3 DEF Conflicting, Agree, StoresAgree, Live
  <2>4. QED
    BY <1>2, <2>1, <2>2, <2>3 DEF InsertOrFind
<1>6. UNCHANGED <<device, r2, pending, age, batch, cur, blob>>
  BY DEF Commit
<1>7. StoresAgree(u)'
  BY <1>5, <1>6 DEF Agree, StoresAgree
<1>8. \A b \in Agents : AgentAgrees(b, u)'
  <2>1. Keeps(u) /\ AgentsTypeOK
    BY <1>5, <1>6 DEF Keeps, WellFormed, TypeOK
  <2>2. QED
    BY <1>2, <1>5, <1>6, <2>1, GotoKeeps DEF Agree
<1>9. QED
  BY <1>7, <1>8 DEF Agree

\* Every step keeps the stores and the agents in agreement about an upload
\* with an id of its own.
LEMMA AgreeStep ==
  ASSUME WellFormed, NEW u \in Uploads, HasOwnId(u), Agree(u), [Next]_vars
  PROVE  Agree(u)'
<1> DEFINE i == IdOf[u]
<1>0. /\ i \in Ids /\ StoresTypeOK /\ AgentsTypeOK /\ AgentsShape
      /\ StoresAgree(u)
      /\ \A a \in Agents : AgentAgrees(a, u)
  BY UploadsAssumption DEF WellFormed, TypeOK, Agree
<1>00. ASSUME NEW a \in Agents, cur[a] = i, pc[a] # "idle" PROVE device[u] = "acked"
  BY <1>0, <1>00 DEF AgentsShape, AgentShape, AgentAgrees
<1>1. ASSUME NEW v \in Uploads, PutObject(v) PROVE Agree(u)'
  <2>1. CASE v = u
    <3>1. StoresAgree(u)'
      BY <1>0, <1>1, <2>1 DEF PutObject, StoresAgree, StoresTypeOK, Live
    <3>2. \A a \in Agents : AgentAgrees(a, u)'
      BY <1>0, <1>00, <1>1, <2>1 DEF PutObject, AgentAgrees, StoresTypeOK
    <3>3. QED
      BY <3>1, <3>2 DEF Agree
  <2>2. CASE v # u
    <3>1. IdOf[v] # i
      BY <2>2 DEF HasOwnId
    <3>2. StoresAgree(u)' /\ Keeps(u)
      BY <1>0, <1>1, <2>2, <3>1 DEF PutObject, StoresAgree, StoresTypeOK, Live, Keeps
    <3>3. QED
      BY <1>0, <1>1, <3>2, AgentsKeep DEF PutObject, Agree
  <2>3. QED
    BY <2>1, <2>2
<1>2. ASSUME NEW v \in Uploads, CompleteCapture(v) PROVE Agree(u)'
  <2>1. v # u => IdOf[v] # i
    BY DEF HasOwnId
  <2>2. StoresAgree(u)'
    BY <1>0, <1>2, <2>1 DEF CompleteCapture, StoresAgree, StoresTypeOK, Live
  <2>3. Keeps(u)
    BY <1>0, <1>2 DEF CompleteCapture, StoresTypeOK, Keeps
  <2>4. QED
    BY <1>0, <1>2, <2>2, <2>3, AgentsKeep DEF CompleteCapture, Agree
<1>3. ASSUME NEW j \in Ids, ClaimGoesStale(j) \/ RetentionPasses(j) PROVE Agree(u)'
  <2>1. StoresAgree(u)' /\ Keeps(u)
    BY <1>0, <1>3 DEF ClaimGoesStale, RetentionPasses, StoresAgree, Live, Keeps
  <2>2. QED
    BY <1>0, <1>3, <2>1, AgentsKeep DEF ClaimGoesStale, RetentionPasses, Agree
<1>4. ASSUME NEW a \in Agents, ClaimPendingCaptures(a) PROVE Agree(u)'
  <2>1. StoresAgree(u)'
    BY <1>0, <1>4 DEF ClaimPendingCaptures, StoresAgree, Live
  <2>2. \A b \in Agents : AgentAgrees(b, u)'
    BY <1>0, <1>4
       DEF ClaimPendingCaptures, Claimable, StoresAgree, AgentAgrees, AgentsTypeOK
  <2>3. QED
    BY <2>1, <2>2 DEF Agree
<1>5. ASSUME NEW a \in Agents, NEW j \in Ids, ReadBlob(a, j) PROVE Agree(u)'
  <2>1. StoresAgree(u)' /\ Keeps(u)
    BY <1>0, <1>5 DEF ReadBlob, StoresAgree, Live, Keeps
  <2>2. \A b \in Agents : AgentAgrees(b, u)'
    BY <1>0, <1>5 DEF ReadBlob, Goto, StoresAgree, AgentAgrees, AgentsTypeOK
  <2>3. QED
    BY <2>1, <2>2 DEF Agree
<1>6. ASSUME NEW a \in Agents, WriteArchive(a) \/ AttemptFails(a) PROVE Agree(u)'
  <2>1. StoresAgree(u)' /\ Keeps(u)
    BY <1>0, <1>6 DEF WriteArchive, AttemptFails, StoresAgree, Live, Keeps
  <2>2. \A b \in Agents : AgentAgrees(b, u)'
    BY <1>0, <1>6 DEF WriteArchive, AttemptFails, Goto, AgentAgrees, AgentsTypeOK
  <2>3. QED
    BY <2>1, <2>2 DEF Agree
<1>7. ASSUME NEW a \in Agents, Commit(a) PROVE Agree(u)'
  BY <1>7, CommitAgrees
<1>8. ASSUME NEW a \in Agents, LookupSourceId(a) PROVE Agree(u)'
  <2>1. StoresAgree(u)' /\ Keeps(u)
    BY <1>0, <1>8 DEF LookupSourceId, StoresAgree, Live, Keeps
  <2>2. CASE Return(a)
    BY <1>0, <2>1, <2>2, ReturnKeeps DEF Agree
  <2>3. CASE /\ Conflicting(cur[a]) # {}
             /\ Goto(a, "delete")
             /\ UNCHANGED <<batch, cur, blob>>
    <3>1. cur[a] = i => u \in archived'
      BY <1>0, <1>8, <2>3 DEF Conflicting, StoresAgree, LookupSourceId
    <3>2. QED
      BY <1>0, <2>1, <2>3, <3>1, GotoKeeps DEF Agree
  <2>4. QED
    BY <1>8, <2>2, <2>3 DEF LookupSourceId
<1>9. ASSUME NEW a \in Agents, DeleteBlob(a) PROVE Agree(u)'
  <2>1. Keeps(u) /\ cur[a] \in Ids /\ (cur[a] = i => u \in archived /\ device[u] = "acked")
    BY <1>0, <1>00, <1>9
       DEF DeleteBlob, Keeps, StoresTypeOK, AgentAgrees, AgentsTypeOK, AgentsShape, AgentShape
  <2>2. StoresAgree(u)'
    BY <1>0, <1>9, <2>1 DEF DeleteBlob, StoresAgree, StoresTypeOK, Live
  <2>3. CASE Return(a)
    BY <1>0, <2>1, <2>2, <2>3, ReturnKeeps DEF Agree
  <2>4. CASE /\ r2' = [r2 EXCEPT ![cur[a]] = None]
             /\ Goto(a, "mark")
             /\ UNCHANGED <<batch, cur, blob>>
    <3>1. cur[a] = i => u \in archived' /\ r2'[i] = None
      BY <1>0, <1>9, <2>1, <2>4 DEF StoresTypeOK, Keeps
    <3>2. QED
      BY <1>0, <2>1, <2>2, <2>4, <3>1, GotoKeeps DEF Agree
  <2>5. QED
    BY <1>9, <2>3, <2>4 DEF DeleteBlob
<1>10. ASSUME NEW a \in Agents, MarkFetched(a) PROVE Agree(u)'
  <2>1. cur[a] \in Ids /\ (cur[a] = i => u \in archived /\ r2[i] = None)
    BY <1>0, <1>10 DEF MarkFetched, AgentAgrees, AgentsTypeOK, AgentsShape, AgentShape
  <2>2. StoresAgree(u)' /\ Keeps(u)
    BY <1>0, <1>10, <2>1 DEF MarkFetched, StoresAgree, StoresTypeOK, Live, Keeps
  <2>3. CASE Return(a)
    BY <1>0, <2>2, <2>3, ReturnKeeps DEF Agree
  <2>4. CASE Goto(a, "clear") /\ UNCHANGED <<batch, cur, blob>>
    <3>1. cur[a] = i => u \in archived' /\ r2'[i] = None
      BY <1>10, <2>1 DEF MarkFetched
    <3>2. QED
      BY <1>0, <2>2, <2>4, <3>1, GotoKeeps DEF Agree
  <2>5. QED
    BY <1>10, <2>3, <2>4 DEF MarkFetched
<1>11. ASSUME NEW a \in Agents, ClearSourceId(a) PROVE Agree(u)'
  <2>1. \A d \in Live' : rows'[d].sid = i => d \in Live /\ rows[d].sid = i /\ rows'[d].up = rows[d].up
    BY <1>0, <1>11, IdsAssumption DEF ClearSourceId, StoresTypeOK, Live
  <2>2. StoresAgree(u)' /\ Keeps(u)
    BY <1>0, <1>11, <2>1 DEF ClearSourceId, StoresAgree, Keeps
  <2>3. QED
    BY <1>0, <1>11, <2>2, ReturnKeeps DEF ClearSourceId, Agree
<1>12. ASSUME NEW a \in Agents, Crash(a) PROVE Agree(u)'
  <2>1. StoresAgree(u)' /\ Keeps(u)
    BY <1>0, <1>12 DEF Crash, StoresAgree, Live, Keeps
  <2>2. \A b \in Agents : AgentAgrees(b, u)'
    BY <1>0, <1>12 DEF Crash, Goto, AgentAgrees, AgentsTypeOK
  <2>3. QED
    BY <2>1, <2>2 DEF Agree
<1>13. CASE CleanupPendingCaptures
  <2>1. StoresAgree(u)' /\ Keeps(u)
    BY <1>0, <1>13 DEF CleanupPendingCaptures, StoresAgree, Live, Keeps
  <2>2. QED
    BY <1>0, <1>13, <2>1, AgentsKeep DEF CleanupPendingCaptures, Agree
<1>14. ASSUME NEW d \in Dirs, DeleteCapture(d) PROVE Agree(u)'
  <2>1. StoresAgree(u)' /\ Keeps(u)
    BY <1>0, <1>14 DEF DeleteCapture, StoresAgree, StoresTypeOK, Live, Keeps
  <2>2. QED
    BY <1>0, <1>14, <2>1, AgentsKeep DEF DeleteCapture, Agree
<1>15. ASSUME NEW p \in Pages, DeletePage(p) PROVE Agree(u)'
  <2>1. StoresAgree(u)' /\ Keeps(u)
    BY <1>0, <1>15 DEF DeletePage, StoresAgree, StoresTypeOK, Live, Keeps
  <2>2. QED
    BY <1>0, <1>15, <2>1, AgentsKeep DEF DeletePage, Agree
<1>16. CASE UNCHANGED vars
  <2>1. StoresAgree(u)' /\ Keeps(u)
    BY <1>0, <1>16 DEF vars, StoresAgree, Live, Keeps
  <2>2. QED
    BY <1>0, <1>16, <2>1, AgentsKeep DEF vars, Agree
<1>17. QED
  BY <1>1, <1>2, <1>3, <1>4, <1>5, <1>6, <1>7, <1>8, <1>9, <1>10, <1>11, <1>12,
     <1>13, <1>14, <1>15, <1>16
     DEF Next, Device, Time, Agent, ProcessOne, Dashboard

\* The four stores and every agent agree about every upload with an id of its
\* own, at every step of processOne.
THEOREM HandOff == Spec => []HandOffInv
<1> DEFINE Inv == WellFormed /\ HandOffInv
<1>0. HandOffInv <=> AgentsShape /\ \A u \in Uploads : HasOwnId(u) => Agree(u)
  BY DEF HandOffInv, AgentsShape, Agree
<1>1. Init => Inv
  <2> SUFFICES ASSUME Init PROVE Inv
    OBVIOUS
  <2>1. WellFormed
    BY UploadsAssumption, BoundsAssumption
       DEF Init, WellFormed, TypeOK, StoresTypeOK, AgentsTypeOK, AgentsShape, AgentShape,
           Dirs, Captures, SourceIds
  <2>2. ASSUME NEW u \in Uploads PROVE Agree(u)
    BY UploadsAssumption DEF Init, Agree, StoresAgree, AgentAgrees, Live
  <2>3. QED
    BY <1>0, <2>1, <2>2 DEF WellFormed
<1>2. Inv /\ [Next]_vars => Inv'
  <2> SUFFICES ASSUME Inv, [Next]_vars PROVE Inv'
    OBVIOUS
  <2>1. WellFormed'
    BY WellFormedStep
  <2>2. ASSUME NEW u \in Uploads, HasOwnId(u) PROVE Agree(u)'
    BY <1>0, <2>2, AgreeStep
  <2>3. AgentsShape' /\ \A u \in Uploads : HasOwnId(u)' => Agree(u)'
    BY <2>1, <2>2 DEF WellFormed, HasOwnId
  <2>4. HandOffInv'
    BY <2>3 DEF HandOffInv, AgentsShape, Agree
  <2>5. QED
    BY <2>1, <2>4
<1>3. Inv => HandOffInv
  OBVIOUS
<1>4. QED
  BY <1>1, <1>2, <1>3, PTL DEF Spec

\* No acknowledged capture is lost: until it has been archived, its row and its
\* object are both still there for the next attempt.
THEOREM NeverLost == Spec => []CaptureNeverLost
<1>1. HandOffInv => CaptureNeverLost
  BY DEF HandOffInv, CaptureNeverLost, StoresAgree
<1>2. QED
  BY <1>1, HandOff, PTL

\* A row is flagged fetched only when its object is gone.
THEOREM NoLeak == Spec => []NoBlobLeak
<1>1. HandOffInv => NoBlobLeak
  BY DEF HandOffInv, NoBlobLeak, StoresAgree
<1>2. QED
  BY <1>1, HandOff, PTL

-----------------------------------------------------------------------------
(* The transaction of writeToPostgres.                                     *)

\* Every step leaves each captures row with the jobs of its own insertion.
LEMMA JobsStep == TypeOK /\ JobsEnqueuedOnce /\ [Next]_vars => JobsEnqueuedOnce'
<1> SUFFICES ASSUME TypeOK, JobsEnqueuedOnce, [Next]_vars PROVE JobsEnqueuedOnce'
  OBVIOUS
<1>0. rows \in [Dirs -> Captures \cup {None}]
  BY DEF TypeOK, StoresTypeOK
<1>1. ASSUME NEW a \in Agents, Commit(a) PROVE JobsEnqueuedOnce'
  <2>1. PICK found \in Dirs : InsertOrFind(a, found)
    BY <1>1 DEF Commit
  <2>2. QED
    BY <1>0, <2>1 DEF InsertOrFind, InsertCapture, JobsEnqueuedOnce, Live
<1>2. ASSUME NEW a \in Agents, ClearSourceId(a) PROVE JobsEnqueuedOnce'
  BY <1>0, <1>2 DEF ClearSourceId, JobsEnqueuedOnce, Live
<1>3. ASSUME NEW d \in Dirs, DeleteCapture(d) PROVE JobsEnqueuedOnce'
  BY <1>0, <1>3 DEF DeleteCapture, JobsEnqueuedOnce, Live
<1>4. ASSUME NEW p \in Pages, DeletePage(p) PROVE JobsEnqueuedOnce'
  BY <1>0, <1>4 DEF DeletePage, JobsEnqueuedOnce, Live
<1>5. ASSUME UNCHANGED rows PROVE JobsEnqueuedOnce'
  BY <1>5 DEF JobsEnqueuedOnce, Live
<1>6. QED
  BY <1>1, <1>2, <1>3, <1>4, <1>5
     DEF Next, Device, Time, Agent, ProcessOne, Dashboard, vars, PutObject, CompleteCapture,
         ClaimGoesStale, RetentionPasses, ClaimPendingCaptures, CleanupPendingCaptures,
         ReadBlob, WriteArchive, AttemptFails, LookupSourceId, DeleteBlob, MarkFetched, Crash

\* However often an upload is processed, its captures row has one screenshot
\* and one readability job from ingestion.
THEOREM JobsOnce == Spec => []JobsEnqueuedOnce
<1>1. Init => JobsEnqueuedOnce
  BY DEF Init, JobsEnqueuedOnce, Live
<1>2. QED
  BY <1>1, JobsStep, TypeCorrect, PTL DEF Spec

\* A step that takes an agent from the transaction to the deletion of the
\* object has found or inserted a row with the bytes it read.
LEMMA RetryStep ==
  ASSUME WellFormed, Next, NEW a \in Agents, pc[a] = "commit", pc'[a] = "delete"
  PROVE  rows'[row'[a]].up = blob[a]
<1>0. AgentsTypeOK /\ AgentsShape /\ rows \in [Dirs -> Captures \cup {None}]
  BY DEF WellFormed, TypeOK, StoresTypeOK
<1>1. CASE Commit(a)
  <2>1. PICK found \in Dirs : InsertOrFind(a, found) /\ row' = [row EXCEPT ![a] = found]
    BY <1>0, <1>1 DEF Commit, Goto, AgentsTypeOK
  <2>2. rows'[found].up = blob[a]
    BY <1>0, <2>1 DEF InsertOrFind, InsertCapture, AgentsShape, AgentShape
  <2>3. QED
    BY <1>0, <2>1, <2>2 DEF AgentsTypeOK
<1>2. ASSUME NEW b \in Agents, b # a, Agent(b) PROVE pc'[a] = pc[a]
  BY <1>0, <1>2
     DEF Agent, ProcessOne, ClaimPendingCaptures, ReadBlob, WriteArchive, Commit,
         LookupSourceId, DeleteBlob, MarkFetched, ClearSourceId, AttemptFails, Crash,
         Return, Goto, AgentsTypeOK
<1>3. ASSUME Agent(a), ~Commit(a) PROVE pc'[a] # "delete"
  BY <1>0, <1>3
     DEF Agent, ProcessOne, ClaimPendingCaptures, ReadBlob, WriteArchive,
         LookupSourceId, DeleteBlob, MarkFetched, ClearSourceId, AttemptFails, Crash,
         Return, Goto, AgentsTypeOK
<1>4. ASSUME UNCHANGED agentVars PROVE pc'[a] = pc[a]
  BY <1>4
<1>5. QED
  BY <1>1, <1>2, <1>3, <1>4
     DEF Next, Device, Time, Dashboard, PutObject, CompleteCapture, ClaimGoesStale,
         RetentionPasses, CleanupPendingCaptures, DeleteCapture, DeletePage

\* A transaction that succeeds resolves to a row with the bytes this attempt
\* read, also when another capture already uses its id.
THEOREM RetryFinds == Spec => RetryOrCollision
<1>1. WellFormed /\ [Next]_vars =>
        [\A a \in Agents :
           pc[a] = "commit" /\ pc'[a] = "delete" => rows'[row'[a]].up = blob[a]]_vars
  BY RetryStep
<1>2. QED
  BY <1>1, AlwaysWellFormed, PTL DEF Spec, RetryOrCollision

-----------------------------------------------------------------------------
(* The refinement of Delivery.  Two more invariants are needed: an object  *)
(* and the bytes an agent read belong to the key they are under, and a     *)
(* directory an agent is about to commit has never been committed.         *)

Keyed ==
  /\ \A i \in Ids : r2[i] # None => IdOf[r2[i]] = i
  /\ \A a \in Agents : pc[a] \in {"write", "commit"} => IdOf[blob[a]] = cur[a]

DirsFresh ==
  /\ \A d \in Live : d < nextDir
  /\ \A a \in Agents : dir[a] # None => dir[a] < nextDir
  /\ \A a \in Agents : pc[a] = "commit" =>
       dir[a] \notin Live /\ \A b \in Agents \ {a} : pc[b] = "commit" => dir[b] # dir[a]

\* Every step keeps the object under a key one that was put there for it.
LEMMA KeyedStep == WellFormed /\ Keyed /\ [Next]_vars => Keyed'
<1> SUFFICES ASSUME WellFormed, Keyed, [Next]_vars PROVE Keyed'
  OBVIOUS
<1>0. StoresTypeOK /\ AgentsTypeOK
  BY DEF WellFormed, TypeOK
<1>1. ASSUME NEW u \in Uploads, PutObject(u) PROVE Keyed'
  BY <1>0, <1>1, UploadsAssumption DEF PutObject, Keyed, StoresTypeOK
<1>2. ASSUME NEW a \in Agents, NEW i \in Ids, ReadBlob(a, i) PROVE Keyed'
  BY <1>0, <1>2 DEF ReadBlob, Goto, Keyed, AgentsTypeOK
<1>3. ASSUME NEW a \in Agents,
             WriteArchive(a) \/ AttemptFails(a) \/ Commit(a) \/ LookupSourceId(a)
      PROVE  Keyed'
  BY <1>0, <1>3
     DEF WriteArchive, AttemptFails, Commit, LookupSourceId, Return, Goto, Keyed, AgentsTypeOK
<1>4. ASSUME NEW a \in Agents, DeleteBlob(a) PROVE Keyed'
  BY <1>0, <1>4 DEF DeleteBlob, Return, Goto, Keyed, AgentsTypeOK, StoresTypeOK
<1>5. ASSUME NEW a \in Agents, MarkFetched(a) \/ ClearSourceId(a) \/ Crash(a) PROVE Keyed'
  BY <1>0, <1>5 DEF MarkFetched, ClearSourceId, Crash, Return, Goto, Keyed, AgentsTypeOK
<1>6. ASSUME UNCHANGED <<r2, pc, blob, cur>> PROVE Keyed'
  BY <1>6 DEF Keyed
<1>7. QED
  BY <1>1, <1>2, <1>3, <1>4, <1>5, <1>6
     DEF Next, Device, Time, Agent, ProcessOne, Dashboard, vars, CompleteCapture,
         ClaimGoesStale, RetentionPasses, ClaimPendingCaptures, CleanupPendingCaptures,
         DeleteCapture, DeletePage

\* No two attempts write to the same directory: every step keeps the
\* directories of unfinished attempts apart from each other and from the rows.
LEMMA DirsFreshStep == WellFormed /\ DirsFresh /\ [Next]_vars => DirsFresh'
<1> SUFFICES ASSUME WellFormed, DirsFresh, [Next]_vars PROVE DirsFresh'
  OBVIOUS
<1>0. StoresTypeOK /\ AgentsTypeOK /\ AgentsShape /\ Dirs \subseteq Nat /\ None \notin Dirs
  BY IdsAssumption DEF WellFormed, TypeOK, Dirs
<1> DEFINE Calm == /\ Live' \subseteq Live
                   /\ UNCHANGED nextDir
<1>1. ASSUME Calm, UNCHANGED agentVars PROVE DirsFresh'
  BY <1>1 DEF DirsFresh
<1>2. ASSUME Calm, NEW a \in Agents, NEW label \in {"idle", "write", "lookup", "delete", "mark", "clear"},
             Goto(a, label), dir' = dir \/ dir' = [dir EXCEPT ![a] = None]
      PROVE  DirsFresh'
  BY <1>0, <1>2 DEF DirsFresh, Goto, AgentsTypeOK
<1>3. ASSUME NEW a \in Agents, WriteArchive(a) PROVE DirsFresh'
  <2>1. /\ nextDir \in Dirs
        /\ nextDir' = nextDir + 1
        /\ dir' = [dir EXCEPT ![a] = nextDir]
        /\ pc' = [pc EXCEPT ![a] = "commit"]
        /\ Live' = Live
    BY <1>3 DEF WriteArchive, Goto, Live
  <2>2. nextDir \notin Live
    BY <1>0, <2>1 DEF DirsFresh, Live
  <2>3. \A b \in Agents : pc[b] = "commit" => dir[b] \in Dirs /\ dir[b] # nextDir
    BY <1>0, <2>1 DEF DirsFresh, AgentsShape, AgentShape, AgentsTypeOK
  <2>4. \A d \in Live' : d < nextDir'
    BY <1>0, <2>1 DEF DirsFresh, Live
  <2>5. ASSUME NEW b \in Agents, dir'[b] # None PROVE dir'[b] < nextDir'
    <3>1. nextDir \in Nat /\ nextDir < nextDir + 1
      BY <1>0, <2>1
    <3>2. CASE b = a
      BY <1>0, <2>1, <3>1, <3>2 DEF AgentsTypeOK
    <3>3. CASE b # a
      <4>1. dir'[b] = dir[b] /\ dir[b] \in Nat /\ dir[b] < nextDir
        BY <1>0, <2>1, <2>5, <3>3 DEF DirsFresh, AgentsTypeOK
      <4>2. QED
        BY <2>1, <3>1, <4>1
    <3>4. QED
      BY <3>2, <3>3
  <2>6. \A b \in Agents : pc'[b] = "commit" =>
          dir'[b] \notin Live' /\ \A c \in Agents \ {b} : pc'[c] = "commit" => dir'[c] # dir'[b]
    BY <1>0, <2>1, <2>2, <2>3 DEF DirsFresh, AgentsTypeOK
  <2>7. QED
    BY <2>4, <2>5, <2>6 DEF DirsFresh
<1>4. ASSUME NEW a \in Agents, Commit(a) PROVE DirsFresh'
  <2>1. pc[a] = "commit" /\ dir[a] \in Dirs
    BY <1>0, <1>4 DEF Commit, AgentsShape, AgentShape, AgentsTypeOK
  <2>2. Live' \subseteq Live \cup {dir[a]}
    BY <1>0, <1>4, <2>1 DEF Commit, InsertOrFind, InsertCapture, Live, StoresTypeOK
  <2>3. \E label \in {"lookup", "delete"} : Goto(a, label)
    BY <1>4 DEF Commit
  <2>4. UNCHANGED <<nextDir, dir>>
    BY <1>4 DEF Commit
  <2>5. QED
    BY <1>0, <2>1, <2>2, <2>3, <2>4 DEF DirsFresh, Goto, AgentsTypeOK
<1>5. ASSUME NEW a \in Agents, NEW i \in Ids, ReadBlob(a, i) PROVE DirsFresh'
  BY <1>2, <1>5 DEF ReadBlob, Live
<1>6. ASSUME NEW a \in Agents, AttemptFails(a) PROVE DirsFresh'
  BY <1>2, <1>6 DEF AttemptFails, Live
<1>7. ASSUME NEW a \in Agents,
             LookupSourceId(a) \/ DeleteBlob(a) \/ MarkFetched(a) \/ Crash(a)
      PROVE  DirsFresh'
  BY <1>2, <1>7 DEF LookupSourceId, DeleteBlob, MarkFetched, Crash, Return, Live
<1>8. ASSUME NEW a \in Agents, ClearSourceId(a) PROVE DirsFresh'
  <2>1. Live' \subseteq Live
    BY <1>0, <1>8 DEF ClearSourceId, Live, StoresTypeOK
  <2>2. QED
    BY <1>2, <1>8, <2>1 DEF ClearSourceId, Return
<1>9. ASSUME NEW a \in Agents, ClaimPendingCaptures(a) PROVE DirsFresh'
  BY <1>9 DEF ClaimPendingCaptures, DirsFresh, Live
<1>10. ASSUME NEW d \in Dirs, DeleteCapture(d) PROVE DirsFresh'
  BY <1>0, <1>1, <1>10 DEF DeleteCapture, Live, StoresTypeOK
<1>11. ASSUME NEW p \in Pages, DeletePage(p) PROVE DirsFresh'
  BY <1>1, <1>11 DEF DeletePage, Live
<1>12. ASSUME UNCHANGED <<rows, nextDir, agentVars>> PROVE DirsFresh'
  BY <1>1, <1>12 DEF Live
<1>13. QED
  BY <1>3, <1>4, <1>5, <1>6, <1>7, <1>8, <1>9, <1>10, <1>11, <1>12
     DEF Next, Device, Time, Agent, ProcessOne, Dashboard, vars, PutObject, CompleteCapture,
         ClaimGoesStale, RetentionPasses, CleanupPendingCaptures

\* What the refinement needs of a state when every upload has its own id.
RefInv ==
  /\ WellFormed
  /\ HandOffInv
  /\ Keyed
  /\ DirsFresh
  /\ \A u \in archived : device[u] = "acked"

\* Every step keeps the invariant the refinement rests on.
LEMMA RefInvStep ==
  ASSUME \A u \in Uploads : HasOwnId(u)
  PROVE  RefInv /\ [Next]_vars => RefInv'
<1> SUFFICES ASSUME RefInv, [Next]_vars PROVE RefInv'
  OBVIOUS
<1>1. WellFormed' /\ Keyed' /\ DirsFresh'
  BY WellFormedStep, KeyedStep, DirsFreshStep DEF RefInv
<1>2. \A u \in Uploads : Agree(u)'
  BY AgreeStep DEF RefInv, HandOffInv, Agree
<1>3. HandOffInv'
  BY <1>1, <1>2 DEF WellFormed, AgentsShape, HandOffInv, Agree
<1>4. \A u \in archived' : device'[u] = "acked"
  <2>0. StoresTypeOK /\ AgentsTypeOK /\ AgentsShape /\ archived \subseteq Uploads
    BY DEF RefInv, WellFormed, TypeOK
  <2>1. ASSUME NEW a \in Agents, Commit(a) PROVE <1>4
    <3>1. blob[a] \in Uploads /\ IdOf[blob[a]] \in batch[a]
      BY <2>0, <2>1 DEF Commit, RefInv, Keyed, AgentsShape, AgentShape, AgentsTypeOK
    <3>2. device[blob[a]] = "acked"
      BY <3>1 DEF RefInv, HandOffInv, AgentAgrees
    <3>3. archived' \subseteq archived \cup {blob[a]} /\ device' = device
      BY <2>1 DEF Commit, InsertOrFind, InsertCapture
    <3>4. QED
      BY <3>2, <3>3 DEF RefInv
  <2>2. ASSUME archived' = archived,
               \A u \in Uploads : device[u] = "acked" => device'[u] = "acked"
        PROVE  <1>4
    BY <2>0, <2>2 DEF RefInv
  <2>3. ASSUME NEW v \in Uploads, PutObject(v) \/ CompleteCapture(v) PROVE <1>4
    BY <2>0, <2>2, <2>3 DEF PutObject, CompleteCapture, StoresTypeOK
  <2>4. ASSUME UNCHANGED <<device, archived>> PROVE <1>4
    BY <2>2, <2>4
  <2>5. QED
    BY <2>1, <2>3, <2>4
       DEF Next, Device, Time, Agent, ProcessOne, Dashboard, vars,
           ClaimGoesStale, RetentionPasses, ClaimPendingCaptures, CleanupPendingCaptures,
           ReadBlob, WriteArchive, AttemptFails, LookupSourceId, DeleteBlob, MarkFetched,
           ClearSourceId, Crash, DeleteCapture, DeletePage
<1>5. QED
  BY <1>1, <1>3, <1>4 DEF RefInv

ArchivedNow == {rows[d].up : d \in Live}

\* A step that keeps the buffer and what was ever archived, and archives
\* nothing, is a deletion by the user or a stutter.
LEMMA KeepsBuffer ==
  ASSUME Held' = Held, archived' = archived, ArchivedNow' \subseteq ArchivedNow,
         ArchivedNow \subseteq Uploads
  PROVE  [D!Next]_(D!vars)
<1>1. PICK S \in SUBSET Uploads : S = ArchivedNow \ ArchivedNow'
  OBVIOUS
<1>2. ArchivedNow' = ArchivedNow \ S
  BY <1>1
<1>3. D!Delete(S)
  BY <1>2 DEF D!Delete, ArchivedNow
<1>4. QED
  BY <1>3 DEF D!Next

\* Every step of the hand-off is a step of Delivery or a stutter.
LEMMA RefStep ==
  ASSUME \A u \in Uploads : HasOwnId(u), RefInv, [Next]_vars
  PROVE  [D!Next]_(D!vars)
<1>0. /\ StoresTypeOK /\ AgentsTypeOK /\ AgentsShape /\ archived \subseteq Uploads
      /\ \A u \in Uploads : StoresAgree(u) /\ IdOf[u] \in Ids
      /\ \A u \in Uploads, a \in Agents : AgentAgrees(a, u)
      /\ \A u, v \in Uploads : IdOf[u] = IdOf[v] => u = v
  BY UploadsAssumption DEF RefInv, HandOffInv, WellFormed, TypeOK, HasOwnId
<1>1. ArchivedNow \subseteq Uploads
  BY <1>0 DEF ArchivedNow, Live, StoresTypeOK, Captures
<1>2. ASSUME NEW v \in Uploads, PutObject(v) PROVE [D!Next]_(D!vars)
  <2>1. \A u \in Uploads : IdOf[u] = IdOf[v] => u = v
    BY <1>0
  <2>2. Held' = Held
    BY <1>0, <1>2, <2>1 DEF PutObject, Held, StoresTypeOK
  <2>3. ArchivedNow' = ArchivedNow /\ archived' = archived
    BY <1>2 DEF PutObject, ArchivedNow, Live
  <2>4. QED
    BY <1>1, <2>2, <2>3, KeepsBuffer
<1>3. ASSUME NEW v \in Uploads, CompleteCapture(v) PROVE [D!Next]_(D!vars)
  <2>1. device[v] = "put" /\ pending[IdOf[v]] = "absent" /\ r2[IdOf[v]] = v
    BY <1>0, <1>3 DEF CompleteCapture, StoresAgree, StoresTypeOK
  <2>2. /\ device' = [device EXCEPT ![v] = "acked"]
        /\ pending' = [pending EXCEPT ![IdOf[v]] = "waiting"]
        /\ UNCHANGED <<r2, rows, archived>>
    BY <1>3, <2>1 DEF CompleteCapture
  <2>3. Held' = Held \cup {v}
    BY <1>0, <2>1, <2>2 DEF Held, StoresTypeOK
  <2>4. v \notin Held \cup archived
    BY <2>1 DEF Held, RefInv
  <2>5. UNCHANGED ArchivedNow
    BY <2>2 DEF ArchivedNow, Live
  <2>6. D!Accept(v)
    BY <2>2, <2>3, <2>4, <2>5 DEF D!Accept, ArchivedNow
  <2>7. QED
    BY <2>6 DEF D!Next
<1>4. ASSUME NEW a \in Agents, Commit(a) PROVE [D!Next]_(D!vars)
  <2>1. /\ dir[a] \in Dirs /\ dir[a] \notin Live
        /\ blob[a] \in Uploads /\ cur[a] \in batch[a] /\ cur[a] \in Ids
        /\ IdOf[blob[a]] = cur[a]
    BY <1>0, <1>4
       DEF Commit, RefInv, DirsFresh, Keyed, AgentsShape, AgentShape, AgentsTypeOK
  <2>2. blob[a] \in Held \cup archived
    BY <1>0, <2>1 DEF AgentAgrees, StoresAgree, Held
  <2>3. Held' = Held
    BY <1>4 DEF Commit, Held
  <2>4. PICK found \in Dirs : InsertOrFind(a, found)
    BY <1>4 DEF Commit
  <2>5. ASSUME NEW sid \in SourceIds, InsertCapture(dir[a], blob[a], sid)
        PROVE  ArchivedNow' = ArchivedNow \cup {blob[a]} /\ archived' = archived \cup {blob[a]}
    <3>1. /\ rows' = [rows EXCEPT ![dir[a]] = [up |-> blob[a], sid |-> sid, jobs |-> 1]]
          /\ archived' = archived \cup {blob[a]}
      BY <2>5 DEF InsertCapture
    <3>2. [up |-> blob[a], sid |-> sid, jobs |-> 1] # None
      BY <2>1, NullAssumption DEF Captures
    <3>3. Live' = Live \cup {dir[a]}
      BY <1>0, <2>1, <3>1, <3>2 DEF Live, StoresTypeOK
    <3>4. rows'[dir[a]].up = blob[a] /\ \A d \in Live : rows'[d] = rows[d]
      BY <1>0, <2>1, <3>1 DEF Live, StoresTypeOK
    <3>5. QED
      BY <3>1, <3>3, <3>4 DEF ArchivedNow
  <2>6. ASSUME found \in Conflicting(cur[a]), UNCHANGED <<rows, archived>>
        PROVE  ArchivedNow' = ArchivedNow \cup {blob[a]} /\ archived' = archived \cup {blob[a]}
    <3>1. found \in Live /\ rows[found].up = blob[a] /\ blob[a] \in archived
      BY <1>0, <2>1, <2>6 DEF Conflicting, StoresAgree
    <3>2. blob[a] \in ArchivedNow
      BY <3>1 DEF ArchivedNow
    <3>3. ArchivedNow' = ArchivedNow
      BY <2>6 DEF ArchivedNow, Live
    <3>4. QED
      BY <2>6, <3>1, <3>2, <3>3
  <2>7. ArchivedNow' = ArchivedNow \cup {blob[a]} /\ archived' = archived \cup {blob[a]}
    <3>1. cur[a] \in SourceIds /\ dir[a] \in SourceIds
      BY <2>1 DEF SourceIds
    <3>2. QED
      BY <2>4, <2>5, <2>6, <3>1 DEF InsertOrFind
  <2>8. PICK v \in Uploads : v = blob[a]
    BY <2>1
  <2>9. D!Archive(v)
    BY <2>2, <2>3, <2>7, <2>8 DEF D!Archive, ArchivedNow
  <2>10. QED
    BY <2>9 DEF D!Next
<1>5. ASSUME NEW a \in Agents, DeleteBlob(a) PROVE [D!Next]_(D!vars)
  <2>1. UNCHANGED <<device, pending, rows, archived>> /\ cur[a] \in Ids /\ pc[a] = "delete"
    BY <1>0, <1>5 DEF DeleteBlob, AgentsShape, AgentShape, AgentsTypeOK
  <2>2. ArchivedNow' = ArchivedNow
    BY <2>1 DEF ArchivedNow, Live
  <2>3. CASE r2' = r2
    BY <1>1, <2>1, <2>2, <2>3, KeepsBuffer DEF Held
  <2>4. CASE r2' = [r2 EXCEPT ![cur[a]] = None]
    <3>1. None \notin Uploads
      BY IdsAssumption
    <3>2. CASE \E u \in Held : IdOf[u] = cur[a]
      <4>1. PICK u \in Held : IdOf[u] = cur[a]
        BY <3>2
      <4>2. u \in Uploads /\ \A v \in Uploads : IdOf[v] = cur[a] => v = u
        BY <1>0, <4>1 DEF Held
      <4>3. Held' = Held \ {u}
        BY <1>0, <2>1, <2>4, <3>1, <4>1, <4>2 DEF Held, StoresTypeOK
      <4>4. u \in archived
        BY <1>0, <2>1, <4>1, <4>2 DEF AgentAgrees
      <4>5. D!Release(u)
        BY <2>1, <2>2, <4>1, <4>3, <4>4 DEF D!Release, ArchivedNow
      <4>6. QED
        BY <4>2, <4>5 DEF D!Next
    <3>3. CASE ~\E u \in Held : IdOf[u] = cur[a]
      <4>1. Held' = Held
        BY <1>0, <2>1, <2>4, <3>1, <3>3 DEF Held, StoresTypeOK
      <4>2. QED
        BY <1>1, <2>1, <2>2, <4>1, KeepsBuffer
    <3>4. QED
      BY <3>2, <3>3
  <2>5. QED
    BY <1>5, <2>3, <2>4 DEF DeleteBlob
<1>6. ASSUME NEW a \in Agents, MarkFetched(a) PROVE [D!Next]_(D!vars)
  <2>1. /\ cur[a] \in Ids
        /\ UNCHANGED <<device, r2, rows, archived>>
        /\ pending' = pending \/ pending' = [pending EXCEPT ![cur[a]] = "fetched"]
        /\ \A u \in Uploads : IdOf[u] = cur[a] => r2[IdOf[u]] # u
    BY <1>0, <1>6, IdsAssumption
       DEF MarkFetched, AgentsShape, AgentShape, AgentsTypeOK, AgentAgrees
  <2>2. Held' = Held
    BY <1>0, <2>1 DEF Held, StoresTypeOK
  <2>3. QED
    BY <1>1, <2>1, <2>2, KeepsBuffer DEF ArchivedNow, Live
<1>7. ASSUME CleanupPendingCaptures PROVE [D!Next]_(D!vars)
  <2>1. Held' = Held
    BY <1>0, <1>7 DEF CleanupPendingCaptures, Held, StoresTypeOK
  <2>2. QED
    BY <1>1, <1>7, <2>1, KeepsBuffer DEF CleanupPendingCaptures, ArchivedNow, Live
<1>8. ASSUME ArchivedNow' \subseteq ArchivedNow, UNCHANGED <<device, r2, pending, archived>>
      PROVE  [D!Next]_(D!vars)
  BY <1>1, <1>8, KeepsBuffer DEF Held
<1>9. ASSUME NEW a \in Agents, ClearSourceId(a) PROVE [D!Next]_(D!vars)
  <2>1. Live' \subseteq Live /\ \A d \in Live' : rows'[d].up = rows[d].up
    BY <1>0, <1>9 DEF ClearSourceId, Live, StoresTypeOK
  <2>2. ArchivedNow' \subseteq ArchivedNow
    BY <2>1 DEF ArchivedNow
  <2>3. QED
    BY <1>8, <1>9, <2>2 DEF ClearSourceId
<1>10. ASSUME (\E d \in Dirs : DeleteCapture(d)) \/ (\E p \in Pages : DeletePage(p))
       PROVE  [D!Next]_(D!vars)
  <2>1. Live' \subseteq Live /\ \A d \in Live' : rows'[d].up = rows[d].up
    BY <1>0, <1>10 DEF DeleteCapture, DeletePage, Live, StoresTypeOK
  <2>2. ArchivedNow' \subseteq ArchivedNow
    BY <2>1 DEF ArchivedNow
  <2>3. QED
    BY <1>8, <1>10, <2>2 DEF DeleteCapture, DeletePage
<1>11. ASSUME UNCHANGED <<device, r2, pending, rows, archived>> PROVE [D!Next]_(D!vars)
  BY <1>8, <1>11 DEF ArchivedNow, Live
<1>12. QED
  BY <1>2, <1>3, <1>4, <1>5, <1>6, <1>7, <1>9, <1>10, <1>11
     DEF Next, Device, Time, Agent, ProcessOne, Dashboard, vars,
         ClaimGoesStale, RetentionPasses, ClaimPendingCaptures, ReadBlob, WriteArchive,
         AttemptFails, LookupSourceId, Crash

\* When every upload has its own id, the hand-off implements Delivery: nothing
\* accepted is let go of before it was archived, and nothing else is archived.
THEOREM Implements ==
  ASSUME \A u \in Uploads : HasOwnId(u)
  PROVE  Spec => ImplementsDelivery
<1>1. Init => RefInv
  <2> SUFFICES ASSUME Init PROVE RefInv
    OBVIOUS
  <2>1. WellFormed
    BY UploadsAssumption, BoundsAssumption
       DEF Init, WellFormed, TypeOK, StoresTypeOK, AgentsTypeOK, AgentsShape, AgentShape,
           Dirs, Captures, SourceIds
  <2>2. \A u \in Uploads : StoresAgree(u) /\ \A a \in Agents : AgentAgrees(a, u)
    BY UploadsAssumption DEF Init, StoresAgree, AgentAgrees, Live
  <2>3. Keyed /\ DirsFresh /\ archived = {}
    BY DEF Init, Keyed, DirsFresh, Live
  <2>4. QED
    BY <2>1, <2>2, <2>3 DEF RefInv, HandOffInv, WellFormed, AgentsShape
<1>2. RefInv /\ [Next]_vars => RefInv'
  BY RefInvStep
<1>3. Init => D!Init
  BY UploadsAssumption DEF Init, D!Init, Held, Live
<1>4. RefInv /\ [Next]_vars => [D!Next]_(D!vars)
  BY RefStep
<1>5. QED
  BY <1>1, <1>2, <1>3, <1>4, PTL DEF Spec, ImplementsDelivery, D!Spec
-----------------------------------------------------------------------------
(* Once.  A capture is archived once because one agent holds its claim and *)
(* because an attempt finds the row of an earlier one by its source id,    *)
(* which is cleared only when nobody can claim the capture any more.       *)

\* A row is that of the capture it is keyed with, and so is the row that an agent
\* past its transaction ended up with; nobody is about to write to that row.
RowsOwn ==
  /\ \A d \in Live : rows[d].sid \in Ids => IdOf[rows[d].up] = rows[d].sid
  /\ \A a \in Agents : pc[a] \in {"delete", "mark", "clear"} /\ row[a] \in Live => IdOf[rows[row[a]].up] = cur[a]
  /\ \A a \in Agents : row[a] # None =>
       row[a] < nextDir /\ \A b \in Agents : pc[b] = "commit" => dir[b] # row[a]

\* Every step keeps agents at rows of the captures they work on.
LEMMA RowsOwnStep == WellFormed /\ Keyed /\ DirsFresh /\ RowsOwn /\ [Next]_vars => RowsOwn'
<1> SUFFICES ASSUME WellFormed, Keyed, DirsFresh, RowsOwn, [Next]_vars PROVE RowsOwn'
  OBVIOUS
<1>0. /\ StoresTypeOK /\ AgentsTypeOK /\ AgentsShape /\ Dirs \subseteq Nat /\ None \notin Dirs
      /\ \A d \in Dirs : d \notin Ids
  BY IdsAssumption DEF WellFormed, TypeOK, Dirs
<1> DEFINE Calm == /\ UNCHANGED nextDir
                   /\ \A d \in Dirs : rows'[d] # None =>
                        rows[d] # None /\ rows'[d].up = rows[d].up /\ rows'[d].sid \in {rows[d].sid, None}
<1>1. Calm => \A d \in Live' : rows'[d].sid \in Ids => IdOf[rows'[d].up] = rows'[d].sid
  BY IdsAssumption DEF Live, RowsOwn
<1>2. ASSUME Calm, UNCHANGED agentVars PROVE RowsOwn'
  BY <1>1, <1>2 DEF RowsOwn, Live, AgentsTypeOK
<1>3. ASSUME Calm, NEW a \in Agents, Return(a) PROVE RowsOwn'
  BY <1>0, <1>1, <1>3 DEF RowsOwn, Live, Return, Goto, AgentsTypeOK
<1>4. ASSUME Calm, NEW a \in Agents, NEW label \in {"write", "lookup"}, Goto(a, label),
             pc[a] # "idle" => cur' = cur, cur' = cur \/ \E i \in Ids : cur' = [cur EXCEPT ![a] = i],
             UNCHANGED <<dir, row>>
      PROVE  RowsOwn'
  BY <1>0, <1>1, <1>4 DEF RowsOwn, Live, Goto, AgentsTypeOK
<1>5. ASSUME Calm, NEW a \in Agents, NEW label \in {"mark", "clear"}, pc[a] \in {"delete", "mark"},
             Goto(a, label), UNCHANGED <<cur, dir, row>>
      PROVE  RowsOwn'
  BY <1>0, <1>1, <1>5 DEF RowsOwn, Live, Goto, AgentsTypeOK
<1>6. ASSUME NEW a \in Agents, WriteArchive(a) PROVE RowsOwn'
  <2>1. /\ dir' = [dir EXCEPT ![a] = nextDir] /\ nextDir' = nextDir + 1 /\ nextDir \in Nat
        /\ pc' = [pc EXCEPT ![a] = "commit"] /\ UNCHANGED <<rows, cur, row>>
    BY <1>0, <1>6 DEF WriteArchive, Goto
  <2>2. ASSUME NEW b \in Agents, row[b] # None
        PROVE  row[b] \in Nat /\ row[b] < nextDir' /\ \A c \in Agents : pc'[c] = "commit" => dir'[c] # row[b]
    <3>1. row[b] \in Nat /\ row[b] < nextDir
      BY <1>0, <2>2 DEF RowsOwn, AgentsTypeOK
    <3>2. \A c \in Agents : pc'[c] = "commit" => dir'[c] = nextDir \/ (pc[c] = "commit" /\ dir'[c] = dir[c])
      BY <1>0, <2>1 DEF AgentsTypeOK
    <3>3. row[b] < nextDir' /\ row[b] # nextDir
      BY <2>1, <3>1
    <3>4. QED
      BY <2>2, <3>1, <3>2, <3>3 DEF RowsOwn
  <2>3. \A b \in Agents : pc'[b] \in {"delete", "mark", "clear"} => pc[b] = pc'[b]
    BY <1>0, <2>1 DEF AgentsTypeOK
  <2>4. QED
    BY <2>1, <2>2, <2>3 DEF RowsOwn, Live
<1>7. ASSUME NEW a \in Agents, Commit(a) PROVE RowsOwn'
  <2>0. /\ pc[a] = "commit" /\ dir[a] \in Dirs /\ dir[a] \notin Live /\ blob[a] \in Uploads
        /\ IdOf[blob[a]] = cur[a] /\ cur[a] \in Ids /\ UNCHANGED <<nextDir, cur, dir>>
    BY <1>0, <1>7 DEF Commit, Keyed, DirsFresh, AgentsShape, AgentShape, AgentsTypeOK
  <2>1. PICK found \in Dirs :
          /\ InsertOrFind(a, found)
          /\ \/ pc' = [pc EXCEPT ![a] = "delete"] /\ row' = [row EXCEPT ![a] = found]
             \/ pc' = [pc EXCEPT ![a] = "lookup"] /\ UNCHANGED row
    BY <1>7 DEF Commit, Goto
  <2>2. \/ UNCHANGED rows /\ found \in Live /\ rows[found].sid = cur[a]
        \/ /\ found = dir[a]
           /\ \E sid \in {cur[a], dir[a]} : rows' = [rows EXCEPT ![dir[a]] = [up |-> blob[a], sid |-> sid, jobs |-> 1]]
    BY <2>1 DEF InsertOrFind, InsertCapture, Conflicting
  <2>3. \A d \in Live' : rows'[d].sid \in Ids => IdOf[rows'[d].up] = rows'[d].sid
    BY <1>0, <2>0, <2>2 DEF RowsOwn, Live, StoresTypeOK
  <2>4. found \in Live' /\ IdOf[rows'[found].up] = cur[a] /\ found < nextDir
    <3>1. CASE UNCHANGED rows /\ found \in Live /\ rows[found].sid = cur[a]
      BY <2>0, <3>1 DEF RowsOwn, DirsFresh, Live
    <3>2. CASE found = dir[a] /\ rows'[found] = [up |-> blob[a], sid |-> rows'[found].sid, jobs |-> 1] /\ rows'[found] # None
      BY <1>0, <2>0, <3>2 DEF DirsFresh, Live
    <3>3. ASSUME NEW sid \in SourceIds PROVE [up |-> blob[a], sid |-> sid, jobs |-> 1] # None
      BY <2>0, NullAssumption DEF Captures
    <3>4. QED
      BY <1>0, <2>0, <2>2, <3>1, <3>2, <3>3 DEF SourceIds, StoresTypeOK
  <2>5. \A b \in Agents : b # a /\ pc[b] = "commit" => dir[b] # found
    BY <2>0, <2>2 DEF DirsFresh
  <2>6. \A b \in Agents : row[b] # None => row[b] # dir[a]
    BY <2>0 DEF RowsOwn
  <2>7. \A d \in Live' \ {dir[a]} : d \in Live /\ rows'[d] = rows[d]
    BY <1>0, <2>0, <2>2 DEF Live, StoresTypeOK
  <2>8. ASSUME NEW b \in Agents, pc'[b] \in {"delete", "mark", "clear"}, row'[b] \in Live'
        PROVE  IdOf[rows'[row'[b]].up] = cur'[b]
    <3>1. CASE b = a
      BY <1>0, <2>0, <2>1, <2>4, <2>8, <3>1 DEF AgentsTypeOK
    <3>2. CASE b # a
      <4>1. pc[b] = pc'[b] /\ row'[b] = row[b] /\ cur'[b] = cur[b]
        BY <1>0, <2>0, <2>1, <3>2 DEF AgentsTypeOK
      <4>2. row[b] \in Live /\ rows'[row[b]] = rows[row[b]]
        BY <1>0, <2>6, <2>7, <2>8, <4>1 DEF Live
      <4>3. QED
        BY <2>8, <4>1, <4>2 DEF RowsOwn
    <3>3. QED
      BY <3>1, <3>2
  <2>9. ASSUME NEW b \in Agents, row'[b] # None
        PROVE  row'[b] < nextDir' /\ \A c \in Agents : pc'[c] = "commit" => dir'[c] # row'[b]
    <3>1. \A c \in Agents : pc'[c] = "commit" => c # a /\ pc[c] = "commit" /\ dir'[c] = dir[c]
      BY <1>0, <2>0, <2>1 DEF AgentsTypeOK
    <3>2. row'[b] = row[b] \/ row'[b] = found
      BY <1>0, <2>1 DEF AgentsTypeOK
    <3>3. QED
      BY <2>0, <2>4, <2>5, <2>9, <3>1, <3>2 DEF RowsOwn
  <2>10. QED
    BY <2>3, <2>8, <2>9 DEF RowsOwn
<1>8. ASSUME NEW a \in Agents, LookupSourceId(a) PROVE RowsOwn'
  <2>1. CASE Return(a)
    BY <1>3, <1>8, <2>1 DEF LookupSourceId
  <2>2. CASE \E d \in Conflicting(cur[a]) : row' = [row EXCEPT ![a] = d] /\ Goto(a, "delete") /\ UNCHANGED <<cur, dir>>
    <3>1. PICK d \in Live : rows[d].sid = cur[a] /\ row' = [row EXCEPT ![a] = d] /\ pc' = [pc EXCEPT ![a] = "delete"]
      BY <2>2 DEF Conflicting, Goto
    <3>2. cur[a] \in Ids /\ UNCHANGED <<rows, nextDir>>
      BY <1>0, <1>8 DEF LookupSourceId, AgentsShape, AgentShape, AgentsTypeOK
    <3>3. d < nextDir /\ IdOf[rows[d].up] = cur[a] /\ \A b \in Agents : pc[b] = "commit" => dir[b] # d
      BY <3>1, <3>2 DEF RowsOwn, DirsFresh
    <3>4. QED
      BY <1>0, <2>2, <3>1, <3>2, <3>3 DEF RowsOwn, Live, AgentsTypeOK
  <2>3. QED
    BY <1>8, <2>1, <2>2 DEF LookupSourceId
<1>9. ASSUME NEW a \in Agents, ClearSourceId(a) PROVE RowsOwn'
  <2>1. Calm
    BY <1>0, <1>9 DEF ClearSourceId, StoresTypeOK
  <2>2. QED
    BY <1>3, <1>9, <2>1 DEF ClearSourceId
<1>10. ASSUME NEW a \in Agents, NEW i \in Ids, ReadBlob(a, i) PROVE RowsOwn'
  BY <1>4, <1>10 DEF ReadBlob
<1>11. ASSUME NEW a \in Agents, AttemptFails(a) PROVE RowsOwn'
  BY <1>4, <1>11 DEF AttemptFails
<1>12. ASSUME NEW a \in Agents, DeleteBlob(a) \/ MarkFetched(a) PROVE RowsOwn'
  BY <1>3, <1>5, <1>12 DEF DeleteBlob, MarkFetched
<1>13. ASSUME NEW a \in Agents, Crash(a) PROVE RowsOwn'
  BY <1>0, <1>1, <1>13 DEF Crash, Goto, RowsOwn, Live, AgentsTypeOK
<1>14. ASSUME NEW a \in Agents, ClaimPendingCaptures(a) PROVE RowsOwn'
  BY <1>0, <1>14 DEF ClaimPendingCaptures, RowsOwn, Live
<1>15. CASE Dashboard
  <2>1. Calm
    BY <1>0, <1>15 DEF Dashboard, DeleteCapture, DeletePage, StoresTypeOK
  <2>2. QED
    BY <1>2, <1>15, <2>1 DEF Dashboard, DeleteCapture, DeletePage
<1>16. ASSUME UNCHANGED <<rows, nextDir, agentVars>> PROVE RowsOwn'
  BY <1>2, <1>16
<1>17. QED
  BY <1>6, <1>7, <1>8, <1>9, <1>10, <1>11, <1>12, <1>13, <1>14, <1>15, <1>16
     DEF Next, Device, Time, Agent, ProcessOne, vars, PutObject, CompleteCapture,
         ClaimGoesStale, RetentionPasses, CleanupPendingCaptures

\* Of an upload whose claim never expired under an agent: one agent holds it, and as
\* long as somebody may process it the row of an earlier attempt can be found.
ClaimedOnce(u) ==
  LET i == IdOf[u] IN
  /\ \A a \in Agents : i \in batch[a] => age[i] = "fresh" /\ \A b \in Agents : i \in batch[b] => b = a
  /\ \A a \in Agents : cur[a] = i /\ pc[a] = "clear" => pending[i] # "waiting"
  /\ \A c \in Live : rows[c].up = u =>
       /\ device[u] = "acked"
       /\ \A d \in Live : rows[d].up = u => d = c
       /\ rows[c].sid # i => pending[i] # "waiting" /\ \A a \in Agents : i \notin batch[a]

\* The rows of an upload are at most fewer, or have lost their source id.
NoNewRow(u) ==
  \A d \in Live' : rows'[d].up = u => d \in Live /\ rows[d].up = u /\ rows'[d].sid = rows[d].sid

\* An agent lets go of claims, or keeps them.
LEMMA OnceKeeps ==
  ASSUME NEW u \in Uploads, ClaimedOnce(u), NoNewRow(u),
         UNCHANGED device,
         age'[IdOf[u]] = age[IdOf[u]] \/ \A a \in Agents : IdOf[u] \notin batch[a],
         pending'[IdOf[u]] = "waiting" => pending[IdOf[u]] = "waiting",
         \A a \in Agents : batch'[a] \subseteq batch[a],
         \A a \in Agents : cur'[a] = IdOf[u] /\ pc'[a] = "clear" =>
           pending'[IdOf[u]] # "waiting" \/ (cur[a] = IdOf[u] /\ pc[a] = "clear")
  PROVE  ClaimedOnce(u)'
BY DEF ClaimedOnce, NoNewRow

\* Every step keeps a capture archived once, as long as its claim does not expire
\* under the agent that holds it.
LEMMA OnceStep ==
  ASSUME WellFormed, Keyed, DirsFresh, RowsOwn, NEW u \in Uploads, HasOwnId(u), Agree(u), ClaimedOnce(u),
         IdOf[u] \notin overrun', [Next]_vars
  PROVE  ClaimedOnce(u)'
<1> DEFINE i == IdOf[u]
<1>0. /\ i \in Ids /\ StoresTypeOK /\ AgentsTypeOK /\ AgentsShape /\ StoresAgree(u)
      /\ \A a \in Agents : AgentAgrees(a, u)
  BY UploadsAssumption DEF WellFormed, TypeOK, Agree
<1>1. ASSUME UNCHANGED <<rows, device, pending, age, agentVars>> PROVE ClaimedOnce(u)'
  BY <1>1 DEF ClaimedOnce, Live
<1>2. ASSUME NEW v \in Uploads, PutObject(v) PROVE ClaimedOnce(u)'
  BY <1>0, <1>2 DEF PutObject, ClaimedOnce, Live, StoresTypeOK
<1>3. ASSUME NEW v \in Uploads, CompleteCapture(v) PROVE ClaimedOnce(u)'
  <2>1. device'[u] = device[u] \/ device'[u] = "acked"
    BY <1>0, <1>3 DEF CompleteCapture, StoresTypeOK
  <2>2. CASE v # u
    <3>1. pending'[i] = pending[i]
      BY <1>0, <1>3, <2>2 DEF CompleteCapture, HasOwnId, StoresTypeOK
    <3>2. QED
      BY <1>3, <2>1, <3>1 DEF CompleteCapture, ClaimedOnce, Live
  <2>3. CASE v = u
    <3>1. device[u] = "put" /\ \A a \in Agents : i \notin batch[a]
      BY <1>0, <1>3, <2>3 DEF CompleteCapture, AgentAgrees
    <3>2. \A a \in Agents : ~ (cur[a] = i /\ pc[a] = "clear")
      BY <1>0, <3>1 DEF AgentsShape, AgentShape
    <3>3. \A c \in Live : rows[c].up # u
      BY <3>1 DEF ClaimedOnce
    <3>4. QED
      BY <1>3, <3>1, <3>2, <3>3 DEF CompleteCapture, ClaimedOnce, Live
  <2>4. QED
    BY <2>2, <2>3
<1>4. ASSUME NEW k \in Ids, ClaimGoesStale(k) PROVE ClaimedOnce(u)'
  <2>1. k = i => \A a \in Agents : i \notin batch[a]
    BY <1>4 DEF ClaimGoesStale
  <2>2. age'[i] = age[i] \/ k = i
    BY <1>0, <1>4 DEF ClaimGoesStale, StoresTypeOK
  <2>3. QED
    BY <1>4, <2>1, <2>2, OnceKeeps DEF ClaimGoesStale, NoNewRow, Live
<1>5. ASSUME NEW k \in Ids, RetentionPasses(k) PROVE ClaimedOnce(u)'
  <2>1. k = i => \A a \in Agents : i \notin batch[a]
    BY <1>5 DEF RetentionPasses, ClaimedOnce
  <2>2. age'[i] = age[i] \/ k = i
    BY <1>0, <1>5 DEF RetentionPasses, StoresTypeOK
  <2>3. QED
    BY <1>5, <2>1, <2>2, OnceKeeps DEF RetentionPasses, NoNewRow, Live
<1>6. CASE CleanupPendingCaptures
  <2>1. age'[i] = age[i] \/ age[i] = "old"
    BY <1>0, <1>6 DEF CleanupPendingCaptures
  <2>2. age[i] = "old" => \A a \in Agents : i \notin batch[a]
    BY DEF ClaimedOnce
  <2>3. pending'[i] = "waiting" => pending[i] = "waiting"
    BY <1>0, <1>6 DEF CleanupPendingCaptures
  <2>4. QED
    BY <1>6, <2>1, <2>2, <2>3, OnceKeeps DEF CleanupPendingCaptures, NoNewRow, Live
<1>7. ASSUME NEW a \in Agents, ClaimPendingCaptures(a) PROVE ClaimedOnce(u)'
  <2>1. PICK b \in SUBSET Claimable : /\ batch' = [batch EXCEPT ![a] = b]
                                      /\ age' = [k \in Ids |-> IF k \in b THEN "fresh" ELSE age[k]]
    BY <1>7 DEF ClaimPendingCaptures
  <2>2. batch[a] = {} /\ UNCHANGED <<device, pending, rows, pc, cur>>
    BY <1>7 DEF ClaimPendingCaptures
  <2>3. CASE i \in b
    <3>1. pending[i] = "waiting" /\ \A c \in Agents : i \notin batch[c]
      BY <2>1, <2>3 DEF Claimable, ClaimedOnce
    <3>2. age'[i] = "fresh" /\ \A c \in Agents : i \in batch'[c] => c = a
      BY <1>0, <2>1, <2>3, <3>1 DEF AgentsTypeOK
    <3>3. \A c \in Live : rows[c].up = u => rows[c].sid = i
      BY <3>1 DEF ClaimedOnce
    <3>4. QED
      BY <2>2, <3>1, <3>2, <3>3 DEF ClaimedOnce, Live
  <2>4. CASE i \notin b
    <3>1. age'[i] = age[i] /\ \A c \in Agents : i \in batch'[c] <=> i \in batch[c]
      BY <1>0, <2>1, <2>2, <2>4 DEF AgentsTypeOK
    <3>2. QED
      BY <2>2, <3>1 DEF ClaimedOnce, Live
  <2>5. QED
    BY <2>3, <2>4
<1>8. ASSUME NEW a \in Agents, NEW k \in Ids, ReadBlob(a, k) PROVE ClaimedOnce(u)'
  BY <1>0, <1>8, OnceKeeps DEF ReadBlob, Goto, NoNewRow, Live, AgentsTypeOK
<1>9. ASSUME NEW a \in Agents, WriteArchive(a) \/ AttemptFails(a) PROVE ClaimedOnce(u)'
  BY <1>0, <1>9, OnceKeeps DEF WriteArchive, AttemptFails, Goto, NoNewRow, Live, AgentsTypeOK
<1>10. ASSUME NEW a \in Agents, LookupSourceId(a) \/ DeleteBlob(a) \/ Crash(a) PROVE ClaimedOnce(u)'
  BY <1>0, <1>10, OnceKeeps DEF LookupSourceId, DeleteBlob, Crash, Return, Goto, NoNewRow, Live, AgentsTypeOK
<1>11. ASSUME NEW a \in Agents, MarkFetched(a) PROVE ClaimedOnce(u)'
  <2>1. pending' = [pending EXCEPT ![cur[a]] = "fetched"] \/ UNCHANGED pending
    BY <1>11 DEF MarkFetched
  <2>2. pending'[i] = "waiting" => pending[i] = "waiting"
    BY <1>0, <2>1 DEF StoresTypeOK
  <2>3. /\ \A b \in Agents : batch'[b] \subseteq batch[b]
        /\ \A b \in Agents : cur'[b] = i /\ pc'[b] = "clear" =>
             pending'[i] # "waiting" \/ (cur[b] = i /\ pc[b] = "clear")
    BY <1>0, <1>11 DEF MarkFetched, Return, Goto, StoresTypeOK, AgentsTypeOK
  <2>4. QED
    BY <1>11, <2>2, <2>3, OnceKeeps DEF MarkFetched, NoNewRow, Live
<1>12. ASSUME NEW a \in Agents, Commit(a) PROVE ClaimedOnce(u)'
  <2>0. /\ pc[a] = "commit" /\ dir[a] \in Dirs /\ dir[a] \notin Live /\ blob[a] \in Uploads
        /\ IdOf[blob[a]] = cur[a] /\ cur[a] \in batch[a]
    BY <1>0, <1>12 DEF Commit, Keyed, DirsFresh, AgentsShape, AgentShape, AgentsTypeOK
  <2>1. /\ UNCHANGED <<device, pending, age, batch, cur>>
        /\ \A b \in Agents : pc'[b] = "clear" => pc[b] = "clear"
    BY <1>0, <1>12 DEF Commit, Goto, AgentsTypeOK
  <2>2. PICK found \in Dirs : InsertOrFind(a, found)
    BY <1>12 DEF Commit
  <2>3. CASE UNCHANGED rows
    BY <2>1, <2>3, OnceKeeps DEF NoNewRow, Live
  <2>4. ASSUME NEW sid \in SourceIds, rows' = [rows EXCEPT ![dir[a]] = [up |-> blob[a], sid |-> sid, jobs |-> 1]]
        PROVE  \A d \in Live' \ {dir[a]} : d \in Live /\ rows'[d] = rows[d]
    BY <1>0, <2>4 DEF Live, StoresTypeOK
  <2>5. CASE cur[a] # i
    <3>1. blob[a] # u
      BY <2>0, <2>5
    <3>2. CASE UNCHANGED rows
      BY <2>3, <3>2
    <3>3. ASSUME NEW sid \in SourceIds, rows' = [rows EXCEPT ![dir[a]] = [up |-> blob[a], sid |-> sid, jobs |-> 1]]
          PROVE  NoNewRow(u)
      BY <1>0, <2>0, <2>4, <3>1, <3>3 DEF NoNewRow, StoresTypeOK
    <3>4. dir[a] \in SourceIds /\ cur[a] \in SourceIds
      BY <1>0, <2>0 DEF SourceIds, AgentsTypeOK
    <3>5. QED
      BY <2>1, <2>2, <3>2, <3>3, <3>4, OnceKeeps DEF InsertOrFind, InsertCapture
  <2>6. CASE cur[a] = i
    <3>1. blob[a] = u /\ device[u] = "acked"
      BY <1>0, <2>0, <2>6 DEF AgentAgrees
    <3>2. \A d \in Live : rows[d].up = u => rows[d].sid = i
      BY <2>0, <2>6 DEF ClaimedOnce
    <3>3. \A d \in Conflicting(i) : rows[d].up = u
      BY <1>0 DEF StoresAgree, Conflicting
    <3>4. UNCHANGED rows \/ (Conflicting(i) = {} /\ rows' = [rows EXCEPT ![dir[a]] = [up |-> u, sid |-> i, jobs |-> 1]])
      BY <2>2, <2>6, <3>1, <3>3 DEF InsertOrFind, InsertCapture
    <3>5. CASE Conflicting(i) = {} /\ rows' = [rows EXCEPT ![dir[a]] = [up |-> u, sid |-> i, jobs |-> 1]]
      <4>1. \A d \in Live : rows[d].up # u
        BY <3>2, <3>5 DEF Conflicting
      <4>2. \A d \in Live' : rows'[d].up = u => d = dir[a]
        <5>1. i \in SourceIds
          BY <1>0 DEF SourceIds
        <5>2. \A d \in Live' \ {dir[a]} : d \in Live /\ rows'[d] = rows[d]
          BY <2>4, <3>1, <3>5, <5>1
        <5>3. QED
          BY <4>1, <5>2
      <4>3. rows'[dir[a]].sid = i
        BY <1>0, <2>0, <3>5 DEF StoresTypeOK
      <4>4. QED
        BY <2>1, <3>1, <4>2, <4>3 DEF ClaimedOnce
    <3>6. QED
      BY <2>3, <3>4, <3>5
  <2>7. QED
    BY <2>5, <2>6
<1>13. ASSUME NEW a \in Agents, ClearSourceId(a) PROVE ClaimedOnce(u)'
  <2>0. /\ pc[a] = "clear" /\ cur[a] \in batch[a] /\ UNCHANGED <<device, pending, age>> /\ Return(a)
        /\ UNCHANGED rows \/ (row[a] \in Live /\ rows' = [rows EXCEPT ![row[a]] = [up |-> @.up, sid |-> None, jobs |-> @.jobs]])
    BY <1>0, <1>13 DEF ClearSourceId, AgentsShape, AgentShape, AgentsTypeOK, Live
  <2>1. /\ \A b \in Agents : batch'[b] \subseteq batch[b]
        /\ \A b \in Agents : pc'[b] = "clear" => cur'[b] = cur[b] /\ pc[b] = "clear"
        /\ batch'[a] = batch[a] \ {cur[a]}
    BY <1>0, <2>0 DEF Return, Goto, AgentsTypeOK
  <2>2. CASE UNCHANGED rows
    BY <2>0, <2>1, <2>2, OnceKeeps DEF NoNewRow, Live
  <2>3. CASE row[a] \in Live /\ rows' = [rows EXCEPT ![row[a]] = [up |-> @.up, sid |-> None, jobs |-> @.jobs]]
    <3>1. IdOf[rows[row[a]].up] = cur[a]
      BY <2>0, <2>3 DEF RowsOwn
    <3>2. \A d \in Live' : d \in Live /\ rows'[d].up = rows[d].up /\ (d # row[a] => rows'[d] = rows[d])
      BY <1>0, <2>3 DEF Live, StoresTypeOK
    <3>3. CASE cur[a] # i
      <4>1. NoNewRow(u)
        BY <3>1, <3>2, <3>3 DEF NoNewRow
      <4>2. QED
        BY <2>0, <2>1, <4>1, OnceKeeps
    <3>4. CASE cur[a] = i
      <4>1. pending[i] # "waiting" /\ \A b \in Agents : i \in batch[b] => b = a
        BY <2>0, <3>4 DEF ClaimedOnce
      <4>2. \A b \in Agents : i \notin batch'[b]
        BY <2>1, <3>4, <4>1
      <4>3. QED
        BY <2>0, <3>2, <4>1, <4>2 DEF ClaimedOnce
    <3>5. QED
      BY <3>3, <3>4
  <2>4. QED
    BY <2>0, <2>2, <2>3
<1>14. CASE Dashboard
  <2>1. NoNewRow(u)
    BY <1>0, <1>14 DEF Dashboard, DeleteCapture, DeletePage, NoNewRow, Live, StoresTypeOK
  <2>2. QED
    BY <1>14, <2>1, OnceKeeps DEF Dashboard, DeleteCapture, DeletePage
<1>15. CASE UNCHANGED vars
  BY <1>1, <1>15 DEF vars
<1>16. QED
  BY <1>2, <1>3, <1>4, <1>5, <1>6, <1>7, <1>8, <1>9, <1>10, <1>11, <1>12, <1>13, <1>14, <1>15
     DEF Next, Device, Time, Agent, ProcessOne

\* What makes an upload archived once, for all of them.
OnceInv ==
  /\ WellFormed /\ HandOffInv /\ Keyed /\ DirsFresh /\ RowsOwn
  /\ \A u \in Uploads : HasOwnId(u) /\ IdOf[u] \notin overrun => ClaimedOnce(u)

\* A capture with an id of its own has at most one captures row, although an attempt
\* may fail after its COMMIT and be followed by others of any agent: unless an agent
\* still worked on it when its claim went stale.
THEOREM Once == Spec => []ArchivedAtMostOnce
<1>1. Init => OnceInv
  <2> SUFFICES ASSUME Init PROVE OnceInv
    OBVIOUS
  <2>1. WellFormed /\ HandOffInv
    BY UploadsAssumption, BoundsAssumption
       DEF Init, WellFormed, TypeOK, StoresTypeOK, AgentsTypeOK, AgentsShape, AgentShape, HandOffInv,
           StoresAgree, AgentAgrees, Live, Dirs, Captures, SourceIds
  <2>2. QED
    BY <2>1 DEF Init, OnceInv, Keyed, DirsFresh, RowsOwn, ClaimedOnce, Live
<1>2. OnceInv /\ [Next]_vars => OnceInv'
  <2> SUFFICES ASSUME OnceInv, [Next]_vars PROVE OnceInv'
    OBVIOUS
  <2>1. WellFormed' /\ Keyed' /\ DirsFresh' /\ RowsOwn'
    BY WellFormedStep, KeyedStep, DirsFreshStep, RowsOwnStep DEF OnceInv
  <2>2. \A u \in Uploads : HasOwnId(u) => Agree(u) /\ Agree(u)'
    BY AgreeStep DEF OnceInv, HandOffInv, Agree
  <2>3. HandOffInv'
    BY <2>1, <2>2 DEF WellFormed, AgentsShape, HandOffInv, Agree, HasOwnId
  <2>4. overrun \subseteq overrun'
    BY DEF Next, Device, Time, Agent, ProcessOne, Dashboard, vars, PutObject, CompleteCapture, ClaimGoesStale,
           RetentionPasses, ClaimPendingCaptures, CleanupPendingCaptures, ReadBlob, WriteArchive, AttemptFails,
           Commit, LookupSourceId, DeleteBlob, MarkFetched, ClearSourceId, Crash, DeleteCapture, DeletePage
  <2>5. ASSUME NEW u \in Uploads, HasOwnId(u), IdOf[u] \notin overrun' PROVE ClaimedOnce(u)'
    BY <2>2, <2>4, <2>5, OnceStep DEF OnceInv
  <2>6. QED
    BY <2>1, <2>3, <2>5 DEF OnceInv, HasOwnId
<1>3. OnceInv => ArchivedAtMostOnce
  BY DEF OnceInv, WellFormed, TypeOK, StoresTypeOK, Captures, Live, ClaimedOnce, ArchivedAtMostOnce
<1>4. QED
  BY <1>1, <1>2, <1>3, PTL DEF Spec

=============================================================================
