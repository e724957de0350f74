----------------------------- MODULE MirrorProofs -----------------------------
(* The proof about Mirror, for any rows, sessions and bounds: whatever the   *)
(* order in which transactions commit and calls fail, a row that D1 lacks    *)
(* or has an old copy of is still found by the next incremental push.        *)
EXTENDS Mirror, TLAPS

USE DEF postgres

-----------------------------------------------------------------------------
(* The inductive invariant.                                                *)

Older(r, times) == \A at \in times : at < rows[r].updated

\* A NOW() belongs to one transaction: what is written, pushed or open is in the
\* past, and an open upsert's is found nowhere else.
StampsOwn ==
  /\ \A r \in Rows : rows[r] # None => rows[r].updated <= clock
  /\ \A r \in Rows : d1[r] # None => d1[r] <= clock
  /\ \A r \in Rows : cycle.batch[r] # None => cycle.batch[r] <= clock
  /\ \A s \in Sessions : tx[s] # None =>
       /\ tx[s].now <= clock
       /\ \A r \in Rows : rows[r] # None => rows[r].updated # tx[s].now
       /\ \A r \in Rows : d1[r] # tx[s].now /\ cycle.batch[r] # tx[s].now
       /\ \A s2 \in Sessions \ {s} : tx[s2] # None => tx[s2].now # tx[s].now

\* A row that is missing or old in D1 is newer than everything of its table there.
AheadOfD1 ==
  \A r \in Rows \ overtaken :
    Eligible(r) /\ d1[r] # rows[r].updated => Older(r, Stamps(TableOf(r)))

\* The checkpoint of a cycle is the time of a row that is in D1 still.
SinceIsStamp == cycle.at = "query" => cycle.since \in Stamps(cycle.table) \cup {0}

\* A batch is of one table, and a row of it was read by the query, is in D1 already,
\* or has become newer than the whole batch.
BatchAgrees ==
  cycle.at = "push" =>
    /\ \A r \in Rows \ Here : cycle.batch[r] = None
    /\ \A r \in Here \ overtaken : Eligible(r) =>
         \/ cycle.batch[r] = rows[r].updated
         \/ cycle.batch[r] = None /\ d1[r] = rows[r].updated
         \/ d1[r] # rows[r].updated /\ Older(r, Pushing(cycle.table))

\* What is about to be deleted is not up to date.
StaleStays ==
  cycle.at = "delete" =>
    \A r \in cycle.ids \ overtaken : Eligible(r) => d1[r] # rows[r].updated

SyncInv == StampsOwn /\ AheadOfD1 /\ SinceIsStamp /\ BatchAgrees /\ StaleStays
Inv == TypeOK /\ SyncInv

-----------------------------------------------------------------------------
(* Lemmas about operators and steps.                                       *)

\* Whatever the order of texts makes of it, the checkpoint is a time that is there.
LEMMA LastIsOne == \A times : \A t \in LastOf(times) : t \in times \cup {0}
BY DEF LastOf

\* One table is done or failed: no batch and no list is held.
LEMMA Proceeds ==
  ASSUME TypeOK, Proceed \/ cycle' = Idle \/ cycle' = [Idle EXCEPT !.at = "last"]
  PROVE  /\ cycle' \in [table : Tables, at : {"idle", "last"}, since : {0}, batch : [Rows -> {None}], ids : {{}}]
         /\ \A r \in Rows : cycle'.batch[r] = None
<1> DEFINE none == [r \in Rows |-> None]
<1>1. none \in [Rows -> {None}] /\ \A r \in Rows : none[r] = None
  OBVIOUS
<1>2. \E table \in Tables, at \in {"idle", "last"} :
        cycle' = [table |-> table, at |-> at, since |-> 0, batch |-> none, ids |-> {}]
  BY DEF Proceed, Idle, Tables
<1>3. QED
  BY <1>1, <1>2

\* The steps of a cycle, with the nesting of Next taken apart.
LEMMA StepKinds ==
  ASSUME [Next]_vars
  PROVE  \/ SyncOnce \/ GetLastSync \/ WorkerWithoutLinks \/ GetUpdatedSince
         \/ \E answered \in BOOLEAN : MirrorArchived(answered) /\ faults' \in {faults, faults + 1}
         \/ ListIDs \/ GetMirrorEligibleIDs
         \/ \E answered \in BOOLEAN : DeleteArchived(answered) /\ faults' \in {faults, faults + 1}
         \/ CallFails \/ Crash
         \/ \E s \in Sessions : CommitUpsert(s)
         \/ \E s \in Sessions, r \in Rows : BeginUpsert(s, r)
         \/ \E r \in Rows, excluded \in BOOLEAN : Set(r, excluded)
         \/ \E r \in Rows : DeleteRow(r)
         \/ DeployWorker \/ UNCHANGED vars
<1>1. CASE Step
  BY <1>1 DEF Step
<1>2. CASE Fault
  BY <1>2 DEF Fault
<1>3. CASE Writer
  BY <1>3 DEF Writer
<1>4. QED
  BY <1>1, <1>2, <1>3 DEF Next

\* A batch or a deletion leaves in D1 only times that were there or in the batch.
LEMMA PushedTyped == TypeOK => Pushed \in [Rows -> Times \cup {None}]
BY DEF TypeOK, Pushed

\* Every step keeps the variables typed.
LEMMA TypeStep == TypeOK /\ [Next]_vars => TypeOK'
<1> SUFFICES ASSUME TypeOK, [Next]_vars PROVE TypeOK'
  OBVIOUS
<1> USE MirrorAssumption
<1>0. faults' \in 0..MaxFaults
  <2>1. faults \in 0..MaxFaults
    BY DEF TypeOK
  <2>2. CASE Fault
    BY <2>1, <2>2 DEF Fault
  <2>3. CASE Step
    BY <2>1, <2>3 DEF Step, SyncOnce, GetLastSync, WorkerWithoutLinks, GetUpdatedSince, ListIDs, GetMirrorEligibleIDs
  <2>4. CASE Writer
    BY <2>1, <2>4 DEF Writer, CommitUpsert, BeginUpsert, Set, DeleteRow
  <2>5. QED
    BY <2>1, <2>2, <2>3, <2>4 DEF Next, DeployWorker, vars
<1>1. ASSUME SyncOnce \/ WorkerWithoutLinks \/ CallFails \/ Crash PROVE TypeOK'
  <2>1. Proceed \/ cycle' = Idle \/ cycle' = [Idle EXCEPT !.at = "last"]
    BY <1>1 DEF SyncOnce, WorkerWithoutLinks, CallFails, Crash
  <2>2. cycle' \in [table : Tables, at : {"idle", "last"}, since : {0}, batch : [Rows -> {None}], ids : {{}}]
    BY <2>1, Proceeds
  <2>3. UNCHANGED <<postgres, d1, hasLinks, overtaken>>
    BY <1>1 DEF SyncOnce, WorkerWithoutLinks, CallFails, Crash
  <2>4. QED
    BY <1>0, <2>2, <2>3 DEF TypeOK
<1>2. ASSUME GetLastSync PROVE TypeOK'
  <2>1. PICK since \in LastOf(Stamps(cycle.table)) :
          cycle' = [cycle EXCEPT !.at = "query", !.since = since]
    BY <1>2 DEF GetLastSync
  <2>2. since \in 0..MaxClock
    BY <2>1, LastIsOne DEF Stamps, RowsOf, TypeOK, Times
  <2>3. QED
    BY <1>0, <1>2, <2>1, <2>2 DEF GetLastSync, TypeOK
<1>3. ASSUME GetUpdatedSince PROVE TypeOK'
  <2> DEFINE changed == {r \in Here : Eligible(r) /\ rows[r].updated > cycle.since}
             batch == [r \in Rows |-> IF r \in changed THEN rows[r].updated ELSE None]
  <2>1. batch \in [Rows -> Times \cup {None}]
    BY DEF TypeOK, Eligible
  <2>2. cycle' = [cycle EXCEPT !.at = "ids"] \/ cycle' = [cycle EXCEPT !.at = "push", !.batch = batch]
    BY <1>3 DEF GetUpdatedSince
  <2>3. QED
    BY <1>0, <1>3, <2>1, <2>2 DEF GetUpdatedSince, TypeOK
<1>4. ASSUME NEW answered \in BOOLEAN, MirrorArchived(answered) PROVE TypeOK'
  <2>1. cycle' \in [table : Tables, at : {"idle", "last", "query", "push", "ids", "eligible", "delete"},
                    since : 0..MaxClock, batch : [Rows -> Times \cup {None}], ids : SUBSET Rows]
    <3>1. CASE answered
      <4>1. Idle.batch \in [Rows -> Times \cup {None}]
        BY DEF Idle
      <4>2. cycle' = [cycle EXCEPT !.at = "ids", !.batch = Idle.batch]
        BY <1>4, <3>1 DEF MirrorArchived
      <4>3. QED
        BY <4>1, <4>2 DEF TypeOK
    <3>2. CASE ~answered
      BY <1>4, <3>2, Proceeds DEF MirrorArchived
    <3>3. QED
      BY <3>1, <3>2
  <2>2. QED
    BY <1>0, <1>4, <2>1, PushedTyped DEF MirrorArchived, TypeOK
<1>5. ASSUME ListIDs \/ GetMirrorEligibleIDs PROVE TypeOK'
  <2>1. cycle' \in [table : Tables, at : {"idle", "last", "query", "push", "ids", "eligible", "delete"},
                    since : 0..MaxClock, batch : [Rows -> Times \cup {None}], ids : SUBSET Rows]
    <3>1. CASE Proceed
      BY <3>1, Proceeds
    <3>2. CASE ~Proceed
      <4> DEFINE listed == {r \in Here : d1[r] # None}
                 stale == {r \in cycle.ids : ~Eligible(r)}
      <4>1. listed \subseteq Rows /\ stale \subseteq Rows
        <5>1. cycle.ids \subseteq Rows
          BY DEF TypeOK
        <5>2. QED
          BY <5>1, MirrorAssumption DEF Here, RowsOf
      <4>2. cycle' = [cycle EXCEPT !.at = "eligible", !.ids = listed] \/ cycle' = [cycle EXCEPT !.at = "delete", !.ids = stale]
        BY <1>5, <3>2 DEF ListIDs, GetMirrorEligibleIDs
      <4>3. QED
        BY <4>1, <4>2 DEF TypeOK
    <3>3. QED
      BY <3>1, <3>2
  <2>2. QED
    BY <1>0, <1>5, <2>1 DEF ListIDs, GetMirrorEligibleIDs, TypeOK
<1>6. ASSUME NEW answered \in BOOLEAN, DeleteArchived(answered) PROVE TypeOK'
  <2>1. cycle' \in [table : Tables, at : {"idle", "last"}, since : {0}, batch : [Rows -> {None}], ids : {{}}]
    BY <1>6, Proceeds DEF DeleteArchived
  <2>2. d1' \in [Rows -> Times \cup {None}]
    BY <1>6 DEF DeleteArchived, TypeOK
  <2>3. QED
    BY <1>0, <1>6, <2>1, <2>2 DEF DeleteArchived, TypeOK
<1>7. ASSUME NEW r \in Rows, NEW excluded \in BOOLEAN, NEW now \in Times, Write(r, excluded, now)
      PROVE  /\ rows' \in [Rows -> [updated : Times, excluded : BOOLEAN] \cup {None}]
             /\ overtaken' \subseteq Rows
  BY <1>7 DEF Write, TypeOK
<1>8. ASSUME NEW s \in Sessions, CommitUpsert(s) PROVE TypeOK'
  <2>1. tx[s] \in [row : Rows, now : Times]
    BY <1>8 DEF CommitUpsert, TypeOK
  <2>2. rows[tx[s].row] # None => rows[tx[s].row].excluded \in BOOLEAN
    BY <2>1 DEF TypeOK
  <2>3. (rows[tx[s].row] # None /\ rows[tx[s].row].excluded) \in BOOLEAN
    BY <2>2
  <2>4. PICK excluded \in BOOLEAN : Write(tx[s].row, excluded, tx[s].now)
    BY <1>8, <2>3 DEF CommitUpsert
  <2>5. /\ rows' \in [Rows -> [updated : Times, excluded : BOOLEAN] \cup {None}]
        /\ overtaken' \subseteq Rows
    BY <1>7, <2>1, <2>4
  <2>6. QED
    BY <1>0, <1>8, <2>5 DEF CommitUpsert, TypeOK
<1>9. ASSUME NEW s \in Sessions, NEW r \in Rows, BeginUpsert(s, r) PROVE TypeOK'
  <2>1. Now \in Times /\ Now \in 0..MaxClock
    BY <1>9 DEF BeginUpsert, TypeOK, Times, Now
  <2>2. QED
    BY <1>0, <1>9, <2>1 DEF BeginUpsert, TypeOK
<1>10. ASSUME NEW r \in Rows, NEW excluded \in BOOLEAN, Set(r, excluded) PROVE TypeOK'
  <2>1. Now \in Times /\ Now \in 0..MaxClock
    BY <1>10 DEF Set, TypeOK, Times, Now
  <2>2. /\ rows' \in [Rows -> [updated : Times, excluded : BOOLEAN] \cup {None}]
        /\ overtaken' \subseteq Rows
    BY <1>7, <1>10, <2>1 DEF Set
  <2>3. QED
    BY <1>0, <1>10, <2>1, <2>2 DEF Set, TypeOK
<1>11. ASSUME NEW r \in Rows, DeleteRow(r) PROVE TypeOK'
  BY <1>0, <1>11 DEF DeleteRow, TypeOK
<1>12. ASSUME DeployWorker \/ UNCHANGED vars PROVE TypeOK'
  BY <1>0, <1>12 DEF DeployWorker, TypeOK, vars
<1>13. QED
  BY <1>1, <1>2, <1>3, <1>4, <1>5, <1>6, <1>8, <1>9, <1>10, <1>11, <1>12, StepKinds

-----------------------------------------------------------------------------
(* The steps that write in Postgres.                                       *)

\* An upsert that commits has a NOW() that nothing else has; a statement's is new.
NowIsOwn(now) ==
  /\ \A r \in Rows : rows[r] # None => rows[r].updated # now
  /\ \A r \in Rows : d1[r] # now /\ cycle.batch[r] # now

LEMMA NowIsNew == TypeOK /\ StampsOwn => NowIsOwn(Now)
<1> SUFFICES ASSUME TypeOK, StampsOwn PROVE NowIsOwn(Now)
  OBVIOUS
<1>1. clock \in Nat /\ Now \in Nat /\ clock < Now /\ None # Now
  BY MirrorAssumption DEF TypeOK, Now
<1>2. ASSUME NEW r \in Rows PROVE rows[r] # None => rows[r].updated # Now
  <2>1. rows[r] # None => rows[r].updated \in Nat /\ rows[r].updated <= clock
    BY DEF TypeOK, StampsOwn, Times
  <2>2. QED
    BY <1>1, <2>1
<1>3. ASSUME NEW r \in Rows PROVE d1[r] # Now
  <2>1. d1[r] # None => d1[r] \in Nat /\ d1[r] <= clock
    BY DEF TypeOK, StampsOwn, Times
  <2>2. QED
    BY <1>1, <2>1
<1>4. ASSUME NEW r \in Rows PROVE cycle.batch[r] # Now
  <2>1. cycle.batch \in [Rows -> Times \cup {None}]
    BY DEF TypeOK
  <2>2. cycle.batch[r] # None => cycle.batch[r] \in Nat /\ cycle.batch[r] <= clock
    BY <2>1 DEF StampsOwn, Times
  <2>3. QED
    BY <1>1, <2>2
<1>5. QED
  BY <1>2, <1>3, <1>4 DEF NowIsOwn

\* A row that is written after all that D1 has and is about to get is ahead of it;
\* one that is not is overtaken.
LEMMA WriteKeeps ==
  ASSUME Inv, NEW r \in Rows, NEW excluded \in BOOLEAN, NEW now \in Times, NowIsOwn(now),
         Write(r, excluded, now), UNCHANGED <<d1, cycle>>
  PROVE  AheadOfD1' /\ SinceIsStamp' /\ BatchAgrees' /\ StaleStays'
<1>1. rows'[r] = [updated |-> now, excluded |-> excluded] /\ \A q \in Rows \ {r} : rows'[q] = rows[q]
  BY DEF Write, Inv, TypeOK
<1>2. \A q \in Rows \ {r} : q \notin overtaken' => q \notin overtaken
  BY DEF Write
<1>3. UNCHANGED <<Stamps(cycle.table), Pushing(cycle.table), Here>> /\ \A q \in Rows : UNCHANGED Stamps(TableOf(q))
  BY DEF Stamps, Pushing, Here
<1>4. ASSUME NEW q \in Rows \ {r} PROVE UNCHANGED <<rows[q], Eligible(q)>>
  BY <1>1 DEF Eligible
<1>5. d1[r] # rows'[r].updated /\ cycle.batch[r] # rows'[r].updated
  BY <1>1 DEF NowIsOwn
<1>6. ASSUME r \notin overtaken' PROVE Older(r, Stamps(TableOf(r)))' /\ Older(r, Pushing(TableOf(r)))'
  <2> DEFINE times == Stamps(TableOf(r)) \cup Pushing(TableOf(r))
  <2>1. \A at \in times : ~(now < at)
    BY <1>6 DEF Write
  <2>2. \A at \in times : at \in Nat /\ at # now
    <3>1. cycle.batch \in [Rows -> Times \cup {None}] /\ d1 \in [Rows -> Times \cup {None}]
      BY DEF Inv, TypeOK
    <3>2. RowsOf(TableOf(r)) \subseteq Rows
      BY MirrorAssumption DEF RowsOf
    <3>3. QED
      BY <3>1, <3>2 DEF NowIsOwn, Stamps, Pushing, Times
  <2>3. now \in Nat
    BY DEF Times
  <2>4. \A at \in times : at < now
    BY <2>1, <2>2, <2>3
  <2>5. times' = times
    BY DEF Stamps, Pushing
  <2>6. QED
    BY <1>1, <2>4, <2>5 DEF Older
<1>7. AheadOfD1'
  <2>1. ASSUME NEW q \in Rows, q \notin overtaken', Eligible(q)', d1'[q] # rows'[q].updated
        PROVE  Older(q, Stamps(TableOf(q)))'
    <3>1. CASE q = r
      BY <1>6, <2>1, <3>1
    <3>2. CASE q # r
      BY <1>2, <1>3, <1>4, <2>1, <3>2 DEF Inv, SyncInv, AheadOfD1, Older
    <3>3. QED
      BY <3>1, <3>2
  <2>2. QED
    BY <2>1 DEF AheadOfD1
<1>8. SinceIsStamp'
  BY <1>3 DEF Inv, SyncInv, SinceIsStamp
<1>9. BatchAgrees'
  <2> SUFFICES ASSUME cycle.at = "push" PROVE BatchAgrees'
    BY DEF BatchAgrees
  <2>1. ASSUME NEW q \in Here, q \notin overtaken', Eligible(q)'
        PROVE  \/ cycle.batch[q] = rows'[q].updated
               \/ cycle.batch[q] = None /\ d1[q] = rows'[q].updated
               \/ d1[q] # rows'[q].updated /\ Older(q, Pushing(cycle.table))'
    <3>1. CASE q = r
      <4>1. TableOf(r) = cycle.table
        BY <3>1, MirrorAssumption DEF Here, RowsOf, TableOf, Inv, TypeOK, Tables
      <4>2. QED
        BY <1>5, <1>6, <2>1, <3>1, <4>1
    <3>2. CASE q # r
      <4>1. q \in Rows
        BY MirrorAssumption DEF Here, RowsOf
      <4>2. QED
        BY <1>2, <1>3, <1>4, <2>1, <3>2, <4>1 DEF Inv, SyncInv, BatchAgrees, Older
    <3>3. QED
      BY <3>1, <3>2
  <2>2. QED
    BY <1>3, <2>1 DEF Inv, SyncInv, BatchAgrees
<1>10. StaleStays'
  <2> SUFFICES ASSUME cycle.at = "delete", NEW q \in cycle.ids, q \notin overtaken', Eligible(q)'
               PROVE  d1[q] # rows'[q].updated
    BY DEF StaleStays
  <2>1. q \in Rows
    BY DEF Inv, TypeOK
  <2>2. CASE q = r
    BY <1>5, <2>2
  <2>3. CASE q # r
    BY <1>2, <1>4, <2>1, <2>3 DEF Inv, SyncInv, StaleStays
  <2>4. QED
    BY <2>2, <2>3
<1>11. QED
  BY <1>7, <1>8, <1>9, <1>10

\* A row that is gone, or a step that writes no row, makes nothing fall behind.
LEMMA NothingWritten ==
  ASSUME Inv, UNCHANGED <<d1, cycle>>,
         \A r \in Rows : rows'[r] = rows[r] \/ rows'[r] = None,
         \A r \in Rows : rows'[r] # None /\ r \notin overtaken' => r \notin overtaken
  PROVE  AheadOfD1' /\ SinceIsStamp' /\ BatchAgrees' /\ StaleStays'
<1>1. UNCHANGED <<Stamps(cycle.table), Pushing(cycle.table), Here>> /\ \A q \in Rows : UNCHANGED Stamps(TableOf(q))
  BY DEF Stamps, Pushing, Here
<1>2. ASSUME NEW q \in Rows, q \notin overtaken', Eligible(q)'
      PROVE  rows'[q] = rows[q] /\ q \notin overtaken /\ Eligible(q)
  BY <1>2 DEF Eligible
<1>3. Here \subseteq Rows /\ cycle.ids \subseteq Rows
  <2>1. cycle.ids \subseteq Rows
    BY DEF Inv, TypeOK
  <2>2. QED
    BY <2>1, MirrorAssumption DEF Here, RowsOf
<1>4. AheadOfD1'
  BY <1>1, <1>2 DEF Inv, SyncInv, AheadOfD1, Older
<1>5. SinceIsStamp'
  BY <1>1 DEF Inv, SyncInv, SinceIsStamp
<1>6. BatchAgrees'
  <2> SUFFICES ASSUME cycle.at = "push" PROVE BatchAgrees'
    BY DEF BatchAgrees
  <2>1. ASSUME NEW q \in Here, q \notin overtaken', Eligible(q)'
        PROVE  \/ cycle.batch[q] = rows'[q].updated
               \/ cycle.batch[q] = None /\ d1[q] = rows'[q].updated
               \/ d1[q] # rows'[q].updated /\ Older(q, Pushing(cycle.table))'
    BY <1>1, <1>2, <1>3, <2>1 DEF Inv, SyncInv, BatchAgrees, Older
  <2>2. QED
    BY <1>1, <2>1 DEF Inv, SyncInv, BatchAgrees
<1>7. StaleStays'
  BY <1>2, <1>3 DEF Inv, SyncInv, StaleStays
<1>8. QED
  BY <1>4, <1>5, <1>6, <1>7

LEMMA CommitUpsertStep == Inv /\ (\E s \in Sessions : CommitUpsert(s)) => SyncInv'
<1> SUFFICES ASSUME Inv, NEW s \in Sessions, CommitUpsert(s) PROVE SyncInv'
  OBVIOUS
<1> DEFINE r == tx[s].row
           now == tx[s].now
<1>1. tx[s] # None /\ r \in Rows /\ now \in Times
  BY DEF CommitUpsert, Inv, TypeOK
<1>2. NowIsOwn(now) /\ now <= clock
  BY <1>1 DEF Inv, SyncInv, StampsOwn, NowIsOwn
<1>3. PICK excluded \in BOOLEAN : Write(r, excluded, now)
  <2>1. rows[r] # None => rows[r].excluded \in BOOLEAN
    BY <1>1 DEF Inv, TypeOK
  <2>2. (rows[r] # None /\ rows[r].excluded) \in BOOLEAN
    BY <2>1
  <2>3. QED
    BY <2>2 DEF CommitUpsert
<1>4. UNCHANGED <<clock, d1, cycle>> /\ tx' = [tx EXCEPT ![s] = None]
  BY DEF CommitUpsert
<1>5. AheadOfD1' /\ SinceIsStamp' /\ BatchAgrees' /\ StaleStays'
  BY <1>1, <1>2, <1>3, <1>4, WriteKeeps
<1>6. StampsOwn'
  <2>1. rows'[r].updated = now /\ \A q \in Rows \ {r} : rows'[q] = rows[q]
    BY <1>1, <1>3 DEF Write, Inv, TypeOK
  <2>2. tx'[s] = None /\ \A s2 \in Sessions \ {s} : tx'[s2] = tx[s2]
    BY <1>4 DEF Inv, TypeOK
  <2>3. \A q \in Rows : rows'[q] # None => rows'[q].updated <= clock
    BY <1>2, <2>1 DEF Inv, SyncInv, StampsOwn
  <2>4. ASSUME NEW s2 \in Sessions, tx'[s2] # None
        PROVE  \A q \in Rows : rows'[q] # None => rows'[q].updated # tx'[s2].now
    <3>1. s2 # s /\ tx'[s2] = tx[s2]
      BY <2>2, <2>4
    <3>2. now # tx[s2].now
      BY <1>1, <2>4, <3>1 DEF Inv, SyncInv, StampsOwn
    <3>3. QED
      BY <2>1, <2>4, <3>1, <3>2 DEF Inv, SyncInv, StampsOwn
  <2>5. QED
    BY <1>4, <2>2, <2>3, <2>4 DEF Inv, SyncInv, StampsOwn
<1>7. QED
  BY <1>5, <1>6 DEF SyncInv

LEMMA BeginUpsertStep == Inv /\ (\E s \in Sessions, r \in Rows : BeginUpsert(s, r)) => SyncInv'
<1> SUFFICES ASSUME Inv, NEW s \in Sessions, NEW r \in Rows, BeginUpsert(s, r) PROVE SyncInv'
  OBVIOUS
<1>1. clock \in Nat /\ clock' = clock + 1 /\ Now = clock + 1
  BY MirrorAssumption DEF BeginUpsert, Now, Inv, TypeOK
<1>2. UNCHANGED <<rows, d1, cycle, overtaken>> /\ tx' = [tx EXCEPT ![s] = [row |-> r, now |-> Now]]
  BY DEF BeginUpsert
<1>3. AheadOfD1' /\ SinceIsStamp' /\ BatchAgrees' /\ StaleStays'
  BY <1>2, NothingWritten
<1>4. NowIsOwn(Now)
  BY NowIsNew DEF Inv, SyncInv
<1>5. tx'[s].now = Now /\ \A s2 \in Sessions \ {s} : tx'[s2] = tx[s2]
  BY <1>2 DEF Inv, TypeOK
<1>6. ASSUME NEW s2 \in Sessions \ {s}, tx[s2] # None PROVE tx[s2].now <= clock /\ tx[s2].now \in Nat
  BY <1>6 DEF Inv, SyncInv, StampsOwn, TypeOK, Times
<1>7. StampsOwn'
  <2>1. \A q \in Rows : rows[q] # None => rows[q].updated \in Nat /\ rows[q].updated <= clock
    BY DEF Inv, SyncInv, StampsOwn, TypeOK, Times
  <2>2. \A q \in Rows : d1[q] # None => d1[q] \in Nat /\ d1[q] <= clock
    BY DEF Inv, SyncInv, StampsOwn, TypeOK, Times
  <2>3. \A q \in Rows : cycle.batch[q] # None => cycle.batch[q] \in Nat /\ cycle.batch[q] <= clock
    <3>1. cycle.batch \in [Rows -> Times \cup {None}]
      BY DEF Inv, TypeOK
    <3>2. QED
      BY <3>1 DEF Inv, SyncInv, StampsOwn, Times
  <2>4. /\ \A q \in Rows : rows'[q] # None => rows'[q].updated <= clock'
        /\ \A q \in Rows : d1'[q] # None => d1'[q] <= clock'
        /\ \A q \in Rows : cycle'.batch[q] # None => cycle'.batch[q] <= clock'
    BY <1>1, <1>2, <2>1, <2>2, <2>3
  <2>5. ASSUME NEW s1 \in Sessions, tx'[s1] # None
        PROVE  /\ tx'[s1].now <= clock'
               /\ \A q \in Rows : rows'[q] # None => rows'[q].updated # tx'[s1].now
               /\ \A q \in Rows : d1'[q] # tx'[s1].now /\ cycle'.batch[q] # tx'[s1].now
               /\ \A s2 \in Sessions \ {s1} : tx'[s2] # None => tx'[s2].now # tx'[s1].now
    <3>1. CASE s1 = s
      <4>1. \A s2 \in Sessions \ {s} : tx'[s2] # None => tx'[s2].now # Now
        BY <1>1, <1>5, <1>6
      <4>2. QED
        BY <1>1, <1>2, <1>4, <1>5, <3>1, <4>1 DEF NowIsOwn
    <3>2. CASE s1 # s
      <4>1. tx'[s1] = tx[s1] /\ tx[s1].now # Now /\ tx[s1].now <= clock'
        BY <1>1, <1>5, <1>6, <2>5, <3>2
      <4>2. QED
        BY <1>2, <1>5, <2>5, <3>2, <4>1 DEF Inv, SyncInv, StampsOwn
    <3>3. QED
      BY <3>1, <3>2
  <2>6. QED
    BY <2>4, <2>5 DEF StampsOwn
<1>8. QED
  BY <1>3, <1>7 DEF SyncInv

LEMMA SetStep == Inv /\ (\E r \in Rows, excluded \in BOOLEAN : Set(r, excluded)) => SyncInv'
<1> SUFFICES ASSUME Inv, NEW r \in Rows, NEW excluded \in BOOLEAN, Set(r, excluded) PROVE SyncInv'
  OBVIOUS
<1>1. clock \in Nat /\ clock' = clock + 1 /\ Now = clock + 1 /\ Now \in Times
  BY MirrorAssumption DEF Set, Now, Inv, TypeOK, Times
<1>2. UNCHANGED <<tx, d1, cycle>> /\ Write(r, excluded, Now)
  BY DEF Set
<1>3. NowIsOwn(Now)
  BY NowIsNew DEF Inv, SyncInv
<1>4. AheadOfD1' /\ SinceIsStamp' /\ BatchAgrees' /\ StaleStays'
  BY <1>1, <1>2, <1>3, WriteKeeps
<1>5. rows'[r].updated = Now /\ \A q \in Rows \ {r} : rows'[q] = rows[q]
  BY <1>2 DEF Write, Inv, TypeOK
<1>6. \A q \in Rows : rows[q] # None => rows[q].updated \in Nat /\ rows[q].updated <= clock
  BY DEF Inv, SyncInv, StampsOwn, TypeOK, Times
<1>7. \A q \in Rows : d1[q] # None => d1[q] \in Nat /\ d1[q] <= clock
  BY DEF Inv, SyncInv, StampsOwn, TypeOK, Times
<1>8. \A q \in Rows : cycle.batch[q] # None => cycle.batch[q] \in Nat /\ cycle.batch[q] <= clock
  <2>1. cycle.batch \in [Rows -> Times \cup {None}]
    BY DEF Inv, TypeOK
  <2>2. QED
    BY <2>1 DEF Inv, SyncInv, StampsOwn, Times
<1>9. \A s \in Sessions : tx[s] # None => tx[s].now \in Nat /\ tx[s].now <= clock
  BY DEF Inv, SyncInv, StampsOwn, TypeOK, Times
<1>10. \A q \in Rows : rows'[q] # None => rows'[q].updated <= clock'
  BY <1>1, <1>5, <1>6
<1>11. /\ \A q \in Rows : d1'[q] # None => d1'[q] <= clock'
       /\ \A q \in Rows : cycle'.batch[q] # None => cycle'.batch[q] <= clock'
  BY <1>1, <1>2, <1>7, <1>8
<1>12. ASSUME NEW s \in Sessions, tx'[s] # None
       PROVE  /\ tx'[s].now <= clock'
              /\ \A q \in Rows : rows'[q] # None => rows'[q].updated # tx'[s].now
  <2>1. tx'[s] = tx[s] /\ tx[s].now <= clock' /\ tx[s].now # Now
    BY <1>1, <1>2, <1>9, <1>12
  <2>2. QED
    BY <1>5, <1>12, <2>1 DEF Inv, SyncInv, StampsOwn
<1>13. StampsOwn'
  BY <1>2, <1>10, <1>11, <1>12 DEF Inv, SyncInv, StampsOwn
<1>14. QED
  BY <1>4, <1>13 DEF SyncInv

LEMMA DeleteRowStep == Inv /\ (\E r \in Rows : DeleteRow(r)) => SyncInv'
<1> SUFFICES ASSUME Inv, NEW r \in Rows, DeleteRow(r) PROVE SyncInv'
  OBVIOUS
<1>1. rows'[r] = None /\ \A q \in Rows \ {r} : rows'[q] = rows[q]
  BY DEF DeleteRow, Inv, TypeOK
<1>2. UNCHANGED <<clock, tx, d1, cycle>> /\ overtaken' = overtaken \ {r}
  BY DEF DeleteRow
<1>3. AheadOfD1' /\ SinceIsStamp' /\ BatchAgrees' /\ StaleStays'
  <2>1. \A q \in Rows : rows'[q] = rows[q] \/ rows'[q] = None
    BY <1>1
  <2>2. \A q \in Rows : rows'[q] # None /\ q \notin overtaken' => q \notin overtaken
    BY <1>1, <1>2
  <2>3. QED
    BY <1>2, <2>1, <2>2, NothingWritten
<1>4. StampsOwn'
  BY <1>1, <1>2 DEF Inv, SyncInv, StampsOwn
<1>5. QED
  BY <1>3, <1>4 DEF SyncInv

-----------------------------------------------------------------------------
(* The steps of the cycle.                                                 *)

\* What D1 and the batch may be after a step for NOW() to stay that of one transaction.
LEMMA StampsKept ==
  ASSUME Inv, UNCHANGED postgres,
         \A r \in Rows : d1'[r] \in {d1[r], cycle.batch[r], None},
         \A r \in Rows : cycle'.batch[r] \in {cycle.batch[r], None} \/ (rows[r] # None /\ cycle'.batch[r] = rows[r].updated)
  PROVE  StampsOwn'
<1>1. \A s \in Sessions : tx[s] # None => None # tx[s].now
  BY MirrorAssumption DEF Inv, TypeOK, Times
<1>2. \A r \in Rows : d1'[r] # None => d1'[r] <= clock
  BY DEF Inv, SyncInv, StampsOwn
<1>3. \A r \in Rows : cycle'.batch[r] # None => cycle'.batch[r] <= clock
  BY DEF Inv, SyncInv, StampsOwn
<1>4. \A s \in Sessions : tx[s] # None => \A r \in Rows : d1'[r] # tx[s].now /\ cycle'.batch[r] # tx[s].now
  BY <1>1 DEF Inv, SyncInv, StampsOwn
<1>5. QED
  BY <1>2, <1>3, <1>4 DEF Inv, SyncInv, StampsOwn

\* The rows, and which of them were overtaken, are as before.
RowsStay == UNCHANGED <<postgres, overtaken>>

\* A cycle that ends, or goes on to the other table, holds nothing.
LEMMA CycleEnds ==
  ASSUME Inv, RowsStay, AheadOfD1', \A r \in Rows : d1'[r] \in {d1[r], cycle.batch[r], None},
         Proceed \/ cycle' = Idle \/ cycle' = [Idle EXCEPT !.at = "last"]
  PROVE  SyncInv'
<1>1. cycle'.at \in {"idle", "last"} /\ \A r \in Rows : cycle'.batch[r] = None
  BY Proceeds DEF Inv
<1>2. StampsOwn'
  BY <1>1, StampsKept DEF RowsStay
<1>3. QED
  BY <1>1, <1>2 DEF SyncInv, SinceIsStamp, BatchAgrees, StaleStays

LEMMA AheadStays == Inv /\ RowsStay /\ UNCHANGED d1 => AheadOfD1'
BY DEF Inv, SyncInv, RowsStay, AheadOfD1, Older, Stamps, Eligible

LEMMA GetLastSyncStep == Inv /\ GetLastSync => SyncInv'
<1> SUFFICES ASSUME Inv, GetLastSync PROVE SyncInv'
  OBVIOUS
<1>1. PICK since \in LastOf(Stamps(cycle.table)) : cycle' = [cycle EXCEPT !.at = "query", !.since = since]
  BY DEF GetLastSync
<1>2. RowsStay /\ UNCHANGED d1
  BY DEF GetLastSync, RowsStay
<1>3. cycle'.at = "query" /\ cycle'.since = since /\ UNCHANGED <<cycle.table, cycle.batch>>
  BY <1>1 DEF Inv, TypeOK
<1>4. SinceIsStamp'
  BY <1>2, <1>3, LastIsOne DEF SinceIsStamp, Stamps
<1>5. StampsOwn'
  BY <1>2, <1>3, StampsKept DEF RowsStay
<1>6. QED
  BY <1>2, <1>3, <1>4, <1>5, AheadStays DEF SyncInv, BatchAgrees, StaleStays

\* The query finds every row that is missing in D1 or old: such a row is newer than
\* the checkpoint, because the checkpoint is the time of a row that is there.
LEMMA GetUpdatedSinceStep == Inv /\ GetUpdatedSince => SyncInv'
<1> SUFFICES ASSUME Inv, GetUpdatedSince PROVE SyncInv'
  OBVIOUS
<1> DEFINE changed == {r \in Here : Eligible(r) /\ rows[r].updated > cycle.since}
           batch == [r \in Rows |-> IF r \in changed THEN rows[r].updated ELSE None]
<1>1. RowsStay /\ UNCHANGED d1 /\ cycle.at = "query"
  BY DEF GetUpdatedSince, RowsStay
<1>2. \/ cycle' = [cycle EXCEPT !.at = "ids"]
      \/ cycle' = [cycle EXCEPT !.at = "push", !.batch = batch]
  BY DEF GetUpdatedSince
<1>3. /\ cycle'.at \in {"ids", "push"} /\ cycle'.table = cycle.table
      /\ cycle'.at = "push" => cycle'.batch = batch
      /\ cycle'.batch \in {cycle.batch, batch}
  BY <1>2 DEF Inv, TypeOK
<1>4. \A r \in Rows : batch[r] = None \/ (rows[r] # None /\ batch[r] = rows[r].updated)
  BY DEF Eligible
<1>5. StampsOwn'
  BY <1>1, <1>3, <1>4, StampsKept DEF RowsStay
<1>6. ASSUME NEW r \in Here, r \notin overtaken, Eligible(r)
      PROVE  batch[r] = rows[r].updated \/ (batch[r] = None /\ d1[r] = rows[r].updated)
  <2>1. r \in Rows /\ TableOf(r) = cycle.table
    BY MirrorAssumption DEF Here, RowsOf, TableOf, Inv, TypeOK, Tables
  <2>2. CASE r \in changed
    BY <2>1, <2>2
  <2>3. CASE r \notin changed
    <3>1. rows[r].updated \in Nat \ {0} /\ cycle.since \in Nat
      BY <1>6, <2>1, MirrorAssumption DEF Eligible, Inv, TypeOK, Times
    <3>2. rows[r].updated <= cycle.since
      BY <1>6, <2>3, <3>1
    <3>3. cycle.since \in Stamps(cycle.table)
      BY <1>1, <3>1, <3>2 DEF Inv, SyncInv, SinceIsStamp
    <3>4. d1[r] = rows[r].updated
      BY <1>6, <2>1, <3>1, <3>2, <3>3 DEF Inv, SyncInv, AheadOfD1, Older
    <3>5. QED
      BY <2>1, <2>3, <3>4
  <2>4. QED
    BY <2>2, <2>3
<1>7. BatchAgrees'
  <2> SUFFICES ASSUME cycle'.at = "push" PROVE BatchAgrees'
    BY DEF BatchAgrees
  <2>1. cycle'.batch = batch /\ Here' = Here
    BY <1>3 DEF Here
  <2>2. \A r \in Rows \ Here : batch[r] = None
    OBVIOUS
  <2>3. \A r \in Here \ overtaken' : Eligible(r)' =>
          cycle'.batch[r] = rows'[r].updated \/ (cycle'.batch[r] = None /\ d1'[r] = rows'[r].updated)
    BY <1>1, <1>6, <2>1 DEF RowsStay, Eligible
  <2>4. QED
    BY <2>1, <2>2, <2>3 DEF BatchAgrees
<1>8. QED
  BY <1>1, <1>3, <1>5, <1>7, AheadStays DEF SyncInv, SinceIsStamp, StaleStays

\* The batch of a table lands: what is still old in D1 then is newer than the batch.
LEMMA PushedAhead ==
  ASSUME Inv, RowsStay, cycle.at = "push", d1' = Pushed
  PROVE  AheadOfD1'
<1>1. \A r \in Rows : d1'[r] = IF cycle.batch[r] # None THEN cycle.batch[r] ELSE d1[r]
  BY DEF Pushed
<1> SUFFICES ASSUME NEW r \in Rows, r \notin overtaken, Eligible(r), d1'[r] # rows[r].updated
             PROVE  Older(r, Stamps(TableOf(r)))'
  BY DEF AheadOfD1, RowsStay, Eligible
<1>2. rows' = rows
  BY DEF RowsStay
<1>3. RowsOf(TableOf(r)) \subseteq Rows
  BY MirrorAssumption DEF RowsOf
<1>4. CASE r \in Here
  <2>1. TableOf(r) = cycle.table
    BY <1>4, MirrorAssumption DEF Here, RowsOf, TableOf, Inv, TypeOK, Tables
  <2>2. d1[r] # rows[r].updated /\ Older(r, Pushing(cycle.table))
    <3>1. rows[r].updated # None
      BY MirrorAssumption DEF Eligible, Inv, TypeOK, Times
    <3>2. QED
      BY <1>1, <1>4, <3>1 DEF Inv, SyncInv, BatchAgrees
  <2>3. Older(r, Stamps(cycle.table))
    BY <2>1, <2>2 DEF Inv, SyncInv, AheadOfD1
  <2>4. Stamps(TableOf(r))' \subseteq Stamps(cycle.table) \cup Pushing(cycle.table)
    BY <1>1, <1>3, <2>1 DEF Stamps, Pushing, TableOf
  <2>5. QED
    BY <1>2, <2>2, <2>3, <2>4 DEF Older
<1>5. CASE r \notin Here
  <2>1. TableOf(r) # cycle.table /\ RowsOf(TableOf(r)) \cap Here = {}
    BY <1>5 DEF Here, RowsOf, TableOf, Inv, TypeOK, Tables
  <2>2. \A q \in RowsOf(TableOf(r)) \cup {r} : d1'[q] = d1[q]
    BY <1>1, <1>3, <1>5, <2>1 DEF Inv, SyncInv, BatchAgrees
  <2>3. Stamps(TableOf(r))' = Stamps(TableOf(r))
    BY <2>2 DEF Stamps, TableOf
  <2>4. QED
    BY <1>2, <2>2, <2>3 DEF Inv, SyncInv, AheadOfD1, Older
<1>6. QED
  BY <1>4, <1>5

LEMMA MirrorArchivedStep == Inv /\ (\E answered \in BOOLEAN : MirrorArchived(answered)) => SyncInv'
<1> SUFFICES ASSUME Inv, NEW answered \in BOOLEAN, MirrorArchived(answered) PROVE SyncInv'
  OBVIOUS
<1>1. RowsStay /\ cycle.at = "push" /\ d1' = Pushed
  BY DEF MirrorArchived, RowsStay
<1>2. AheadOfD1'
  BY <1>1, PushedAhead
<1>3. \A r \in Rows : d1'[r] \in {d1[r], cycle.batch[r], None}
  BY <1>1 DEF Pushed
<1>4. CASE answered
  <2>1. cycle' = [cycle EXCEPT !.at = "ids", !.batch = Idle.batch]
    BY <1>4 DEF MirrorArchived
  <2>2. cycle'.at = "ids" /\ \A r \in Rows : cycle'.batch[r] = None
    BY <2>1 DEF Idle, Inv, TypeOK
  <2>3. StampsOwn'
    BY <1>1, <1>3, <2>2, StampsKept DEF RowsStay
  <2>4. QED
    BY <1>2, <2>2, <2>3 DEF SyncInv, SinceIsStamp, BatchAgrees, StaleStays
<1>5. CASE ~answered
  BY <1>1, <1>2, <1>3, <1>5, CycleEnds DEF MirrorArchived
<1>6. QED
  BY <1>4, <1>5

LEMMA ListStep == Inv /\ (ListIDs \/ GetMirrorEligibleIDs) => SyncInv'
<1> SUFFICES ASSUME Inv, ListIDs \/ GetMirrorEligibleIDs PROVE SyncInv'
  OBVIOUS
<1> DEFINE listed == {r \in Here : d1[r] # None}
           stale == {r \in cycle.ids : ~Eligible(r)}
<1>1. RowsStay /\ UNCHANGED d1
  BY DEF ListIDs, GetMirrorEligibleIDs, RowsStay
<1>2. AheadOfD1'
  BY <1>1, AheadStays
<1>3. CASE Proceed
  BY <1>1, <1>2, <1>3, CycleEnds
<1>4. CASE ~Proceed
  <2>1. \/ cycle' = [cycle EXCEPT !.at = "eligible", !.ids = listed]
        \/ cycle' = [cycle EXCEPT !.at = "delete", !.ids = stale]
    BY <1>4 DEF ListIDs, GetMirrorEligibleIDs
  <2>2. cycle'.batch = cycle.batch /\ (cycle'.at = "eligible" \/ (cycle'.at = "delete" /\ cycle'.ids = stale))
    BY <2>1 DEF Inv, TypeOK
  <2>3. StaleStays'
    BY <1>1, <2>2 DEF StaleStays, RowsStay, Eligible
  <2>4. StampsOwn'
    BY <1>1, <2>2, StampsKept DEF RowsStay
  <2>5. QED
    BY <1>2, <2>2, <2>3, <2>4 DEF SyncInv, SinceIsStamp, BatchAgrees
<1>5. QED
  BY <1>3, <1>4

\* The deletion takes no copy that is up to date: a row that became eligible again
\* since the list was compared has a newer version.
LEMMA DeleteArchivedStep == Inv /\ (\E answered \in BOOLEAN : DeleteArchived(answered)) => SyncInv'
<1> SUFFICES ASSUME Inv, NEW answered \in BOOLEAN, DeleteArchived(answered) PROVE SyncInv'
  OBVIOUS
<1>1. RowsStay /\ cycle.at = "delete" /\ Proceed
  BY DEF DeleteArchived, RowsStay
<1>2. \A r \in Rows : d1'[r] = IF r \in cycle.ids THEN None ELSE d1[r]
  BY DEF DeleteArchived
<1>3. \A r \in Rows : Stamps(TableOf(r))' \subseteq Stamps(TableOf(r))
  <2>1. \A t : RowsOf(t) \subseteq Rows
    BY MirrorAssumption DEF RowsOf
  <2>2. QED
    BY <1>2, <2>1 DEF Stamps, TableOf
<1>4. AheadOfD1'
  <2> SUFFICES ASSUME NEW r \in Rows, r \notin overtaken, Eligible(r), d1'[r] # rows[r].updated
               PROVE  Older(r, Stamps(TableOf(r)))'
    BY <1>1 DEF AheadOfD1, RowsStay, Eligible
  <2>1. d1[r] # rows[r].updated
    BY <1>1, <1>2 DEF Inv, SyncInv, StaleStays
  <2>2. Older(r, Stamps(TableOf(r)))
    BY <2>1 DEF Inv, SyncInv, AheadOfD1
  <2>3. QED
    BY <1>1, <1>3, <2>2 DEF Older, RowsStay
<1>5. QED
  BY <1>1, <1>2, <1>4, CycleEnds

-----------------------------------------------------------------------------
LEMMA Initially == Init => Inv
<1> SUFFICES ASSUME Init PROVE Inv
  OBVIOUS
<1> USE MirrorAssumption
<1> DEFINE none == [r \in Rows |-> None]
<1>1. cycle = [table |-> "pages", at |-> "idle", since |-> 0, batch |-> none, ids |-> {}]
  BY DEF Init, Idle
<1>2. none \in [Rows -> Times \cup {None}] /\ \A r \in Rows : none[r] = None
  OBVIOUS
<1>3. TypeOK
  <2>1. cycle \in [table : Tables, at : {"idle", "last", "query", "push", "ids", "eligible", "delete"},
                   since : 0..MaxClock, batch : [Rows -> Times \cup {None}], ids : SUBSET Rows]
    BY <1>1, <1>2 DEF Tables
  <2>2. QED
    BY <2>1 DEF Init, TypeOK
<1>4. cycle.at = "idle" /\ \A r \in Rows : rows[r] = None /\ d1[r] = None /\ cycle.batch[r] = None
  BY <1>1, <1>2 DEF Init
<1>5. \A s \in Sessions : tx[s] = None
  BY DEF Init
<1>6. SyncInv
  BY <1>4, <1>5 DEF SyncInv, StampsOwn, AheadOfD1, Eligible, SinceIsStamp, BatchAgrees, StaleStays
<1>7. QED
  BY <1>3, <1>6 DEF Inv

LEMMA SyncStep == Inv /\ [Next]_vars => SyncInv'
<1> SUFFICES ASSUME Inv, [Next]_vars PROVE SyncInv'
  OBVIOUS
<1>1. CASE SyncOnce \/ WorkerWithoutLinks \/ CallFails \/ Crash
  <2>1. RowsStay /\ UNCHANGED d1
    BY <1>1 DEF SyncOnce, WorkerWithoutLinks, CallFails, Crash, RowsStay
  <2>2. Proceed \/ cycle' = Idle \/ cycle' = [Idle EXCEPT !.at = "last"]
    BY <1>1 DEF SyncOnce, WorkerWithoutLinks, CallFails, Crash
  <2>3. QED
    BY <2>1, <2>2, AheadStays, CycleEnds
<1>2. CASE DeployWorker \/ UNCHANGED vars
  <2>1. RowsStay /\ UNCHANGED <<d1, cycle>>
    BY <1>2 DEF DeployWorker, vars, RowsStay
  <2>2. StampsOwn'
    BY <2>1, StampsKept DEF RowsStay
  <2>3. QED
    BY <2>1, <2>2, NothingWritten DEF RowsStay, SyncInv
<1>3. QED
  BY <1>1, <1>2, StepKinds, GetLastSyncStep, GetUpdatedSinceStep, MirrorArchivedStep, ListStep,
     DeleteArchivedStep, CommitUpsertStep, BeginUpsertStep, SetStep, DeleteRowStep

\* SyncInv is inductive: clocks, checkpoint, batch and list agree with D1 and Postgres
\* between any two calls of a cycle.
THEOREM SyncInvariance == Spec => []Inv
<1>1. Inv /\ [Next]_vars => Inv'
  BY TypeStep, SyncStep DEF Inv
<1>2. QED
  BY <1>1, Initially, PTL DEF Spec

\* SyncOnce, GetUpdatedSince: a row whose copy in D1 is missing or old is never behind
\* the checkpoint, in whichever order transactions commit and whatever call fails,
\* unless it committed with a NOW() that a push had passed.
THEOREM NothingBehind == Spec => []MirrorInv
<1>1. Inv => MirrorInv
  <2> SUFFICES ASSUME Inv PROVE NothingSkipped
    BY DEF Inv, MirrorInv
  <2> SUFFICES ASSUME NEW r \in Rows, r \notin overtaken, Eligible(r), d1[r] # rows[r].updated,
                      NEW since \in LastOf(Stamps(TableOf(r)))
               PROVE  rows[r].updated > since
    BY DEF NothingSkipped
  <2>1. rows[r].updated \in Nat \ {0}
    BY MirrorAssumption DEF Inv, TypeOK, Eligible, Times
  <2>2. since \in Stamps(TableOf(r)) \cup {0}
    BY LastIsOne
  <2>3. since \in Nat
    <3>1. RowsOf(TableOf(r)) \subseteq Rows
      BY MirrorAssumption DEF RowsOf
    <3>2. QED
      BY <2>2, <3>1 DEF Stamps, Inv, TypeOK, Times
  <2>4. CASE since = 0
    BY <2>1, <2>4
  <2>5. CASE since \in Stamps(TableOf(r))
    BY <2>1, <2>3, <2>5 DEF Inv, SyncInv, AheadOfD1, Older
  <2>6. QED
    BY <2>2, <2>4, <2>5
<1>2. QED
  BY <1>1, SyncInvariance, PTL
===============================================================================
