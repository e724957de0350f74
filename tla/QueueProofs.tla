---------------------------- MODULE QueueProofs -----------------------------
(* The proofs about Queue, for any sets of items, devices and saves and any *)
(* number of requests in the Worker: its types, and that items and saves    *)
(* move together whatever the requests interleave.                          *)
EXTENDS Queue, FiniteSetTheorems, TLAPS

USE DEF itemVars, deviceVars, historyVars

\* Every step keeps the variables typed, as long as requests carry saves.
LEMMA TypeStep == TypeOK /\ Agreement /\ [Next]_vars => TypeOK'
<1> SUFFICES ASSUME TypeOK, Agreement, [Next]_vars PROVE TypeOK'
  OBVIOUS
<1>1. ASSUME NEW q \in Items,
             Enqueue(q) \/ RetryItem(q) \/ ClaimGoesStale(q) \/ ItemExpires(q)
      PROVE  TypeOK'
  BY <1>1 DEF Enqueue, RetryItem, ClaimGoesStale, ItemExpires, TypeOK
<1>2. ASSUME NEW s \in Saves, NEW r \in Slots, Resend(s, r) PROVE TypeOK'
  <2>1. owner[s] \in Devices /\ target[s] \in Items
    <3>1. owner[s] \in Devices /\ owner[s] # None
      BY <1>2, QueueAssumption DEF Resend
    <3>2. target[s] \in Items \cup {None} /\ (owner[s] = None <=> target[s] = None)
      BY DEF TypeOK, Agreement, SaveAgrees
    <3>3. QED
      BY <3>1, <3>2
  <2>2. QED
    BY <1>2, <2>1 DEF Resend, Send, SaveRequest, Requests, TypeOK
<1>3. ASSUME NEW d \in Devices, NEW q \in Items, Claim(d, q) \/ CloseTab(d, q) PROVE TypeOK'
  <2>1. CASE Claim(d, q)
    <3>1. tabs' \in [Devices -> SUBSET Items]
      BY <2>1 DEF Claim, TypeOK
    <3>2. QED
      BY <2>1, <3>1 DEF Claim, TypeOK
  <2>2. CASE CloseTab(d, q)
    BY <2>2 DEF CloseTab, TypeOK
  <2>3. QED
    BY <1>3, <2>1, <2>2
<1>4. ASSUME NEW d \in Devices, NEW q \in Items, NEW r \in Slots, StartFail(d, q, r) PROVE TypeOK'
  BY <1>4 DEF StartFail, Send, FailRequest, Requests, TypeOK
<1>5. ASSUME NEW d \in Devices, NEW q \in Items, NEW s \in Saves, NEW r \in Slots, StartSave(d, q, s, r)
      PROVE  TypeOK'
  BY <1>5 DEF StartSave, Send, SaveRequest, Requests, TypeOK
<1>6. ASSUME NEW d \in Devices, RevokeToken(d) PROVE TypeOK'
  BY <1>6 DEF RevokeToken, TypeOK
<1>7. ASSUME NEW r \in Slots, SeekRow(r) PROVE TypeOK'
  <2>1. req' \in [Slots -> Requests \cup {None}]
    BY <1>7 DEF SeekRow, Finish, Requests, TypeOK
  <2>2. QED
    BY <1>7, <2>1 DEF SeekRow, Reply, TypeOK
<1>8. ASSUME NEW r \in Slots, ReadItem(r) PROVE TypeOK'
  <2>1. req' \in [Slots -> Requests \cup {None}]
    BY <1>8 DEF ReadItem, ToWrite, Finish, Requests, TypeOK
  <2>2. QED
    BY <1>8, <2>1 DEF ReadItem, Reply, TypeOK
<1>9. ASSUME NEW r \in Slots, WriteSave(r) PROVE TypeOK'
  <2>1. req[r].save \in Saves /\ req' \in [Slots -> Requests \cup {None}]
    BY <1>9 DEF WriteSave, Finish, TypeOK, Agreement, RequestAgrees
  <2>2. recorded' \in SUBSET Saves /\ overtaken' \in SUBSET Saves
    BY <1>9, <2>1 DEF WriteSave, NoteSave, TypeOK
  <2>3. QED
    BY <1>9, <2>1, <2>2 DEF WriteSave, Reply, TypeOK
<1>10. ASSUME NEW r \in Slots, WriteFail(r) PROVE TypeOK'
  BY <1>10 DEF WriteFail, Finish, Requests, TypeOK
<1>11. ASSUME NEW r \in Slots, Drop(r) PROVE TypeOK'
  BY <1>11 DEF Drop, Finish, TypeOK
<1>12. CASE Agent
  BY <1>12 DEF Agent, Fetch, CleanupRows, CleanupQueue, TypeOK
<1>13. CASE TurnLinksOff
  BY <1>13 DEF TurnLinksOff, TypeOK
<1>14. CASE UNCHANGED vars
  BY <1>14 DEF vars, TypeOK
<1>15. QED
  BY <1>1, <1>2, <1>3, <1>4, <1>5, <1>6, <1>7, <1>8, <1>9, <1>10, <1>11, <1>12, <1>13, <1>14
     DEF Next, Device, Worker

\* The kinds of steps, as the lemmas below take them apart: those that neither
\* record a save nor touch an item's status, those that do, and the device's.
LEMMA StepKinds ==
  ASSUME [Next]_vars
  PROVE  \/ \E q \in Items : Enqueue(q) \/ RetryItem(q) \/ ClaimGoesStale(q) \/ ItemExpires(q)
         \/ \E s \in Saves, r \in Slots : Resend(s, r)
         \/ \E d \in Devices, q \in Items : Claim(d, q)
         \/ \E d \in Devices, q \in Items : CloseTab(d, q)
         \/ \E d \in Devices, q \in Items, r \in Slots : StartFail(d, q, r)
         \/ \E d \in Devices, q \in Items, s \in Saves, r \in Slots : StartSave(d, q, s, r)
         \/ \E d \in Devices : RevokeToken(d)
         \/ \E r \in Slots : SeekRow(r) \/ ReadItem(r) \/ Drop(r)
         \/ \E r \in Slots : WriteSave(r)
         \/ \E r \in Slots : WriteFail(r)
         \/ \E s \in Saves : Fetch(s)
         \/ CleanupRows(Saves \ LinkSaves) \/ CleanupRows(LinkSaves)
         \/ CleanupQueue
         \/ TurnLinksOff \/ UNCHANGED vars
BY DEF Next, Device, Worker, Agent

\* Every step keeps requests, saves and items in agreement.
LEMMA AgreementStep == TypeOK /\ Agreement /\ [Next]_vars => Agreement'
<1> SUFFICES ASSUME TypeOK, Agreement, [Next]_vars PROVE Agreement'
  OBVIOUS
<1> USE QueueAssumption
<1>1. ASSUME NEW q \in Items,
             Enqueue(q) \/ RetryItem(q) \/ ClaimGoesStale(q) \/ ItemExpires(q)
      PROVE  Agreement'
  BY <1>1 DEF Enqueue, RetryItem, ClaimGoesStale, ItemExpires, TypeOK, Agreement, RequestAgrees, SaveAgrees
<1>2. ASSUME NEW s \in Saves, NEW r \in Slots, Resend(s, r) PROVE Agreement'
  BY <1>2 DEF Resend, Send, SaveRequest, TypeOK, Agreement, RequestAgrees, SaveAgrees
<1>3. ASSUME NEW d \in Devices, NEW q \in Items, Claim(d, q) PROVE Agreement'
  BY <1>3 DEF Claim, TypeOK, Agreement, RequestAgrees, SaveAgrees
<1>4. ASSUME NEW d \in Devices, NEW q \in Items, CloseTab(d, q) PROVE Agreement'
  BY <1>4 DEF CloseTab, Agreement, RequestAgrees, SaveAgrees
<1>5. ASSUME NEW d \in Devices, NEW q \in Items, NEW r \in Slots, StartFail(d, q, r) PROVE Agreement'
  BY <1>5 DEF StartFail, Send, FailRequest, TypeOK, Agreement, RequestAgrees, SaveAgrees
<1>6. ASSUME NEW d \in Devices, NEW q \in Items, NEW s \in Saves, NEW r \in Slots, StartSave(d, q, s, r)
      PROVE  Agreement'
  <2>1. \A t \in Saves : SaveAgrees(t)'
    BY <1>6 DEF StartSave, TypeOK, Agreement, SaveAgrees
  <2>2. ASSUME NEW o \in Slots, req[o] # None, req[o].op = "save" PROVE req[o].save # s
    BY <1>6, <2>2 DEF StartSave, TypeOK, Requests, Agreement, RequestAgrees
  <2>3. \A o \in Slots : req'[o] # None => RequestAgrees(o)'
    BY <1>6, <2>2 DEF StartSave, Send, SaveRequest, TypeOK, Agreement, RequestAgrees
  <2>4. \A p \in Items : status'[p] = "claimed" => ~retry'[p]
    BY <1>6 DEF StartSave, Agreement
  <2>5. QED
    BY <2>1, <2>3, <2>4 DEF Agreement
<1>7. ASSUME NEW d \in Devices, RevokeToken(d) PROVE Agreement'
  BY <1>7 DEF RevokeToken, Agreement, RequestAgrees, SaveAgrees
<1>8. ASSUME NEW r \in Slots, SeekRow(r) \/ ReadItem(r) \/ Drop(r) PROVE Agreement'
  BY <1>8 DEF SeekRow, ReadItem, ToWrite, Drop, Finish, TypeOK, Requests, Agreement, RequestAgrees, SaveAgrees
<1>9. ASSUME NEW r \in Slots, WriteSave(r) PROVE Agreement'
  <2>0. req[r].save \in Saves /\ owner[req[r].save] # None
    BY <1>9 DEF WriteSave, TypeOK, Requests, Agreement, RequestAgrees
  <2>1. \A t \in Saves : SaveAgrees(t)'
    BY <2>0, <1>9 DEF WriteSave, NoteSave, TypeOK, Agreement, SaveAgrees
  <2>2. \A o \in Slots : req'[o] # None => RequestAgrees(o)'
    BY <1>9 DEF WriteSave, Finish, TypeOK, Agreement, RequestAgrees
  <2>3. \A q \in Items : status'[q] = "claimed" => ~retry'[q]
    BY <1>9 DEF WriteSave, TypeOK, Agreement
  <2>4. QED
    BY <2>1, <2>2, <2>3 DEF Agreement
<1>10. ASSUME NEW r \in Slots, WriteFail(r) PROVE Agreement'
  BY <1>10 DEF WriteFail, Finish, TypeOK, Agreement, RequestAgrees, SaveAgrees
<1>11. ASSUME NEW s \in Saves, Fetch(s) PROVE Agreement'
  BY <1>11 DEF Fetch, TypeOK, Agreement, RequestAgrees, SaveAgrees
<1>12. CASE CleanupRows(Saves \ LinkSaves) \/ CleanupRows(LinkSaves)
  BY <1>12 DEF CleanupRows, TypeOK, Agreement, RequestAgrees, SaveAgrees
<1>13. CASE CleanupQueue
  BY <1>13 DEF CleanupQueue, TypeOK, Agreement, RequestAgrees, SaveAgrees
<1>14. CASE TurnLinksOff \/ UNCHANGED vars
  BY <1>14 DEF TurnLinksOff, vars, Agreement, RequestAgrees, SaveAgrees
<1>15. QED
  BY StepKinds, <1>1, <1>2, <1>3, <1>4, <1>5, <1>6, <1>7, <1>8, <1>9, <1>10, <1>11, <1>12, <1>13, <1>14

-----------------------------------------------------------------------------
\* A save that is recorded keeps its item, and only WriteSave records one: that
\* of the request, for the request's item.
LEMMA SavesStep ==
  ASSUME TypeOK, Agreement, [Next]_vars, NEW q \in Items
  PROVE  \/ SavesOf(q)' = SavesOf(q)
         \/ \E r \in Slots : WriteSave(r) /\ req[r].item = q /\ SavesOf(q)' = SavesOf(q) \cup {req[r].save}
                             /\ status'[q] = "captured"
<1> USE QueueAssumption
<1>1. ASSUME NEW r \in Slots, WriteSave(r)
      PROVE  \/ SavesOf(q)' = SavesOf(q)
             \/ /\ req[r].item = q /\ SavesOf(q)' = SavesOf(q) \cup {req[r].save}
                /\ status'[q] = "captured"
  BY <1>1 DEF WriteSave, NoteSave, TypeOK, Agreement, RequestAgrees, SavesOf
<1>2. ASSUME UNCHANGED <<recorded, target>> PROVE SavesOf(q)' = SavesOf(q)
  BY <1>2 DEF SavesOf
<1>3. ASSUME NEW d \in Devices, NEW p \in Items, NEW s \in Saves, NEW r \in Slots, StartSave(d, p, s, r)
      PROVE  SavesOf(q)' = SavesOf(q)
  BY <1>3 DEF StartSave, TypeOK, Agreement, SaveAgrees, SavesOf
<1>4. QED
  BY StepKinds, <1>1, <1>2, <1>3
     DEF Enqueue, RetryItem, ClaimGoesStale, ItemExpires, Resend, Claim, CloseTab, StartFail, RevokeToken,
         SeekRow, ReadItem, Drop, WriteFail, Fetch, CleanupRows, CleanupQueue, TurnLinksOff, vars

\* A request that goes on to write held its item's claim when it was checked.
CheckedClaims == \A r \in Slots : req[r] # None /\ req[r].at = "write" => req[r].held

\* Two saves of an item that were not overtaken are one.
SingleSave == \A q \in Items \ raced : \A s, t \in SavesOf(q) \ overtaken : s = t

Inv == TypeOK /\ Agreement /\ CheckedClaims /\ ItemMatchesSave /\ SingleSave

\* Only ReadItem lets a request write, and it checks HeldBy.
LEMMA CheckedStep == TypeOK /\ CheckedClaims /\ [Next]_vars => CheckedClaims'
<1> SUFFICES ASSUME TypeOK, CheckedClaims, [Next]_vars PROVE CheckedClaims'
  OBVIOUS
<1>1. ASSUME NEW r \in Slots, ReadItem(r) PROVE CheckedClaims'
  BY <1>1, QueueAssumption DEF ReadItem, ToWrite, HeldBy, Holder, Finish, TypeOK, Requests, CheckedClaims
<1>2. ASSUME NEW r \in Slots, SeekRow(r) \/ WriteSave(r) \/ WriteFail(r) \/ Drop(r) PROVE CheckedClaims'
  BY <1>2 DEF SeekRow, WriteSave, WriteFail, Drop, Finish, TypeOK, Requests, CheckedClaims
<1>3. ASSUME NEW d \in Devices, NEW q \in Items, NEW r \in Slots,
             StartFail(d, q, r) \/ \E s \in Saves : StartSave(d, q, s, r)
      PROVE  CheckedClaims'
  BY <1>3 DEF StartFail, StartSave, Send, SaveRequest, FailRequest, TypeOK, CheckedClaims
<1>4. ASSUME NEW s \in Saves, NEW r \in Slots, Resend(s, r) PROVE CheckedClaims'
  BY <1>4 DEF Resend, Send, SaveRequest, TypeOK, CheckedClaims
<1>5. CASE UNCHANGED req
  BY <1>5 DEF CheckedClaims
<1>6. QED
  BY StepKinds, <1>1, <1>2, <1>3, <1>4, <1>5
     DEF Enqueue, RetryItem, ClaimGoesStale, ItemExpires, Claim, CloseTab, RevokeToken, Fetch,
         CleanupRows, CleanupQueue, TurnLinksOff, vars

\* A request about to write finds the claim that it checked, or is overtaken.
LEMMA ClaimOrOvertaken ==
  ASSUME TypeOK, CheckedClaims, NEW r \in Slots, req[r] # None, req[r].at = "write"
  PROVE  Overtaken(r) \/ HeldBy(req[r].item, req[r].dev)
BY QueueAssumption DEF TypeOK, Requests, CheckedClaims, Overtaken, HeldBy, Holder

\* An item without a save that becomes captured or deleted does so with its save.
LEMMA ItemMatchesStep ==
  TypeOK /\ Agreement /\ CheckedClaims /\ ItemMatchesSave /\ [Next]_vars => ItemMatchesSave'
<1> SUFFICES ASSUME TypeOK, Agreement, CheckedClaims, ItemMatchesSave, [Next]_vars, NEW q \in Items
             PROVE  /\ status'[q] \in {"captured", "deleted"} => SavesOf(q)' # {}
                    /\ SavesOf(q)' # {} /\ q \notin raced' => status'[q] \in {"captured", "deleted"}
  BY DEF ItemMatchesSave
<1>1. /\ status[q] \in {"captured", "deleted"} => SavesOf(q) # {}
      /\ SavesOf(q) # {} /\ q \notin raced => status[q] \in {"captured", "deleted"}
  BY DEF ItemMatchesSave
<1>2. CASE \E r \in Slots : WriteSave(r) /\ req[r].item = q /\ SavesOf(q)' = SavesOf(q) \cup {req[r].save}
                            /\ status'[q] = "captured"
  BY <1>2
<1>3. CASE SavesOf(q)' = SavesOf(q)
  <2>1. CASE status'[q] = status[q] /\ raced \subseteq raced'
    BY <2>1, <1>1, <1>3
  <2>2. CASE \E p \in Items : Enqueue(p) \/ \E d \in Devices : Claim(d, p)
    BY <2>2, <1>1, <1>3 DEF Enqueue, Claim, Claimable, TypeOK
  <2>3. CASE \E r \in Slots : WriteFail(r)
    BY <2>3, <1>1, <1>3, ClaimOrOvertaken DEF WriteFail, HeldBy, TypeOK
  <2>4. ASSUME NEW r \in Slots, WriteSave(r)
        PROVE  /\ status'[q] \in {"captured", "deleted"} => SavesOf(q)' # {}
               /\ SavesOf(q)' # {} /\ q \notin raced' => status'[q] \in {"captured", "deleted"}
    <3>1. status'[q] = "captured" => status[q] = "captured" \/ req[r].save \in SavesOf(q)'
      BY <2>4 DEF WriteSave, NoteSave, TypeOK, Agreement, RequestAgrees, SavesOf
    <3>2. raced \subseteq raced' /\ (status'[q] = status[q] \/ status'[q] = "captured")
      BY <2>4 DEF WriteSave, TypeOK
    <3>3. QED
      BY <3>1, <3>2, <1>1, <1>3
  <2>5. CASE CleanupQueue
    BY <2>5, <1>1, <1>3 DEF CleanupQueue, TypeOK
  <2>6. QED
    BY StepKinds, <2>1, <2>2, <2>3, <2>4, <2>5
       DEF RetryItem, ClaimGoesStale, ItemExpires, Resend, CloseTab, StartFail, StartSave, RevokeToken,
           SeekRow, ReadItem, Drop, Fetch, CleanupRows, TurnLinksOff, vars
<1>4. QED
  BY <1>2, <1>3, SavesStep

\* A step that gives an item a save, unless it is the item's first one, is that of
\* a request that was overtaken.
LEMMA SingleSaveStep == Inv /\ [Next]_vars => SingleSave'
<1> SUFFICES ASSUME Inv, [Next]_vars, NEW q \in Items, q \notin raced'
             PROVE  \A s, t \in SavesOf(q)' \ overtaken' : s = t
  BY DEF SingleSave
<1> USE DEF Inv
<1>1. q \notin raced /\ overtaken \subseteq overtaken'
  BY StepKinds
     DEF Enqueue, RetryItem, ClaimGoesStale, ItemExpires, Resend, Claim, CloseTab, StartFail, StartSave,
         RevokeToken, SeekRow, ReadItem, Drop, WriteSave, NoteSave, WriteFail, Fetch, CleanupRows,
         CleanupQueue, TurnLinksOff, vars
<1>2. \A s, t \in SavesOf(q) \ overtaken : s = t
  BY <1>1 DEF SingleSave
<1>3. ASSUME NEW r \in Slots, WriteSave(r), req[r].item = q, SavesOf(q)' = SavesOf(q) \cup {req[r].save}
      PROVE  \A s, t \in SavesOf(q)' \ overtaken' : s = t
  <2>1. CASE req[r].save \in SavesOf(q) \/ UNCHANGED recorded
    BY <2>1, <1>1, <1>2, <1>3 DEF WriteSave, SavesOf
  <2>2. CASE HeldBy(q, req[r].dev)
    <3>1. SavesOf(q) = {}
      BY <2>2, <1>1 DEF HeldBy, ItemMatchesSave
    <3>2. QED
      BY <3>1, <1>3
  <2>3. CASE Overtaken(r) /\ ~UNCHANGED recorded
    <3>1. overtaken' = overtaken \cup ({req[r].save} \ recorded)
      BY <2>3, <1>3 DEF WriteSave, NoteSave
    <3>2. req[r].save \notin recorded
      BY <2>3, <1>3 DEF WriteSave, NoteSave
    <3>3. QED
      BY <3>1, <3>2, <1>1, <1>2, <1>3
  <2>4. QED
    BY <1>3, <2>1, <2>2, <2>3, ClaimOrOvertaken DEF WriteSave
<1>4. QED
  BY <1>1, <1>2, <1>3, SavesStep

-----------------------------------------------------------------------------
\* The inductive invariant.
THEOREM Invariance == Spec => []Inv
<1>1. Init => Inv
  BY QueueAssumption
     DEF Init, Inv, TypeOK, Agreement, RequestAgrees, SaveAgrees, CheckedClaims, ItemMatchesSave, SingleSave,
         SavesOf
<1>2. Inv /\ [Next]_vars => Inv'
  BY TypeStep, AgreementStep, CheckedStep, ItemMatchesStep, SingleSaveStep DEF Inv
<1>3. QED
  BY <1>1, <1>2, PTL DEF Spec

\* handleCompleteQueueItem: an item is done if and only if a save of it was
\* recorded, however requests, claims, revocations and sweeps interleave.
THEOREM ItemsMatch == Spec => []ItemMatchesSave
BY Invariance, PTL DEF Inv

\* However devices, retries, stale claims and revocations interleave, an item is
\* resolved by one save only, those of overtaken requests aside: a request that
\* writes has checked (CheckedClaims), so it finds its claim or is overtaken.
THEOREM Resolution == Spec => []QueueInv
<1>1. Inv => QueueInv
  <2> SUFFICES ASSUME Inv, NEW q \in Items \ raced PROVE Cardinality(SavesOf(q) \ overtaken) <= 1
    BY DEF Inv, QueueInv, ResolvedOnce
  <2>1. CASE SavesOf(q) \ overtaken = {}
    BY <2>1, FS_EmptySet
  <2>2. CASE SavesOf(q) \ overtaken # {}
    <3>1. PICK s \in SavesOf(q) \ overtaken : SavesOf(q) \ overtaken = {s}
      BY <2>2 DEF Inv, SingleSave
    <3>2. QED
      BY <3>1, FS_Singleton
  <2>3. QED
    BY <2>1, <2>2
<1>2. QED
  BY <1>1, Invariance, PTL

\* A device is told that its save succeeded only if it was recorded: an answer
\* saved is given by the request that records it, or by one that finds its row.
THEOREM Answers == Spec => []SavedMeansRecorded
<1>1. Init => SavedMeansRecorded
  BY DEF Init, SavedMeansRecorded
<1>2. Inv /\ SavedMeansRecorded /\ [Next]_vars => SavedMeansRecorded'
  <2> SUFFICES ASSUME Inv, SavedMeansRecorded, [Next]_vars PROVE SavedMeansRecorded'
    OBVIOUS
  <2> USE DEF Inv, SavedMeansRecorded
  <2>1. ASSUME NEW r \in Slots, SeekRow(r) PROVE SavedMeansRecorded'
    BY <2>1 DEF SeekRow, Reply, TypeOK, Agreement, SaveAgrees, RequestAgrees
  <2>2. ASSUME NEW r \in Slots, ReadItem(r) PROVE SavedMeansRecorded'
    BY <2>2 DEF ReadItem, Reply, TypeOK
  <2>3. ASSUME NEW r \in Slots, WriteSave(r) PROVE SavedMeansRecorded'
    BY <2>3 DEF WriteSave, NoteSave, Reply, TypeOK
  <2>4. CASE UNCHANGED <<answer, recorded>>
    BY <2>4
  <2>5. QED
    BY StepKinds, <2>1, <2>2, <2>3, <2>4
       DEF Enqueue, RetryItem, ClaimGoesStale, ItemExpires, Resend, Claim, CloseTab, StartFail, StartSave,
           RevokeToken, Drop, WriteFail, Fetch, CleanupRows, CleanupQueue, TurnLinksOff, vars
<1>3. QED
  BY <1>1, <1>2, Invariance, PTL DEF Spec

\* One manual retry buys one attempt: Claim resets manual_retry, so an item that
\* fails is offered again only when the user asks once more.
THEOREM Retries == Spec => []RetryIsAsked
<1>1. Init => RetryIsAsked
  BY DEF Init, RetryIsAsked
<1>2. Inv /\ RetryIsAsked /\ [Next]_vars => RetryIsAsked'
  <2> SUFFICES ASSUME Inv, RetryIsAsked, [Next]_vars, NEW q \in Items,
                      q \notin raced', status'[q] = "failed", retry'[q]
               PROVE  q \in asked'
    BY DEF RetryIsAsked, Claimable
  <2>0. q \notin raced /\ status[q] = "failed" /\ retry[q] => q \in asked
    BY DEF RetryIsAsked, Claimable
  <2> USE DEF Inv
  <2>1. CASE \E p \in Items : RetryItem(p)
    BY <2>1, <2>0 DEF RetryItem, TypeOK
  <2>2. CASE \E p \in Items : Enqueue(p) \/ \E d \in Devices : Claim(d, p)
    BY <2>2, <2>0 DEF Enqueue, Claim, TypeOK
  <2>3. CASE \E r \in Slots : WriteSave(r)
    BY <2>3, <2>0 DEF WriteSave, TypeOK
  <2>4. CASE \E r \in Slots : WriteFail(r)
    BY <2>4, <2>0, ClaimOrOvertaken DEF WriteFail, HeldBy, TypeOK, Agreement
  <2>5. CASE CleanupQueue
    BY <2>5, <2>0 DEF CleanupQueue, TypeOK
  <2>6. CASE UNCHANGED <<status, retry, raced, asked>>
    BY <2>6, <2>0
  <2>7. QED
    BY StepKinds, <2>1, <2>2, <2>3, <2>4, <2>5, <2>6
       DEF ClaimGoesStale, ItemExpires, Resend, CloseTab, StartFail, StartSave, RevokeToken, SeekRow,
           ReadItem, Drop, Fetch, CleanupRows, TurnLinksOff, vars
<1>3. QED
  BY <1>1, <1>2, Invariance, PTL DEF Spec
=============================================================================
