---------------------------- MODULE ConvergeProofs ----------------------------
(* The proofs about the attempts of the Wayback Machine, the saves of links  *)
(* and the bookmarks of the extension, for any jobs, requests, saves, agents *)
(* and runs: the row tells what became of its own attempt, a link is of one  *)
(* save, the latest, and a kind has one folder.                              *)
EXTENDS MCConverge, FiniteSetTheorems, WellFoundedInduction, TLAPS

-----------------------------------------------------------------------------
(* Wayback: the inductive invariant.                                       *)

Attempt(j, t) == [job |-> j, at |-> t]
Known(j) == j \in JobIds /\ job[j] # None
Ended(j, state) == job[j] # None /\ job[j].state = state

\* The row and what is read of it are of an attempt that was recorded, of a job that
\* archive.org knows.
AttemptsRecorded ==
  /\ IsFiniteSet(sent)
  /\ row # None => Attempt(row.job, row.submitted) \in sent /\ Known(row.job)
  /\ \A c \in Clicks : click[c].at = "record" => Known(click[c].job)
  /\ \A s \in Sweepers : sweep[s] # None =>
       /\ row # None
       /\ Attempt(sweep[s].sub.job, sweep[s].sub.submitted) \in sent /\ Known(sweep[s].sub.job)

\* What a sweep has learned of an attempt stays true.
AnswersTrue ==
  \A s \in Sweepers : sweep[s] # None =>
    /\ sweep[s].answer \in {"success", "error"} => Ended(sweep[s].sub.job, sweep[s].answer)
    /\ sweep[s].expired => W!Expired(sweep[s].sub)

RowTrue ==
  row # None =>
    /\ row.status = "succeeded" => Ended(row.job, "success") /\ row.last = row.submitted
    /\ row.status = "failed" => Ended(row.job, "error") \/ W!Expired(row) \/ W!Shared(row.job)
    /\ row.last # None => \E a \in sent : a.at = row.last /\ Ended(a.job, "success")

WaybackIInv == W!TypeOK /\ AttemptsRecorded /\ AnswersTrue /\ RowTrue

SweepRecords ==
  [sub : W!Submissions, expired : BOOLEAN, answer : W!States \cup {"unasked", "failed"}]

-----------------------------------------------------------------------------
(* Wayback: what stays true.                                               *)

LEMMA Sharing ==
  ASSUME IsFiniteSet(sent), NEW j, NEW a \in sent, NEW b \in sent, a # b, a.job = j, b.job = j
  PROVE  W!Shared(j)
<1> DEFINE of == {c \in sent : c.job = j}
<1>1. IsFiniteSet(of) /\ {a, b} \subseteq of
  BY FS_Subset
<1>2. Cardinality({a, b}) = 2
  <2>1. Cardinality({a}) = 1 /\ IsFiniteSet({a})
    BY FS_Singleton
  <2>2. {a, b} = {a} \cup {b} /\ b \notin {a}
    OBVIOUS
  <2>3. Cardinality({a} \cup {b}) = Cardinality({a}) + 1
    BY <2>1, <2>2, FS_AddElement
  <2>4. QED
    BY <2>1, <2>2, <2>3
<1>3. Cardinality(of) >= 2 /\ Cardinality(of) \in Nat
  BY <1>1, <1>2, FS_Subset, FS_CardinalityType
<1>4. W!Cardinality(of) = Cardinality(of)
  BY DEF W!Cardinality, Cardinality
<1>5. QED
  BY <1>3, <1>4 DEF W!Shared

\* Time goes on, jobs end and are not forgotten, and attempts are recorded for good: what was
\* learned of them stays true, as do the rows that a step does not write.
Onwards ==
  /\ now' \in 0..MaxClock /\ now' >= now
  /\ \A j \in JobIds : Known(j) => Known(j)'
  /\ \A j \in JobIds, state \in {"success", "error"} : Known(j) /\ Ended(j, state) => Ended(j, state)'
  /\ sent \subseteq sent' /\ IsFiniteSet(sent')

LEMMA AnswersStay ==
  ASSUME WaybackIInv, Onwards, sweep' = sweep
  PROVE  AnswersTrue' /\ \A s \in Sweepers : sweep[s] # None =>
           Attempt(sweep[s].sub.job, sweep[s].sub.submitted) \in sent' /\ Known(sweep[s].sub.job)'
<1>1. ASSUME NEW s \in Sweepers, sweep[s] # None
      PROVE  /\ sweep[s].answer \in {"success", "error"} => Ended(sweep[s].sub.job, sweep[s].answer)'
             /\ sweep[s].expired => now' - sweep[s].sub.submitted >= Hour
             /\ Attempt(sweep[s].sub.job, sweep[s].sub.submitted) \in sent' /\ Known(sweep[s].sub.job)'
  <2>1. Known(sweep[s].sub.job) /\ Attempt(sweep[s].sub.job, sweep[s].sub.submitted) \in sent /\ sweep[s].sub.job \in JobIds
    BY <1>1 DEF WaybackIInv, AttemptsRecorded, Known
  <2>2. sweep[s].answer \in {"success", "error"} => Ended(sweep[s].sub.job, sweep[s].answer)
    BY <1>1 DEF WaybackIInv, AnswersTrue
  <2>3. sweep[s].expired => now' - sweep[s].sub.submitted >= Hour
    <3>1. sweep[s].sub \in W!Submissions
      BY <1>1 DEF WaybackIInv, W!TypeOK
    <3>2. sweep[s].sub.submitted \in Nat /\ now \in Nat /\ now' \in Nat /\ Hour \in Nat
      BY <3>1, ConvergeAssumption, MirrorAssumption DEF WaybackIInv, W!TypeOK, W!Submissions, Onwards
    <3>3. sweep[s].expired => now - sweep[s].sub.submitted >= Hour
      BY <1>1 DEF WaybackIInv, AnswersTrue, W!Expired
    <3>4. QED
      BY <3>2, <3>3 DEF Onwards
  <2>4. QED
    BY <2>1, <2>2, <2>3 DEF Onwards
<1>2. QED
  BY <1>1 DEF AnswersTrue, Ended, W!Expired

LEMMA RowStays ==
  ASSUME WaybackIInv, Onwards, row' = row
  PROVE  /\ RowTrue'
         /\ row # None => Attempt(row.job, row.submitted) \in sent' /\ Known(row.job)'
<1>1. ASSUME row # None
      PROVE  /\ Known(row.job) /\ row.job \in JobIds /\ Attempt(row.job, row.submitted) \in sent
             /\ row \in W!Submissions
  BY <1>1 DEF WaybackIInv, AttemptsRecorded, Known, W!TypeOK
<1>2. ASSUME row # None, W!Expired(row) PROVE now' - row.submitted >= Hour
  <2>1. row.submitted \in Nat /\ now \in Nat /\ now' \in Nat /\ Hour \in Nat
    BY <1>1, <1>2, ConvergeAssumption, MirrorAssumption DEF WaybackIInv, W!TypeOK, W!Submissions, Onwards
  <2>2. QED
    BY <1>2, <2>1 DEF W!Expired, Onwards
<1>3. ASSUME row # None, row.status = "failed"
      PROVE  Ended(row.job, "error")' \/ now' - row.submitted >= Hour \/ W!Shared(row.job)'
  <2>1. CASE Ended(row.job, "error")
    BY <1>1, <1>3, <2>1 DEF Onwards
  <2>2. CASE W!Expired(row)
    BY <1>2, <1>3, <2>2
  <2>3. CASE W!Shared(row.job)
    <3>1. W!Shared(row.job)'
      <4> DEFINE j == row.job
      <4>1. IsFiniteSet(sent) /\ IsFiniteSet(sent') /\ sent \subseteq sent' /\ W!Shared(j)
        BY <2>3 DEF WaybackIInv, AttemptsRecorded, Onwards
      <4>2. row'.job = j
        OBVIOUS
      <4>3. Cardinality({a \in sent' : a.job = row.job}) > 1
        <5>1. Cardinality({a \in sent : a.job = row.job}) > 1
          BY <4>1 DEF W!Shared, W!Cardinality, Cardinality
        <5>2. IsFiniteSet({a \in sent' : a.job = row.job}) /\ {a \in sent : a.job = row.job} \subseteq {a \in sent' : a.job = row.job}
          BY <4>1, FS_Subset
        <5>3. /\ Cardinality({a \in sent : a.job = row.job}) <= Cardinality({a \in sent' : a.job = row.job})
              /\ Cardinality({a \in sent : a.job = row.job}) \in Nat /\ Cardinality({a \in sent' : a.job = row.job}) \in Nat
          BY <5>2, FS_Subset, FS_CardinalityType
        <5>4. QED
          BY <5>1, <5>3
      <4>4. QED
        BY <4>2, <4>3 DEF W!Shared, W!Cardinality, Cardinality
    <3>2. QED
      BY <3>1
  <2>4. QED
    BY <1>3, <2>1, <2>2, <2>3 DEF WaybackIInv, RowTrue
<1>4. ASSUME row # None, row.last # None PROVE \E a \in sent' : a.at = row.last /\ Ended(a.job, "success")'
  <2>1. PICK a \in sent : a.at = row.last /\ Ended(a.job, "success")
    BY <1>4 DEF WaybackIInv, RowTrue
  <2>2. a.job \in JobIds /\ Known(a.job)
    BY <2>1 DEF WaybackIInv, W!TypeOK, Ended, Known
  <2>3. QED
    BY <2>1, <2>2 DEF Onwards
<1>5. ASSUME row # None, row.status = "succeeded" PROVE Ended(row.job, "success")' /\ row.last = row.submitted
  BY <1>1, <1>5 DEF WaybackIInv, RowTrue, Onwards
<1>6. RowTrue'
  BY <1>3, <1>4, <1>5 DEF RowTrue, Ended, W!Expired
<1>7. QED
  BY <1>1, <1>6 DEF Onwards

JobRecords == [state : W!States, at : 0..MaxClock]
ClickRecords == [at : {"new", "save", "over"}, job : {None}] \cup [at : {"record"}, job : JobIds]

\* A step that neither ends an attempt nor reads one.
LEMMA QuietStep ==
  ASSUME WaybackIInv, now' \in 0..MaxClock, now' >= now, job' \in [JobIds -> JobRecords \cup {None}],
         \A j \in JobIds : Known(j) => Known(j)',
         \A j \in JobIds, state \in {"success", "error"} : Known(j) /\ Ended(j, state) => Ended(j, state)',
         click' \in [Clicks -> ClickRecords], \A c \in Clicks : click'[c].at = "record" => Known(click[c].job)',
         UNCHANGED <<row, sweep, faults, sent>>
  PROVE  WaybackIInv'
<1>1. Onwards
  BY DEF Onwards, WaybackIInv, AttemptsRecorded
<1>2. W!TypeOK'
  BY DEF WaybackIInv, W!TypeOK, JobRecords, ClickRecords
<1>3. AnswersTrue' /\ RowTrue'
  BY <1>1, AnswersStay, RowStays
<1>4. AttemptsRecorded'
  <2>1. \A s \in Sweepers : sweep[s] # None =>
          Attempt(sweep[s].sub.job, sweep[s].sub.submitted) \in sent' /\ Known(sweep[s].sub.job)'
    BY <1>1, AnswersStay
  <2>2. row # None => Attempt(row.job, row.submitted) \in sent' /\ Known(row.job)'
    BY <1>1, RowStays
  <2>3. QED
    BY <2>1, <2>2, <1>1 DEF AttemptsRecorded, WaybackIInv, Onwards, Attempt, Known
<1>5. QED
  BY <1>2, <1>3, <1>4 DEF WaybackIInv

LEMMA EndJobStep ==
  ASSUME WaybackIInv, NEW j \in JobIds, NEW state \in W!States \ {"pending"}, W!EndJob(j, state)
  PROVE  WaybackIInv'
<1>0. W!TypeOK /\ now \in 0..MaxClock /\ job \in [JobIds -> JobRecords \cup {None}]
  BY DEF WaybackIInv, W!TypeOK, JobRecords
<1>1. /\ job[j] # None /\ job[j].state = "pending" /\ UNCHANGED <<now, row, click, sweep, faults, sent>>
      /\ job'[j] = [state |-> state, at |-> now] /\ \A k \in JobIds \ {j} : job'[k] = job[k]
      /\ job' \in [JobIds -> JobRecords \cup {None}]
  BY <1>0 DEF W!EndJob, JobRecords
<1>2. job'[j] \in JobRecords /\ job'[j] # None
  BY <1>0, <1>1, AbsenceAssumption DEF JobRecords
<1>3. \A k \in JobIds : Known(k) => Known(k)'
  BY <1>1, <1>2 DEF Known
<1>4. \A k \in JobIds, result \in {"success", "error"} : Known(k) /\ Ended(k, result) => Ended(k, result)'
  BY <1>1 DEF Ended
<1>5. \A c \in Clicks : click'[c].at = "record" => Known(click[c].job)'
  BY <1>1, <1>3 DEF WaybackIInv, AttemptsRecorded, Known
<1>6. click' \in [Clicks -> ClickRecords] /\ now' >= now
  BY <1>0, <1>1, MirrorAssumption DEF W!TypeOK, ClickRecords
<1>7. QED
  BY <1>0, <1>1, <1>3, <1>4, <1>5, <1>6, QuietStep

LEMMA TickWStep ==
  ASSUME WaybackIInv, W!Tick
  PROVE  WaybackIInv'
<1>1. UNCHANGED <<job, row, click, sweep, faults, sent>> /\ now' \in 0..MaxClock /\ now' >= now
  BY MirrorAssumption DEF W!Tick, WaybackIInv, W!TypeOK
<1>2. job' \in [JobIds -> JobRecords \cup {None}] /\ click' \in [Clicks -> ClickRecords]
  BY <1>1 DEF WaybackIInv, W!TypeOK, JobRecords, ClickRecords
<1>3. QED
  BY <1>1, <1>2, QuietStep DEF Known, Ended, WaybackIInv, AttemptsRecorded

LEMMA ClickStep ==
  ASSUME WaybackIInv, NEW c \in Clicks, W!CheckInFlight(c) \/ W!SaveFails(c)
  PROVE  WaybackIInv'
<1>0. now \in 0..MaxClock /\ job \in [JobIds -> JobRecords \cup {None}] /\ click \in [Clicks -> ClickRecords]
  BY DEF WaybackIInv, W!TypeOK, JobRecords, ClickRecords
<1>1. UNCHANGED <<now, job, row, sweep, faults, sent>> /\ click[c].at \in {"new", "save"}
  BY DEF W!CheckInFlight, W!SaveFails
<1>2. PICK at2 \in {"save", "over"} : click' = [click EXCEPT ![c].at = at2]
  BY DEF W!CheckInFlight, W!SaveFails
<1>3. click' \in [Clicks -> ClickRecords] /\ click'[c].at # "record" /\ \A d \in Clicks \ {c} : click'[d] = click[d]
  <2>1. click[c] \in [at : {"new", "save", "over"}, job : {None}]
    BY <1>0, <1>1 DEF ClickRecords
  <2>2. [click[c] EXCEPT !.at = at2] \in [at : {"new", "save", "over"}, job : {None}]
    BY <2>1
  <2>3. QED
    BY <1>0, <1>2, <2>1, <2>2 DEF ClickRecords
<1>4. now' >= now
  BY <1>0, <1>1, MirrorAssumption
<1>5. \A d \in Clicks : click'[d].at = "record" => Known(click[d].job)'
  BY <1>1, <1>3 DEF WaybackIInv, AttemptsRecorded, Known
<1>6. QED
  BY <1>0, <1>1, <1>3, <1>4, <1>5, QuietStep DEF Known, Ended

LEMMA SaveStep ==
  ASSUME WaybackIInv, NEW c \in Clicks, W!Save(c)
  PROVE  WaybackIInv'
<1>0. now \in 0..MaxClock /\ job \in [JobIds -> JobRecords \cup {None}] /\ click \in [Clicks -> ClickRecords]
  BY DEF WaybackIInv, W!TypeOK, JobRecords, ClickRecords
<1>1. PICK j \in JobIds :
        /\ click' = [click EXCEPT ![c] = [at |-> "record", job |-> j]]
        /\ \/ job[j] = None /\ job' = [job EXCEPT ![j] = [state |-> "pending", at |-> now]]
           \/ job[j] # None /\ job' = job
  BY DEF W!Save, W!Saved
<1>2. UNCHANGED <<now, row, sweep, faults, sent>> /\ now' >= now
  BY <1>0, MirrorAssumption DEF W!Save
<1>3. [state |-> "pending", at |-> now] \in JobRecords /\ [state |-> "pending", at |-> now] # None
  BY <1>0, AbsenceAssumption DEF JobRecords, W!States
<1>4. /\ job' \in [JobIds -> JobRecords \cup {None}] /\ job'[j] # None
      /\ \A k \in JobIds : job[k] # None => job'[k] = job[k]
  BY <1>0, <1>1, <1>3
<1>5. click' \in [Clicks -> ClickRecords] /\ click'[c].job = j /\ \A d \in Clicks \ {c} : click'[d] = click[d]
  BY <1>0, <1>1 DEF ClickRecords
<1>6. \A d \in Clicks : click'[d].at = "record" => Known(click[d].job)'
  <2> SUFFICES ASSUME NEW d \in Clicks, click'[d].at = "record" PROVE click'[d].job \in JobIds /\ job'[click'[d].job] # None
    BY DEF Known
  <2>1. CASE d = c
    BY <1>4, <1>5, <2>1
  <2>2. CASE d # c
    BY <1>4, <1>5, <2>2 DEF WaybackIInv, AttemptsRecorded, Known
  <2>3. QED
    BY <2>1, <2>2
<1>7. /\ \A k \in JobIds : Known(k) => Known(k)'
      /\ \A k \in JobIds, state \in {"success", "error"} : Known(k) /\ Ended(k, state) => Ended(k, state)'
  BY <1>4 DEF Known, Ended
<1>8. QED
  BY <1>0, <1>2, <1>4, <1>5, <1>6, <1>7, QuietStep

-----------------------------------------------------------------------------
(* Wayback: the steps that record an attempt, and those of a sweep.        *)

LEMMA StartStep ==
  ASSUME WaybackIInv, NEW c \in Clicks, W!Start(c)
  PROVE  WaybackIInv'
<1>0. W!TypeOK /\ AttemptsRecorded /\ RowTrue
  BY DEF WaybackIInv
<1>1. /\ click[c].at = "record" /\ UNCHANGED <<now, job, sweep, faults>>
      /\ now \in 0..MaxClock /\ click[c].job \in JobIds /\ Known(click[c].job)
  BY <1>0 DEF W!Start, W!TypeOK, AttemptsRecorded, Known
<1> DEFINE last == IF row = None THEN None ELSE row.last
<1> DEFINE attempt == [job |-> click[c].job, at |-> now]
<1>2. /\ row' = [status |-> "pending", job |-> click[c].job, submitted |-> now, last |-> last, error |-> "none"]
      /\ sent' = sent \cup {attempt}
      /\ click' = [click EXCEPT ![c] = [at |-> "over", job |-> None]]
  BY DEF W!Start
<1>3. last \in 0..MaxClock \cup {None}
  BY <1>0 DEF W!TypeOK, W!Submissions
<1>4. row' \in W!Submissions
  BY <1>1, <1>2, <1>3 DEF W!Submissions
<1>5. click' \in [Clicks -> ClickRecords] /\ click'[c].at = "over" /\ \A d \in Clicks \ {c} : click'[d] = click[d]
  BY <1>0, <1>2 DEF W!TypeOK, ClickRecords
<1>6. sent' \subseteq [job : JobIds, at : 0..MaxClock] /\ IsFiniteSet(sent')
  <2>1. IsFiniteSet(sent')
    BY <1>0, <1>2, FS_AddElement DEF AttemptsRecorded
  <2>2. QED
    BY <2>1, <1>0, <1>1, <1>2 DEF W!TypeOK
<1>7. W!TypeOK'
  BY <1>0, <1>1, <1>4, <1>5, <1>6 DEF W!TypeOK, ClickRecords
<1>8. Onwards
  BY <1>1, <1>2, <1>6, MirrorAssumption DEF Onwards, Known, Ended
<1>9. AttemptsRecorded'
  <2>1. row'.job = attempt.job /\ row'.submitted = attempt.at /\ Attempt(row'.job, row'.submitted) \in sent'
    BY <1>2 DEF Attempt
  <2>2. \A d \in Clicks : click'[d].at = "record" => click'[d].job \in JobIds /\ job'[click'[d].job] # None
    BY <1>0, <1>1, <1>5 DEF AttemptsRecorded, Known
  <2>3. \A s \in Sweepers : sweep[s] # None =>
          Attempt(sweep[s].sub.job, sweep[s].sub.submitted) \in sent' /\ Known(sweep[s].sub.job)'
    BY <1>1, <1>8, AnswersStay
  <2>4. row' # None
    BY <1>4, AbsenceAssumption
  <2>5. row'.job \in JobIds /\ job'[row'.job] # None
    BY <1>1, <1>2 DEF Known
  <2>6. QED
    BY <1>1, <1>6, <2>1, <2>2, <2>3, <2>4, <2>5 DEF AttemptsRecorded, Known, Attempt
<1>10. RowTrue'
  <2>1. row'.status = "pending" /\ row'.last = last
    BY <1>2
  <2>2. last # None => \E a \in sent : a.at = last /\ Ended(a.job, "success")
    BY <1>0 DEF RowTrue
  <2>3. last # None => \E a \in sent' : a.at = last /\ Ended(a.job, "success")'
    BY <2>2, <1>1, <1>2 DEF Ended
  <2>4. QED
    BY <2>1, <2>3 DEF RowTrue
<1>11. AnswersTrue'
  BY <1>1, <1>8, AnswersStay
<1>12. QED
  BY <1>7, <1>9, <1>10, <1>11 DEF WaybackIInv

\* A step of a sweep that leaves the row alone: what it learns has to be true.
LEMMA SweepStep ==
  ASSUME WaybackIInv, NEW s \in Sweepers, faults' \in 0..MaxFaults, UNCHANGED <<now, job, row, click, sent>>,
         NEW new, sweep' = [sweep EXCEPT ![s] = new], new \in SweepRecords \cup {None},
         new # None =>
           /\ row # None
           /\ Attempt(new.sub.job, new.sub.submitted) \in sent /\ Known(new.sub.job)
           /\ new.answer \in {"success", "error"} => Ended(new.sub.job, new.answer)
           /\ new.expired => W!Expired(new.sub)
  PROVE  WaybackIInv'
<1>0. W!TypeOK /\ AttemptsRecorded /\ AnswersTrue /\ RowTrue
  BY DEF WaybackIInv
<1>1. sweep'[s] = new /\ \A t \in Sweepers \ {s} : sweep'[t] = sweep[t]
  BY <1>0 DEF W!TypeOK
<1>2. W!TypeOK'
  BY <1>0 DEF W!TypeOK, SweepRecords
<1>3. AttemptsRecorded'
  <2> SUFFICES ASSUME NEW t \in Sweepers, sweep'[t] # None
               PROVE  /\ row # None
                      /\ Attempt(sweep'[t].sub.job, sweep'[t].sub.submitted) \in sent /\ Known(sweep'[t].sub.job)
    BY <1>0 DEF AttemptsRecorded, Known, Attempt
  <2>1. CASE t = s
    BY <1>1, <2>1
  <2>2. CASE t # s
    BY <1>0, <1>1, <2>2 DEF AttemptsRecorded
  <2>3. QED
    BY <2>1, <2>2
<1>4. AnswersTrue'
  <2> SUFFICES ASSUME NEW t \in Sweepers, sweep'[t] # None
               PROVE  /\ sweep'[t].answer \in {"success", "error"} => Ended(sweep'[t].sub.job, sweep'[t].answer)
                      /\ sweep'[t].expired => W!Expired(sweep'[t].sub)
    BY DEF AnswersTrue, Ended, W!Expired
  <2>1. CASE t = s
    BY <1>1, <2>1
  <2>2. CASE t # s
    BY <1>0, <1>1, <2>2 DEF AnswersTrue
  <2>3. QED
    BY <2>1, <2>2
<1>5. RowTrue'
  BY <1>0 DEF RowTrue, Ended, W!Expired, W!Shared
<1>6. QED
  BY <1>2, <1>3, <1>4, <1>5 DEF WaybackIInv

LEMMA ListPendingStep ==
  ASSUME WaybackIInv, NEW s \in Sweepers, W!ListPending(s)
  PROVE  WaybackIInv'
<1> DEFINE new == [sub |-> row, expired |-> FALSE, answer |-> "unasked"]
<1>1. row # None /\ sweep' = [sweep EXCEPT ![s] = new] /\ UNCHANGED <<now, job, row, click, faults, sent>>
  BY DEF W!ListPending, W!Pending
<1>2. row \in W!Submissions /\ faults \in 0..MaxFaults
  BY <1>1 DEF WaybackIInv, W!TypeOK
<1>3. new \in SweepRecords
  BY <1>2 DEF SweepRecords
<1>4. Attempt(row.job, row.submitted) \in sent /\ Known(row.job)
  BY <1>1 DEF WaybackIInv, AttemptsRecorded
<1>5. new.sub = row /\ new.expired = FALSE /\ new.answer = "unasked"
  OBVIOUS
<1> HIDE DEF new
<1>6. QED
  BY <1>1, <1>2, <1>3, <1>4, <1>5, SweepStep

LEMMA AskStatusStep ==
  ASSUME WaybackIInv, NEW s \in Sweepers, W!AskStatus(s)
  PROVE  WaybackIInv'
<1> DEFINE sub == sweep[s].sub
<1>0. W!TypeOK /\ AttemptsRecorded
  BY DEF WaybackIInv
<1>1. /\ sweep[s] # None /\ sweep[s] \in SweepRecords /\ row # None /\ faults' \in 0..MaxFaults
      /\ Attempt(sub.job, sub.submitted) \in sent /\ Known(sub.job) /\ sub \in W!Submissions
      /\ UNCHANGED <<now, job, row, click, sent>>
  BY <1>0 DEF W!AskStatus, W!TypeOK, AttemptsRecorded, SweepRecords
<1>2. PICK answer \in {"failed", job[sub.job].state} :
        sweep' = [sweep EXCEPT ![s].expired = W!Expired(sub), ![s].answer = answer]
  BY DEF W!AskStatus
<1>3. job[sub.job].state \in W!States
  <2>1. job \in [JobIds -> JobRecords \cup {None}] /\ sub.job \in JobIds /\ job[sub.job] # None
    BY <1>0, <1>1 DEF W!TypeOK, Known, JobRecords
  <2>2. job[sub.job] \in JobRecords
    BY <2>1
  <2>3. QED
    BY <2>2 DEF JobRecords
<1>4. PICK expired \in BOOLEAN : expired = W!Expired(sub)
  <2>1. W!Expired(sub) \in BOOLEAN
    BY DEF W!Expired
  <2>2. QED
    BY <2>1, Zenon
<1> DEFINE new == [sweep[s] EXCEPT !.expired = expired, !.answer = answer]
<1>5. new \in SweepRecords /\ new.sub = sub /\ new.expired = expired /\ new.answer = answer
  BY <1>1, <1>2, <1>3 DEF SweepRecords, W!States
<1>6. sweep' = [sweep EXCEPT ![s] = new]
  BY <1>0, <1>2, <1>4 DEF W!TypeOK
<1> HIDE DEF new
<1>7. new.answer \in {"success", "error"} => Ended(new.sub.job, new.answer)
  BY <1>1, <1>2, <1>5 DEF Ended, Known
<1>8. QED
  BY <1>1, <1>4, <1>5, <1>6, <1>7, SweepStep

LEMMA SettleStep ==
  ASSUME WaybackIInv, NEW s \in Sweepers, W!Settle(s)
  PROVE  WaybackIInv'
<1> DEFINE sub == sweep[s].sub
<1>0. W!TypeOK /\ AttemptsRecorded /\ AnswersTrue /\ RowTrue
  BY DEF WaybackIInv
<1>1. /\ sweep[s] # None /\ sweep' = [sweep EXCEPT ![s] = None] /\ faults' \in 0..MaxFaults
      /\ UNCHANGED <<now, job, click, sent, faults>>
  BY <1>0 DEF W!Settle, W!TypeOK
<1>2. row # None /\ row \in W!Submissions /\ Attempt(row.job, row.submitted) \in sent /\ Known(row.job)
  BY <1>0, <1>1 DEF AttemptsRecorded, W!TypeOK
<1>3. CASE row' = row
  <2>1. None \in SweepRecords \cup {None}
    OBVIOUS
  <2>2. QED
    BY <1>1, <1>3, <2>1, SweepStep
<1>4. CASE row' # row
  <2>1. row' = W!Outcome(s) /\ W!StillIts(s) /\ (sweep[s].answer \in {"success", "error"} \/ sweep[s].expired)
    BY <1>4 DEF W!Settle
  <2>2. row.status = "pending" /\ row.job = sub.job
    BY <2>1 DEF W!StillIts
  <2>3. /\ row'.job = row.job /\ row'.submitted = row.submitted /\ row' \in W!Submissions
        /\ row'.status = IF sweep[s].answer = "success" THEN "succeeded" ELSE "failed"
        /\ row'.last = IF sweep[s].answer = "success" THEN row.submitted ELSE row.last
    BY <1>2, <2>1 DEF W!Outcome, W!Submissions
  <2>4. row' # None
    BY <2>3, AbsenceAssumption
  <2>5. \A t \in Sweepers : sweep'[t] # None => t # s /\ sweep'[t] = sweep[t]
    BY <1>0, <1>1 DEF W!TypeOK
  <2>6. W!TypeOK'
    <3>1. sweep' \in [Sweepers -> SweepRecords \cup {None}]
      BY <1>0, <1>1 DEF W!TypeOK, SweepRecords
    <3>2. QED
      BY <1>0, <1>1, <2>3, <3>1 DEF W!TypeOK, SweepRecords
  <2>7. AttemptsRecorded'
    <3>1. \A t \in Sweepers : sweep'[t] # None =>
            Attempt(sweep'[t].sub.job, sweep'[t].sub.submitted) \in sent /\ Known(sweep'[t].sub.job)
      BY <1>0, <2>5 DEF AttemptsRecorded
    <3>2. Attempt(row'.job, row'.submitted) \in sent /\ Known(row'.job)
      BY <1>2, <2>3
    <3>3. QED
      BY <1>0, <1>1, <2>4, <3>1, <3>2 DEF AttemptsRecorded, Known, Attempt
  <2>8. AnswersTrue'
    <3> SUFFICES ASSUME NEW t \in Sweepers, sweep'[t] # None
                 PROVE  /\ sweep'[t].answer \in {"success", "error"} => Ended(sweep'[t].sub.job, sweep'[t].answer)
                        /\ sweep'[t].expired => W!Expired(sweep'[t].sub)
      BY <1>1 DEF AnswersTrue, Ended, W!Expired
    <3>1. QED
      BY <1>0, <2>5 DEF AnswersTrue
  <2>9. RowTrue'
    <3>1. row'.status = "succeeded" => Ended(row'.job, "success") /\ row'.last = row'.submitted
      <4>1. sweep[s].answer = "success" => Ended(row.job, "success")
        BY <1>0, <1>1, <2>2 DEF AnswersTrue
      <4>2. QED
        BY <2>3, <4>1
    <3>2. row'.status = "failed" => Ended(row'.job, "error") \/ now - row'.submitted >= Hour \/ W!Shared(row'.job)
      <4>1. CASE sweep[s].answer = "success"
        BY <2>3, <4>1
      <4>2. CASE sweep[s].answer = "error"
        BY <1>0, <1>1, <2>2, <2>3, <4>2 DEF AnswersTrue
      <4>3. CASE sweep[s].expired /\ sub.submitted = row.submitted
        BY <1>0, <1>1, <2>3, <4>3 DEF AnswersTrue, W!Expired
      <4>4. CASE sub.submitted # row.submitted
        <5>1. Attempt(sub.job, sub.submitted) \in sent /\ Attempt(row.job, row.submitted) \in sent
          BY <1>0, <1>1, <1>2 DEF AttemptsRecorded
        <5>2. /\ Attempt(sub.job, sub.submitted) # Attempt(row.job, row.submitted)
              /\ Attempt(sub.job, sub.submitted).job = row.job /\ Attempt(row.job, row.submitted).job = row.job
          BY <2>2, <4>4 DEF Attempt
        <5>3. W!Shared(row.job)
          <6>1. \A j, a, b : a \in sent /\ b \in sent /\ a # b /\ a.job = j /\ b.job = j => W!Shared(j)
            BY <1>0, Sharing DEF AttemptsRecorded
          <6>2. QED
            BY <5>1, <5>2, <6>1
        <5>4. QED
          BY <5>3, <2>3
      <4>5. QED
        BY <2>1, <4>1, <4>2, <4>3, <4>4
    <3>3. row'.last # None => \E a \in sent : a.at = row'.last /\ Ended(a.job, "success")
      <4>1. CASE sweep[s].answer = "success"
        <5>1. Ended(row.job, "success")
          BY <1>0, <1>1, <2>2, <4>1 DEF AnswersTrue
        <5>2. row'.last = row.submitted
          BY <2>3, <4>1
        <5>3. Attempt(row.job, row.submitted).at = row'.last /\ Attempt(row.job, row.submitted).job = row.job
          BY <5>2 DEF Attempt
        <5>4. QED
          BY <1>2, <5>1, <5>3
      <4>2. CASE sweep[s].answer # "success"
        BY <1>0, <1>2, <2>3, <4>2 DEF RowTrue
      <4>3. QED
        BY <4>1, <4>2
    <3>4. QED
      BY <1>1, <3>1, <3>2, <3>3 DEF RowTrue, Ended, W!Expired, W!Shared
  <2>10. QED
    BY <2>6, <2>7, <2>8, <2>9 DEF WaybackIInv
<1>5. QED
  BY <1>3, <1>4

LEMMA EndSweepStep ==
  ASSUME WaybackIInv, NEW s \in Sweepers, W!EndSweep(s)
  PROVE  WaybackIInv'
<1>1. /\ sweep' = [sweep EXCEPT ![s] = None] /\ UNCHANGED <<now, job, row, click, sent>>
      /\ faults' = faults + 1 /\ faults < MaxFaults /\ faults \in 0..MaxFaults
  BY DEF W!EndSweep, WaybackIInv, W!TypeOK
<1>2. faults' \in 0..MaxFaults /\ None \in SweepRecords \cup {None}
  BY <1>1, MirrorAssumption
<1>3. QED
  BY <1>1, <1>2, SweepStep

-----------------------------------------------------------------------------
(* Wayback: the theorem.                                                   *)

\* The row of a URL tells what became of the attempt that it names, whatever sweeps,
\* clicks and answers of archive.org overlap.
THEOREM WaybackInvariance == W!Spec => []WaybackIInv
<1>1. W!Init => WaybackIInv
  <2> SUFFICES ASSUME W!Init PROVE WaybackIInv
    OBVIOUS
  <2>1. W!TypeOK
    BY ConvergeAssumption, MirrorAssumption DEF W!Init, W!TypeOK
  <2>2. AttemptsRecorded /\ AnswersTrue /\ RowTrue
    BY FS_EmptySet DEF W!Init, AttemptsRecorded, AnswersTrue, RowTrue
  <2>3. QED
    BY <2>1, <2>2 DEF WaybackIInv
<1>2. WaybackIInv /\ [W!Next]_(W!vars) => WaybackIInv'
  <2> SUFFICES ASSUME WaybackIInv, [W!Next]_(W!vars) PROVE WaybackIInv'
    OBVIOUS
  <2>1. ASSUME W!Tick PROVE WaybackIInv'
    BY <2>1, TickWStep
  <2>2. ASSUME NEW j \in JobIds, NEW state \in W!States \ {"pending"}, W!EndJob(j, state) PROVE WaybackIInv'
    BY <2>2, EndJobStep
  <2>3. ASSUME NEW c \in Clicks, W!CheckInFlight(c) \/ W!Save(c) \/ W!SaveFails(c) \/ W!Start(c) PROVE WaybackIInv'
    BY <2>3, ClickStep, SaveStep, StartStep
  <2>4. ASSUME NEW s \in Sweepers, W!SweepPending(s) \/ W!EndSweep(s) PROVE WaybackIInv'
    BY <2>4, ListPendingStep, AskStatusStep, SettleStep, EndSweepStep DEF W!SweepPending
  <2>5. CASE UNCHANGED W!vars
    BY <2>5 DEF W!vars, WaybackIInv, W!TypeOK, AttemptsRecorded, AnswersTrue, RowTrue, Known, Ended, W!Expired, W!Shared
  <2>6. QED
    BY <2>1, <2>2, <2>3, <2>4, <2>5 DEF W!Next
<1>3. QED
  BY <1>1, <1>2, PTL DEF W!Spec

\* The dashboard shows of the latest attempt what became of that attempt's own job, and
\* the last success is one.
THEOREM OutcomesAreTrue == W!Spec => []WaybackInv
<1>1. WaybackIInv => WaybackInv
  <2> SUFFICES ASSUME WaybackIInv PROVE W!TypeOK /\ W!OutcomeIsTrue
    BY DEF WaybackInv
  <2>1. QED
    BY DEF WaybackIInv, RowTrue, Ended, W!OutcomeIsTrue, W!Shown
<1>2. QED
  BY <1>1, WaybackInvariance, PTL

-----------------------------------------------------------------------------
(* Links: the inductive invariant.                                         *)

AgentRecords == [at : {"idle", "favicon", "upsert", "delete", "mark"}, todo : SUBSET L!Saves,
                 favicon : L!Favicons \cup {Failed}]
LinkRecords == [raw : L!Saves \cup {L!Typed}, clean : BOOLEAN, title : L!Saves \cup {L!Typed},
                favicon : L!Favicons]
RequestRecords == [op : {"create"}, favicon : {L!Typed, None}] \cup [op : {"clean"}, raw : L!Saves \cup {L!Typed}]

Cleans(r) == request[r] # None /\ request[r].op = "clean"
Taken(s) == pending[s] \in {"claimed", "stale", "fetched"}

\* What the row shows, and what a request that is under way may make it show.
Shows(s) ==
  \/ link # None /\ link.raw = s
  \/ \E r \in Requests : Cleans(r) /\ request[r].raw = s

Working == \A a \in Agents : agent[a].at = "idle" <=> agent[a].todo = {}

\* What an agent has in hand and what is shown has been claimed.
ClaimedFirst ==
  /\ \A a \in Agents : \A s \in agent[a].todo : Taken(s)
  /\ \A s \in L!Saves : Shows(s) => Taken(s)

\* A save that keeps the promise of its place is newer than what the other agents have in
\* hand, and not older than what is shown.
InOrder ==
  \A a \in Agents : \A s \in agent[a].todo \ excused :
    /\ \A t \in L!Saves : Shows(t) => t <= s
    /\ \A b \in Agents \ {a} : \A t \in agent[b].todo : t < s

\* The object of a save is in R2 until the agent that has the save is done with it.
ObjectsKept ==
  /\ \A s \in L!Saves \cap Objects : pending[s] = "new" => s \in objects
  /\ \A a \in Agents : \A s \in (agent[a].todo \cap Objects) \ excused :
       (agent[a].at = "mark" => s # L!Current(a)) => s \in objects

\* A favicon that has not failed is that of the save.
FaviconOf(s, favicon, failures, spared) ==
  \/ favicon = IF s \in Inline \cup Objects THEN s ELSE None
  \/ favicon = Failed /\ s \in Inline \cup Objects /\ (failures > 0 \/ s \in spared)

FaviconsTrue ==
  \A a \in Agents : agent[a].at = "upsert" =>
    FaviconOf(L!Current(a), agent[a].favicon, faults, excused)

CleansARow == \A r \in Requests : Cleans(r) => link # None

LinksIInv ==
  L!TypeOK /\ Working /\ ClaimedFirst /\ InOrder /\ ObjectsKept /\ FaviconsTrue /\ CleansARow /\ L!OneSave

-----------------------------------------------------------------------------
(* Links: the steps.                                                       *)

First(todo) == CHOOSE s \in todo : \A t \in todo : s <= t

LEMMA FirstIsOldest ==
  ASSUME NEW todo \in SUBSET L!Saves, todo # {}
  PROVE  First(todo) \in todo /\ \A t \in todo : First(todo) <= t
<1> DEFINE Less == OpToRel(<, Nat)
<1>1. todo \subseteq Nat
  BY ConvergeAssumption DEF L!Saves
<1>2. \A t, u \in Nat : t < u => <<t, u>> \in Less
  BY DEF OpToRel
<1>3. IsWellFoundedOn(Less, Nat)
  BY NatLessThanWellFounded
<1> HIDE DEF Less
<1>4. PICK s \in todo : \A t \in todo : s <= t
  <2>1. PICK s \in todo : \A t \in todo : <<t, s>> \notin Less
    BY <1>1, <1>3, WFMin
  <2>2. ASSUME NEW t \in todo PROVE s <= t
    <3>1. s \in Nat /\ t \in Nat
      BY <1>1
    <3>2. ~(t < s)
      BY <1>2, <2>1, <3>1, Zenon
    <3>3. QED
      BY <3>1, <3>2
  <2>3. QED
    BY <2>2
<1>5. QED
  BY <1>4 DEF First

\* A step that leaves the agents, the Worker and R2 alone, and makes the row show nothing
\* else.
LEMMA DashboardStep ==
  ASSUME LinksIInv, UNCHANGED <<pending, objects, agent, faults, excused>>,
         link' \in LinkRecords \cup {None}, request' \in [Requests -> RequestRecords \cup {None}], edits' \in 0..MaxEdits,
         \A s \in L!Saves : Shows(s)' => Shows(s), CleansARow', L!OneSave'
  PROVE  LinksIInv'
<1>1. L!TypeOK'
  BY DEF LinksIInv, L!TypeOK, LinkRecords, RequestRecords
<1>2. Working' /\ FaviconsTrue' /\ ObjectsKept'
  BY DEF LinksIInv, Working, FaviconsTrue, FaviconOf, ObjectsKept, L!Current
<1>3. ClaimedFirst' /\ InOrder'
  BY DEF LinksIInv, ClaimedFirst, InOrder, Taken
<1>4. QED
  BY <1>1, <1>2, <1>3 DEF LinksIInv

\* A step of an agent with what it has in hand.
LEMMA HandsStep ==
  ASSUME LinksIInv, NEW a \in Agents, NEW mine \in AgentRecords, agent' = [agent EXCEPT ![a] = mine],
         mine.todo \subseteq agent[a].todo, (mine.at = "idle") <=> (mine.todo = {}),
         agent[a].at # "mark" \/ L!Current(a) \notin mine.todo,
         mine.at # "upsert" \/ FaviconOf(First(mine.todo), mine.favicon, faults', excused),
         request' = request, edits' = edits, excused' = excused, faults' \in 0..MaxFaults, faults' >= faults,
         pending' \in [L!Saves -> {"none", "new", "claimed", "stale", "fetched"}],
         \A s \in L!Saves : pending'[s] = "new" => pending[s] = "new",
         \A s \in L!Saves : Taken(s) => Taken(s)',
         objects' \subseteq objects,
         \A s \in objects \ objects' : s \in agent[a].todo /\ mine.at = "mark" /\ s = First(mine.todo),
         link' \in LinkRecords \cup {None},
         \A s \in L!Saves : Shows(s)' => Shows(s) \/ (s \in agent[a].todo /\ \A t \in agent[a].todo : s <= t),
         CleansARow', L!OneSave'
  PROVE  LinksIInv'
<1>0. L!TypeOK /\ Working /\ ClaimedFirst /\ InOrder /\ ObjectsKept /\ FaviconsTrue
  BY DEF LinksIInv
<1>1. /\ agent \in [Agents -> AgentRecords] /\ agent' \in [Agents -> AgentRecords]
      /\ agent'[a] = mine /\ \A b \in Agents \ {a} : agent'[b] = agent[b]
  BY <1>0 DEF L!TypeOK, AgentRecords
<1>2. \A b \in Agents : agent'[b].todo \subseteq agent[b].todo /\ agent[b].todo \subseteq L!Saves
  BY <1>1 DEF AgentRecords
<1>3. L!TypeOK'
  BY <1>0, <1>1 DEF L!TypeOK, AgentRecords, LinkRecords
<1>4. Working'
  BY <1>0, <1>1 DEF Working
<1>5. ClaimedFirst'
  <2>1. \A b \in Agents : \A s \in agent'[b].todo : Taken(s)'
    BY <1>0, <1>2 DEF ClaimedFirst
  <2>2. \A s \in L!Saves : Shows(s)' => Taken(s)'
    BY <1>0 DEF ClaimedFirst
  <2>3. QED
    BY <2>1, <2>2 DEF ClaimedFirst
<1>6. InOrder'
  <2> SUFFICES ASSUME NEW b \in Agents, NEW s \in agent'[b].todo \ excused
               PROVE  /\ \A t \in L!Saves : Shows(t)' => t <= s
                      /\ \A c \in Agents \ {b} : \A t \in agent'[c].todo : t < s
    BY DEF InOrder
  <2>1. s \in agent[b].todo \ excused
    BY <1>2
  <2>2. \A c \in Agents \ {b} : \A t \in agent[c].todo : t < s
    BY <1>0, <2>1 DEF InOrder
  <2>3. ASSUME NEW t \in L!Saves, Shows(t)' PROVE t <= s
    <3>1. CASE Shows(t)
      BY <1>0, <2>1, <3>1 DEF InOrder
    <3>2. CASE t \in agent[a].todo /\ \A u \in agent[a].todo : t <= u
      <4>1. CASE a = b
        BY <2>1, <3>2, <4>1
      <4>2. CASE a # b
        <5>1. t < s
          BY <2>2, <3>2, <4>2
        <5>2. t \in Nat /\ s \in Nat
          BY <1>2, <2>1, ConvergeAssumption DEF L!Saves
        <5>3. QED
          BY <5>1, <5>2
      <4>3. QED
        BY <4>1, <4>2
    <3>3. QED
      BY <2>3, <3>1, <3>2
  <2>4. QED
    BY <1>2, <2>2, <2>3
<1>7. ObjectsKept'
  <2>1. ASSUME NEW s \in L!Saves \cap Objects, pending'[s] = "new" PROVE s \in objects'
    <3>1. pending[s] = "new" /\ s \in objects
      BY <1>0, <2>1 DEF ObjectsKept
    <3>2. s \notin agent[a].todo
      BY <1>0, <3>1 DEF ClaimedFirst, Taken
    <3>3. QED
      BY <3>1, <3>2
  <2>2. ASSUME NEW b \in Agents, NEW s \in (agent'[b].todo \cap Objects) \ excused,
               agent'[b].at = "mark" => s # First(agent'[b].todo)
        PROVE  s \in objects'
    <3>1. s \in (agent[b].todo \cap Objects) \ excused /\ (agent[b].at = "mark" => s # L!Current(b))
      <4>1. s \in (agent[b].todo \cap Objects) \ excused
        BY <1>2
      <4>2. CASE b = a
        BY <1>1, <4>1, <4>2
      <4>3. CASE b # a
        <5>1. agent'[b] = agent[b] /\ L!Current(b) = First(agent[b].todo)
          BY <1>1, <4>3 DEF First, L!Current
        <5>2. QED
          BY <2>2, <4>1, <5>1
      <4>4. QED
        BY <4>2, <4>3
    <3>2. s \in objects
      BY <1>0, <3>1 DEF ObjectsKept
    <3>3. CASE b = a
      BY <1>1, <2>2, <3>2, <3>3
    <3>4. CASE b # a
      <4>1. s \notin agent[a].todo
        <5>1. ASSUME s \in agent[a].todo PROVE s < s
          BY <1>0, <3>1, <3>4, <5>1 DEF InOrder
        <5>2. s \in Nat
          BY <1>2, <3>1, ConvergeAssumption DEF L!Saves
        <5>3. QED
          BY <5>1, <5>2
      <4>2. QED
        BY <3>2, <4>1
    <3>5. QED
      BY <3>3, <3>4
  <2>3. QED
    BY <2>1, <2>2 DEF ObjectsKept, First, L!Current
<1>8. FaviconsTrue'
  <2>0. \A b \in Agents : L!Current(b)' = First(agent'[b].todo)
    BY DEF First, L!Current
  <2> SUFFICES ASSUME NEW b \in Agents, agent'[b].at = "upsert"
               PROVE  FaviconOf(First(agent'[b].todo), agent'[b].favicon, faults', excused)
    BY <2>0 DEF FaviconsTrue
  <2>1. CASE b = a
    BY <1>1, <2>1
  <2>2. CASE b # a
    <3>1. agent'[b] = agent[b] /\ agent[b].at = "upsert"
      BY <1>1, <2>2
    <3>2. FaviconOf(First(agent[b].todo), agent[b].favicon, faults, excused)
      BY <1>0, <3>1 DEF FaviconsTrue, First, L!Current
    <3>3. faults \in Nat /\ faults' \in Nat
      BY <1>0, MirrorAssumption DEF L!TypeOK
    <3>4. QED
      BY <3>1, <3>2, <3>3 DEF FaviconOf
  <2>3. QED
    BY <2>1, <2>2
<1>9. QED
  BY <1>3, <1>4, <1>5, <1>6, <1>7, <1>8 DEF LinksIInv

\* What an agent that is not idle has in hand begins with its oldest save.
LEMMA CurrentInHand ==
  ASSUME LinksIInv, NEW a \in Agents, agent[a].at # "idle"
  PROVE  /\ agent[a] \in AgentRecords /\ agent[a].todo \in SUBSET L!Saves
         /\ L!Current(a) = First(agent[a].todo)
         /\ L!Current(a) \in agent[a].todo /\ L!Current(a) \in L!Saves
         /\ \A t \in agent[a].todo : L!Current(a) <= t
<1>1. agent[a] \in AgentRecords /\ agent[a].todo \in SUBSET L!Saves
  BY DEF LinksIInv, L!TypeOK, AgentRecords
<1>2. agent[a].todo # {}
  BY DEF LinksIInv, Working
<1>3. L!Current(a) = First(agent[a].todo)
  BY DEF L!Current, First
<1>4. QED
  BY <1>1, <1>2, <1>3, FirstIsOldest

LEMMA SaveLinkStep ==
  ASSUME LinksIInv, NEW s \in L!Saves, L!Save(s) \/ L!ClaimGoesStale(s)
  PROVE  LinksIInv'
<1>0. L!TypeOK /\ ClaimedFirst /\ ObjectsKept /\ UNCHANGED <<link, agent, request, edits, faults, excused>>
  BY DEF LinksIInv, L!Save, L!ClaimGoesStale, L!dashboard
<1>1. /\ pending' \in [L!Saves -> {"none", "new", "claimed", "stale", "fetched"}]
      /\ objects \subseteq objects' /\ objects' \subseteq Objects
      /\ \A t \in L!Saves : Taken(t) => pending'[t] \in {"claimed", "stale", "fetched"}
      /\ \A t \in L!Saves \cap Objects : pending'[t] = "new" => pending[t] = "new" \/ t \in objects'
  <2>1. CASE L!Save(s)
    BY <1>0, <2>1 DEF L!TypeOK, L!Save, Taken
  <2>2. CASE L!ClaimGoesStale(s)
    BY <1>0, <2>2 DEF L!TypeOK, L!ClaimGoesStale, Taken
  <2>3. QED
    BY <2>1, <2>2
<1>2. L!TypeOK'
  BY <1>0, <1>1 DEF L!TypeOK
<1>3. ClaimedFirst'
  <2>1. \A a \in Agents : agent[a].todo \subseteq L!Saves
    BY <1>0 DEF L!TypeOK
  <2>2. \A a \in Agents : \A t \in agent[a].todo : pending'[t] \in {"claimed", "stale", "fetched"}
    BY <1>0, <1>1, <2>1 DEF ClaimedFirst
  <2>3. \A t \in L!Saves : Shows(t) => pending'[t] \in {"claimed", "stale", "fetched"}
    BY <1>0, <1>1 DEF ClaimedFirst
  <2>4. QED
    BY <1>0, <2>2, <2>3 DEF ClaimedFirst, Taken, Shows, Cleans
<1>4. ObjectsKept'
  BY <1>0, <1>1 DEF ObjectsKept, L!Current
<1>5. QED
  BY <1>0, <1>2, <1>3, <1>4 DEF LinksIInv, Working, InOrder, FaviconsTrue, FaviconOf, CleansARow, Cleans, Shows, L!OneSave, L!Current

\* The dashboard's side of a step that writes no row.
LEMMA ShownStays ==
  ASSUME LinksIInv, UNCHANGED <<link, request>>, excused \subseteq excused', faults' \in Nat, faults' >= faults
  PROVE  /\ link' \in LinkRecords \cup {None} /\ CleansARow' /\ L!OneSave'
         /\ \A s \in L!Saves : Shows(s)' => Shows(s)
<1>1. faults \in Nat /\ link \in LinkRecords \cup {None}
  BY MirrorAssumption DEF LinksIInv, L!TypeOK, LinkRecords
<1>2. L!OneSave'
  BY <1>1 DEF LinksIInv, L!OneSave
<1>3. QED
  BY <1>1, <1>2 DEF LinksIInv, CleansARow, Cleans, Shows

LEMMA QuietHandsStep ==
  ASSUME LinksIInv, NEW a \in Agents, NEW mine \in AgentRecords, agent' = [agent EXCEPT ![a] = mine],
         mine.todo \subseteq agent[a].todo, (mine.at = "idle") <=> (mine.todo = {}),
         agent[a].at # "mark" \/ L!Current(a) \notin mine.todo,
         mine.at # "upsert" \/ FaviconOf(First(mine.todo), mine.favicon, faults', excused),
         UNCHANGED <<link, request, edits, excused>>, faults' \in 0..MaxFaults, faults' >= faults,
         pending' \in [L!Saves -> {"none", "new", "claimed", "stale", "fetched"}],
         \A s \in L!Saves : pending'[s] = "new" => pending[s] = "new",
         \A s \in L!Saves : Taken(s) => Taken(s)',
         objects' \subseteq objects,
         \A s \in objects \ objects' : s \in agent[a].todo /\ mine.at = "mark" /\ s = First(mine.todo)
  PROVE  LinksIInv'
<1>1. faults' \in Nat
  BY MirrorAssumption
<1>2. link' \in LinkRecords \cup {None} /\ CleansARow' /\ L!OneSave'
  BY <1>1, ShownStays
<1>3. \A t \in L!Saves : Shows(t)' => Shows(t) \/ (t \in agent[a].todo /\ \A u \in agent[a].todo : t <= u)
  BY <1>1, ShownStays
<1>4. request' = request /\ edits' = edits /\ excused' = excused
  OBVIOUS
<1>5. QED
  BY <1>2, <1>3, <1>4, HandsStep

LEMMA StoreFaviconStep ==
  ASSUME LinksIInv, NEW a \in Agents, NEW works \in BOOLEAN, L!StoreFavicon(a, works),
         faults' \in 0..MaxFaults, faults' = faults \/ faults' = faults + 1, works => faults' = faults,
         ~works => faults' = faults + 1
  PROVE  LinksIInv'
<1> DEFINE s == L!Current(a)
<1> DEFINE icon == IF s \notin Inline \cup Objects THEN None
                   ELSE IF works /\ (s \in Inline \/ s \in objects) THEN s ELSE Failed
<1> DEFINE mine == [agent[a] EXCEPT !.at = "upsert", !.favicon = icon]
<1>1. agent[a].at = "favicon" /\ UNCHANGED <<pending, objects, link, request, edits, excused>>
  BY DEF L!StoreFavicon, L!dashboard
<1>2. /\ agent[a] \in AgentRecords /\ s = First(agent[a].todo) /\ s \in agent[a].todo /\ s \in L!Saves
      /\ agent[a].todo \in SUBSET L!Saves
  BY <1>1, CurrentInHand
<1>3. faults \in Nat /\ agent \in [Agents -> AgentRecords]
  BY MirrorAssumption DEF LinksIInv, L!TypeOK, AgentRecords
<1>4. agent' = [agent EXCEPT ![a] = mine]
  <2>1. agent' = [agent EXCEPT ![a].at = "upsert", ![a].favicon = icon]
    BY DEF L!StoreFavicon
  <2>2. QED
    BY <1>3, <2>1
<1>5. icon \in L!Favicons \cup {Failed}
  BY <1>2 DEF L!Favicons
<1>6. FaviconOf(s, icon, faults', excused)
  <2>1. CASE s \notin Inline \cup Objects
    BY <2>1, <1>1 DEF FaviconOf
  <2>2. CASE s \in Inline \cup Objects /\ icon = s
    BY <2>2 DEF FaviconOf
  <2>3. CASE s \in Inline \cup Objects /\ icon = Failed /\ ~works
    BY <1>3, <2>3 DEF FaviconOf
  <2>4. CASE s \in Objects /\ icon = Failed /\ s \notin objects
    <3>1. s \in excused
      BY <1>1, <1>2, <2>4 DEF LinksIInv, ObjectsKept
    <3>2. QED
      BY <1>1, <2>4, <3>1 DEF FaviconOf
  <2>5. QED
    BY <2>1, <2>2, <2>3, <2>4
<1>7. mine \in AgentRecords /\ mine.at = "upsert" /\ mine.todo = agent[a].todo /\ mine.favicon = icon
  BY <1>2, <1>5 DEF AgentRecords
<1> HIDE DEF mine, icon
<1>8. QED
  <2>1. FaviconOf(First(mine.todo), mine.favicon, faults', excused)
    BY <1>2, <1>6, <1>7
  <2>2. faults' \in Nat /\ faults' >= faults
    BY <1>3
  <2>3. pending' \in [L!Saves -> {"none", "new", "claimed", "stale", "fetched"}]
    BY <1>1 DEF LinksIInv, L!TypeOK
  <2>4. \A t \in L!Saves : (pending'[t] = "new" => pending[t] = "new") /\ (Taken(t) => Taken(t)')
    BY <1>1 DEF Taken
  <2>5. ((mine.at = "idle") <=> (mine.todo = {})) /\ mine.todo \subseteq agent[a].todo /\ agent[a].at # "mark"
    BY <1>1, <1>2, <1>7
  <2>6. objects' \subseteq objects /\ \A t \in objects \ objects' : FALSE
    BY <1>1
  <2>7. QED
    BY <1>1, <1>4, <1>7, <2>1, <2>2, <2>3, <2>4, <2>5, <2>6, QuietHandsStep

LEMMA DeleteObjectStep ==
  ASSUME LinksIInv, NEW a \in Agents, NEW works \in BOOLEAN, L!DeleteObject(a, works),
         faults' \in 0..MaxFaults, faults' >= faults
  PROVE  LinksIInv'
<1> DEFINE s == L!Current(a)
<1> DEFINE mine == [agent[a] EXCEPT !.at = "mark"]
<1>1. /\ agent[a].at = "delete" /\ UNCHANGED <<pending, link, request, edits, excused>>
      /\ objects' \subseteq objects /\ objects \ objects' \subseteq {s} /\ agent' = [agent EXCEPT ![a].at = "mark"]
  BY DEF L!DeleteObject, L!dashboard, L!Goto
<1>2. agent[a] \in AgentRecords /\ s = First(agent[a].todo) /\ s \in agent[a].todo
  BY <1>1, CurrentInHand
<1>3. agent' = [agent EXCEPT ![a] = mine]
  BY <1>1 DEF LinksIInv, L!TypeOK
<1>4. mine \in AgentRecords /\ mine.at = "mark" /\ mine.todo = agent[a].todo
  BY <1>2 DEF AgentRecords
<1> HIDE DEF mine
<1>5. pending' \in [L!Saves -> {"none", "new", "claimed", "stale", "fetched"}]
  BY <1>1 DEF LinksIInv, L!TypeOK
<1>6. \A t \in L!Saves : (pending'[t] = "new" => pending[t] = "new") /\ (Taken(t) => Taken(t)')
  BY <1>1 DEF Taken
<1>7. \A t \in objects \ objects' : t \in agent[a].todo /\ mine.at = "mark" /\ t = First(mine.todo)
  BY <1>1, <1>2, <1>4
<1>8. ((mine.at = "idle") <=> (mine.todo = {})) /\ mine.todo \subseteq agent[a].todo /\ agent[a].at # "mark" /\ mine.at # "upsert"
  BY <1>1, <1>2, <1>4
<1>9. QED
  BY <1>1, <1>3, <1>4, <1>5, <1>6, <1>7, <1>8, QuietHandsStep

\* MarkFetched, ProcessFails.
LEMMA NextLinkStep ==
  ASSUME LinksIInv, NEW a \in Agents, agent[a].at # "idle", L!NextLink(a),
         UNCHANGED <<objects, link, request, edits, excused>>, faults' \in 0..MaxFaults, faults' >= faults,
         pending' = pending \/ pending' = [pending EXCEPT ![L!Current(a)] = "fetched"]
  PROVE  LinksIInv'
<1> DEFINE rest == agent[a].todo \ {L!Current(a)}
<1> DEFINE mine == [L!IdleAgent EXCEPT !.at = IF rest = {} THEN "idle" ELSE "favicon", !.todo = rest]
<1>1. /\ agent[a] \in AgentRecords /\ L!Current(a) \in agent[a].todo /\ L!Current(a) \in L!Saves
      /\ agent[a].todo \in SUBSET L!Saves
  BY CurrentInHand
<1>2. agent' = [agent EXCEPT ![a] = mine]
  BY DEF L!NextLink
<1>3. mine \in AgentRecords /\ mine.at = (IF rest = {} THEN "idle" ELSE "favicon") /\ mine.todo = rest
  BY <1>1 DEF AgentRecords, L!IdleAgent, L!Favicons
<1>4. ((mine.at = "idle") <=> (mine.todo = {})) /\ mine.at # "upsert"
  BY <1>3
<1>5. mine.todo \subseteq agent[a].todo /\ L!Current(a) \notin mine.todo
  BY <1>3
<1> HIDE DEF mine
<1>6. /\ pending' \in [L!Saves -> {"none", "new", "claimed", "stale", "fetched"}]
      /\ \A t \in L!Saves : pending'[t] = "new" => pending[t] = "new"
      /\ \A t \in L!Saves : Taken(t) => pending'[t] \in {"claimed", "stale", "fetched"}
  BY <1>1 DEF LinksIInv, L!TypeOK, Taken
<1>7. \A t \in L!Saves : Taken(t) => Taken(t)'
  BY <1>6 DEF Taken
<1>8. objects' \subseteq objects /\ \A t \in objects \ objects' : FALSE
  OBVIOUS
<1>9. QED
  BY <1>2, <1>3, <1>4, <1>5, <1>6, <1>7, <1>8, QuietHandsStep

LEMMA CrashStep ==
  ASSUME LinksIInv, NEW a \in Agents, L!Crash(a), faults' \in 0..MaxFaults, faults' >= faults
  PROVE  LinksIInv'
<1>1. agent' = [agent EXCEPT ![a] = L!IdleAgent] /\ UNCHANGED <<pending, objects, link, request, edits, excused>>
  BY DEF L!Crash, L!dashboard
<1>2. L!IdleAgent \in AgentRecords /\ L!IdleAgent.at = "idle" /\ L!IdleAgent.todo = {}
  BY DEF AgentRecords, L!IdleAgent, L!Favicons
<1>3. /\ pending' \in [L!Saves -> {"none", "new", "claimed", "stale", "fetched"}]
      /\ \A t \in L!Saves : pending'[t] = "new" => pending[t] = "new"
  BY <1>1 DEF LinksIInv, L!TypeOK
<1>4. \A t \in L!Saves : Taken(t) => Taken(t)'
  BY <1>1 DEF Taken
<1>5. objects' \subseteq objects /\ \A t \in objects \ objects' : FALSE
  BY <1>1
<1>6. /\ (L!IdleAgent.at = "idle") <=> (L!IdleAgent.todo = {})
      /\ L!IdleAgent.todo \subseteq agent[a].todo /\ L!Current(a) \notin L!IdleAgent.todo /\ L!IdleAgent.at # "upsert"
  BY <1>2
<1>7. QED
  BY <1>1, <1>2, <1>3, <1>4, <1>5, <1>6, QuietHandsStep

LEMMA UpsertStep ==
  ASSUME LinksIInv, NEW a \in Agents, L!Upsert(a)
  PROVE  LinksIInv'
<1> DEFINE s == L!Current(a)
<1> DEFINE icon == agent[a].favicon
<1> DEFINE kept == IF link = None THEN None ELSE link.favicon
<1> DEFINE after == IF s \in Objects THEN "delete" ELSE "mark"
<1> DEFINE mine == [agent[a] EXCEPT !.at = after]
<1>1. /\ agent[a].at = "upsert" /\ UNCHANGED <<pending, objects, request, edits, faults, excused>>
      /\ agent' = [agent EXCEPT ![a].at = after]
      /\ link' = [raw |-> s, clean |-> FALSE, title |-> s, favicon |-> IF icon = Failed THEN kept ELSE icon]
  BY DEF L!Upsert, L!dashboard, L!After, L!Goto
<1>2. /\ agent[a] \in AgentRecords /\ s \in agent[a].todo /\ s \in L!Saves /\ agent[a].todo \in SUBSET L!Saves
      /\ \A t \in agent[a].todo : s <= t
  BY <1>1, CurrentInHand
<1>3. agent' = [agent EXCEPT ![a] = mine]
  BY <1>1 DEF LinksIInv, L!TypeOK
<1>4. mine \in AgentRecords /\ mine.at \in {"delete", "mark"} /\ mine.todo = agent[a].todo
  BY <1>2 DEF AgentRecords
<1>5. link \in LinkRecords \cup {None} /\ faults \in 0..MaxFaults /\ faults' \in 0..MaxFaults /\ faults' >= faults
  BY <1>1, MirrorAssumption DEF LinksIInv, L!TypeOK, LinkRecords
<1>6. kept \in L!Favicons
  BY <1>5 DEF LinkRecords, L!Favicons
<1>7. icon \in L!Favicons \cup {Failed}
  BY <1>2 DEF AgentRecords
<1>8. link' \in LinkRecords
  BY <1>1, <1>2, <1>6, <1>7 DEF LinkRecords
<1>9. link' # None
  BY <1>8, AbsenceAssumption DEF LinkRecords
<1>10. CleansARow'
  BY <1>9 DEF CleansARow
<1>11. L!OneSave'
  <2>1. FaviconOf(s, icon, faults, excused)
    BY <1>1 DEF LinksIInv, FaviconsTrue
  <2>2. s # Failed /\ None # Failed
    BY <1>2, ConvergeAssumption DEF L!Saves
  <2>3. CASE icon = (IF s \in Inline \cup Objects THEN s ELSE None)
    BY <1>1, <2>2, <2>3 DEF L!OneSave
  <2>4. CASE s \in Inline \cup Objects /\ (faults > 0 \/ s \in excused)
    BY <1>1, <2>4 DEF L!OneSave
  <2>5. QED
    BY <2>1, <2>3, <2>4 DEF FaviconOf
<1>12. \A t \in L!Saves : Shows(t)' => Shows(t) \/ (t \in agent[a].todo /\ \A u \in agent[a].todo : t <= u)
  BY <1>1, <1>2 DEF Shows, Cleans
<1>13. pending' \in [L!Saves -> {"none", "new", "claimed", "stale", "fetched"}]
  BY <1>1 DEF LinksIInv, L!TypeOK
<1>14. \A t \in L!Saves : (pending'[t] = "new" => pending[t] = "new") /\ (Taken(t) => Taken(t)')
  BY <1>1 DEF Taken
<1>15. /\ (mine.at = "idle") <=> (mine.todo = {})
       /\ mine.todo \subseteq agent[a].todo /\ agent[a].at # "mark" /\ mine.at # "upsert"
  BY <1>1, <1>2, <1>4
<1>16. objects' \subseteq objects /\ \A t \in objects \ objects' : FALSE
  BY <1>1
<1> HIDE DEF mine
<1>17. QED
  BY <1>1, <1>3, <1>4, <1>5, <1>8, <1>10, <1>11, <1>12, <1>13, <1>14, <1>15, <1>16, HandsStep

LEMMA ClaimStep ==
  ASSUME LinksIInv, NEW a \in Agents, NEW answered \in BOOLEAN, L!Claim(a, answered),
         faults' \in 0..MaxFaults, faults' >= faults
  PROVE  LinksIInv'
<1>0. L!TypeOK /\ Working /\ ClaimedFirst /\ InOrder /\ ObjectsKept /\ FaviconsTrue
  BY DEF LinksIInv
<1> DEFINE taken == {"claimed", "stale", "fetched"}
<1>1. agent[a].at = "idle" /\ UNCHANGED <<objects, link, request, edits>>
  BY DEF L!Claim, L!dashboard
<1>2. PICK batch \in (SUBSET L!Claimable) \ {{}} :
        /\ pending' = [s \in L!Saves |-> IF s \in batch THEN "claimed" ELSE pending[s]]
        /\ excused' = excused \cup L!Excuses(a, batch)
        /\ agent' = IF answered
                    THEN [agent EXCEPT ![a] = [L!IdleAgent EXCEPT !.at = "favicon", !.todo = batch]] ELSE agent
  BY DEF L!Claim
<1>3. batch \subseteq L!Saves /\ batch # {} /\ \A s \in batch : pending[s] \in {"new", "stale"}
  BY <1>2 DEF L!Claimable
<1> DEFINE mine == [L!IdleAgent EXCEPT !.at = "favicon", !.todo = batch]
<1>4. mine \in AgentRecords /\ mine.at = "favicon" /\ mine.todo = batch
  BY <1>3 DEF AgentRecords, L!IdleAgent, L!Favicons
<1>5. /\ agent \in [Agents -> AgentRecords] /\ agent' \in [Agents -> AgentRecords]
      /\ \A b \in Agents : agent'[b] = agent[b] \/ (b = a /\ agent'[b] = mine)
  BY <1>0, <1>2, <1>4 DEF L!TypeOK, AgentRecords
<1>6. \A b \in Agents : agent[b].todo \subseteq L!Saves
  BY <1>5 DEF AgentRecords
<1> HIDE DEF mine
<1>7. /\ pending' \in [L!Saves -> {"none", "new", "claimed", "stale", "fetched"}]
      /\ \A s \in L!Saves : pending[s] \in taken => pending'[s] \in taken
      /\ \A s \in batch : pending'[s] \in taken
      /\ \A s \in L!Saves : pending'[s] = "new" => pending[s] = "new"
  BY <1>0, <1>2, <1>3 DEF L!TypeOK
<1>8. L!Excuses(a, batch) \subseteq L!Saves /\ excused \subseteq excused'
  BY <1>2, <1>3, <1>6 DEF L!Excuses
<1>9. L!Saves \subseteq Nat
  BY ConvergeAssumption DEF L!Saves
<1>10. L!TypeOK'
  BY <1>0, <1>1, <1>2, <1>5, <1>7, <1>8 DEF L!TypeOK, AgentRecords
<1>11. Working'
  BY <1>0, <1>3, <1>4, <1>5 DEF Working
<1>12. ClaimedFirst'
  <2>1. ASSUME NEW b \in Agents, NEW s \in agent'[b].todo PROVE pending'[s] \in taken
    <3>1. CASE agent'[b] = agent[b]
      BY <1>0, <1>6, <1>7, <2>1, <3>1 DEF ClaimedFirst, Taken
    <3>2. CASE agent'[b] = mine
      BY <1>4, <1>7, <2>1, <3>2
    <3>3. QED
      BY <1>5, <3>1, <3>2
  <2>2. \A s \in L!Saves : Shows(s) => pending'[s] \in taken
    BY <1>0, <1>7 DEF ClaimedFirst, Taken
  <2>3. QED
    BY <1>1, <2>1, <2>2 DEF ClaimedFirst, Taken, Shows, Cleans
<1>13. ASSUME NEW s \in batch, s \notin excused'
       PROVE  pending[s] = "new" /\ \A t \in L!Saves : pending[t] \in taken => t < s
  <2>1. s \notin L!Excuses(a, batch)
    BY <1>2, <1>13
  <2>2. pending[s] # "stale" /\ \A t \in L!Saves : t > s => pending[t] \notin taken
    BY <2>1 DEF L!Excuses
  <2>3. pending[s] = "new"
    BY <1>3, <2>2
  <2>4. ASSUME NEW t \in L!Saves, pending[t] \in taken PROVE t < s
    <3>1. ~(t > s) /\ t # s /\ t \in Nat /\ s \in Nat
      BY <1>3, <1>9, <2>2, <2>3, <2>4
    <3>2. QED
      BY <3>1
  <2>5. QED
    BY <2>3, <2>4
<1>14. InOrder'
  <2>1. ASSUME NEW b \in Agents, NEW s \in agent'[b].todo \ excused', NEW t \in L!Saves, Shows(t) PROVE t <= s
    <3>1. CASE agent'[b] = agent[b]
      BY <1>0, <1>8, <2>1, <3>1 DEF InOrder
    <3>2. CASE agent'[b] = mine
      <4>1. pending[t] \in taken
        BY <1>0, <2>1 DEF ClaimedFirst, Taken
      <4>2. t < s /\ t \in Nat /\ s \in Nat
        BY <1>3, <1>4, <1>9, <1>13, <2>1, <3>2, <4>1
      <4>3. QED
        BY <4>2
    <3>3. QED
      BY <1>5, <3>1, <3>2
  <2>2. ASSUME NEW b \in Agents, NEW s \in agent'[b].todo \ excused', NEW c \in Agents \ {b}, NEW t \in agent'[c].todo
        PROVE  t < s
    <3>1. CASE agent'[b] = agent[b] /\ agent'[c] = agent[c]
      BY <1>0, <1>8, <2>2, <3>1 DEF InOrder
    <3>2. CASE b = a /\ agent'[b] = mine /\ agent'[c] = agent[c]
      <4>1. pending[t] \in taken /\ t \in L!Saves
        BY <1>0, <1>6, <2>2, <3>2 DEF ClaimedFirst, Taken
      <4>2. QED
        BY <1>4, <1>13, <2>2, <3>2, <4>1
    <3>3. CASE agent'[b] = agent[b] /\ c = a /\ agent'[c] = mine
      <4>1. s \in agent[b].todo /\ t \in batch /\ b \in Agents \ {a} /\ s \notin L!Excuses(a, batch)
        BY <1>2, <1>4, <2>2, <3>3
      <4>2. pending[s] \in taken
        BY <1>0, <4>1 DEF ClaimedFirst, Taken
      <4>3. s # t
        BY <1>3, <4>1, <4>2 DEF L!Excuses
      <4>4. ~(s < t)
        <5>1. s \in UNION {agent[d].todo : d \in Agents \ {a}}
          BY <4>1
        <5>2. QED
          BY <4>1, <5>1 DEF L!Excuses
      <4>5. s \in Nat /\ t \in Nat
        BY <1>3, <1>6, <1>9, <4>1
      <4>6. QED
        BY <4>3, <4>4, <4>5
    <3>4. QED
      BY <1>5, <3>1, <3>2, <3>3
  <2>3. QED
    BY <1>1, <2>1, <2>2 DEF InOrder, Shows, Cleans
<1>15. ObjectsKept'
  <2>1. \A s \in L!Saves \cap Objects : pending'[s] = "new" => s \in objects
    BY <1>0, <1>7 DEF ObjectsKept
  <2>2. ASSUME NEW b \in Agents, NEW s \in (agent'[b].todo \cap Objects) \ excused',
               agent'[b].at = "mark" => s # First(agent'[b].todo)
        PROVE  s \in objects
    <3>1. CASE agent'[b] = agent[b]
      BY <1>0, <1>8, <2>2, <3>1 DEF ObjectsKept, First, L!Current
    <3>2. CASE agent'[b] = mine
      <4>1. s \in batch /\ s \in L!Saves \cap Objects /\ pending[s] = "new"
        BY <1>3, <1>4, <1>13, <2>2, <3>2
      <4>2. QED
        BY <1>0, <4>1 DEF ObjectsKept
    <3>3. QED
      BY <1>5, <3>1, <3>2
  <2>3. \A b \in Agents : L!Current(b)' = First(agent'[b].todo)
    BY DEF First, L!Current
  <2>4. QED
    BY <1>1, <2>1, <2>2, <2>3 DEF ObjectsKept
<1>16. FaviconsTrue'
  <2>1. \A b \in Agents : L!Current(b)' = First(agent'[b].todo) /\ L!Current(b) = First(agent[b].todo)
    BY DEF First, L!Current
  <2>2. ASSUME NEW b \in Agents, agent'[b].at = "upsert"
        PROVE  FaviconOf(First(agent'[b].todo), agent'[b].favicon, faults', excused')
    <3>1. agent'[b] = agent[b] /\ agent[b].at = "upsert"
      BY <1>4, <1>5, <2>2
    <3>2. FaviconOf(First(agent[b].todo), agent[b].favicon, faults, excused)
      BY <1>0, <2>1, <3>1 DEF FaviconsTrue
    <3>3. faults \in Nat /\ faults' \in Nat
      BY <1>0, MirrorAssumption DEF L!TypeOK
    <3>4. QED
      BY <1>8, <3>1, <3>2, <3>3 DEF FaviconOf
  <2>3. QED
    BY <2>1, <2>2 DEF FaviconsTrue
<1>17. CleansARow' /\ L!OneSave'
  <2>1. faults' \in Nat
    BY MirrorAssumption
  <2>2. QED
    BY <1>1, <1>8, <2>1, ShownStays
<1>18. QED
  BY <1>10, <1>11, <1>12, <1>14, <1>15, <1>16, <1>17 DEF LinksIInv

\* PatchLink, DeleteLink, StartCreate, CreateLink, StartClean, CleanLinkURL.
LEMMA DashboardSteps ==
  ASSUME LinksIInv, L!Dashboard
  PROVE  LinksIInv'
<1>0. L!TypeOK /\ CleansARow /\ L!OneSave
  BY DEF LinksIInv
<1>1. /\ link \in LinkRecords \cup {None} /\ request \in [Requests -> RequestRecords \cup {None}] /\ edits \in 0..MaxEdits
      /\ edits < MaxEdits => edits + 1 \in 0..MaxEdits
  BY <1>0, ConvergeAssumption DEF L!TypeOK, LinkRecords, RequestRecords
<1>2. UNCHANGED <<pending, objects, agent, faults, excused>>
  BY DEF L!Dashboard, L!PatchLink, L!DeleteLink, L!StartCreate, L!CreateLink, L!StartClean, L!CleanLinkURL, L!Ingest
<1>3. \A s \in L!Saves : s # L!Typed
  BY DEF L!Saves, L!Typed
<1>4. CASE L!PatchLink
  <2>1. link # None /\ link' = [link EXCEPT !.title = L!Typed] /\ request' = request /\ edits' \in 0..MaxEdits
    BY <1>1, <1>4 DEF L!PatchLink, L!Edit, L!Ingest
  <2>2. link' \in LinkRecords /\ link'.raw = link.raw /\ link'.clean = link.clean /\ link'.favicon = link.favicon
    BY <1>1, <2>1 DEF LinkRecords
  <2>3. link' # None
    BY <2>2, AbsenceAssumption DEF LinkRecords
  <2>4. \A s \in L!Saves : Shows(s)' => Shows(s)
    BY <2>1, <2>2, <2>3 DEF Shows, Cleans
  <2>5. CleansARow' /\ L!OneSave'
    BY <1>0, <1>2, <2>1, <2>2, <2>3 DEF CleansARow, Cleans, L!OneSave
  <2>6. QED
    BY <1>1, <1>2, <2>1, <2>2, <2>4, <2>5, DashboardStep
<1>5. CASE L!DeleteLink
  <2>1. /\ link' = None /\ edits' \in 0..MaxEdits
        /\ request' = [r \in Requests |-> IF request[r] # None /\ request[r].op = "clean" THEN None ELSE request[r]]
    BY <1>1, <1>5 DEF L!DeleteLink, L!Edit
  <2>2. request' \in [Requests -> RequestRecords \cup {None}] /\ \A r \in Requests : ~Cleans(r)'
    BY <1>1, <2>1 DEF Cleans
  <2>3. \A s \in L!Saves : Shows(s)' => Shows(s)
    BY <2>1, <2>2 DEF Shows
  <2>4. CleansARow' /\ L!OneSave'
    BY <2>1, <2>2 DEF CleansARow, L!OneSave
  <2>5. QED
    BY <1>2, <2>1, <2>2, <2>3, <2>4, DashboardStep
<1>6. ASSUME NEW r \in Requests, NEW favicon \in {L!Typed, None}, L!StartCreate(r, favicon) PROVE LinksIInv'
  <2>1. link' = link /\ edits' \in 0..MaxEdits /\ request' = [request EXCEPT ![r] = [op |-> "create", favicon |-> favicon]]
    BY <1>1, <1>6 DEF L!StartCreate, L!Edit
  <2>2. /\ request' \in [Requests -> RequestRecords \cup {None}] /\ request'[r].op = "create"
        /\ \A q \in Requests \ {r} : request'[q] = request[q]
    BY <1>1, <2>1 DEF RequestRecords
  <2>3. \A q \in Requests : Cleans(q)' => Cleans(q) /\ request'[q] = request[q]
    BY <2>2 DEF Cleans
  <2>4. \A s \in L!Saves : Shows(s)' => Shows(s)
    BY <2>1, <2>3 DEF Shows
  <2>5. CleansARow' /\ L!OneSave'
    BY <1>0, <1>2, <2>1, <2>3 DEF CleansARow, L!OneSave
  <2>6. QED
    BY <1>1, <1>2, <2>1, <2>2, <2>4, <2>5, DashboardStep
<1>7. ASSUME NEW r \in Requests, L!CreateLink(r) PROVE LinksIInv'
  <2>1. /\ request[r] # None /\ request[r].op = "create" /\ request' = [request EXCEPT ![r] = None] /\ edits' = edits
        /\ link' = IF link # None THEN link
                   ELSE [raw |-> L!Typed, clean |-> FALSE, title |-> L!Typed, favicon |-> request[r].favicon]
    BY <1>7 DEF L!CreateLink
  <2>2. request' \in [Requests -> RequestRecords \cup {None}] /\ \A q \in Requests : Cleans(q)' => Cleans(q) /\ request'[q] = request[q]
    BY <1>1, <2>1 DEF Cleans
  <2>3. request[r].favicon \in {L!Typed, None}
    BY <1>1, <2>1 DEF RequestRecords
  <2>4. link' \in LinkRecords \cup {None} /\ (link # None => link' = link) /\ (link = None => link'.raw = L!Typed)
    BY <1>1, <2>1, <2>3 DEF LinkRecords, L!Favicons
  <2>5. CleansARow'
    BY <1>0, <2>2, <2>4 DEF CleansARow
  <2>6. L!OneSave'
    BY <1>0, <1>2, <2>4 DEF L!OneSave
  <2>7. \A s \in L!Saves : Shows(s)' => Shows(s)
    BY <1>3, <2>2, <2>4 DEF Shows
  <2>8. QED
    BY <1>1, <1>2, <2>1, <2>2, <2>4, <2>5, <2>6, <2>7, DashboardStep
<1>8. ASSUME NEW r \in Requests, L!StartClean(r) PROVE LinksIInv'
  <2>1. /\ link # None /\ link' = link /\ edits' \in 0..MaxEdits
        /\ request' = [request EXCEPT ![r] = [op |-> "clean", raw |-> link.raw]]
    BY <1>1, <1>8 DEF L!StartClean, L!Edit
  <2>2. link.raw \in L!Saves \cup {L!Typed}
    BY <1>1, <2>1 DEF LinkRecords
  <2>3. /\ request' \in [Requests -> RequestRecords \cup {None}] /\ request'[r].raw = link.raw
        /\ \A q \in Requests \ {r} : request'[q] = request[q]
    BY <1>1, <2>1, <2>2 DEF RequestRecords
  <2>4. \A s \in L!Saves : Shows(s)' => Shows(s)
    BY <2>1, <2>3 DEF Shows, Cleans
  <2>5. CleansARow' /\ L!OneSave'
    BY <1>0, <1>2, <2>1 DEF CleansARow, L!OneSave
  <2>6. QED
    BY <1>1, <1>2, <2>1, <2>3, <2>4, <2>5, DashboardStep
<1>9. ASSUME NEW r \in Requests, L!CleanLinkURL(r) PROVE LinksIInv'
  <2>1. /\ Cleans(r) /\ link # None /\ link' = [link EXCEPT !.raw = request[r].raw, !.clean = TRUE]
        /\ request' = [request EXCEPT ![r] = None] /\ edits' = edits
    BY <1>0, <1>9 DEF L!CleanLinkURL, CleansARow, Cleans
  <2>2. request[r].raw \in L!Saves \cup {L!Typed}
    BY <1>1, <2>1 DEF RequestRecords, Cleans
  <2>3. link' \in LinkRecords /\ link'.raw = request[r].raw /\ link'.clean = TRUE
    BY <1>1, <2>1, <2>2 DEF LinkRecords
  <2>4. link' # None
    BY <2>3, AbsenceAssumption DEF LinkRecords
  <2>5. request' \in [Requests -> RequestRecords \cup {None}] /\ \A q \in Requests : Cleans(q)' => Cleans(q) /\ request'[q] = request[q]
    BY <1>1, <2>1 DEF Cleans
  <2>6. \A s \in L!Saves : Shows(s)' => Shows(s)
    BY <2>1, <2>3, <2>5 DEF Shows
  <2>7. CleansARow' /\ L!OneSave'
    BY <2>3, <2>4 DEF CleansARow, L!OneSave
  <2>8. QED
    BY <1>1, <1>2, <2>1, <2>3, <2>5, <2>6, <2>7, DashboardStep
<1>10. QED
  BY <1>4, <1>5, <1>6, <1>7, <1>8, <1>9 DEF L!Dashboard

-----------------------------------------------------------------------------
(* Links: the theorems.                                                    *)

\* Saves of a URL are applied in their order, each with its own favicon, as far as the
\* Worker's claims and the failures of calls allow.
THEOREM LinksInvariance == L!Spec => []LinksIInv
<1>1. L!Init => LinksIInv
  <2> SUFFICES ASSUME L!Init PROVE LinksIInv
    OBVIOUS
  <2>1. L!TypeOK
    BY MirrorAssumption, ConvergeAssumption DEF L!Init, L!TypeOK, L!IdleAgent, L!Favicons
  <2>2. Working /\ ClaimedFirst /\ InOrder /\ ObjectsKept /\ FaviconsTrue
    BY DEF L!Init, L!IdleAgent, Working, ClaimedFirst, InOrder, ObjectsKept, FaviconsTrue, Shows, Cleans
  <2>3. CleansARow /\ L!OneSave
    BY DEF L!Init, CleansARow, Cleans, L!OneSave
  <2>4. QED
    BY <2>1, <2>2, <2>3 DEF LinksIInv
<1>2. LinksIInv /\ [L!Next]_(L!vars) => LinksIInv'
  <2> SUFFICES ASSUME LinksIInv, [L!Next]_(L!vars) PROVE LinksIInv'
    OBVIOUS
  <2>1. ASSUME L!Dashboard PROVE LinksIInv'
    BY <2>1, DashboardSteps
  <2>2. ASSUME NEW s \in L!Saves, L!Save(s) \/ L!ClaimGoesStale(s) PROVE LinksIInv'
    BY <2>2, SaveLinkStep
  <2>3. faults \in 0..MaxFaults /\ faults <= faults
    BY MirrorAssumption DEF LinksIInv, L!TypeOK
  <2>4. ASSUME NEW a \in Agents, L!RunOnce(a) PROVE LinksIInv'
    <3>1. faults' = faults
      BY <2>4 DEF L!RunOnce, L!Upsert, L!MarkFetched
    <3>2. faults' \in 0..MaxFaults /\ faults' >= faults
      BY <2>3, <3>1
    <3>3. CASE L!Claim(a, TRUE)
      BY <3>2, <3>3, ClaimStep
    <3>4. CASE L!StoreFavicon(a, TRUE)
      BY <3>1, <3>2, <3>4, StoreFaviconStep
    <3>5. CASE L!DeleteObject(a, TRUE)
      BY <3>2, <3>5, DeleteObjectStep
    <3>6. CASE L!Upsert(a)
      BY <3>6, UpsertStep
    <3>7. CASE L!MarkFetched(a)
      BY <3>2, <3>7, NextLinkStep DEF L!MarkFetched, L!dashboard
    <3>8. QED
      BY <2>4, <3>3, <3>4, <3>5, <3>6, <3>7 DEF L!RunOnce
  <2>5. ASSUME NEW a \in Agents, L!Fault(a) PROVE LinksIInv'
    <3>1. faults' = faults + 1 /\ faults < MaxFaults
      BY <2>5 DEF L!Fault
    <3>2. faults' \in 0..MaxFaults /\ faults' >= faults
      BY <2>3, <3>1, MirrorAssumption
    <3>3. CASE L!Claim(a, FALSE)
      BY <3>2, <3>3, ClaimStep
    <3>4. CASE L!StoreFavicon(a, FALSE)
      BY <3>1, <3>2, <3>4, StoreFaviconStep
    <3>5. CASE L!DeleteObject(a, FALSE)
      BY <3>2, <3>5, DeleteObjectStep
    <3>6. CASE L!ProcessFails(a)
      BY <3>2, <3>6, NextLinkStep DEF L!ProcessFails, L!dashboard
    <3>7. CASE L!Crash(a)
      BY <3>2, <3>7, CrashStep
    <3>8. QED
      BY <2>5, <3>3, <3>4, <3>5, <3>6, <3>7 DEF L!Fault
  <2>6. CASE UNCHANGED L!vars
    <3>1. UNCHANGED <<pending, objects, link, agent, request, edits, faults, excused>>
      BY <2>6 DEF L!vars, L!dashboard
    <3>2. L!TypeOK' /\ Working' /\ CleansARow' /\ L!OneSave'
      BY <3>1 DEF LinksIInv, L!TypeOK, Working, CleansARow, Cleans, L!OneSave
    <3>3. ClaimedFirst' /\ InOrder' /\ ObjectsKept' /\ FaviconsTrue'
      BY <3>1 DEF LinksIInv, ClaimedFirst, Taken, InOrder, Shows, Cleans, ObjectsKept, FaviconsTrue, L!Current
    <3>4. QED
      BY <3>2, <3>3 DEF LinksIInv
  <2>7. QED
    BY <2>1, <2>2, <2>4, <2>5, <2>6 DEF L!Next
<1>3. QED
  BY <1>1, <1>2, PTL DEF L!Spec

\* URL and favicon of a link are those of one save.
THEOREM LinksAreOfOneSave == L!Spec => []LinksInv
<1>1. LinksIInv => LinksInv
  BY DEF LinksIInv, LinksInv
<1>2. QED
  BY <1>1, LinksInvariance, PTL

\* The later of two saves of a URL is the one that sticks.
THEOREM LaterSavesStick == L!Spec => LaterSaveSticks
<1> DEFINE Sticks == link # None /\ link' # None /\ link'.raw # link.raw /\ ~link'.clean =>
                       link'.raw > link.raw \/ link'.raw \in excused
<1>1. LinksIInv /\ [L!Next]_(L!vars) => [Sticks]_(L!vars)
  <2> SUFFICES ASSUME LinksIInv, L!Next, link # None, link' # None, link'.raw # link.raw, ~link'.clean,
                      link'.raw \notin excused
               PROVE  link'.raw > link.raw
    BY DEF Sticks
  <2>1. link \in LinkRecords /\ request \in [Requests -> RequestRecords \cup {None}]
    BY DEF LinksIInv, L!TypeOK, LinkRecords, RequestRecords
  <2>2. PICK a \in Agents : L!Upsert(a)
    <3>1. ~L!Dashboard
      <4>1. ~L!PatchLink /\ ~L!DeleteLink
        BY <2>1 DEF L!PatchLink, L!DeleteLink, LinkRecords
      <4>2. \A r \in Requests : ~L!CreateLink(r) /\ ~L!StartClean(r) /\ \A favicon \in {L!Typed, None} : ~L!StartCreate(r, favicon)
        BY DEF L!CreateLink, L!StartClean, L!StartCreate
      <4>3. \A r \in Requests : ~L!CleanLinkURL(r)
        BY <2>1 DEF L!CleanLinkURL, LinkRecords
      <4>4. QED
        BY <4>1, <4>2, <4>3 DEF L!Dashboard
    <3>2. \A s \in L!Saves : ~L!Save(s) /\ ~L!ClaimGoesStale(s)
      BY DEF L!Save, L!ClaimGoesStale
    <3>3. \A b \in Agents : ~L!Fault(b)
      BY DEF L!Fault, L!Claim, L!StoreFavicon, L!DeleteObject, L!ProcessFails, L!Crash
    <3>4. \A b \in Agents : L!RunOnce(b) => L!Upsert(b)
      BY DEF L!RunOnce, L!Claim, L!StoreFavicon, L!DeleteObject, L!MarkFetched
    <3>5. QED
      BY <3>1, <3>2, <3>3, <3>4 DEF L!Next
  <2>3. agent[a].at = "upsert" /\ link'.raw = L!Current(a)
    BY <2>2 DEF L!Upsert
  <2>4. L!Current(a) \in agent[a].todo \ excused /\ L!Current(a) \in L!Saves
    BY <2>3, CurrentInHand
  <2>5. CASE link.raw = L!Typed
    BY <2>3, <2>4, <2>5, ConvergeAssumption DEF L!Typed, L!Saves
  <2>6. CASE link.raw \in L!Saves
    <3>1. link.raw <= L!Current(a)
      BY <2>4, <2>6 DEF LinksIInv, InOrder, Shows
    <3>2. link.raw \in Nat /\ L!Current(a) \in Nat
      BY <2>4, <2>6, ConvergeAssumption DEF L!Saves
    <3>3. QED
      BY <2>3, <3>1, <3>2
  <2>7. QED
    BY <2>1, <2>5, <2>6 DEF LinkRecords
<1>2. QED
  BY <1>1, LinksInvariance, PTL DEF L!Spec, LaterSaveSticks, L!LaterSaveSticks, Sticks

-----------------------------------------------------------------------------
(* Bookmarks: the inductive invariant.                                     *)

RunRecords == [op : {"none", "sync", "enable", "disable"}, kind : B!Kinds,
               at : {"idle", "flag", "check", "search", "create", "track",
                     "fetch", "children", "apply", "tree", "forget", "off", "relinquish", "revoke"},
               folder : B!Folders \cup {None}, create : SUBSET Urls, remove : SUBSET B!Marks]

Busy(r) == run[r].at # "idle"
Holding(r) == run[r].at \in {"track", "fetch", "children", "apply"}

Roles ==
  \A r \in Runs :
    /\ run[r].at = "flag" => run[r].op = "enable"
    /\ run[r].at \in {"tree", "forget", "off", "relinquish", "revoke"} => run[r].op = "disable"

\* What two runs meet in is in raced.
Meet(x, y) ==
  /\ B!KindsOf(x.op, x.kind) \cap B!KindsOf(y.op, y.kind) \subseteq raced
  /\ x.op = "enable" /\ y.op = "disable" => x.kind \in raced
Alone == \A r, q \in Runs : r # q /\ Busy(r) /\ Busy(q) => Meet(run[r], run[q])

\* A bookmark is in a folder that exists; a folder that is remembered or held for a kind
\* is of that kind, as long as it exists.
OwnFolders ==
  /\ \A m \in B!Marks : marks[m] # None => folders[marks[m].folder] # None
  /\ \A r \in Runs : Holding(r) => run[r].folder \in B!Folders /\ folders[run[r].folder] \in {None, run[r].kind}
  /\ \A k \in B!Kinds : tracked[k] # None => folders[tracked[k]] \in {None, k}

Gone(k) == \A f \in stored : folders[f] # k

\* What holds of a kind.
Sound(k) ==
  k \notin raced =>
    /\ \A f, g \in B!Folders : folders[f] = k /\ folders[g] = k => f = g
    /\ \A f \in B!Folders : folders[f] = k => \A m, n \in B!Children(f) : marks[m].url = marks[n].url => m = n
    /\ enabled[k] => permission
    /\ ~enabled[k] => Gone(k)
    /\ \A f \in stored : folders[f] = k => tracked[k] = f

\* What a run has found out is still so.
Fits(r) ==
  LET k == run[r].kind
      at == run[r].at
  IN k \notin raced =>
       /\ at = "create" => \A f \in B!Folders : folders[f] # k
       /\ Holding(r) => \A f \in B!Folders : folders[f] = k => f = run[r].folder
       /\ at = "apply" => \A m \in B!Children(run[r].folder) : marks[m].url \notin run[r].create
       /\ at \in {"search", "create", "track", "fetch", "children", "apply", "tree", "forget", "off"} => enabled[k]
       /\ at \in {"forget", "off", "relinquish", "revoke"} => Gone(k)
       /\ at \in {"relinquish", "revoke"} => ~enabled[k]
       /\ at = "flag" => permission

\* Where a run is about to give the permission up, the other kind does not use it.
Withdraws ==
  \A r \in Runs : LET other == B!Other(run[r].kind)
                 IN run[r].at = "revoke" /\ other \notin raced => ~enabled[other]

BookmarksIInv ==
  /\ B!TypeOK /\ Roles /\ Alone /\ OwnFolders /\ Withdraws
  /\ \A k \in B!Kinds : Sound(k)
  /\ \A r \in Runs : Fits(r)

-----------------------------------------------------------------------------
(* Bookmarks: the steps.                                                   *)

LEMMA KindsApart == None \notin B!Kinds /\ B!Kinds = {"pages", "links"} /\ B!Folders \subseteq Nat /\ None \notin B!Folders
BY ConvergeAssumption, MirrorAssumption DEF B!Kinds, B!Folders

LEMMA RunsTyped ==
  ASSUME B!TypeOK
  PROVE  run \in [Runs -> RunRecords]
BY DEF B!TypeOK, RunRecords

\* A step of a run changes what is of its kind, and nothing of the other.
Confined(k) ==
  /\ \A f \in B!Folders : folders'[f] = folders[f] \/ (folders[f] \in {None, k} /\ folders'[f] \in {None, k})
  /\ \A m \in B!Marks : marks'[m] = marks[m] \/ marks'[m] = None \/ folders[marks'[m].folder] = k
  /\ \A j \in B!Kinds \ {k} : enabled'[j] = enabled[j] /\ tracked'[j] = tracked[j]
  /\ \A f \in stored' \ stored : folders'[f] \in {None, k}
  /\ permission => permission'

LEMMA OtherKinds ==
  ASSUME BookmarksIInv, raced' = raced, NEW k \in B!Kinds, Confined(k), B!TypeOK', NEW j \in B!Kinds \ {k}
  PROVE  Sound(j)'
<1> SUFFICES ASSUME j \notin raced
             PROVE  /\ \A f, g \in B!Folders : folders'[f] = j /\ folders'[g] = j => f = g
                    /\ \A f \in B!Folders : folders'[f] = j =>
                         \A m, n \in B!Children(f)' : marks'[m].url = marks'[n].url => m = n
                    /\ enabled'[j] => permission'
                    /\ ~enabled'[j] => \A f \in stored' : folders'[f] # j
                    /\ \A f \in stored' : folders'[f] = j => tracked'[j] = f
  BY DEF Sound, Gone
<1>1. Sound(j) /\ j # None /\ j # k /\ stored' \subseteq B!Folders
  BY KindsApart DEF BookmarksIInv, B!TypeOK
<1>2. \A f \in B!Folders : folders'[f] = j <=> folders[f] = j
  BY <1>1 DEF Confined
<1>3. \A f, g \in B!Folders : folders'[f] = j /\ folders'[g] = j => f = g
  BY <1>1, <1>2 DEF Sound
<1>4. ASSUME NEW f \in B!Folders, folders'[f] = j, NEW m \in B!Children(f)'
      PROVE  m \in B!Children(f) /\ marks'[m] = marks[m]
  <2>1. m \in B!Marks /\ marks'[m] # None /\ marks'[m].folder = f
    BY <1>4 DEF B!Children
  <2>2. folders[f] = j
    BY <1>2, <1>4
  <2>3. marks'[m] = marks[m]
    BY <1>1, <2>1, <2>2 DEF Confined
  <2>4. QED
    BY <2>1, <2>3 DEF B!Children
<1>5. \A f \in B!Folders : folders'[f] = j => \A m, n \in B!Children(f)' : marks'[m].url = marks'[n].url => m = n
  <2> SUFFICES ASSUME NEW f \in B!Folders, folders'[f] = j, NEW m \in B!Children(f)', NEW n \in B!Children(f)',
                      marks'[m].url = marks'[n].url
               PROVE  m = n
    OBVIOUS
  <2>1. m \in B!Children(f) /\ n \in B!Children(f) /\ marks[m].url = marks[n].url /\ folders[f] = j
    BY <1>2, <1>4
  <2>2. QED
    BY <1>1, <2>1 DEF Sound
<1>6. enabled'[j] = enabled[j] /\ tracked'[j] = tracked[j] /\ (enabled'[j] => permission')
  BY <1>1 DEF Sound, Confined
<1>7. \A f \in stored' : folders'[f] = j => f \in stored /\ folders[f] = j
  BY <1>1, <1>2 DEF Confined
<1>8. QED
  BY <1>1, <1>3, <1>5, <1>6, <1>7 DEF Sound, Gone

LEMMA OtherRuns ==
  ASSUME BookmarksIInv, raced' = raced, NEW r \in Runs, Busy(r), Confined(run[r].kind), B!TypeOK',
         NEW q \in Runs \ {r}, run'[q] = run[q]
  PROVE  Fits(q)'
<1> DEFINE k == run[r].kind
<1> DEFINE j == run[q].kind
<1> DEFINE at == run[q].at
<1>1. k \in B!Kinds /\ j \in B!Kinds /\ run[q].folder \in B!Folders \cup {None}
  BY DEF BookmarksIInv, B!TypeOK
<1>2. CASE ~Busy(q)
  BY <1>2 DEF Fits, Busy, Holding
<1>3. CASE Busy(q) /\ j = k
  <2>1. Meet(run[r], run[q])
    BY <1>3 DEF BookmarksIInv, Alone
  <2>2. j \in B!KindsOf(run[r].op, run[r].kind) /\ j \in B!KindsOf(run[q].op, run[q].kind)
    BY <1>1, <1>3 DEF B!KindsOf
  <2>3. j \in raced
    BY <2>1, <2>2 DEF Meet
  <2>4. QED
    BY <2>3 DEF Fits
<1>4. CASE Busy(q) /\ j # k
  <2> SUFFICES ASSUME j \notin raced
               PROVE  /\ at = "create" => \A f \in B!Folders : folders'[f] # j
                      /\ Holding(q) => \A f \in B!Folders : folders'[f] = j => f = run[q].folder
                      /\ at = "apply" => \A m \in B!Children(run[q].folder)' : marks'[m].url \notin run[q].create
                      /\ at \in {"search", "create", "track", "fetch", "children", "apply", "tree", "forget", "off"} => enabled'[j]
                      /\ at \in {"forget", "off", "relinquish", "revoke"} => \A f \in stored' : folders'[f] # j
                      /\ at \in {"relinquish", "revoke"} => ~enabled'[j]
                      /\ at = "flag" => permission'
    BY DEF Fits, Holding, Gone
  <2>1. Fits(q) /\ j # None /\ stored' \subseteq B!Folders
    BY <1>1, KindsApart DEF BookmarksIInv, B!TypeOK
  <2>2. \A f \in B!Folders : folders'[f] = j <=> folders[f] = j
    BY <1>1, <1>4, <2>1 DEF Confined
  <2>3. enabled'[j] = enabled[j] /\ (permission => permission')
    BY <1>1, <1>4 DEF Confined
  <2>4. \A f \in stored' : folders'[f] = j => f \in stored /\ folders[f] = j
    BY <1>1, <1>4, <2>1, <2>2 DEF Confined
  <2>5. ASSUME at = "apply", NEW m \in B!Children(run[q].folder)' PROVE marks'[m].url \notin run[q].create
    <3>1. m \in B!Marks /\ marks'[m] # None /\ marks'[m].folder = run[q].folder
      BY <2>5 DEF B!Children
    <3>2. folders[run[q].folder] \in {None, j}
      BY <2>5 DEF BookmarksIInv, OwnFolders, Holding
    <3>3. marks'[m] = marks[m]
      BY <1>1, <1>4, <3>1, <3>2, KindsApart DEF Confined
    <3>4. m \in B!Children(run[q].folder)
      BY <3>1, <3>3 DEF B!Children
    <3>5. QED
      BY <2>1, <2>5, <3>3, <3>4 DEF Fits
  <2>6. QED
    BY <2>1, <2>2, <2>3, <2>4, <2>5 DEF Fits, Gone
<1>5. QED
  BY <1>2, <1>3, <1>4

\* Where a run may go: it keeps its operation, and what it reads to its end is of a kind of
\* its own.
Turns(old, new) ==
  /\ new \in RunRecords
  /\ new.at = "idle" \/ (new.op = old.op /\ (new.kind = old.kind \/ new.op = "sync"))
  /\ new.at # "flag"
  /\ new.at \in {"tree", "forget", "off", "relinquish", "revoke"} => new.op = "disable"
  /\ new.at = "revoke" => ~enabled[B!Other(new.kind)] /\ UNCHANGED enabled

\* A step of a run.
LEMMA RunStep ==
  ASSUME BookmarksIInv, NEW r \in Runs, Busy(r), NEW mine, run' = [run EXCEPT ![r] = mine], Turns(run[r], mine),
         NEW k \in B!Kinds, k = run[r].kind, raced' = raced, Confined(k), B!TypeOK', OwnFolders', Sound(k)', Fits(r)',
         enabled'[k] => enabled[k] \/ run[r].at = "flag"
  PROVE  BookmarksIInv'
<1>1. run \in [Runs -> RunRecords] /\ run'[r] = mine /\ \A q \in Runs \ {r} : run'[q] = run[q]
  BY RunsTyped DEF BookmarksIInv
<1>2. Roles'
  <2> SUFFICES ASSUME NEW q \in Runs
               PROVE  /\ run'[q].at = "flag" => run'[q].op = "enable"
                      /\ run'[q].at \in {"tree", "forget", "off", "relinquish", "revoke"} => run'[q].op = "disable"
    BY DEF Roles
  <2>1. CASE q = r
    BY <1>1, <2>1 DEF Turns
  <2>2. CASE q # r
    BY <1>1, <2>2 DEF BookmarksIInv, Roles
  <2>3. QED
    BY <2>1, <2>2
<1>3. Alone'
  <2>1. ASSUME NEW q \in Runs \ {r}, Busy(q), mine.at # "idle"
        PROVE  Meet(mine, run[q]) /\ Meet(run[q], mine)
    <3>1. Meet(run[r], run[q]) /\ Meet(run[q], run[r])
      BY <2>1 DEF BookmarksIInv, Alone
    <3>2. mine.op = run[r].op /\ B!KindsOf(mine.op, mine.kind) = B!KindsOf(run[r].op, run[r].kind)
      BY <2>1 DEF Turns, B!KindsOf
    <3>3. mine.op = "enable" => mine.kind = run[r].kind
      BY <2>1 DEF Turns
    <3>4. QED
      BY <3>1, <3>2, <3>3 DEF Meet
  <2>2. ASSUME NEW p \in Runs, NEW q \in Runs, p # q, run'[p].at # "idle", run'[q].at # "idle"
        PROVE  Meet(run'[p], run'[q])
    <3>1. CASE p = r
      BY <1>1, <2>1, <2>2, <3>1 DEF Busy
    <3>2. CASE q = r
      BY <1>1, <2>1, <2>2, <3>2 DEF Busy
    <3>3. CASE p # r /\ q # r
      BY <1>1, <2>2, <3>3 DEF BookmarksIInv, Alone, Busy
    <3>4. QED
      BY <3>1, <3>2, <3>3
  <2>3. QED
    BY <2>2 DEF Alone, Busy, Meet
<1>4. \A j \in B!Kinds : Sound(j)'
  BY OtherKinds
<1>5. \A q \in Runs : Fits(q)'
  BY <1>1, OtherRuns
<1>6. Withdraws'
  <2> SUFFICES ASSUME NEW q \in Runs, NEW j, j = B!Other(run'[q].kind), run'[q].at = "revoke", j \notin raced
               PROVE  ~enabled'[j]
    BY DEF Withdraws, B!Other
  <2>1. CASE q = r
    BY <1>1, <2>1 DEF Turns
  <2>2. CASE q # r
    <3>1. run'[q] = run[q] /\ ~enabled[j] /\ run[q].op = "disable" /\ Busy(q) /\ j \in B!Kinds
      BY <1>1, <2>2 DEF BookmarksIInv, Withdraws, Roles, Busy, B!Other, B!Kinds
    <3>2. CASE j = k
      <4>1. ~(run[r].at = "flag")
        <5>1. Meet(run[r], run[q])
          BY <2>2, <3>1 DEF BookmarksIInv, Alone
        <5>2. run[r].at = "flag" => run[r].op = "enable"
          BY DEF BookmarksIInv, Roles
        <5>3. QED
          BY <3>1, <3>2, <5>1, <5>2 DEF Meet
      <4>2. QED
        BY <3>1, <3>2, <4>1
    <3>3. CASE j # k
      BY <3>1, <3>3 DEF Confined
    <3>4. QED
      BY <3>2, <3>3
  <2>3. QED
    BY <2>1, <2>2
<1>7. QED
  BY <1>2, <1>3, <1>4, <1>5, <1>6 DEF BookmarksIInv

\* A step of a run that does nothing but look.
LEMMA LookStep ==
  ASSUME BookmarksIInv, NEW r \in Runs, Busy(r), NEW mine, run' = [run EXCEPT ![r] = mine], Turns(run[r], mine),
         UNCHANGED <<folders, marks, tracked, enabled, permission, raced, stored>>,
         served' = served, events' \in 0..MaxEvents,
         mine.at \in {"track", "fetch", "children", "apply"} =>
           mine.folder \in B!Folders /\ folders[mine.folder] \in {None, mine.kind},
         Fits(r)'
  PROVE  BookmarksIInv'
<1>1. run \in [Runs -> RunRecords] /\ run'[r] = mine /\ \A q \in Runs \ {r} : run'[q] = run[q]
  BY RunsTyped DEF BookmarksIInv
<1>2. B!TypeOK'
  <2>1. run' \in [Runs -> RunRecords]
    BY <1>1 DEF Turns
  <2>2. QED
    BY <2>1 DEF BookmarksIInv, B!TypeOK, RunRecords
<1>3. OwnFolders'
  <2>1. \A q \in Runs : Holding(q)' => run'[q].folder \in B!Folders /\ folders[run'[q].folder] \in {None, run'[q].kind}
    BY <1>1 DEF BookmarksIInv, OwnFolders, Holding
  <2>2. QED
    BY <2>1 DEF BookmarksIInv, OwnFolders
<1>4. PICK k \in B!Kinds : k = run[r].kind
  BY <1>1 DEF RunRecords
<1>5. Confined(k) /\ Sound(k)'
  BY DEF Confined, BookmarksIInv, Sound, Gone, B!Children
<1>6. QED
  BY <1>2, <1>3, <1>4, <1>5, RunStep

\* syncKind returns.
LEMMA Finishes ==
  ASSUME B!TypeOK, NEW r \in Runs, Busy(r)
  PROVE  Turns(run[r], B!NextKind(r)) /\ B!NextKind(r).at \in {"idle", "check"}
<1>1. B!Idle \in RunRecords /\ B!Idle.at = "idle"
  BY DEF B!Idle, RunRecords, B!Kinds
<1>2. CASE run[r].op = "sync" /\ run[r].kind = "pages"
  <2> DEFINE new == [B!Idle EXCEPT !.op = "sync", !.kind = "links", !.at = "check"]
  <2>1. B!NextKind(r) = new
    BY <1>2 DEF B!NextKind
  <2>2. new \in RunRecords /\ new.at = "check" /\ new.op = "sync"
    BY DEF B!Idle, RunRecords, B!Kinds
  <2>3. QED
    BY <1>2, <2>1, <2>2 DEF Turns
<1>3. CASE ~(run[r].op = "sync" /\ run[r].kind = "pages")
  <2>1. B!NextKind(r) = B!Idle
    BY <1>3 DEF B!NextKind
  <2>2. QED
    BY <1>1, <2>1 DEF Turns
<1>4. QED
  BY <1>2, <1>3

LEMMA FinishStep ==
  ASSUME BookmarksIInv, NEW r \in Runs, Busy(r), B!Finish(r),
         UNCHANGED <<folders, marks, tracked, enabled, permission, raced, stored>>,
         served' = served, events' \in 0..MaxEvents
  PROVE  BookmarksIInv'
<1>1. Turns(run[r], B!NextKind(r)) /\ B!NextKind(r).at \in {"idle", "check"}
  BY Finishes DEF BookmarksIInv
<1>2. run' = [run EXCEPT ![r] = B!NextKind(r)] /\ run'[r] = B!NextKind(r)
  BY DEF B!Finish, BookmarksIInv, B!TypeOK
<1>3. Fits(r)'
  BY <1>1, <1>2 DEF Fits, Holding
<1>4. QED
  BY <1>1, <1>2, <1>3, LookStep

LEMMA GetFolderStep ==
  ASSUME BookmarksIInv, NEW r \in Runs, B!GetFolder(r)
  PROVE  BookmarksIInv'
<1>0. B!TypeOK /\ run \in [Runs -> RunRecords] /\ Fits(r) /\ OwnFolders
  BY RunsTyped DEF BookmarksIInv
<1>1. PICK k \in B!Kinds : k = run[r].kind
  BY <1>0 DEF RunRecords
<1> DEFINE f == tracked[k]
<1>2. /\ run[r].at = "check" /\ Busy(r) /\ events' \in 0..MaxEvents
      /\ UNCHANGED <<served, folders, marks, tracked, enabled, permission, events, raced, stored>>
  BY <1>0 DEF B!GetFolder, B!browser, B!storage, Busy, B!TypeOK
<1>3. CASE ~enabled[k]
  BY <1>1, <1>2, <1>3, FinishStep DEF B!GetFolder, B!Finish
<1>4. CASE enabled[k] /\ B!Exists(f) /\ permission
  <2> DEFINE mine == [run[r] EXCEPT !.at = "fetch", !.folder = f]
  <2>1. run' = [run EXCEPT ![r] = mine]
    BY <1>1, <1>4 DEF B!GetFolder
  <2>2. f \in B!Folders /\ folders[f] = k
    BY <1>0, <1>1, <1>4 DEF B!Exists, B!TypeOK, OwnFolders
  <2>3. /\ mine \in RunRecords /\ mine.op = run[r].op /\ mine.kind = k /\ mine.at = "fetch" /\ mine.folder = f
        /\ run'[r] = mine
    BY <1>0, <1>1, <2>1, <2>2 DEF RunRecords
  <2> HIDE DEF mine
  <2>4. Fits(r)'
    <3>1. Sound(k)
      BY DEF BookmarksIInv
    <3>2. k \notin raced => \A g \in B!Folders : folders[g] = k => g = f
      BY <2>2, <3>1 DEF Sound
    <3>3. QED
      BY <1>2, <1>4, <2>3, <3>2 DEF Fits, Holding
  <2>5. Turns(run[r], mine)
    BY <1>1, <2>3 DEF Turns
  <2>6. QED
    BY <1>2, <2>1, <2>2, <2>3, <2>4, <2>5, LookStep
<1>5. CASE enabled[k] /\ ~(B!Exists(f) /\ permission)
  <2> DEFINE mine == [run[r] EXCEPT !.at = "search"]
  <2>1. run' = [run EXCEPT ![r] = mine]
    BY <1>1, <1>5 DEF B!GetFolder
  <2>2. mine \in RunRecords /\ mine.op = run[r].op /\ mine.kind = k /\ mine.at = "search" /\ run'[r] = mine
    BY <1>0, <1>1, <2>1 DEF RunRecords
  <2> HIDE DEF mine
  <2>3. Fits(r)'
    BY <1>2, <1>5, <2>2 DEF Fits, Holding
  <2>4. Turns(run[r], mine)
    BY <1>1, <2>2 DEF Turns
  <2>5. QED
    BY <1>2, <2>1, <2>2, <2>3, <2>4, LookStep
<1>6. QED
  BY <1>3, <1>4, <1>5

LEMMA SearchFolderStep ==
  ASSUME BookmarksIInv, NEW r \in Runs, B!SearchFolder(r)
  PROVE  BookmarksIInv'
<1>0. B!TypeOK /\ run \in [Runs -> RunRecords] /\ Fits(r) /\ OwnFolders
  BY RunsTyped DEF BookmarksIInv
<1>1. PICK k \in B!Kinds : k = run[r].kind
  BY <1>0 DEF RunRecords
<1>2. /\ run[r].at = "search" /\ Busy(r) /\ events' \in 0..MaxEvents
      /\ UNCHANGED <<served, folders, marks, tracked, enabled, permission, events, raced, stored>>
  BY <1>0 DEF B!SearchFolder, B!browser, B!storage, Busy, B!TypeOK
<1> DEFINE titled == {f \in B!Folders : folders[f] = k}
<1>3. CASE B!Finish(r)
  BY <1>2, <1>3, FinishStep
<1>4. CASE titled = {} /\ B!Goto(r, "create")
  <2> DEFINE mine == [run[r] EXCEPT !.at = "create"]
  <2>1. run' = [run EXCEPT ![r] = mine]
    BY <1>0, <1>4 DEF B!Goto
  <2>2. mine \in RunRecords /\ mine.op = run[r].op /\ mine.kind = k /\ mine.at = "create" /\ run'[r] = mine
    BY <1>0, <1>1, <2>1 DEF RunRecords
  <2> HIDE DEF mine
  <2>3. Fits(r)'
    BY <1>0, <1>1, <1>2, <1>4, <2>2 DEF Fits, Holding
  <2>4. Turns(run[r], mine)
    BY <1>1, <2>2 DEF Turns
  <2>5. QED
    BY <1>2, <2>1, <2>2, <2>3, <2>4, LookStep
<1>5. ASSUME NEW f \in titled, run' = [run EXCEPT ![r].folder = f, ![r].at = "track"] PROVE BookmarksIInv'
  <2> DEFINE mine == [run[r] EXCEPT !.folder = f, !.at = "track"]
  <2>1. run' = [run EXCEPT ![r] = mine]
    BY <1>0, <1>5
  <2>2. f \in B!Folders /\ folders[f] = k
    OBVIOUS
  <2>3. /\ mine \in RunRecords /\ mine.op = run[r].op /\ mine.kind = k /\ mine.at = "track" /\ mine.folder = f
        /\ run'[r] = mine
    BY <1>0, <1>1, <2>1, <2>2 DEF RunRecords
  <2> HIDE DEF mine
  <2>4. Fits(r)'
    <3>1. Sound(k)
      BY DEF BookmarksIInv
    <3>2. k \notin raced => enabled[k] /\ \A g \in B!Folders : folders[g] = k => g = f
      BY <1>0, <1>1, <1>2, <2>2, <3>1 DEF Sound, Fits
    <3>3. QED
      BY <1>2, <2>3, <3>2 DEF Fits, Holding
  <2>5. Turns(run[r], mine)
    BY <1>1, <2>3 DEF Turns
  <2>6. QED
    BY <1>2, <2>1, <2>2, <2>3, <2>4, <2>5, LookStep
<1>6. QED
  BY <1>1, <1>3, <1>4, <1>5 DEF B!SearchFolder

LEMMA FetchListStep ==
  ASSUME BookmarksIInv, NEW r \in Runs, B!FetchList(r)
  PROVE  BookmarksIInv'
<1>0. B!TypeOK /\ run \in [Runs -> RunRecords] /\ Fits(r) /\ OwnFolders
  BY RunsTyped DEF BookmarksIInv
<1>1. PICK k \in B!Kinds : k = run[r].kind
  BY <1>0 DEF RunRecords
<1>2. /\ run[r].at = "fetch" /\ Busy(r) /\ Holding(r) /\ events' \in 0..MaxEvents
      /\ UNCHANGED <<served, folders, marks, tracked, enabled, permission, events, raced, stored>>
  BY <1>0 DEF B!FetchList, B!browser, B!storage, Busy, Holding, B!TypeOK
<1>3. CASE B!Finish(r)
  BY <1>2, <1>3, FinishStep
<1>4. CASE ~B!Finish(r)
  <2>1. PICK list \in SUBSET Urls : run' = [run EXCEPT ![r].at = "children", ![r].create = list]
    BY <1>0, <1>1, <1>4 DEF B!FetchList, B!TypeOK
  <2> DEFINE mine == [run[r] EXCEPT !.at = "children", !.create = list]
  <2>2. run' = [run EXCEPT ![r] = mine]
    BY <1>0, <2>1
  <2>3. /\ mine \in RunRecords /\ mine.op = run[r].op /\ mine.kind = k /\ mine.at = "children"
        /\ mine.folder = run[r].folder /\ run'[r] = mine
    BY <1>0, <1>1, <2>2 DEF RunRecords
  <2> HIDE DEF mine
  <2>4. Fits(r)'
    BY <1>0, <1>1, <1>2, <2>3 DEF Fits, Holding
  <2>5. Turns(run[r], mine)
    BY <1>1, <2>3 DEF Turns
  <2>6. mine.folder \in B!Folders /\ folders[mine.folder] \in {None, mine.kind}
    BY <1>0, <1>1, <1>2, <2>3 DEF OwnFolders
  <2>7. QED
    BY <1>2, <2>2, <2>4, <2>5, <2>6, LookStep
<1>5. QED
  BY <1>3, <1>4

LEMMA DiffStep ==
  ASSUME BookmarksIInv, NEW r \in Runs, B!Diff(r)
  PROVE  BookmarksIInv'
<1>0. B!TypeOK /\ run \in [Runs -> RunRecords] /\ Fits(r) /\ OwnFolders
  BY RunsTyped DEF BookmarksIInv
<1>1. PICK k \in B!Kinds : k = run[r].kind
  BY <1>0 DEF RunRecords
<1>2. /\ run[r].at = "children" /\ Busy(r) /\ Holding(r) /\ events' \in 0..MaxEvents
      /\ UNCHANGED <<served, folders, marks, tracked, enabled, permission, events, raced, stored>>
  BY <1>0 DEF B!Diff, B!browser, B!storage, Busy, Holding, B!TypeOK
<1>3. CASE B!Finish(r)
  BY <1>2, <1>3, FinishStep
<1>4. CASE ~B!Finish(r)
  <2> DEFINE here == B!Children(run[r].folder)
  <2> DEFINE create == run[r].create \ {marks[m].url : m \in here}
  <2> DEFINE remove == {m \in here : marks[m].url \notin run[r].create}
  <2> DEFINE mine == [run[r] EXCEPT !.at = "apply", !.create = create, !.remove = remove]
  <2>1. run' = [run EXCEPT ![r].at = "apply", ![r].create = create, ![r].remove = remove]
    BY <1>4 DEF B!Diff
  <2>2. run' = [run EXCEPT ![r] = mine]
    BY <1>0, <2>1
  <2>3. create \subseteq Urls /\ remove \subseteq B!Marks
    BY <1>0 DEF RunRecords, B!Children
  <2>4. \A m \in here : marks[m].url \notin create
    OBVIOUS
  <2> HIDE DEF create, remove
  <2>5. /\ mine \in RunRecords /\ mine.op = run[r].op /\ mine.kind = k /\ mine.at = "apply"
        /\ mine.folder = run[r].folder /\ mine.create = create /\ run'[r] = mine
    BY <1>0, <1>1, <2>2, <2>3 DEF RunRecords
  <2> HIDE DEF mine
  <2>6. Fits(r)'
    BY <1>0, <1>1, <1>2, <2>4, <2>5 DEF Fits, Holding, B!Children
  <2>7. Turns(run[r], mine)
    BY <1>1, <2>5 DEF Turns
  <2>8. mine.folder \in B!Folders /\ folders[mine.folder] \in {None, mine.kind}
    BY <1>0, <1>1, <1>2, <2>5 DEF OwnFolders
  <2>9. QED
    BY <1>2, <2>2, <2>6, <2>7, <2>8, LookStep
<1>5. QED
  BY <1>3, <1>4

LEMMA EndSyncStep ==
  ASSUME BookmarksIInv, NEW r \in Runs, B!EndSync(r) \/ B!Throws(r)
  PROVE  BookmarksIInv'
<1>1. /\ B!Finish(r) /\ Busy(r) /\ events' \in 0..MaxEvents
      /\ UNCHANGED <<served, folders, marks, tracked, enabled, permission, raced, stored>>
  BY ConvergeAssumption DEF B!EndSync, B!Throws, B!Event, B!browser, B!storage, Busy, BookmarksIInv, B!TypeOK
<1>2. QED
  BY <1>1, FinishStep

LEMMA CreateFolderStep ==
  ASSUME BookmarksIInv, NEW r \in Runs, B!CreateFolder(r)
  PROVE  BookmarksIInv'
<1>0. B!TypeOK /\ run \in [Runs -> RunRecords] /\ Fits(r) /\ OwnFolders
  BY RunsTyped DEF BookmarksIInv
<1>1. PICK k \in B!Kinds : k = run[r].kind
  BY <1>0 DEF RunRecords
<1>2. /\ run[r].at = "create" /\ Busy(r) /\ events' \in 0..MaxEvents
      /\ UNCHANGED <<served, marks, tracked, enabled, permission, events, raced>>
  BY <1>0 DEF B!CreateFolder, B!storage, Busy, B!TypeOK
<1>3. CASE ~permission
  <2>1. B!Finish(r) /\ UNCHANGED <<folders, stored>>
    BY <1>3 DEF B!CreateFolder
  <2>2. QED
    BY <1>2, <2>1, FinishStep
<1>4. CASE permission
  <2>1. PICK f \in B!Folders :
          /\ folders[f] = None /\ \A q \in Runs : run[q].folder # f
          /\ \A j \in B!Kinds : tracked[j] # f
          /\ folders' = [folders EXCEPT ![f] = k]
          /\ stored' = stored \ {f}
          /\ run' = [run EXCEPT ![r].folder = f, ![r].at = "track"]
    BY <1>1, <1>4 DEF B!CreateFolder, B!NewIds
  <2> DEFINE mine == [run[r] EXCEPT !.folder = f, !.at = "track"]
  <2>2. run' = [run EXCEPT ![r] = mine]
    BY <1>0, <2>1
  <2>3. /\ mine \in RunRecords /\ mine.op = run[r].op /\ mine.kind = k /\ mine.at = "track" /\ mine.folder = f
        /\ run'[r] = mine
    BY <1>0, <1>1, <2>2 DEF RunRecords
  <2> HIDE DEF mine
  <2>4. /\ folders \in [B!Folders -> B!Kinds \cup {None}] /\ k # None /\ folders'[f] = k
        /\ \A g \in B!Folders \ {f} : folders'[g] = folders[g]
    BY <1>0, <2>1, KindsApart DEF B!TypeOK
  <2>5. Confined(k)
    BY <1>2, <2>1, <2>4 DEF Confined
  <2>6. B!TypeOK'
    <3>1. run' \in [Runs -> RunRecords] /\ folders' \in [B!Folders -> B!Kinds \cup {None}] /\ stored' \subseteq B!Folders
      BY <1>0, <2>1, <2>2, <2>3, <2>4 DEF B!TypeOK
    <3>2. QED
      BY <1>0, <1>2, <3>1 DEF B!TypeOK, RunRecords
  <2>7. OwnFolders'
    <3>1. \A q \in Runs \ {r} : run'[q] = run[q]
      BY <1>0, <2>2
    <3>2. \A q \in Runs : Holding(q)' =>
            run'[q].folder \in B!Folders /\ folders'[run'[q].folder] \in {None, run'[q].kind}
      BY <1>0, <2>1, <2>3, <2>4, <3>1 DEF OwnFolders, Holding
    <3>3. \A m \in B!Marks : marks'[m] # None => folders'[marks'[m].folder] # None
      <4> SUFFICES ASSUME NEW m \in B!Marks, marks[m] # None PROVE folders'[marks[m].folder] # None
        BY <1>2
      <4>1. folders[marks[m].folder] # None /\ marks[m].folder \in B!Folders
        BY <1>0 DEF OwnFolders, B!TypeOK
      <4>2. QED
        BY <2>1, <2>4, <4>1
    <3>4. \A j \in B!Kinds : tracked'[j] # None => folders'[tracked'[j]] \in {None, j}
      <4> SUFFICES ASSUME NEW j \in B!Kinds, tracked[j] # None PROVE folders'[tracked[j]] \in {None, j}
        BY <1>2
      <4>1. folders[tracked[j]] \in {None, j} /\ tracked[j] \in B!Folders \ {f}
        BY <1>0, <2>1 DEF OwnFolders, B!TypeOK
      <4>2. QED
        BY <2>4, <4>1
    <3>5. QED
      BY <3>2, <3>3, <3>4 DEF OwnFolders
  <2>8. k \notin raced => /\ \A g \in B!Folders : folders'[g] = k => g = f
                          /\ enabled[k]
    BY <1>0, <1>1, <1>2, <2>4 DEF Fits
  <2>9. B!Children(f)' = {}
    BY <1>0, <1>2, <2>1 DEF OwnFolders, B!Children
  <2>10. Sound(k)'
    <3> SUFFICES ASSUME k \notin raced
                 PROVE  /\ \A g, h \in B!Folders : folders'[g] = k /\ folders'[h] = k => g = h
                        /\ \A g \in B!Folders : folders'[g] = k =>
                             \A m, n \in B!Children(g)' : marks'[m].url = marks'[n].url => m = n
                        /\ enabled'[k] /\ permission'
                        /\ \A g \in stored' : folders'[g] = k => tracked'[k] = g
      BY <1>2 DEF Sound, Gone
    <3>1. stored' \subseteq B!Folders \ {f}
      BY <1>0, <2>1 DEF B!TypeOK
    <3>2. QED
      BY <1>2, <1>4, <2>8, <2>9, <3>1
  <2>11. Fits(r)'
    BY <1>2, <2>3, <2>8 DEF Fits, Holding
  <2>12. Turns(run[r], mine)
    BY <1>1, <2>3 DEF Turns
  <2>13. QED
    BY <1>1, <1>2, <2>2, <2>5, <2>6, <2>7, <2>10, <2>11, <2>12, RunStep
<1>5. QED
  BY <1>3, <1>4

LEMMA SetFolderIdStep ==
  ASSUME BookmarksIInv, NEW r \in Runs, B!SetFolderId(r)
  PROVE  BookmarksIInv'
<1>0. B!TypeOK /\ run \in [Runs -> RunRecords] /\ Fits(r) /\ OwnFolders
  BY RunsTyped DEF BookmarksIInv
<1>1. PICK k \in B!Kinds : k = run[r].kind
  BY <1>0 DEF RunRecords
<1> DEFINE f == run[r].folder
<1>2. /\ run[r].at = "track" /\ Busy(r) /\ Holding(r) /\ events' \in 0..MaxEvents
      /\ UNCHANGED <<served, folders, marks, enabled, permission, events, raced>>
      /\ tracked' = [tracked EXCEPT ![k] = f] /\ stored' = stored \cup {f}
  BY <1>0, <1>1 DEF B!SetFolderId, B!browser, Busy, Holding, B!TypeOK
<1>3. f \in B!Folders /\ folders[f] \in {None, k} /\ Sound(k)
  BY <1>0, <1>1, <1>2 DEF OwnFolders, BookmarksIInv
<1> DEFINE mine == [run[r] EXCEPT !.at = "fetch"]
<1>4. run' = [run EXCEPT ![r] = mine]
  BY <1>0 DEF B!SetFolderId, B!Goto
<1>5. /\ mine \in RunRecords /\ mine.op = run[r].op /\ mine.kind = k /\ mine.at = "fetch" /\ mine.folder = f
      /\ run'[r] = mine
  BY <1>0, <1>1, <1>4 DEF RunRecords
<1> HIDE DEF mine
<1>6. tracked'[k] = f /\ \A j \in B!Kinds \ {k} : tracked'[j] = tracked[j]
  BY <1>0, <1>2 DEF B!TypeOK
<1>7. Confined(k)
  BY <1>2, <1>3, <1>6 DEF Confined
<1>8. B!TypeOK'
  <2>1. run' \in [Runs -> RunRecords] /\ tracked' \in [B!Kinds -> B!Folders \cup {None}] /\ stored' \subseteq B!Folders
    BY <1>0, <1>2, <1>3, <1>4, <1>5 DEF B!TypeOK
  <2>2. QED
    BY <1>0, <1>2, <2>1 DEF B!TypeOK, RunRecords
<1>9. OwnFolders'
  <2>1. \A q \in Runs \ {r} : run'[q] = run[q]
    BY <1>0, <1>4
  <2>2. \A q \in Runs : Holding(q)' =>
          run'[q].folder \in B!Folders /\ folders'[run'[q].folder] \in {None, run'[q].kind}
    BY <1>0, <1>2, <1>3, <1>5, <2>1 DEF OwnFolders, Holding
  <2>3. QED
    BY <1>0, <1>2, <1>3, <1>6, <2>2 DEF OwnFolders
<1>10. k \notin raced => enabled[k] /\ \A g \in B!Folders : folders[g] = k => g = f
  BY <1>0, <1>1, <1>2 DEF Fits
<1>11. Sound(k)'
  <2> SUFFICES ASSUME k \notin raced
               PROVE  /\ \A g, h \in B!Folders : folders'[g] = k /\ folders'[h] = k => g = h
                      /\ \A g \in B!Folders : folders'[g] = k =>
                           \A m, n \in B!Children(g)' : marks'[m].url = marks'[n].url => m = n
                      /\ enabled'[k] /\ permission'
                      /\ \A g \in stored' : folders'[g] = k => tracked'[k] = g
    BY <1>2 DEF Sound, Gone
  <2>1. \A g \in B!Folders : B!Children(g)' = B!Children(g)
    BY <1>2 DEF B!Children
  <2>2. stored' \subseteq B!Folders
    BY <1>8 DEF B!TypeOK
  <2>3. QED
    BY <1>2, <1>3, <1>6, <1>10, <2>1, <2>2 DEF Sound
<1>12. Fits(r)'
  BY <1>2, <1>5, <1>10 DEF Fits, Holding
<1>13. Turns(run[r], mine)
  BY <1>1, <1>5 DEF Turns
<1>14. QED
  BY <1>1, <1>2, <1>4, <1>7, <1>8, <1>9, <1>11, <1>12, <1>13, RunStep

LEMMA CreateMarkStep ==
  ASSUME BookmarksIInv, NEW r \in Runs, B!CreateMark(r)
  PROVE  BookmarksIInv'
<1>0. B!TypeOK /\ run \in [Runs -> RunRecords] /\ Fits(r) /\ OwnFolders
  BY RunsTyped DEF BookmarksIInv
<1>1. PICK k \in B!Kinds, f \in B!Folders \cup {None} : k = run[r].kind /\ f = run[r].folder
  BY <1>0 DEF RunRecords
<1>2. /\ run[r].at = "apply" /\ Busy(r) /\ Holding(r) /\ events' \in 0..MaxEvents
      /\ UNCHANGED <<served, folders, tracked, enabled, permission, events, raced, stored>>
  BY <1>0 DEF B!CreateMark, B!storage, Busy, Holding, B!TypeOK
<1>3. CASE ~B!Exists(f) \/ ~permission
  <2>1. B!Finish(r) /\ UNCHANGED marks
    BY <1>1, <1>3 DEF B!CreateMark
  <2>2. QED
    BY <1>2, <2>1, FinishStep
<1>4. CASE ~(~B!Exists(f) \/ ~permission)
  <2>1. PICK url \in run[r].create, m \in B!Marks :
          /\ marks[m] = None
          /\ marks' = [marks EXCEPT ![m] = [folder |-> f, url |-> url]]
          /\ run' = [run EXCEPT ![r].create = @ \ {url}]
    BY <1>1, <1>4 DEF B!CreateMark, B!NewIds
  <2> DEFINE create == run[r].create \ {url}
  <2> DEFINE mine == [run[r] EXCEPT !.create = create]
  <2>2. run' = [run EXCEPT ![r] = mine]
    BY <1>0, <2>1
  <2>3. f \in B!Folders /\ folders[f] = k /\ Sound(k) /\ url \in Urls
    BY <1>0, <1>1, <1>2, <1>4 DEF OwnFolders, BookmarksIInv, B!Exists, RunRecords
  <2>4. create \subseteq Urls /\ url \notin create /\ create \subseteq run[r].create
    BY <1>0 DEF RunRecords
  <2> HIDE DEF create
  <2>5. /\ mine \in RunRecords /\ mine.op = run[r].op /\ mine.kind = k /\ mine.at = "apply"
        /\ mine.folder = f /\ mine.create = create /\ run'[r] = mine
    BY <1>0, <1>1, <1>2, <2>2, <2>4 DEF RunRecords
  <2> HIDE DEF mine
  <2>6. marks'[m] = [folder |-> f, url |-> url] /\ \A n \in B!Marks \ {m} : marks'[n] = marks[n]
    BY <1>0, <2>1 DEF B!TypeOK
  <2>7. Confined(k)
    BY <1>2, <2>3, <2>6 DEF Confined
  <2>8. B!TypeOK'
    <3>1. run' \in [Runs -> RunRecords] /\ marks' \in [B!Marks -> [folder : B!Folders, url : Urls] \cup {None}]
      BY <1>0, <2>1, <2>2, <2>3, <2>5 DEF B!TypeOK
    <3>2. QED
      BY <1>0, <1>2, <3>1 DEF B!TypeOK, RunRecords
  <2>9. OwnFolders'
    <3>1. \A q \in Runs \ {r} : run'[q] = run[q]
      BY <1>0, <2>2
    <3>2. \A q \in Runs : Holding(q)' =>
            run'[q].folder \in B!Folders /\ folders'[run'[q].folder] \in {None, run'[q].kind}
      BY <1>0, <1>2, <2>3, <2>5, <3>1 DEF OwnFolders, Holding
    <3>3. \A n \in B!Marks : marks'[n] # None => folders'[marks'[n].folder] # None
      <4> SUFFICES ASSUME NEW n \in B!Marks, marks'[n] # None PROVE folders[marks'[n].folder] # None
        BY <1>2
      <4>1. CASE n = m
        BY <2>3, <2>6, <4>1, KindsApart
      <4>2. CASE n # m
        BY <1>0, <2>6, <4>2 DEF OwnFolders
      <4>3. QED
        BY <4>1, <4>2
    <3>4. QED
      BY <1>0, <1>2, <3>2, <3>3 DEF OwnFolders
  <2>10. k \notin raced => /\ enabled[k] /\ \A g \in B!Folders : folders[g] = k => g = f
                           /\ \A n \in B!Children(f) : marks[n].url \notin run[r].create
    BY <1>0, <1>1, <1>2 DEF Fits
  <2>11. \A n \in B!Children(f)' : n = m \/ (n \in B!Children(f) /\ marks'[n] = marks[n])
    BY <2>6 DEF B!Children
  <2>12. marks'[m].url = url
    BY <2>6
  <2>13. Sound(k)'
    <3> SUFFICES ASSUME k \notin raced
                 PROVE  /\ \A g, h \in B!Folders : folders'[g] = k /\ folders'[h] = k => g = h
                        /\ \A g \in B!Folders : folders'[g] = k =>
                             \A p, n \in B!Children(g)' : marks'[p].url = marks'[n].url => p = n
                        /\ enabled'[k] /\ permission'
                        /\ \A g \in stored' : folders'[g] = k => tracked'[k] = g
      BY <1>2 DEF Sound, Gone
    <3>1. \A p, n \in B!Children(f)' : marks'[p].url = marks'[n].url => p = n
      <4> SUFFICES ASSUME NEW p \in B!Children(f)', NEW n \in B!Children(f)', marks'[p].url = marks'[n].url
                   PROVE  p = n
        OBVIOUS
      <4>1. CASE p = m \/ n = m
        BY <2>1, <2>10, <2>11, <2>12, <4>1
      <4>2. CASE p # m /\ n # m
        BY <2>3, <2>11, <4>2 DEF Sound
      <4>3. QED
        BY <4>1, <4>2
    <3>2. QED
      BY <1>2, <1>4, <2>3, <2>10, <3>1 DEF Sound
  <2>14. Fits(r)'
    BY <1>2, <2>4, <2>5, <2>10, <2>11, <2>12 DEF Fits, Holding
  <2>15. Turns(run[r], mine)
    BY <1>1, <1>2, <2>5 DEF Turns
  <2>16. QED
    BY <1>1, <1>2, <2>2, <2>7, <2>8, <2>9, <2>13, <2>14, <2>15, RunStep
<1>5. QED
  BY <1>3, <1>4

\* Bookmarks that go away, and the folders they are in.
LEMMA Fewer ==
  ASSUME BookmarksIInv, NEW k \in B!Kinds, UNCHANGED <<tracked, enabled, permission, raced, stored>>,
         \A f \in B!Folders : folders'[f] \in {folders[f], None},
         \A m \in B!Marks : marks'[m] \in {marks[m], None}
  PROVE  Sound(k)'
<1> SUFFICES ASSUME k \notin raced
             PROVE  /\ \A f, g \in B!Folders : folders'[f] = k /\ folders'[g] = k => f = g
                    /\ \A f \in B!Folders : folders'[f] = k =>
                         \A m, n \in B!Children(f)' : marks'[m].url = marks'[n].url => m = n
                    /\ enabled'[k] => permission'
                    /\ ~enabled'[k] => \A f \in stored' : folders'[f] # k
                    /\ \A f \in stored' : folders'[f] = k => tracked'[k] = f
  BY DEF Sound, Gone
<1>1. Sound(k) /\ k # None /\ stored \subseteq B!Folders
  BY KindsApart DEF BookmarksIInv, B!TypeOK
<1>2. \A f \in B!Folders : folders'[f] = k => folders[f] = k
  BY <1>1
<1>3. \A f \in B!Folders : \A m \in B!Children(f)' : m \in B!Children(f) /\ marks'[m] = marks[m]
  BY DEF B!Children
<1>4. QED
  BY <1>1, <1>2, <1>3 DEF Sound, Gone

LEMMA RemoveMarkStep ==
  ASSUME BookmarksIInv, NEW r \in Runs, B!RemoveMark(r)
  PROVE  BookmarksIInv'
<1>0. B!TypeOK /\ run \in [Runs -> RunRecords] /\ Fits(r) /\ OwnFolders
  BY RunsTyped DEF BookmarksIInv
<1>1. PICK k \in B!Kinds, f \in B!Folders \cup {None} : k = run[r].kind /\ f = run[r].folder
  BY <1>0 DEF RunRecords
<1>2. /\ run[r].at = "apply" /\ Busy(r) /\ Holding(r) /\ events' \in 0..MaxEvents
      /\ UNCHANGED <<served, folders, tracked, enabled, permission, events, raced, stored>>
  BY <1>0 DEF B!RemoveMark, B!storage, Busy, Holding, B!TypeOK
<1>3. PICK m \in run[r].remove :
        /\ run' = [run EXCEPT ![r].remove = @ \ {m}]
        /\ IF permission THEN B!Drop({m}) ELSE UNCHANGED marks
  BY DEF B!RemoveMark
<1> DEFINE remove == run[r].remove \ {m}
<1> DEFINE mine == [run[r] EXCEPT !.remove = remove]
<1>4. run' = [run EXCEPT ![r] = mine]
  BY <1>0, <1>3
<1>5. remove \subseteq B!Marks
  BY <1>0 DEF RunRecords
<1> HIDE DEF remove
<1>6. /\ mine \in RunRecords /\ mine.op = run[r].op /\ mine.kind = k /\ mine.at = "apply"
      /\ mine.folder = f /\ mine.create = run[r].create /\ run'[r] = mine
  BY <1>0, <1>1, <1>2, <1>4, <1>5 DEF RunRecords
<1> HIDE DEF mine
<1>7. /\ marks' \in [B!Marks -> [folder : B!Folders, url : Urls] \cup {None}]
      /\ \A n \in B!Marks : marks'[n] \in {marks[n], None}
  BY <1>0, <1>3 DEF B!Drop, B!TypeOK
<1>8. Confined(k)
  BY <1>2, <1>7 DEF Confined
<1>9. B!TypeOK'
  <2>1. run' \in [Runs -> RunRecords]
    BY <1>0, <1>4, <1>6
  <2>2. QED
    BY <1>0, <1>2, <1>7, <2>1 DEF B!TypeOK, RunRecords
<1>10. OwnFolders'
  <2>1. \A q \in Runs \ {r} : run'[q] = run[q]
    BY <1>0, <1>4
  <2>2. \A q \in Runs : Holding(q)' =>
          run'[q].folder \in B!Folders /\ folders'[run'[q].folder] \in {None, run'[q].kind}
    BY <1>0, <1>1, <1>2, <1>6, <2>1 DEF OwnFolders, Holding
  <2>3. QED
    BY <1>0, <1>2, <1>7, <2>2 DEF OwnFolders
<1>11. Sound(k)'
  BY <1>2, <1>7, Fewer
<1>12. Fits(r)'
  <2>1. \A n \in B!Children(f)' : n \in B!Children(f) /\ marks'[n] = marks[n]
    BY <1>7 DEF B!Children
  <2>2. QED
    BY <1>0, <1>1, <1>2, <1>6, <2>1 DEF Fits, Holding
<1>13. Turns(run[r], mine)
  BY <1>1, <1>2, <1>6 DEF Turns
<1>14. QED
  BY <1>1, <1>2, <1>4, <1>8, <1>9, <1>10, <1>11, <1>12, <1>13, RunStep

LEMMA RemoveTreeStep ==
  ASSUME BookmarksIInv, NEW r \in Runs, B!RemoveTree(r)
  PROVE  BookmarksIInv'
<1>0. B!TypeOK /\ run \in [Runs -> RunRecords] /\ Fits(r) /\ OwnFolders /\ Roles
  BY RunsTyped DEF BookmarksIInv
<1>1. PICK k \in B!Kinds : k = run[r].kind
  BY <1>0 DEF RunRecords
<1> DEFINE f == tracked[k]
<1>2. /\ run[r].at = "tree" /\ Busy(r) /\ run[r].op = "disable" /\ events' \in 0..MaxEvents
      /\ UNCHANGED <<served, tracked, enabled, permission, events, raced, stored>>
  BY <1>0 DEF B!RemoveTree, B!storage, Busy, B!TypeOK, Roles
<1> DEFINE mine == [run[r] EXCEPT !.at = "forget"]
<1>3. run' = [run EXCEPT ![r] = mine]
  BY <1>0 DEF B!RemoveTree, B!Goto
<1>4. /\ mine \in RunRecords /\ mine.op = "disable" /\ mine.kind = k /\ mine.at = "forget" /\ run'[r] = mine
  BY <1>0, <1>1, <1>2, <1>3 DEF RunRecords
<1> HIDE DEF mine
<1>5. /\ f \in B!Folders \cup {None} /\ (f # None => folders[f] \in {None, k})
      /\ folders \in [B!Folders -> B!Kinds \cup {None}] /\ k # None /\ None \notin B!Folders
  BY <1>0, KindsApart DEF OwnFolders, B!TypeOK
<1>6. \/ /\ f \in B!Folders /\ permission /\ B!Drop(B!Children(f)) /\ folders' = [folders EXCEPT ![f] = None]
      \/ (~B!Exists(f) \/ ~permission) /\ UNCHANGED <<marks, folders>>
  BY <1>1, <1>5 DEF B!RemoveTree, B!Exists
<1>7. /\ marks' \in [B!Marks -> [folder : B!Folders, url : Urls] \cup {None}]
      /\ folders' \in [B!Folders -> B!Kinds \cup {None}]
      /\ \A n \in B!Marks : marks'[n] \in {marks[n], None}
      /\ \A g \in B!Folders : folders'[g] \in {folders[g], None}
  BY <1>0, <1>6 DEF B!Drop, B!TypeOK
<1>8. \A g \in B!Folders : folders'[g] # folders[g] => folders[g] = k
  BY <1>5, <1>6
<1>9. Confined(k)
  BY <1>2, <1>7, <1>8 DEF Confined
<1>10. B!TypeOK'
  <2>1. run' \in [Runs -> RunRecords]
    BY <1>0, <1>3, <1>4
  <2>2. QED
    BY <1>0, <1>2, <1>7, <2>1 DEF B!TypeOK, RunRecords
<1>11. OwnFolders'
  <2>1. \A q \in Runs \ {r} : run'[q] = run[q]
    BY <1>0, <1>3
  <2>2. \A q \in Runs : Holding(q)' =>
          run'[q].folder \in B!Folders /\ folders'[run'[q].folder] \in {None, run'[q].kind}
    BY <1>0, <1>4, <1>7, <2>1 DEF OwnFolders, Holding
  <2>3. \A m \in B!Marks : marks'[m] # None => folders'[marks'[m].folder] # None
    <3> SUFFICES ASSUME NEW m \in B!Marks, marks'[m] # None PROVE folders'[marks'[m].folder] # None
      OBVIOUS
    <3>1. marks'[m] = marks[m] /\ marks[m].folder \in B!Folders /\ folders[marks[m].folder] # None
      BY <1>0, <1>7 DEF OwnFolders, B!TypeOK
    <3>2. CASE UNCHANGED folders
      BY <3>1, <3>2
    <3>3. CASE B!Drop(B!Children(f)) /\ folders' = [folders EXCEPT ![f] = None]
      <4>1. m \notin B!Children(f)
        BY <3>3 DEF B!Drop
      <4>2. marks[m].folder # f
        BY <3>1, <4>1 DEF B!Children
      <4>3. QED
        BY <1>5, <3>1, <3>3, <4>2
    <3>4. QED
      BY <1>6, <3>2, <3>3
  <2>4. \A j \in B!Kinds : tracked'[j] # None => folders'[tracked'[j]] \in {None, j}
    <3> SUFFICES ASSUME NEW j \in B!Kinds, tracked[j] # None PROVE folders'[tracked[j]] \in {None, j}
      BY <1>2
    <3>1. tracked[j] \in B!Folders /\ folders[tracked[j]] \in {None, j}
      BY <1>0 DEF OwnFolders, B!TypeOK
    <3>2. QED
      BY <1>7, <3>1
  <2>5. QED
    BY <2>2, <2>3, <2>4 DEF OwnFolders
<1>12. Sound(k)'
  BY <1>2, <1>7, Fewer
<1>13. Fits(r)'
  <2>1. Sound(k) /\ stored \subseteq B!Folders
    BY <1>0 DEF BookmarksIInv, B!TypeOK
  <2>2. k \notin raced => enabled[k]
    BY <1>0, <1>1, <1>2 DEF Fits
  <2>3. k \notin raced => \A g \in stored : folders'[g] # k
    <3> SUFFICES ASSUME k \notin raced, NEW g \in stored, folders'[g] = k PROVE FALSE
      OBVIOUS
    <3>1. folders[g] = k /\ g \in B!Folders
      BY <1>5, <1>7, <2>1
    <3>2. f = g /\ permission
      BY <2>1, <2>2, <3>1 DEF Sound
    <3>3. QED
      BY <1>5, <1>6, <3>1, <3>2 DEF B!Exists
  <2>4. QED
    BY <1>2, <1>4, <2>2, <2>3 DEF Fits, Holding, Gone
<1>14. Turns(run[r], mine)
  BY <1>1, <1>2, <1>4 DEF Turns
<1>15. QED
  BY <1>1, <1>2, <1>3, <1>9, <1>10, <1>11, <1>12, <1>13, <1>14, RunStep

LEMMA ForgetFolderStep ==
  ASSUME BookmarksIInv, NEW r \in Runs, B!ForgetFolder(r)
  PROVE  BookmarksIInv'
<1>0. B!TypeOK /\ run \in [Runs -> RunRecords] /\ Fits(r) /\ OwnFolders /\ Roles
  BY RunsTyped DEF BookmarksIInv
<1>1. PICK k \in B!Kinds : k = run[r].kind
  BY <1>0 DEF RunRecords
<1>2. /\ run[r].at = "forget" /\ Busy(r) /\ run[r].op = "disable" /\ events' \in 0..MaxEvents
      /\ UNCHANGED <<served, folders, marks, enabled, permission, events, raced, stored>>
      /\ tracked' = [tracked EXCEPT ![k] = None]
  BY <1>0, <1>1 DEF B!ForgetFolder, B!browser, Busy, B!TypeOK, Roles
<1> DEFINE mine == [run[r] EXCEPT !.at = "off"]
<1>3. run' = [run EXCEPT ![r] = mine]
  BY <1>0 DEF B!ForgetFolder, B!Goto
<1>4. /\ mine \in RunRecords /\ mine.op = "disable" /\ mine.kind = k /\ mine.at = "off" /\ run'[r] = mine
  BY <1>0, <1>1, <1>2, <1>3 DEF RunRecords
<1> HIDE DEF mine
<1>5. tracked'[k] = None /\ \A j \in B!Kinds \ {k} : tracked'[j] = tracked[j]
  BY <1>0, <1>2 DEF B!TypeOK
<1>6. Confined(k)
  BY <1>2, <1>5 DEF Confined
<1>7. B!TypeOK'
  <2>1. run' \in [Runs -> RunRecords] /\ tracked' \in [B!Kinds -> B!Folders \cup {None}]
    BY <1>0, <1>2, <1>3, <1>4 DEF B!TypeOK
  <2>2. QED
    BY <1>0, <1>2, <2>1 DEF B!TypeOK, RunRecords
<1>8. OwnFolders'
  <2>1. \A q \in Runs \ {r} : run'[q] = run[q]
    BY <1>0, <1>3
  <2>2. \A q \in Runs : Holding(q)' =>
          run'[q].folder \in B!Folders /\ folders'[run'[q].folder] \in {None, run'[q].kind}
    BY <1>0, <1>2, <1>4, <2>1 DEF OwnFolders, Holding
  <2>3. QED
    BY <1>0, <1>2, <1>5, <2>2 DEF OwnFolders
<1>9. k \notin raced => enabled[k] /\ Gone(k)
  BY <1>0, <1>1, <1>2 DEF Fits
<1>10. Sound(k)'
  <2>1. Sound(k) /\ \A g \in B!Folders : B!Children(g)' = B!Children(g)
    BY <1>2 DEF BookmarksIInv, B!Children
  <2>2. QED
    BY <1>2, <1>9, <2>1 DEF Sound, Gone
<1>11. Fits(r)'
  BY <1>2, <1>4, <1>9 DEF Fits, Holding, Gone
<1>12. Turns(run[r], mine)
  BY <1>1, <1>2, <1>4 DEF Turns
<1>13. QED
  BY <1>1, <1>2, <1>3, <1>6, <1>7, <1>8, <1>10, <1>11, <1>12, RunStep

LEMMA SetDisabledStep ==
  ASSUME BookmarksIInv, NEW r \in Runs, B!SetDisabled(r)
  PROVE  BookmarksIInv'
<1>0. B!TypeOK /\ run \in [Runs -> RunRecords] /\ Fits(r) /\ OwnFolders /\ Roles
  BY RunsTyped DEF BookmarksIInv
<1>1. PICK k \in B!Kinds : k = run[r].kind
  BY <1>0 DEF RunRecords
<1>2. /\ run[r].at = "off" /\ Busy(r) /\ run[r].op = "disable" /\ events' \in 0..MaxEvents
      /\ UNCHANGED <<served, folders, marks, tracked, permission, events, raced, stored>>
      /\ enabled' = [enabled EXCEPT ![k] = FALSE]
  BY <1>0, <1>1 DEF B!SetDisabled, B!browser, Busy, B!TypeOK, Roles
<1> DEFINE mine == [run[r] EXCEPT !.at = "relinquish"]
<1>3. run' = [run EXCEPT ![r] = mine]
  BY <1>0 DEF B!SetDisabled, B!Goto
<1>4. /\ mine \in RunRecords /\ mine.op = "disable" /\ mine.kind = k /\ mine.at = "relinquish" /\ run'[r] = mine
  BY <1>0, <1>1, <1>2, <1>3 DEF RunRecords
<1> HIDE DEF mine
<1>5. ~enabled'[k] /\ (\A j \in B!Kinds \ {k} : enabled'[j] = enabled[j]) /\ enabled' \in [B!Kinds -> BOOLEAN]
  BY <1>0, <1>2 DEF B!TypeOK
<1>6. Confined(k)
  BY <1>2, <1>5 DEF Confined
<1>7. B!TypeOK'
  <2>1. run' \in [Runs -> RunRecords]
    BY <1>0, <1>3, <1>4
  <2>2. QED
    BY <1>0, <1>2, <1>5, <2>1 DEF B!TypeOK, RunRecords
<1>8. OwnFolders'
  <2>1. \A q \in Runs \ {r} : run'[q] = run[q]
    BY <1>0, <1>3
  <2>2. \A q \in Runs : Holding(q)' =>
          run'[q].folder \in B!Folders /\ folders'[run'[q].folder] \in {None, run'[q].kind}
    BY <1>0, <1>2, <1>4, <2>1 DEF OwnFolders, Holding
  <2>3. QED
    BY <1>0, <1>2, <2>2 DEF OwnFolders
<1>9. k \notin raced => Gone(k)
  BY <1>0, <1>1, <1>2 DEF Fits
<1>10. Sound(k)'
  <2>1. Sound(k) /\ \A g \in B!Folders : B!Children(g)' = B!Children(g)
    BY <1>2 DEF BookmarksIInv, B!Children
  <2>2. QED
    BY <1>2, <1>5, <1>9, <2>1 DEF Sound, Gone
<1>11. Fits(r)'
  BY <1>2, <1>4, <1>5, <1>9 DEF Fits, Holding, Gone
<1>12. Turns(run[r], mine)
  BY <1>1, <1>2, <1>4 DEF Turns
<1>13. QED
  BY <1>1, <1>2, <1>3, <1>5, <1>6, <1>7, <1>8, <1>10, <1>11, <1>12, RunStep

LEMMA SetEnabledStep ==
  ASSUME BookmarksIInv, NEW r \in Runs, B!SetEnabled(r)
  PROVE  BookmarksIInv'
<1>0. B!TypeOK /\ run \in [Runs -> RunRecords] /\ Fits(r) /\ OwnFolders /\ Roles
  BY RunsTyped DEF BookmarksIInv
<1>1. PICK k \in B!Kinds : k = run[r].kind
  BY <1>0 DEF RunRecords
<1>2. /\ run[r].at = "flag" /\ Busy(r) /\ events' \in 0..MaxEvents
      /\ UNCHANGED <<served, folders, marks, tracked, permission, events, raced, stored>>
      /\ enabled' = [enabled EXCEPT ![k] = TRUE]
  BY <1>0, <1>1 DEF B!SetEnabled, B!browser, Busy, B!TypeOK
<1> DEFINE mine == [run[r] EXCEPT !.at = "check"]
<1>3. run' = [run EXCEPT ![r] = mine]
  BY <1>0 DEF B!SetEnabled, B!Goto
<1>4. /\ mine \in RunRecords /\ mine.op = run[r].op /\ mine.kind = k /\ mine.at = "check" /\ run'[r] = mine
  BY <1>0, <1>1, <1>2, <1>3 DEF RunRecords
<1> HIDE DEF mine
<1>5. enabled'[k] /\ (\A j \in B!Kinds \ {k} : enabled'[j] = enabled[j]) /\ enabled' \in [B!Kinds -> BOOLEAN]
  BY <1>0, <1>2 DEF B!TypeOK
<1>6. Confined(k)
  BY <1>2, <1>5 DEF Confined
<1>7. B!TypeOK'
  <2>1. run' \in [Runs -> RunRecords]
    BY <1>0, <1>3, <1>4
  <2>2. QED
    BY <1>0, <1>2, <1>5, <2>1 DEF B!TypeOK, RunRecords
<1>8. OwnFolders'
  <2>1. \A q \in Runs \ {r} : run'[q] = run[q]
    BY <1>0, <1>3
  <2>2. \A q \in Runs : Holding(q)' =>
          run'[q].folder \in B!Folders /\ folders'[run'[q].folder] \in {None, run'[q].kind}
    BY <1>0, <1>2, <1>4, <2>1 DEF OwnFolders, Holding
  <2>3. QED
    BY <1>0, <1>2, <2>2 DEF OwnFolders
<1>9. k \notin raced => permission
  BY <1>0, <1>1, <1>2 DEF Fits
<1>10. Sound(k)'
  <2>1. Sound(k) /\ \A g \in B!Folders : B!Children(g)' = B!Children(g)
    BY <1>2 DEF BookmarksIInv, B!Children
  <2>2. QED
    BY <1>2, <1>5, <1>9, <2>1 DEF Sound, Gone
<1>11. Fits(r)'
  BY <1>4 DEF Fits, Holding
<1>12. Turns(run[r], mine)
  BY <1>1, <1>2, <1>4 DEF Turns
<1>13. QED
  BY <1>1, <1>2, <1>3, <1>6, <1>7, <1>8, <1>10, <1>11, <1>12, RunStep

LEMMA RelinquishStep ==
  ASSUME BookmarksIInv, NEW r \in Runs, B!Relinquish(r)
  PROVE  BookmarksIInv'
<1>0. B!TypeOK /\ run \in [Runs -> RunRecords] /\ Fits(r) /\ Roles
  BY RunsTyped DEF BookmarksIInv
<1>1. /\ run[r].at = "relinquish" /\ Busy(r) /\ run[r].op = "disable" /\ events' \in 0..MaxEvents
      /\ UNCHANGED <<served, folders, marks, tracked, enabled, permission, events, raced, stored>>
  BY <1>0 DEF B!Relinquish, B!browser, B!storage, Busy, B!TypeOK, Roles
<1>2. CASE enabled[B!Other(run[r].kind)]
  BY <1>1, <1>2, FinishStep DEF B!Relinquish
<1>3. CASE ~enabled[B!Other(run[r].kind)]
  <2> DEFINE mine == [run[r] EXCEPT !.at = "revoke"]
  <2>1. run' = [run EXCEPT ![r] = mine]
    BY <1>0, <1>3 DEF B!Relinquish, B!Goto
  <2>2. mine \in RunRecords /\ mine.op = "disable" /\ mine.kind = run[r].kind /\ mine.at = "revoke" /\ run'[r] = mine
    BY <1>0, <1>1, <2>1 DEF RunRecords
  <2> HIDE DEF mine
  <2>3. Turns(run[r], mine)
    BY <1>1, <1>3, <2>2 DEF Turns
  <2>4. Fits(r)'
    BY <1>0, <1>1, <2>2 DEF Fits, Holding, Gone
  <2>5. QED
    BY <1>1, <2>1, <2>2, <2>3, <2>4, LookStep
<1>4. QED
  BY <1>2, <1>3

LEMMA RemovePermissionStep ==
  ASSUME BookmarksIInv, NEW r \in Runs, B!RemovePermission(r)
  PROVE  BookmarksIInv'
<1>0. B!TypeOK /\ run \in [Runs -> RunRecords] /\ Fits(r) /\ OwnFolders /\ Roles
  BY RunsTyped DEF BookmarksIInv
<1>1. PICK k \in B!Kinds : k = run[r].kind
  BY <1>0 DEF RunRecords
<1>2. /\ run[r].at = "revoke" /\ Busy(r) /\ run[r].op = "disable" /\ events' \in 0..MaxEvents
      /\ UNCHANGED <<served, folders, marks, tracked, enabled, events, raced, stored>>
      /\ permission' \in {permission, FALSE}
  BY <1>0, <1>1 DEF B!RemovePermission, B!browser, B!storage, Busy, B!TypeOK, Roles
<1>3. permission' \in BOOLEAN /\ (B!Other(k) \notin raced => ~enabled[B!Other(k)])
  BY <1>0, <1>1, <1>2 DEF BookmarksIInv, Withdraws, B!TypeOK
<1>4. run' = [run EXCEPT ![r] = B!Idle]
  BY <1>2 DEF B!RemovePermission, B!Finish, B!NextKind
<1>5. B!Idle \in RunRecords /\ B!Idle.at = "idle"
  BY DEF B!Idle, RunRecords, B!Kinds
<1>6. run' \in [Runs -> RunRecords] /\ run'[r].at = "idle" /\ \A q \in Runs \ {r} : run'[q] = run[q]
  BY <1>0, <1>4, <1>5
<1>7. B!TypeOK'
  BY <1>0, <1>2, <1>3, <1>6 DEF B!TypeOK, RunRecords
<1>8. Roles'
  BY <1>0, <1>6 DEF Roles
<1>9. Alone'
  BY <1>2, <1>6 DEF BookmarksIInv, Alone, Busy, Meet
<1>10. OwnFolders'
  BY <1>0, <1>2, <1>6 DEF OwnFolders, Holding
<1>11. ASSUME NEW j \in B!Kinds PROVE Sound(j)'
  <2>1. Sound(j) /\ \A g \in B!Folders : B!Children(g)' = B!Children(g)
    BY <1>2 DEF BookmarksIInv, B!Children
  <2>2. j \notin raced /\ enabled[j] => permission'
    <3>1. CASE j = k
      BY <1>0, <1>1, <1>2, <3>1 DEF Fits
    <3>2. CASE j # k
      <4>1. j = B!Other(k)
        BY <3>2 DEF B!Other, B!Kinds
      <4>2. QED
        BY <1>3, <4>1
    <3>3. QED
      BY <3>1, <3>2
  <2>3. QED
    BY <1>2, <2>1, <2>2 DEF Sound, Gone
<1>12. ASSUME NEW q \in Runs PROVE Fits(q)'
  <2>1. CASE q = r
    BY <1>6, <2>1 DEF Fits, Holding
  <2>2. CASE q # r
    <3>1. run[q].at = "flag" => run[q].kind \in raced
      <4>1. SUFFICES ASSUME run[q].at = "flag" PROVE run[q].kind \in raced
        OBVIOUS
      <4>2. run[q].op = "enable" /\ Busy(q)
        BY <1>0, <4>1 DEF Roles, Busy
      <4>3. Meet(run[q], run[r])
        BY <1>2, <2>2, <4>2 DEF BookmarksIInv, Alone
      <4>4. QED
        BY <1>2, <4>2, <4>3 DEF Meet
    <3>2. Fits(q) /\ run'[q] = run[q]
      BY <1>6, <2>2 DEF BookmarksIInv
    <3>3. QED
      BY <1>2, <3>1, <3>2 DEF Fits, Holding, Gone, B!Children
  <2>3. QED
    BY <2>1, <2>2
<1>13. Withdraws'
  BY <1>2, <1>6 DEF BookmarksIInv, Withdraws, B!Other
<1>14. QED
  BY <1>7, <1>8, <1>9, <1>10, <1>11, <1>12, <1>13 DEF BookmarksIInv

\* A run starts, and meets those that are in progress.
LEMMA StartRunStep ==
  ASSUME BookmarksIInv, NEW r \in Runs, NEW op \in {"sync", "enable", "disable"}, NEW k \in B!Kinds,
         NEW at \in {"check", "flag", "tree"}, B!Start(r, op, k, at),
         at = "flag" => op = "enable" /\ permission', at = "tree" => op = "disable" /\ enabled[k],
         UNCHANGED <<served, folders, marks, tracked, enabled, stored>>,
         permission' \in BOOLEAN, permission => permission', events' \in 0..MaxEvents
  PROVE  BookmarksIInv'
<1>0. B!TypeOK /\ run \in [Runs -> RunRecords] /\ OwnFolders /\ Roles /\ Alone
  BY RunsTyped DEF BookmarksIInv
<1> DEFINE mine == [B!Idle EXCEPT !.op = op, !.kind = k, !.at = at]
<1>1. run' = [run EXCEPT ![r] = mine] /\ raced' = raced \cup B!Overlapping(r, op, k)
  BY DEF B!Start
<1>2. mine \in RunRecords /\ mine.op = op /\ mine.kind = k /\ mine.at = at
  BY DEF B!Idle, RunRecords, B!Kinds
<1> HIDE DEF mine
<1>3. run' \in [Runs -> RunRecords] /\ run'[r] = mine /\ \A q \in Runs \ {r} : run'[q] = run[q]
  BY <1>0, <1>1, <1>2
<1>4. raced \subseteq raced' /\ B!Overlapping(r, op, k) \subseteq raced'
  BY <1>1
<1>5. ASSUME NEW q \in Runs \ {r}, Busy(q)
      PROVE  /\ B!KindsOf(op, k) \cap B!KindsOf(run[q].op, run[q].kind) \subseteq raced'
             /\ run[q].op = "disable" /\ op = "enable" => k \in raced'
             /\ op = "disable" /\ run[q].op = "enable" => run[q].kind \in raced'
  BY <1>4, <1>5 DEF B!Overlapping, Busy
<1>6. B!Overlapping(r, op, k) \subseteq B!Kinds
  BY <1>0 DEF B!Overlapping, B!KindsOf, RunRecords
<1>7. B!TypeOK'
  <2>1. raced' \subseteq B!Kinds
    BY <1>0, <1>1, <1>6 DEF B!TypeOK
  <2>2. QED
    BY <1>0, <1>3, <2>1 DEF B!TypeOK, RunRecords
<1>8. Roles'
  BY <1>0, <1>2, <1>3 DEF Roles
<1>9. Alone'
  <2>1. ASSUME NEW p \in Runs, NEW q \in Runs, p # q, run'[p].at # "idle", run'[q].at # "idle"
        PROVE  /\ B!KindsOf(run'[p].op, run'[p].kind) \cap B!KindsOf(run'[q].op, run'[q].kind) \subseteq raced'
               /\ run'[p].op = "enable" /\ run'[q].op = "disable" => run'[p].kind \in raced'
    <3>1. CASE p = r
      BY <1>2, <1>3, <1>5, <2>1, <3>1 DEF Busy
    <3>2. CASE q = r
      BY <1>2, <1>3, <1>5, <2>1, <3>2 DEF Busy
    <3>3. CASE p # r /\ q # r
      BY <1>0, <1>3, <1>4, <2>1, <3>3 DEF Alone, Busy, Meet
    <3>4. QED
      BY <3>1, <3>2, <3>3
  <2>2. QED
    BY <2>1 DEF Alone, Busy, Meet
<1>10. OwnFolders'
  BY <1>0, <1>2, <1>3 DEF OwnFolders, Holding
<1>11. \A j \in B!Kinds : Sound(j)'
  BY <1>4 DEF BookmarksIInv, Sound, Gone, B!Children
<1>12. ASSUME NEW q \in Runs PROVE Fits(q)'
  <2>1. CASE q = r
    BY <1>2, <1>3, <2>1 DEF Fits, Holding
  <2>2. CASE q # r
    <3>1. Fits(q) /\ run'[q] = run[q]
      BY <1>3, <2>2 DEF BookmarksIInv
    <3>2. QED
      BY <1>4, <3>1 DEF Fits, Holding, Gone, B!Children
  <2>3. QED
    BY <2>1, <2>2
<1>13. Withdraws'
  BY <1>2, <1>3, <1>4 DEF BookmarksIInv, Withdraws
<1>14. QED
  BY <1>7, <1>8, <1>9, <1>10, <1>11, <1>12, <1>13 DEF BookmarksIInv

LEMMA StartSteps ==
  ASSUME BookmarksIInv, NEW r \in Runs,
         B!SyncAll(r) \/ \E k \in B!Kinds : B!Enable(r, k) \/ B!Disable(r, k)
  PROVE  BookmarksIInv'
<1>0. B!TypeOK /\ MaxEvents \in Nat
  BY ConvergeAssumption DEF BookmarksIInv
<1>1. CASE B!SyncAll(r)
  <2>1. "pages" \in B!Kinds
    BY DEF B!Kinds
  <2>2. QED
    BY <1>0, <1>1, <2>1, StartRunStep DEF B!SyncAll, B!browser, B!storage, B!TypeOK
<1>2. ASSUME NEW k \in B!Kinds, B!Enable(r, k) PROVE BookmarksIInv'
  BY <1>0, <1>2, StartRunStep DEF B!Enable, B!Event, B!browser, B!storage, B!TypeOK
<1>3. ASSUME NEW k \in B!Kinds, B!Disable(r, k) PROVE BookmarksIInv'
  BY <1>0, <1>3, StartRunStep DEF B!Disable, B!Event, B!browser, B!storage, B!TypeOK
<1>4. QED
  BY <1>1, <1>2, <1>3

LEMMA ChangeListStep ==
  ASSUME BookmarksIInv, NEW k \in B!Kinds, NEW list \in (SUBSET Urls) \cup {None}, B!ChangeList(k, list)
  PROVE  BookmarksIInv'
<1>1. /\ UNCHANGED <<folders, marks, tracked, enabled, permission, run, raced, stored>> /\ events' \in 0..MaxEvents
      /\ served' = [served EXCEPT ![k] = list] /\ (list = None => k = "links")
  BY ConvergeAssumption DEF B!ChangeList, B!Event, B!browser, B!storage, BookmarksIInv, B!TypeOK
<1>2. B!TypeOK'
  <2>1. served' \in [B!Kinds -> (SUBSET Urls) \cup {None}] /\ served'["pages"] # None
    BY <1>1, KindsApart DEF BookmarksIInv, B!TypeOK
  <2>2. QED
    BY <1>1, <2>1 DEF BookmarksIInv, B!TypeOK
<1>3. Roles' /\ Alone' /\ OwnFolders' /\ Withdraws'
  BY <1>1 DEF BookmarksIInv, Roles, Alone, Meet, Busy, OwnFolders, Holding, Withdraws
<1>4. \A j \in B!Kinds : Sound(j)'
  BY <1>1 DEF BookmarksIInv, Sound, Gone, B!Children
<1>5. \A r \in Runs : Fits(r)'
  BY <1>1 DEF BookmarksIInv, Fits, Gone, Holding, B!Children
<1>6. QED
  BY <1>2, <1>3, <1>4, <1>5 DEF BookmarksIInv

LEMMA UserRemovesStep ==
  ASSUME BookmarksIInv, NEW f \in B!Folders, B!UserRemoves(f)
  PROVE  BookmarksIInv'
<1>0. B!TypeOK /\ run \in [Runs -> RunRecords] /\ OwnFolders
  BY RunsTyped DEF BookmarksIInv
<1>1. /\ UNCHANGED <<served, tracked, enabled, permission, run, raced, stored>> /\ events' \in 0..MaxEvents
      /\ B!Drop(B!Children(f)) /\ folders' = [folders EXCEPT ![f] = None]
  BY <1>0, ConvergeAssumption DEF B!UserRemoves, B!Event, B!storage, B!TypeOK
<1>2. /\ marks' \in [B!Marks -> [folder : B!Folders, url : Urls] \cup {None}]
      /\ folders' \in [B!Folders -> B!Kinds \cup {None}]
      /\ \A n \in B!Marks : marks'[n] \in {marks[n], None}
      /\ \A g \in B!Folders : folders'[g] \in {folders[g], None}
  BY <1>0, <1>1 DEF B!Drop, B!TypeOK
<1>3. B!TypeOK'
  BY <1>0, <1>1, <1>2 DEF B!TypeOK
<1>4. Roles' /\ Alone' /\ Withdraws'
  BY <1>1 DEF BookmarksIInv, Roles, Alone, Meet, Busy, Withdraws
<1>5. OwnFolders'
  <2>1. \A q \in Runs : Holding(q)' =>
          run'[q].folder \in B!Folders /\ folders'[run'[q].folder] \in {None, run'[q].kind}
    BY <1>0, <1>1, <1>2 DEF OwnFolders, Holding
  <2>2. \A m \in B!Marks : marks'[m] # None => folders'[marks'[m].folder] # None
    <3> SUFFICES ASSUME NEW m \in B!Marks, marks'[m] # None PROVE folders'[marks'[m].folder] # None
      OBVIOUS
    <3>1. marks'[m] = marks[m] /\ marks[m].folder \in B!Folders /\ folders[marks[m].folder] # None
      BY <1>0, <1>2 DEF OwnFolders, B!TypeOK
    <3>2. m \notin B!Children(f)
      BY <1>1 DEF B!Drop
    <3>3. marks[m].folder # f
      BY <3>1, <3>2 DEF B!Children
    <3>4. QED
      BY <1>0, <1>1, <3>1, <3>3 DEF B!TypeOK
  <2>3. \A j \in B!Kinds : tracked'[j] # None => folders'[tracked'[j]] \in {None, j}
    <3> SUFFICES ASSUME NEW j \in B!Kinds, tracked[j] # None PROVE folders'[tracked[j]] \in {None, j}
      BY <1>1
    <3>1. tracked[j] \in B!Folders /\ folders[tracked[j]] \in {None, j}
      BY <1>0 DEF OwnFolders, B!TypeOK
    <3>2. QED
      BY <1>2, <3>1
  <2>4. QED
    BY <2>1, <2>2, <2>3 DEF OwnFolders
<1>6. \A k \in B!Kinds : Sound(k)'
  BY <1>1, <1>2, Fewer
<1>7. ASSUME NEW r \in Runs PROVE Fits(r)'
  <2>1. PICK k \in B!Kinds : k = run[r].kind
    BY <1>0 DEF RunRecords
  <2>2. \A g \in B!Folders : folders'[g] = k => folders[g] = k
    BY <1>2, KindsApart
  <2>3. Fits(r) /\ stored \subseteq B!Folders
    BY <1>0 DEF BookmarksIInv, B!TypeOK
  <2>4. \A g : \A m \in B!Children(g)' : m \in B!Children(g) /\ marks'[m] = marks[m]
    BY <1>2 DEF B!Children
  <2>5. QED
    BY <1>1, <2>1, <2>2, <2>3, <2>4 DEF Fits, Holding, Gone
<1>8. QED
  BY <1>3, <1>4, <1>5, <1>6, <1>7 DEF BookmarksIInv

LEMMA KillStep ==
  ASSUME BookmarksIInv, B!Kill
  PROVE  BookmarksIInv'
<1>1. /\ UNCHANGED <<served, folders, marks, tracked, enabled, permission, raced, stored>> /\ events' \in 0..MaxEvents
      /\ run' = [r \in Runs |-> B!Idle]
  BY ConvergeAssumption DEF B!Kill, B!Event, B!browser, B!storage, BookmarksIInv, B!TypeOK
<1>2. B!Idle \in RunRecords /\ B!Idle.at = "idle"
  BY DEF B!Idle, RunRecords, B!Kinds
<1>3. run' \in [Runs -> RunRecords] /\ \A r \in Runs : run'[r].at = "idle"
  BY <1>1, <1>2
<1>4. B!TypeOK'
  BY <1>1, <1>3 DEF BookmarksIInv, B!TypeOK, RunRecords
<1>5. Roles' /\ Alone' /\ OwnFolders' /\ Withdraws'
  BY <1>1, <1>3 DEF BookmarksIInv, Roles, Alone, Busy, OwnFolders, Holding, Withdraws
<1>6. \A j \in B!Kinds : Sound(j)'
  BY <1>1 DEF BookmarksIInv, Sound, Gone, B!Children
<1>7. \A r \in Runs : Fits(r)'
  BY <1>3 DEF Fits, Holding
<1>8. QED
  BY <1>4, <1>5, <1>6, <1>7 DEF BookmarksIInv

\* One folder of each kind at most, of the right kind, with the right to it, whatever the
\* user deletes, wherever the service worker is killed; of kinds no two runs of which
\* overlapped.
THEOREM BookmarksInvariance == B!Spec => []BookmarksIInv
<1>1. B!Init => BookmarksIInv
  <2> SUFFICES ASSUME B!Init PROVE BookmarksIInv
    OBVIOUS
  <2>1. B!Idle \in RunRecords /\ B!Idle.at = "idle"
    BY DEF B!Idle, RunRecords, B!Kinds
  <2>2. run \in [Runs -> RunRecords] /\ \A r \in Runs : run[r].at = "idle"
    BY <2>1 DEF B!Init
  <2>3. B!TypeOK
    <3>1. enabled \in [B!Kinds -> BOOLEAN]
      BY Zenon DEF B!Init
    <3>2. run \in [Runs -> [op : {"none", "sync", "enable", "disable"}, kind : B!Kinds,
                           at : {"idle", "flag", "check", "search", "create", "track",
                                 "fetch", "children", "apply", "tree", "forget", "off", "relinquish", "revoke"},
                           folder : B!Folders \cup {None}, create : SUBSET Urls, remove : SUBSET B!Marks]]
      BY <2>2 DEF RunRecords
    <3>3. served = [k \in B!Kinds |-> Urls] /\ served["pages"] # None
      BY AbsenceAssumption DEF B!Init, B!Kinds
    <3>4. QED
      BY <3>1, <3>2, <3>3, ConvergeAssumption, KindsApart DEF B!Init, B!TypeOK
  <2>4. Roles /\ Alone /\ OwnFolders /\ Withdraws
    BY <2>2 DEF B!Init, Roles, Alone, Busy, OwnFolders, Holding, Withdraws
  <2>5. \A k \in B!Kinds : Sound(k)
    BY KindsApart DEF B!Init, Sound, Gone
  <2>6. \A r \in Runs : Fits(r)
    BY <2>2 DEF Fits, Holding
  <2>7. QED
    BY <2>3, <2>4, <2>5, <2>6 DEF BookmarksIInv
<1>2. BookmarksIInv /\ [B!Next]_(B!vars) => BookmarksIInv'
  <2> SUFFICES ASSUME BookmarksIInv, [B!Next]_(B!vars) PROVE BookmarksIInv'
    OBVIOUS
  <2>1. CASE B!World
    <3>1. ASSUME NEW k \in B!Kinds, NEW list \in (SUBSET Urls) \cup {None}, B!ChangeList(k, list) PROVE BookmarksIInv'
      BY <3>1, ChangeListStep
    <3>2. ASSUME NEW f \in B!Folders, B!UserRemoves(f) PROVE BookmarksIInv'
      BY <3>2, UserRemovesStep
    <3>3. ASSUME NEW r \in PopupRuns, NEW k \in B!Kinds, B!Enable(r, k) \/ B!Disable(r, k) PROVE BookmarksIInv'
      BY <3>3, ConvergeAssumption, StartSteps
    <3>4. ASSUME NEW r \in Runs, B!Throws(r) PROVE BookmarksIInv'
      BY <3>4, EndSyncStep
    <3>5. QED
      BY <2>1, <3>1, <3>2, <3>3, <3>4, KillStep DEF B!World
  <2>2. ASSUME NEW r \in Runs, B!Step(r) PROVE BookmarksIInv'
    BY <2>2, SetEnabledStep, GetFolderStep, SearchFolderStep, CreateFolderStep, SetFolderIdStep,
       FetchListStep, DiffStep, CreateMarkStep, RemoveMarkStep, EndSyncStep, RemoveTreeStep,
       ForgetFolderStep, SetDisabledStep, RelinquishStep, RemovePermissionStep DEF B!Step
  <2>3. ASSUME NEW r \in Runs, B!SyncAll(r) PROVE BookmarksIInv'
    BY <2>3, StartSteps
  <2>4. CASE UNCHANGED B!vars
    BY <2>4 DEF B!vars, B!browser, B!storage, BookmarksIInv, B!TypeOK, Roles, Alone, Meet, Busy,
                OwnFolders, Holding, Withdraws, Sound, Gone, Fits, B!Children
  <2>5. QED
    BY <2>1, <2>2, <2>3, <2>4 DEF B!Next
<1>3. QED
  BY <1>1, <1>2, PTL DEF B!Spec

\* As many bookmarks in a folder as there are URLs, when no two are of the same.
LEMMA OncePerUrl ==
  ASSUME B!TypeOK, NEW f \in B!Folders,
         \A m, n \in B!Children(f) : marks[m].url = marks[n].url => m = n
  PROVE  B!Cardinality(B!Children(f)) = B!Cardinality(B!UrlsIn(f))
<1> DEFINE here == B!Children(f)
<1> DEFINE urls == B!UrlsIn(f)
<1> DEFINE url == [m \in here |-> marks[m].url]
<1>1. IsFiniteSet(here)
  <2>1. IsFiniteSet(1..MaxMarks)
    BY ConvergeAssumption, FS_Interval
  <2>2. here \subseteq 1..MaxMarks
    BY DEF B!Children, B!Marks
  <2>3. QED
    BY <2>1, <2>2, FS_Subset
<1>2. url \in Surjection(here, urls) /\ url \in Injection(here, urls)
  BY DEF B!UrlsIn, Surjection, Injection, IsInjective
<1>3. Cardinality(urls) = Cardinality(here)
  BY <1>1, <1>2, FS_Surjection
<1>4. QED
  BY <1>3 DEF B!Cardinality, Cardinality

\* ensureFolder never makes a second folder of a kind, and syncKind never a second
\* bookmark of a URL; disableSync leaves none behind, and takes the permission only from
\* kinds that are off.
THEOREM OneFolderPerKind == B!Spec => []BookmarksInv
<1>1. BookmarksIInv => BookmarksInv
  <2> SUFFICES ASSUME BookmarksIInv PROVE BookmarksInv
    OBVIOUS
  <2>1. B!TypeOK
    BY DEF BookmarksIInv
  <2>2. B!OneFolder
    <3> SUFFICES ASSUME NEW k \in B!Kinds \ raced
                 PROVE  LET own == {f \in B!Folders : folders[f] = k}
                        IN /\ B!Cardinality(own) <= 1
                           /\ \A f \in own : B!Cardinality(B!Children(f)) = B!Cardinality(B!UrlsIn(f))
      BY DEF B!OneFolder
    <3> DEFINE own == {f \in B!Folders : folders[f] = k}
    <3>1. Sound(k) /\ k \notin raced
      BY DEF BookmarksIInv
    <3>2. Cardinality(own) <= 1
      <4>1. CASE own = {}
        BY <4>1, FS_EmptySet
      <4>2. CASE own # {}
        <5>1. PICK f : own = {f}
          BY <3>1, <4>2 DEF Sound
        <5>2. Cardinality({f}) = 1
          BY FS_Singleton
        <5>3. QED
          BY <5>1, <5>2
      <4>3. QED
        BY <4>1, <4>2
    <3>3. B!Cardinality(own) = Cardinality(own)
      BY DEF B!Cardinality, Cardinality
    <3>4. \A f \in own : B!Cardinality(B!Children(f)) = B!Cardinality(B!UrlsIn(f))
      BY <2>1, <3>1, OncePerUrl DEF Sound
    <3>5. QED
      BY <3>2, <3>3, <3>4
  <2>3. B!OffIsGone
    <3>1. \A k \in B!Kinds : Sound(k)
      BY DEF BookmarksIInv
    <3>2. ASSUME NEW k \in B!Kinds, k \notin raced
          PROVE  IF enabled[k] THEN permission ELSE \A f \in stored : folders[f] # k
      <4>1. (enabled[k] => permission) /\ (~enabled[k] => \A f \in stored : folders[f] # k)
        BY <3>1, <3>2 DEF Sound, Gone
      <4>2. QED
        BY <4>1, Zenon
    <3>3. QED
      BY <3>2, Zenon DEF B!OffIsGone
  <2>4. QED
    BY <2>1, <2>2, <2>3 DEF BookmarksInv
<1>2. QED
  BY <1>1, BookmarksInvariance, PTL

-----------------------------------------------------------------------------
(* The parts together.                                                     *)

\* What the runs explore behaves as the part that moves: what is proved of a part holds of
\* the behaviours in which it does.
THEOREM ConvergeParts ==
  UnfairSpec =>
    /\ part = "mirror" => Spec
    /\ part = "bookmarks" => B!Spec
    /\ part = "wayback" => W!Spec
    /\ part = "links" => L!Spec
    /\ part = "jobs" => J!Spec
<1>1. ConvergeInit => Init /\ B!Init /\ W!Init /\ L!Init /\ J!Init
  BY Zenon DEF ConvergeInit
<1>2. part = "mirror" /\ [ConvergeNext]_convergeVars => (part = "mirror")' /\ [Next]_vars
  <2>1. part = "mirror" /\ ConvergeNext => part' = "mirror" /\ Next
    BY DEF ConvergeNext, MirrorStep, BookmarksStep, WaybackStep, LinksStep, JobsStep
  <2>2. part = "mirror" /\ UNCHANGED convergeVars => part' = "mirror" /\ UNCHANGED vars
    BY DEF convergeVars, mVars, vars, postgres
  <2>3. QED
    BY <2>1, <2>2
<1>3. part = "bookmarks" /\ [ConvergeNext]_convergeVars => (part = "bookmarks")' /\ [B!Next]_B!vars
  <2>1. part = "bookmarks" /\ ConvergeNext => part' = "bookmarks" /\ B!Next
    BY DEF ConvergeNext, MirrorStep, BookmarksStep, WaybackStep, LinksStep, JobsStep
  <2>2. part = "bookmarks" /\ UNCHANGED convergeVars => part' = "bookmarks" /\ UNCHANGED B!vars
    BY DEF convergeVars, bVars, B!vars, B!browser, B!storage
  <2>3. QED
    BY <2>1, <2>2
<1>4. part = "wayback" /\ [ConvergeNext]_convergeVars => (part = "wayback")' /\ [W!Next]_W!vars
  <2>1. part = "wayback" /\ ConvergeNext => part' = "wayback" /\ W!Next
    BY DEF ConvergeNext, MirrorStep, BookmarksStep, WaybackStep, LinksStep, JobsStep
  <2>2. part = "wayback" /\ UNCHANGED convergeVars => part' = "wayback" /\ UNCHANGED W!vars
    BY DEF convergeVars, wVars, W!vars
  <2>3. QED
    BY <2>1, <2>2
<1>5. part = "links" /\ [ConvergeNext]_convergeVars => (part = "links")' /\ [L!Next]_L!vars
  <2>1. part = "links" /\ ConvergeNext => part' = "links" /\ L!Next
    BY DEF ConvergeNext, MirrorStep, BookmarksStep, WaybackStep, LinksStep, JobsStep
  <2>2. part = "links" /\ UNCHANGED convergeVars => part' = "links" /\ UNCHANGED L!vars
    BY DEF convergeVars, lVars, L!vars, L!dashboard
  <2>3. QED
    BY <2>1, <2>2
<1>6. part = "jobs" /\ [ConvergeNext]_convergeVars => (part = "jobs")' /\ [J!Next]_J!vars
  <2>1. part = "jobs" /\ ConvergeNext => part' = "jobs" /\ J!Next
    BY DEF ConvergeNext, MirrorStep, BookmarksStep, WaybackStep, LinksStep, JobsStep
  <2>2. part = "jobs" /\ UNCHANGED convergeVars => part' = "jobs" /\ UNCHANGED J!vars
    BY DEF convergeVars, jVars, J!vars, J!jobVars, J!captureVars, J!countVars, J!historyVars
  <2>3. QED
    BY <2>1, <2>2
<1>7. UnfairSpec => (part = "mirror" => Spec)
  BY <1>1, <1>2, PTL DEF UnfairSpec, Spec
<1>8. UnfairSpec => (part = "bookmarks" => B!Spec)
  BY <1>1, <1>3, PTL DEF UnfairSpec, B!Spec
<1>9. UnfairSpec => (part = "wayback" => W!Spec)
  BY <1>1, <1>4, PTL DEF UnfairSpec, W!Spec
<1>10. UnfairSpec => (part = "links" => L!Spec)
  BY <1>1, <1>5, PTL DEF UnfairSpec, L!Spec
<1>11. UnfairSpec => (part = "jobs" => J!Spec)
  BY <1>1, <1>6, PTL DEF UnfairSpec, J!Spec
<1>12. QED
  BY <1>7, <1>8, <1>9, <1>10, <1>11, Zenon

===============================================================================
