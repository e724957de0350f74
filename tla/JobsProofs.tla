----------------------------- MODULE JobsProofs -----------------------------
(* The proofs about Jobs, for any captures, agents and bounds: attempts stay *)
(* within the budget, a summary is of the current text and a failed job is   *)
(* revived by the user alone, whatever runs of the two runners overlap.      *)
EXTENDS Jobs, TLAPS

USE DEF jobVars, captureVars, countVars, historyVars

\* What an agent's or a user's step is, with the nesting of Next taken apart.
LEMMA StepKinds ==
  ASSUME [Next]_vars
  PROVE  \/ \E c \in Captures : Ingest(c)
         \/ \E j \in Jobs : TimePasses(j)
         \/ \E a \in Agents : Claim(a, Captures) \/ Claim(a, AIJobs)
         \/ \E a \in Agents, c \in Captures : CommitReadability(a, c)
         \/ \E a \in Agents, j \in AIJobs : CommitAI(a, j)
         \/ \E a \in Agents, j \in Jobs : AttemptFails(a, j)
         \/ \E a \in Agents, j \in Jobs : HandleFailure(a, j)
         \/ \E a \in Agents : Crash(a)
         \/ \E j \in Jobs : RetryJob(j)
         \/ \E c \in Captures : RegenerateReadability(c) \/ RegenerateAISummary(c)
         \/ \E c \in Captures : DeleteCapture(c)
         \/ UNCHANGED vars
BY DEF Next, Agent, RunOnce, RunReadability, RunAI, Dashboard, Jobs

\* No AI job is a readability job.
LEMMA KindsApart == \A j \in AIJobs : j \notin Captures
BY JobsAssumption DEF AIJobs

\* What is claimed of a job is an attempt count and a text.
LEMMA ClaimsTyped ==
  ASSUME TypeOK, Agreement, NEW j \in Claimable
  PROVE  [attempts |-> attempts[j], text |-> TextOf(j), failed |-> FALSE] \in Claims
<1> USE JobsAssumption
<1>1. j \in Jobs /\ attempts[j] \in Nat /\ status[j] # "absent"
  BY DEF Claimable, TypeOK
<1>2. TextOf(j) \in 0..MaxAIJobs
  <2>1. CASE j \in AIJobs
    <3>1. capture[j] \in Captures
      BY <1>1, <2>1 DEF TypeOK, Agreement, Lineage
    <3>2. QED
      BY <2>1, <3>1 DEF TextOf, TypeOK
  <2>2. CASE j \notin AIJobs
    BY <2>2 DEF TextOf
  <2>3. QED
    BY <2>1, <2>2
<1>3. QED
  BY <1>1, <1>2 DEF Claims

\* An agent lets go of a job or notes its failure, nothing else.
LEMMA ReportedTyped ==
  ASSUME TypeOK, NEW a \in Agents, NEW j \in Jobs, Working(a, j),
         Reported(a, j) \/ ToFailure(a, j) \/ Release(a, j)
  PROVE  held' \in [Agents -> [Jobs -> Claims \cup {None}]]
<1>1. held[a][j] \in Claims
  BY DEF Working, TypeOK
<1>2. [held[a][j] EXCEPT !.failed = TRUE] \in Claims
  BY <1>1 DEF Claims
<1>3. CASE Release(a, j)
  BY <1>3 DEF Release, TypeOK
<1>4. CASE ToFailure(a, j)
  BY <1>2, <1>4 DEF ToFailure, TypeOK
<1>5. QED
  BY <1>3, <1>4 DEF Reported

\* Every step keeps the variables typed, as long as AI jobs have captures.
LEMMA TypeStep == TypeOK /\ Agreement /\ [Next]_vars => TypeOK'
<1> SUFFICES ASSUME TypeOK, Agreement, [Next]_vars PROVE TypeOK'
  OBVIOUS
<1> USE JobsAssumption
<1>1. ASSUME NEW c \in Captures, Ingest(c) PROVE TypeOK'
  BY <1>1 DEF Ingest, Jobs, TypeOK
<1>2. ASSUME NEW j \in Jobs, TimePasses(j) PROVE TypeOK'
  BY <1>2 DEF TimePasses, TypeOK
<1>3. ASSUME NEW a \in Agents, NEW kind, Claim(a, kind) PROVE TypeOK'
  <2>1. held' \in [Agents -> [Jobs -> Claims \cup {None}]]
    BY <1>3, ClaimsTyped DEF Claim, TypeOK
  <2>2. status' \in [Jobs -> {"absent", "pending", "processing", "done", "failed", "gone"}]
    BY <1>3 DEF Claim, TypeOK
  <2>3. shared' \in SUBSET Jobs
    BY <1>3 DEF Claim, Claimable, TypeOK
  <2>4. due' \in [Jobs -> BOOLEAN]
    BY <1>3, Zenon DEF Claim, TypeOK
  <2>5. faults' \in 0..MaxFaults
    BY <1>3 DEF Claim, Fault, TypeOK
  <2>6. crossed' \in SUBSET Captures
    BY <1>3 DEF Claim, TypeOK
  <2>7. QED
    BY <1>3, <2>1, <2>2, <2>3, <2>4, <2>5, <2>6 DEF Claim, TypeOK
<1>4. ASSUME NEW a \in Agents, NEW c \in Captures, CommitReadability(a, c) PROVE TypeOK'
  <2>1. held' \in [Agents -> [Jobs -> Claims \cup {None}]]
    BY <1>4, ReportedTyped DEF CommitReadability, Jobs
  <2>2. faults' \in 0..MaxFaults
    BY <1>4 DEF CommitReadability, Reported, Fault, TypeOK
  <2>3. PICK j \in AIJobs : /\ status' = [status EXCEPT ![c] = "done", ![j] = "pending"]
                            /\ capture' = [capture EXCEPT ![j] = c]
                            /\ text' = [text EXCEPT ![c] = j]
    BY <1>4 DEF CommitReadability
  <2>4. /\ status' \in [Jobs -> {"absent", "pending", "processing", "done", "failed", "gone"}]
        /\ capture' \in [AIJobs -> Captures \cup {None}]
        /\ text' \in [Captures -> 0..MaxAIJobs]
    <3>1. j \in 0..MaxAIJobs
      BY DEF AIJobs
    <3>2. QED
      BY <2>3, <3>1 DEF TypeOK
  <2>5. QED
    BY <1>4, <2>1, <2>2, <2>4 DEF CommitReadability, TypeOK
<1>5. ASSUME NEW a \in Agents, NEW j \in AIJobs, CommitAI(a, j) PROVE TypeOK'
  <2>1. held' \in [Agents -> [Jobs -> Claims \cup {None}]]
    BY <1>5, ReportedTyped DEF CommitAI, Jobs
  <2>2. held[a][j].text \in 0..MaxAIJobs
    BY <1>5 DEF CommitAI, Working, TypeOK, Claims, Jobs
  <2>3. faults' \in 0..MaxFaults
    BY <1>5 DEF CommitAI, Reported, Fault, TypeOK
  <2>4. /\ status' \in [Jobs -> {"absent", "pending", "processing", "done", "failed", "gone"}]
        /\ summary' \in [Captures -> 0..MaxAIJobs]
    BY <1>5, <2>2 DEF CommitAI, TypeOK
  <2>5. QED
    BY <1>5, <2>1, <2>3, <2>4 DEF CommitAI, TypeOK
<1>6. ASSUME NEW a \in Agents, NEW j \in Jobs, AttemptFails(a, j) PROVE TypeOK'
  BY <1>6, ReportedTyped DEF AttemptFails, TypeOK
<1>7. ASSUME NEW a \in Agents, NEW j \in Jobs, HandleFailure(a, j) PROVE TypeOK'
  <2>1. held' \in [Agents -> [Jobs -> Claims \cup {None}]]
    BY <1>7 DEF HandleFailure, Release, TypeOK
  <2>2. held[a][j].attempts + 1 \in Nat
    BY <1>7 DEF HandleFailure, TypeOK, Claims
  <2>3. faults' \in 0..MaxFaults
    BY <1>7 DEF HandleFailure, Fault, TypeOK
  <2>4. /\ status' \in [Jobs -> {"absent", "pending", "processing", "done", "failed", "gone"}]
        /\ attempts' \in [Jobs -> Nat]
    BY <1>7, <2>2 DEF HandleFailure, TypeOK
  <2>5. due' \in [Jobs -> BOOLEAN]
    BY <1>7 DEF HandleFailure, TypeOK
  <2>6. QED
    BY <1>7, <2>1, <2>3, <2>4, <2>5 DEF HandleFailure, TypeOK
<1>8. ASSUME NEW a \in Agents, Crash(a) PROVE TypeOK'
  BY <1>8 DEF Crash, Fault, Idle, TypeOK
<1>9. ASSUME NEW j \in Jobs, RetryJob(j) PROVE TypeOK'
  BY <1>9 DEF RetryJob, Click, TypeOK
<1>10. ASSUME NEW js, Regenerate(js) PROVE TypeOK'
  <2>1. due' \in [Jobs -> BOOLEAN]
    BY <1>10, Zenon DEF Regenerate, TypeOK
  <2>2. QED
    BY <1>10, <2>1 DEF Regenerate, Click, TypeOK
<1>11. ASSUME NEW c \in Captures, DeleteCapture(c) PROVE TypeOK'
  BY <1>11 DEF DeleteCapture, Click, TypeOK
<1>12. CASE UNCHANGED vars
  BY <1>12 DEF vars, TypeOK
<1>13. QED
  BY StepKinds, <1>1, <1>2, <1>3, <1>4, <1>5, <1>6, <1>7, <1>8, <1>9, <1>10, <1>11, <1>12
     DEF RegenerateReadability, RegenerateAISummary

-----------------------------------------------------------------------------
\* Letting go of a job, or noting its failure, takes nothing else from what is held.
LEMMA StillHeld ==
  ASSUME TypeOK, NEW a \in Agents, NEW j \in Jobs,
         held[a][j] # None, Reported(a, j) \/ ToFailure(a, j) \/ Release(a, j),
         NEW b \in Agents, NEW i \in Jobs, held'[b][i] # None
  PROVE  held[b][i] # None /\ held'[b][i].attempts = held[b][i].attempts /\ held'[b][i].text = held[b][i].text
<1>1. held[a][j] \in Claims
  BY DEF TypeOK
<1>2. CASE Release(a, j)
  BY <1>2 DEF Release, TypeOK
<1>3. CASE ToFailure(a, j)
  <2>1. held' = [held EXCEPT ![a][j].failed = TRUE]
    BY <1>3 DEF ToFailure
  <2>2. CASE b = a /\ i = j
    <3>1. held'[b][i] = [held[a][j] EXCEPT !.failed = TRUE]
      BY <2>1, <2>2 DEF TypeOK
    <3>2. QED
      BY <1>1, <2>2, <3>1 DEF Claims
  <2>3. CASE b # a \/ i # j
    <3>1. held'[b][i] = held[b][i]
      BY <2>1, <2>3 DEF TypeOK
    <3>2. QED
      BY <3>1
  <2>4. QED
    BY <2>2, <2>3
<1>4. QED
  BY <1>2, <1>3 DEF Reported

\* Every step keeps the budget of the jobs that are not settled.
LEMMA BudgetStep ==
  ASSUME TypeOK, AttemptsBounded, Agreement, [Next]_vars
  PROVE  AttemptsBounded' /\ BudgetLeft'
<1> USE JobsAssumption DEF Jobs, BudgetLeft, AttemptsBounded
<1>1. ASSUME NEW c \in Captures, Ingest(c) PROVE AttemptsBounded' /\ BudgetLeft'
  BY <1>1 DEF Ingest, TypeOK, Agreement
<1>2. ASSUME NEW j \in Jobs, TimePasses(j) PROVE AttemptsBounded' /\ BudgetLeft'
  BY <1>2 DEF TimePasses, Agreement
<1>3. ASSUME NEW a \in Agents, NEW kind, Claim(a, kind) PROVE AttemptsBounded' /\ BudgetLeft'
  BY <1>3 DEF Claim, Claimable, TypeOK, Agreement
<1>4. ASSUME NEW a \in Agents, NEW c \in Captures, CommitReadability(a, c) PROVE AttemptsBounded' /\ BudgetLeft'
  BY <1>4 DEF CommitReadability, TypeOK, Agreement
<1>5. ASSUME NEW a \in Agents, NEW j \in AIJobs, CommitAI(a, j) PROVE AttemptsBounded' /\ BudgetLeft'
  BY <1>5 DEF CommitAI, TypeOK, Agreement
<1>6. ASSUME NEW a \in Agents, NEW j \in Jobs, AttemptFails(a, j) PROVE AttemptsBounded' /\ BudgetLeft'
  BY <1>6 DEF AttemptFails, Agreement
<1>7. ASSUME NEW a \in Agents, NEW j \in Jobs, HandleFailure(a, j) PROVE AttemptsBounded' /\ BudgetLeft'
  <2>1. held[a][j].attempts \in Nat /\ held[a][j].attempts < MaxAttempts + clicks
    BY <1>7 DEF HandleFailure, TypeOK, Claims, Agreement, HolderAgrees
  <2>2. clicks \in Nat
    BY DEF TypeOK
  <2>3. QED
    BY <1>7, <2>1, <2>2 DEF HandleFailure, TypeOK, Agreement
<1>8. ASSUME NEW a \in Agents, Crash(a) PROVE AttemptsBounded' /\ BudgetLeft'
  BY <1>8 DEF Crash, Agreement
<1>9. ASSUME NEW j \in Jobs, RetryJob(j) PROVE AttemptsBounded' /\ BudgetLeft'
  BY <1>9 DEF RetryJob, Click, TypeOK, Agreement
<1>10. ASSUME NEW js, Regenerate(js) PROVE AttemptsBounded' /\ BudgetLeft'
  BY <1>10 DEF Regenerate, Click, TypeOK, Agreement
<1>11. ASSUME NEW c \in Captures, DeleteCapture(c) PROVE AttemptsBounded' /\ BudgetLeft'
  BY <1>11 DEF DeleteCapture, AIJobsOf, Click, TypeOK, Agreement
<1>12. CASE UNCHANGED vars
  BY <1>12 DEF vars, Agreement
<1>13. QED
  BY StepKinds, <1>1, <1>2, <1>3, <1>4, <1>5, <1>6, <1>7, <1>8, <1>9, <1>10, <1>11, <1>12
     DEF RegenerateReadability, RegenerateAISummary

\* Only CommitReadability creates an AI job, for a capture that has its own.
LEMMA LineageStep ==
  ASSUME TypeOK, Agreement, [Next]_vars
  PROVE  Lineage'
<1> USE JobsAssumption DEF Jobs, Lineage
<1>1. ASSUME NEW c \in Captures, Ingest(c) PROVE Lineage'
  BY <1>1, KindsApart DEF Ingest, TypeOK, Agreement
<1>2. ASSUME NEW a \in Agents, NEW kind, Claim(a, kind) PROVE Lineage'
  BY <1>2 DEF Claim, Claimable, TypeOK, Agreement
<1>3. ASSUME NEW a \in Agents, NEW c \in Captures, CommitReadability(a, c) PROVE Lineage'
  <2>1. status[c] # "absent"
    BY <1>3 DEF CommitReadability, Working, Agreement, HolderAgrees
  <2>2. QED
    BY <1>3, <2>1, KindsApart DEF CommitReadability, TypeOK, Agreement
<1>4. ASSUME NEW a \in Agents, NEW j \in AIJobs, CommitAI(a, j) PROVE Lineage'
  <2>1. status[j] # "absent"
    BY <1>4 DEF CommitAI, Working, Agreement, HolderAgrees
  <2>2. QED
    BY <1>4, <2>1 DEF CommitAI, TypeOK, Agreement
<1>5. ASSUME NEW a \in Agents, NEW j \in Jobs, HandleFailure(a, j) PROVE Lineage'
  <2>1. status[j] # "absent"
    BY <1>5 DEF HandleFailure, Agreement, HolderAgrees
  <2>2. QED
    BY <1>5, <2>1 DEF HandleFailure, TypeOK, Agreement
<1>6. ASSUME NEW j \in Jobs, TimePasses(j) \/ RetryJob(j) PROVE Lineage'
  BY <1>6 DEF TimePasses, RetryJob, TypeOK, Agreement
<1>7. ASSUME NEW c \in Captures, RegenerateReadability(c) \/ RegenerateAISummary(c) PROVE Lineage'
  BY <1>7 DEF RegenerateReadability, RegenerateAISummary, Regenerate, AIJobsOf, TypeOK, Agreement
<1>8. ASSUME NEW c \in Captures, DeleteCapture(c) PROVE Lineage'
  BY <1>8 DEF DeleteCapture, AIJobsOf, TypeOK, Agreement
<1>9. CASE (\E a \in Agents : Crash(a) \/ \E j \in Jobs : AttemptFails(a, j)) \/ UNCHANGED vars
  BY <1>9 DEF Crash, AttemptFails, vars, Agreement
<1>10. QED
  BY StepKinds, <1>1, <1>2, <1>3, <1>4, <1>5, <1>6, <1>7, <1>8, <1>9

\* What an agent holds, its text aside.
HolderKeeps(b, i) ==
  held[b][i] # None =>
    /\ status[i] # "absent"
    /\ held[b][i].attempts < MaxAttempts + clicks
    /\ i \notin shared => status[i] # "failed" /\ \A o \in Agents : held[o][i] # None => o = b

\* Every step keeps that in agreement with the job tables.
LEMMA HoldersKeepStep ==
  ASSUME TypeOK, AttemptsBounded, Agreement, [Next]_vars, NEW b \in Agents, NEW i \in Jobs
  PROVE  HolderKeeps(b, i)'
<1> USE JobsAssumption DEF HolderKeeps
<1>a. clicks \in Nat /\ MaxAttempts \in Nat /\ \A a \in Agents, j \in Jobs : held[a][j] # None => held[a][j].attempts \in Nat
  BY DEF TypeOK, Claims
<1>b. \A a \in Agents, j \in Jobs : HolderKeeps(a, j)
  BY DEF Agreement, HolderAgrees
<1>1. ASSUME NEW c \in Captures, Ingest(c) PROVE HolderKeeps(b, i)'
  BY <1>1, <1>b DEF Ingest, Jobs, TypeOK
<1>2. ASSUME NEW j \in Jobs, TimePasses(j) PROVE HolderKeeps(b, i)'
  BY <1>2, <1>b DEF TimePasses
<1>3. ASSUME NEW a \in Agents, NEW kind, Claim(a, kind) PROVE HolderKeeps(b, i)'
  <2>1. CASE held'[b][i] = held[b][i]
    <3>1. CASE held[b][i] = None
      BY <2>1, <3>1
    <3>2. CASE held[b][i] # None
      <4>1. status'[i] = status[i] \/ (status[i] \in {"pending", "processing"} /\ status'[i] = "processing")
        BY <1>3 DEF Claim, Claimable, TypeOK
      <4>2. \A o \in Agents : held'[o][i] # held[o][i] => i \in shared'
        BY <1>3, <3>2 DEF Claim, Idle, TypeOK
      <4>3. shared \subseteq shared'
        BY <1>3 DEF Claim
      <4>4. QED
        BY <1>3, <1>b, <2>1, <3>2, <4>1, <4>2, <4>3 DEF Claim
    <3>3. QED
      BY <3>1, <3>2
  <2>2. CASE held'[b][i] # held[b][i]
    <3>1. /\ b = a /\ i \in Claimable \cap kind
          /\ held'[b][i] = [attempts |-> attempts[i], text |-> TextOf(i), failed |-> FALSE]
      <4>1. held' = [held EXCEPT ![a] = [j \in Jobs |->
                       IF j \in Claimable \cap kind
                       THEN [attempts |-> attempts[j], text |-> TextOf(j), failed |-> FALSE]
                       ELSE None]]
        BY <1>3, <2>2 DEF Claim
      <4>2. b = a
        BY <2>2, <4>1 DEF TypeOK
      <4>3. held[a][i] = None
        BY <1>3 DEF Claim, Idle
      <4>4. QED
        BY <2>2, <4>1, <4>2, <4>3 DEF TypeOK
    <3>2. status[i] \in {"pending", "processing"} /\ status'[i] = "processing" /\ attempts[i] < MaxAttempts + clicks
      BY <1>3, <3>1 DEF Claim, Claimable, TypeOK, Agreement, BudgetLeft
    <3>3. i \notin shared' => \A o \in Agents : held'[o][i] # None => o = b
      BY <1>3, <3>1 DEF Claim, TypeOK
    <3>4. QED
      BY <1>3, <3>1, <3>2, <3>3 DEF Claim
  <2>3. QED
    BY <2>1, <2>2
<1>4. ASSUME NEW a \in Agents, NEW c \in Captures, CommitReadability(a, c) PROVE HolderKeeps(b, i)'
  BY <1>4, <1>b, StillHeld DEF CommitReadability, Working, Jobs, TypeOK
<1>5. ASSUME NEW a \in Agents, NEW j \in AIJobs, CommitAI(a, j) PROVE HolderKeeps(b, i)'
  <2>1. held[a][j] # None /\ j \in Jobs
    BY <1>5 DEF CommitAI, Working, Jobs
  <2>2. \A o \in Agents : held'[o][i] # None => held[o][i] # None /\ held'[o][i].attempts = held[o][i].attempts
    BY <1>5, <2>1, StillHeld DEF CommitAI
  <2>3. status'[i] = status[i] \/ (status[i] \notin {"absent", "gone"} /\ status'[i] = "done")
    BY <1>5, <1>b, <2>1 DEF CommitAI, TypeOK
  <2>4. UNCHANGED <<attempts, clicks, shared>>
    BY <1>5 DEF CommitAI
  <2>5. QED
    BY <1>b, <2>2, <2>3, <2>4
<1>6. ASSUME NEW a \in Agents, NEW j \in Jobs, AttemptFails(a, j) PROVE HolderKeeps(b, i)'
  BY <1>6, <1>b, StillHeld DEF AttemptFails, Working, TypeOK
<1>7. ASSUME NEW a \in Agents, NEW j \in Jobs, HandleFailure(a, j) PROVE HolderKeeps(b, i)'
  BY <1>7, <1>b, StillHeld DEF HandleFailure, Release, TypeOK
<1>8. ASSUME NEW a \in Agents, Crash(a) PROVE HolderKeeps(b, i)'
  BY <1>8, <1>b DEF Crash, Idle, TypeOK
<1>9. ASSUME NEW j \in Jobs, RetryJob(j) PROVE HolderKeeps(b, i)'
  BY <1>9, <1>a, <1>b DEF RetryJob, Click, TypeOK
<1>10. ASSUME NEW c \in Captures, RegenerateReadability(c) \/ RegenerateAISummary(c) PROVE HolderKeeps(b, i)'
  BY <1>10, <1>a, <1>b DEF RegenerateReadability, RegenerateAISummary, Regenerate, AIJobsOf, Jobs, Click, TypeOK
<1>11. ASSUME NEW c \in Captures, DeleteCapture(c) PROVE HolderKeeps(b, i)'
  BY <1>11, <1>a, <1>b DEF DeleteCapture, AIJobsOf, Jobs, Click, TypeOK
<1>12. CASE UNCHANGED vars
  BY <1>12, <1>b DEF vars
<1>13. QED
  BY StepKinds, <1>1, <1>2, <1>3, <1>4, <1>5, <1>6, <1>7, <1>8, <1>9, <1>10, <1>11, <1>12

\* An agent whose text is outdated leaves the AI job of the new text to be begun.
TextAgrees(b, i) == Outdated(b, i) /\ capture[i] \notin crossed => NotBegun(capture[i])

\* A step that lets go of no job but one (or of none), and settles no other, keeps
\* what is not begun so.
LEMMA NotBegunKept ==
  ASSUME TypeOK, Agreement, NEW c \in Captures, NotBegun(c), NEW S \in SUBSET Jobs, text[c] \notin S,
         UNCHANGED <<capture, text>>,
         \A j \in Jobs \ S : status'[j] = status[j] \/ status'[j] \in {"pending", "processing"},
         \A o \in Agents, j \in Jobs : held'[o][j] # None => held[o][j] # None
  PROVE  NotBegun(c)'
<1>1. text[c] \in AIJobs /\ text[c] \in Jobs
  BY DEF NotBegun, AIJobsOf, Jobs
<1>2. status'[text[c]] \in {"pending", "processing"}
  BY <1>1 DEF NotBegun
<1>3. QED
  BY <1>1, <1>2 DEF NotBegun, AIJobsOf

\* Every step keeps the text that an agent holds in agreement with the job tables.
LEMMA TextStep ==
  ASSUME TypeOK, Agreement, [Next]_vars, NEW b \in Agents, NEW i \in AIJobs
  PROVE  TextAgrees(b, i)'
<1> USE JobsAssumption
<1> i \in Jobs
  BY DEF Jobs
<1>a. \A a \in Agents, j \in AIJobs : TextAgrees(a, j)
  BY DEF Agreement, HolderAgrees, TextAgrees, Outdated, Jobs
<1>b. \A j \in AIJobs : status[j] # "absent" => capture[j] \in Captures
  BY DEF Agreement, Lineage, TypeOK
<1>c. \A a \in Agents, j \in Jobs : held[a][j] # None => status[j] # "absent"
  BY DEF Agreement, HolderAgrees
<1>d. SUFFICES ASSUME Outdated(b, i)', capture'[i] \notin crossed'
               PROVE  NotBegun(capture[i])' /\ capture'[i] = capture[i]
  BY DEF TextAgrees
<1>1. ASSUME NEW S \in SUBSET Jobs, Outdated(b, i) => text[capture[i]] \notin S, UNCHANGED <<capture, text, crossed>>,
             \A j \in Jobs \ S : status'[j] = status[j] \/ status'[j] \in {"pending", "processing"},
             status'[i] # "gone" => status[i] # "gone",
             \A o \in Agents, j \in Jobs : held'[o][j] # None => held[o][j] # None /\ held'[o][j].text = held[o][j].text
      PROVE  NotBegun(capture[i])' /\ capture'[i] = capture[i]
  <2>1. Outdated(b, i) /\ capture[i] \notin crossed
    BY <1>1, <1>d DEF Outdated
  <2>2. NotBegun(capture[i]) /\ capture[i] \in Captures
    BY <2>1, <1>a, <1>b, <1>c DEF TextAgrees, Outdated
  <2>3. QED
    BY <1>1, <2>1, <2>2, NotBegunKept
<1>2. ASSUME NEW a \in Agents, NEW kind, Claim(a, kind)
      PROVE  NotBegun(capture[i])' /\ capture'[i] = capture[i]
  <2>1. UNCHANGED <<capture, text>> /\ crossed \subseteq crossed'
    BY <1>2 DEF Claim
  <2>2. CASE held'[b][i] = held[b][i]
    <3>1. Outdated(b, i) /\ capture[i] \notin crossed
      BY <2>1, <2>2, <1>2, <1>d DEF Outdated, Claim, Claimable, TypeOK
    <3>2. NotBegun(capture[i]) /\ capture[i] \in Captures
      BY <3>1, <1>a, <1>b, <1>c DEF TextAgrees, Outdated
    <3>3. i \in AIJobsOf(capture[i])
      BY <3>1 DEF AIJobsOf, Outdated
    <3>4. text[capture[i]] \notin Claimable \cap kind
      BY <1>2, <1>d, <2>1, <3>1, <3>2, <3>3 DEF Claim, NotBegun
    <3>5. \A o \in Agents : held'[o][text[capture[i]]] = None
      BY <1>2, <3>2, <3>4 DEF Claim, Idle, NotBegun, AIJobsOf, Jobs, TypeOK
    <3>6. status'[text[capture[i]]] = status[text[capture[i]]]
      BY <1>2, <3>2, <3>4 DEF Claim, NotBegun, AIJobsOf, Jobs, TypeOK
    <3>7. QED
      BY <2>1, <3>2, <3>5, <3>6 DEF NotBegun, AIJobsOf
  <2>3. CASE held'[b][i] # held[b][i]
    <3>1. held' = [held EXCEPT ![a] = [j \in Jobs |->
                     IF j \in Claimable \cap kind
                     THEN [attempts |-> attempts[j], text |-> TextOf(j), failed |-> FALSE]
                     ELSE None]]
      BY <1>2, <2>3 DEF Claim
    <3>2. held'[b][i] # None => held'[b][i].text = text[capture[i]]
      BY <1>2, <2>3, <3>1 DEF Claim, Idle, TextOf, TypeOK
    <3>3. QED
      BY <1>d, <2>1, <3>2 DEF Outdated
  <2>4. QED
    BY <2>2, <2>3
<1>3. ASSUME NEW a \in Agents, NEW c \in Captures, CommitReadability(a, c)
      PROVE  NotBegun(capture[i])' /\ capture'[i] = capture[i]
  <2>1. PICK k \in AIJobs : /\ status[k] = "absent"
                            /\ status' = [status EXCEPT ![c] = "done", ![k] = "pending"]
                            /\ capture' = [capture EXCEPT ![k] = c]
                            /\ text' = [text EXCEPT ![c] = k]
    BY <1>3 DEF CommitReadability
  <2>2. \A o \in Agents, j \in Jobs : held'[o][j] # None => held[o][j] # None /\ held'[o][j].text = held[o][j].text
    BY <1>3, StillHeld DEF CommitReadability, Working, Jobs
  <2>3. held[b][i] # None /\ status[i] # "absent" /\ i # k /\ i # c
    BY <1>c, <1>d, <2>1, <2>2, KindsApart DEF Outdated
  <2>4. capture'[i] = capture[i] /\ capture[i] \in Captures /\ status'[i] = status[i] /\ UNCHANGED crossed
    BY <1>3, <1>b, <2>1, <2>3, KindsApart DEF CommitReadability, TypeOK
  <2>5. CASE capture[i] = c
    <3>1. \A o \in Agents : held'[o][k] = None
      BY <1>c, <2>1, <2>2 DEF Jobs
    <3>2. text'[c] = k /\ status'[k] = "pending" /\ capture'[k] = c
      BY <2>1, KindsApart DEF Jobs, TypeOK
    <3>3. QED
      BY <2>4, <2>5, <3>1, <3>2 DEF NotBegun, AIJobsOf
  <2>6. CASE capture[i] # c
    <3>1. text'[capture[i]] = text[capture[i]]
      BY <2>1, <2>4, <2>6 DEF TypeOK
    <3>2. Outdated(b, i) /\ capture[i] \notin crossed
      BY <1>d, <2>2, <2>3, <2>4, <3>1 DEF Outdated
    <3>3. NotBegun(capture[i])
      BY <3>2, <1>a DEF TextAgrees
    <3>4. text[capture[i]] # k /\ text[capture[i]] # c /\ text[capture[i]] \in AIJobs
      BY <3>3, <2>1, KindsApart DEF NotBegun, AIJobsOf
    <3>5. QED
      BY <2>1, <2>2, <2>4, <3>1, <3>3, <3>4 DEF NotBegun, AIJobsOf, Jobs, TypeOK
  <2>7. QED
    BY <2>5, <2>6
<1>4. ASSUME NEW a \in Agents, NEW j \in AIJobs, CommitAI(a, j)
      PROVE  NotBegun(capture[i])' /\ capture'[i] = capture[i]
  <2>1. held[a][j] # None /\ j \in Jobs
    BY <1>4 DEF CommitAI, Working, Jobs
  <2>2. \A o \in Agents, k \in Jobs : held'[o][k] # None => held[o][k] # None /\ held'[o][k].text = held[o][k].text
    BY <1>4, <2>1, StillHeld DEF CommitAI
  <2>3. UNCHANGED <<capture, text, crossed>> /\ \A k \in Jobs \ {j} : status'[k] = status[k]
    BY <1>4 DEF CommitAI, TypeOK
  <2>4. status'[i] # "gone" => status[i] # "gone"
    BY <1>4, <2>3 DEF CommitAI
  <2>5. ASSUME Outdated(b, i) PROVE text[capture[i]] # j
    <3>1. NotBegun(capture[i])
      BY <1>a, <1>d, <2>3, <2>5 DEF TextAgrees
    <3>2. QED
      BY <2>1, <3>1 DEF NotBegun
  <2> DEFINE S == {j}
  <2>6. /\ S \in SUBSET Jobs /\ (Outdated(b, i) => text[capture[i]] \notin S)
        /\ \A k \in Jobs \ S : status'[k] = status[k] \/ status'[k] \in {"pending", "processing"}
        /\ UNCHANGED <<capture, text, crossed>>
    BY <2>1, <2>3, <2>5
  <2>7. QED
    <3> HIDE DEF S
    <3> QED
      BY <1>1, <2>2, <2>4, <2>6
<1>5. ASSUME NEW a \in Agents, NEW j \in Jobs, AttemptFails(a, j) \/ HandleFailure(a, j)
      PROVE  NotBegun(capture[i])' /\ capture'[i] = capture[i]
  <2>1. held[a][j] # None
    BY <1>5 DEF AttemptFails, HandleFailure, Working
  <2>2. \A o \in Agents, k \in Jobs : held'[o][k] # None => held[o][k] # None /\ held'[o][k].text = held[o][k].text
    BY <1>5, <2>1, StillHeld DEF AttemptFails, HandleFailure
  <2>3. UNCHANGED <<capture, text, crossed>> /\ \A k \in Jobs \ {j} : status'[k] = status[k]
    BY <1>5 DEF AttemptFails, HandleFailure, TypeOK
  <2>4. status'[i] # "gone" => status[i] # "gone"
    BY <1>5, <2>3 DEF AttemptFails, HandleFailure
  <2>5. ASSUME Outdated(b, i) PROVE text[capture[i]] # j
    <3>1. NotBegun(capture[i])
      BY <1>a, <1>d, <2>3, <2>5 DEF TextAgrees
    <3>2. QED
      BY <2>1, <3>1 DEF NotBegun
  <2> DEFINE S == {j}
  <2>6. /\ S \in SUBSET Jobs /\ (Outdated(b, i) => text[capture[i]] \notin S)
        /\ \A k \in Jobs \ S : status'[k] = status[k] \/ status'[k] \in {"pending", "processing"}
        /\ UNCHANGED <<capture, text, crossed>>
    BY <2>1, <2>3, <2>5
  <2>7. QED
    <3> HIDE DEF S
    <3> QED
      BY <1>1, <2>2, <2>4, <2>6
<1>6. ASSUME NEW c \in Captures, Ingest(c) PROVE NotBegun(capture[i])' /\ capture'[i] = capture[i]
  <2>1. \A j \in Jobs : status'[j] = status[j] \/ status'[j] \in {"pending", "processing"}
    BY <1>6 DEF Ingest, TypeOK
  <2>2. status'[i] = status[i]
    BY <1>6, KindsApart DEF Ingest, TypeOK
  <2>3. QED
    BY <1>6, <1>1, <2>1, <2>2 DEF Ingest
<1>7. ASSUME NEW j \in Jobs, TimePasses(j) \/ RetryJob(j) PROVE NotBegun(capture[i])' /\ capture'[i] = capture[i]
  <2>1. \A k \in Jobs : status'[k] = status[k] \/ (status[k] = "failed" /\ status'[k] = "pending")
    BY <1>7 DEF TimePasses, RetryJob, TypeOK
  <2>2. QED
    BY <1>7, <1>1, <2>1 DEF TimePasses, RetryJob
<1>8. ASSUME NEW c \in Captures, RegenerateReadability(c) \/ RegenerateAISummary(c)
      PROVE  NotBegun(capture[i])' /\ capture'[i] = capture[i]
  <2>1. PICK js : Regenerate(js) /\ \A k \in js : status[k] # "gone"
    BY <1>8 DEF RegenerateReadability, RegenerateAISummary, AIJobsOf
  <2>2. \A k \in Jobs : status'[k] = status[k] \/ (status[k] # "gone" /\ status'[k] = "pending")
    BY <2>1 DEF Regenerate
  <2>3. QED
    BY <2>1, <2>2, <1>1 DEF Regenerate
<1>9. ASSUME NEW c \in Captures, DeleteCapture(c) PROVE NotBegun(capture[i])' /\ capture'[i] = capture[i]
  <2>1. /\ status' = [k \in Jobs |-> IF k \in {c} \cup AIJobsOf(c) THEN "gone" ELSE status[k]]
        /\ UNCHANGED <<capture, text, crossed, held>>
    BY <1>9 DEF DeleteCapture
  <2>2. capture[i] # c /\ Outdated(b, i)
    BY <1>d, <2>1 DEF Outdated, AIJobsOf
  <2>3. text[capture[i]] \notin {c} \cup AIJobsOf(c)
    BY <1>a, <1>d, <2>1, <2>2, KindsApart DEF TextAgrees, NotBegun, AIJobsOf
  <2>4. QED
    BY <1>1, <2>1, <2>2, <2>3 DEF AIJobsOf, Jobs
<1>10. CASE (\E a \in Agents : Crash(a)) \/ UNCHANGED vars
  <2>1. UNCHANGED <<status, capture, text, crossed>>
    BY <1>10 DEF Crash, vars
  <2>2. \A o \in Agents, j \in Jobs : held'[o][j] # None => held'[o][j] = held[o][j]
    BY <1>10 DEF Crash, Idle, TypeOK, vars
  <2>3. QED
    BY <1>1, <2>1, <2>2
<1>11. QED
  BY StepKinds, <1>2, <1>3, <1>4, <1>5, <1>6, <1>7, <1>8, <1>9, <1>10 DEF RegenerateReadability, RegenerateAISummary

\* Every step keeps what agents hold in agreement with the job tables.
LEMMA HoldersStep ==
  ASSUME TypeOK, AttemptsBounded, Agreement, [Next]_vars, NEW b \in Agents, NEW i \in Jobs
  PROVE  HolderAgrees(b, i)'
BY HoldersKeepStep, TextStep DEF HolderKeeps, TextAgrees, HolderAgrees

\* Every step keeps jobs and agents in agreement.
LEMMA AgreementStep == TypeOK /\ AttemptsBounded /\ Agreement /\ [Next]_vars => Agreement'
BY BudgetStep, LineageStep, HoldersStep DEF Agreement

\* Every step keeps a finished summary that of the current text.
LEMMA SummaryStep ==
  ASSUME TypeOK, Agreement, SummaryIsCurrent, [Next]_vars
  PROVE  SummaryIsCurrent'
<1> USE JobsAssumption DEF SummaryIsCurrent, AIJobsOf
<1>1. ASSUME NEW c \in Captures, Ingest(c) PROVE SummaryIsCurrent'
  BY <1>1, KindsApart DEF Ingest, Jobs, TypeOK, Agreement, Lineage
<1>2. ASSUME NEW a \in Agents, NEW kind, Claim(a, kind) PROVE SummaryIsCurrent'
  BY <1>2 DEF Claim, Claimable, Jobs, TypeOK
<1>3. ASSUME NEW a \in Agents, NEW c \in Captures, CommitReadability(a, c) PROVE SummaryIsCurrent'
  <2>1. PICK j \in AIJobs : /\ status[j] = "absent"
                            /\ status' = [status EXCEPT ![c] = "done", ![j] = "pending"]
                            /\ capture' = [capture EXCEPT ![j] = c]
                            /\ text' = [text EXCEPT ![c] = j]
    BY <1>3 DEF CommitReadability
  <2>2. capture[j] = None
    BY <2>1 DEF Agreement, Lineage
  <2>3. status[c] \notin {"absent", "gone"} /\ UNCHANGED summary /\ crossed \subseteq crossed'
    BY <1>3 DEF CommitReadability, Working, Jobs, Agreement, HolderAgrees
  <2>4. ASSUME NEW d \in Captures \ crossed', d # c PROVE SummaryIsCurrent!(d)'
    BY <2>1, <2>2, <2>3, <2>4, KindsApart DEF Jobs, TypeOK
  <2>5. \E i \in AIJobsOf(c)' : status'[i] # "done"
    BY <2>1, KindsApart DEF Jobs, TypeOK
  <2>6. QED
    BY <2>4, <2>5
<1>4. ASSUME NEW a \in Agents, NEW j \in AIJobs, CommitAI(a, j) PROVE SummaryIsCurrent'
  <2>1. CASE status[j] = "gone"
    BY <1>4, <2>1 DEF CommitAI
  <2>2. CASE status[j] # "gone"
    <3>1. status[j] # "absent" /\ capture[j] \in Captures
      BY <1>4 DEF CommitAI, Working, Jobs, TypeOK, Agreement, Lineage, HolderAgrees
    <3>2. capture[j] \notin crossed => held[a][j].text = text[capture[j]] \/ NotBegun(capture[j])
      BY <1>4, <2>2 DEF CommitAI, Working, Outdated, Jobs, Agreement, HolderAgrees
    <3>3. /\ status' = [status EXCEPT ![j] = "done"]
          /\ summary' = [summary EXCEPT ![capture[j]] = held[a][j].text]
          /\ UNCHANGED <<capture, text, crossed>>
      BY <1>4, <2>2 DEF CommitAI
    <3>4. NotBegun(capture[j]) => \E k \in AIJobsOf(capture[j])' : status'[k] # "done"
      <4>1. NotBegun(capture[j]) => text[capture[j]] \in AIJobs \ {j}
        BY <1>4 DEF NotBegun, CommitAI, Working
      <4>2. QED
        BY <3>3, <4>1 DEF NotBegun, Jobs, TypeOK
    <3>5. ASSUME NEW d \in Captures \ crossed', d # capture[j] PROVE SummaryIsCurrent!(d)'
      BY <3>1, <3>3, <3>5, KindsApart DEF Jobs, TypeOK
    <3>6. ASSUME capture[j] \notin crossed PROVE SummaryIsCurrent!(capture[j])'
      <4>1. CASE NotBegun(capture[j])
        BY <3>4, <4>1
      <4>2. CASE held[a][j].text = text[capture[j]]
        BY <3>1, <3>3, <4>2 DEF TypeOK
      <4>3. QED
        BY <3>2, <3>6, <4>1, <4>2
    <3>7. QED
      BY <3>1, <3>3, <3>5, <3>6
  <2>3. QED
    BY <2>1, <2>2
<1>5. ASSUME NEW a \in Agents, NEW j \in Jobs, HandleFailure(a, j) PROVE SummaryIsCurrent'
  <2>1. status[j] # "absent"
    BY <1>5 DEF HandleFailure, Agreement, HolderAgrees
  <2>2. UNCHANGED status \/ \E r \in {"failed", "pending"} : status[j] # "gone" /\ status' = [status EXCEPT ![j] = r]
    BY <1>5 DEF HandleFailure
  <2>3. UNCHANGED <<capture, text, summary, crossed>>
    BY <1>5 DEF HandleFailure
  <2>4. QED
    BY <2>1, <2>2, <2>3 DEF Jobs, TypeOK
<1>6. ASSUME NEW j \in Jobs, TimePasses(j) \/ RetryJob(j) PROVE SummaryIsCurrent'
  <2>1. UNCHANGED status \/ (status[j] = "failed" /\ status' = [status EXCEPT ![j] = "pending"])
    BY <1>6 DEF TimePasses, RetryJob
  <2>2. UNCHANGED <<capture, text, summary, crossed>>
    BY <1>6 DEF TimePasses, RetryJob
  <2>3. QED
    BY <2>1, <2>2 DEF Jobs, TypeOK
<1>7. ASSUME NEW c \in Captures, RegenerateReadability(c) PROVE SummaryIsCurrent'
  BY <1>7, KindsApart DEF RegenerateReadability, Regenerate, Jobs, TypeOK
<1>8. ASSUME NEW c \in Captures, RegenerateAISummary(c) PROVE SummaryIsCurrent'
  BY <1>8, KindsApart DEF RegenerateAISummary, Regenerate, Jobs, TypeOK
<1>9. ASSUME NEW c \in Captures, DeleteCapture(c) PROVE SummaryIsCurrent'
  <2>1. status' = [i \in Jobs |-> IF i \in {c} \cup AIJobsOf(c) THEN "gone" ELSE status[i]]
    BY <1>9 DEF DeleteCapture
  <2>2. UNCHANGED <<capture, text, summary, crossed>>
    BY <1>9 DEF DeleteCapture
  <2>3. \A i \in Jobs : status'[i] = status[i] \/ status'[i] = "gone"
    BY <2>1
  <2>4. \A d \in Captures \ {c}, i \in AIJobs : capture[i] = d => status'[i] = status[i]
    BY <2>1, KindsApart DEF Jobs
  <2>5. status'[c] = "gone" /\ \A d \in Captures \ {c} : status'[d] = status[d]
    BY <2>1, KindsApart DEF Jobs
  <2>6. QED
    BY <2>2, <2>4, <2>5
<1>10. CASE (\E a \in Agents : Crash(a) \/ \E j \in Jobs : AttemptFails(a, j)) \/ UNCHANGED vars
  BY <1>10 DEF Crash, AttemptFails, vars
<1>11. QED
  BY StepKinds, <1>1, <1>2, <1>3, <1>4, <1>5, <1>6, <1>7, <1>8, <1>9, <1>10

\* Nothing has begun.
LEMMA InitHolds == Init => AgentsInv
BY JobsAssumption, KindsApart
   DEF Init, Idle, AgentsInv, TypeOK, AttemptsBounded, SummaryIsCurrent, AIJobsOf, Agreement, BudgetLeft,
       Lineage, HolderAgrees, Jobs, AIJobs

\* handleFailure, commitDone: attempts stay within the budget and a finished
\* summary is of the text that the capture has, for any number of agents whose
\* claims overlap, crash, or commit without learning of it.
THEOREM Overlaps == Spec => []AgentsInv
<1>1. AgentsInv /\ [Next]_vars => AgentsInv'
  BY TypeStep, AgreementStep, BudgetStep, SummaryStep DEF AgentsInv
<1>2. QED
  BY InitHolds, <1>1, PTL DEF Spec

\* A step that takes a job out of failed is the user's, when no two agents have
\* worked on it at a time.
LEMMA RevivalStep ==
  ASSUME Agreement, TypeOK, [Next]_vars, NEW j \in Jobs \ shared, status[j] = "failed", status'[j] # "failed"
  PROVE  Dashboard
<1>1. \A a \in Agents : held[a][j] = None
  BY DEF Agreement, HolderAgrees
<1>2. ~ (\E c \in Captures : Ingest(c))
  BY DEF Ingest, Jobs, TypeOK
<1>3. ~ (\E i \in Jobs : TimePasses(i)) /\ ~ (\E a \in Agents : Crash(a)) /\ ~ UNCHANGED vars
  BY DEF TimePasses, Crash, vars
<1>4. ~ (\E a \in Agents : Claim(a, Captures) \/ Claim(a, AIJobs))
  BY DEF Claim, Claimable, TypeOK
<1>5. ~ (\E a \in Agents, c \in Captures : CommitReadability(a, c))
  BY <1>1 DEF CommitReadability, Working, Jobs, TypeOK
<1>6. ~ (\E a \in Agents, i \in AIJobs : CommitAI(a, i))
  BY <1>1 DEF CommitAI, Working, Jobs, TypeOK
<1>7. ~ (\E a \in Agents, i \in Jobs : AttemptFails(a, i) \/ HandleFailure(a, i))
  BY <1>1 DEF AttemptFails, HandleFailure, TypeOK
<1>8. QED
  BY StepKinds, <1>2, <1>3, <1>4, <1>5, <1>6, <1>7 DEF Dashboard

\* failed is the dead letter queue: no agent revives a failed job, unless two
\* agents came to work on it at a time.
THEOREM Revival == Spec => FailedIsFinal
<1>1. AgentsInv /\ [Next]_vars =>
        [\A j \in Jobs \ shared : status[j] = "failed" /\ status'[j] # "failed" => Dashboard]_vars
  BY RevivalStep DEF AgentsInv
<1>2. QED
  BY Overlaps, <1>1, PTL DEF Spec, FailedIsFinal

=============================================================================
