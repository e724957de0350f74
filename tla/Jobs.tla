-------------------------------- MODULE Jobs --------------------------------
(***************************************************************************)
(* The enrichment pipeline of a capture: its readability job extracts the  *)
(* reader text and creates an AI job, which summarizes that text.  The     *)
(* claim, retry and backoff of the two runners (and of the screenshot one, *)
(* which has no successor) are the same: rows of a job table in Postgres,  *)
(* claimed in batches and worked on concurrently, an attempt's last step   *)
(* writing the row whatever has become of it meanwhile.                    *)
(*                                                                         *)
(* Abstracted: the text (each extraction, numbered as the AI job it        *)
(* creates, may differ from the last), the summary (the text it was made   *)
(* from), the tags, and clock time (a job is due or is not yet).  An AI    *)
(* job never finds the text empty: the job comes with a text, and nothing  *)
(* takes a text away, so failPermanently is only reached on the last try.  *)
(***************************************************************************)
EXTENDS Naturals

CONSTANTS
  Captures,     \* the readability job of a capture is written as the capture
  Agents,       \* backend agent processes
  MaxAttempts,  \* readability_max_attempts, ai_max_attempts
  MaxAIJobs,    \* bound: ai_jobs rows ever created
  MaxClicks,    \* bound: requests of the user
  MaxFaults,    \* bound: crashes and failed calls to Postgres
  None          \* no row

AIJobs == 1..MaxAIJobs
Jobs == Captures \cup AIJobs

ASSUME JobsAssumption ==
  /\ Captures \cap Nat = {}
  /\ MaxAttempts \in Nat \ {0}
  /\ MaxAIJobs \in Nat
  /\ MaxClicks \in Nat /\ MaxFaults \in Nat
  /\ None \notin Captures

VARIABLES
  status,    \* of a job, "absent" before and "gone" after its row exists
  attempts,  \* of a job
  due,       \* next_attempt_at has come, or claimed_at is 15 minutes ago
  capture,   \* the capture of an AI job
  text,      \* captures.reader_text
  summary,   \* captures.ai_summary
  held,      \* what an agent knows of a job that it works on
  clicks,    \* requests of the user so far
  faults,    \* crashes and failed calls so far
  shared,    \* history: jobs that two agents worked on at a time
  crossed    \* history: captures summarized from an old text and a new one at a time

jobVars == <<status, attempts, due, capture>>
captureVars == <<text, summary>>
countVars == <<clicks, faults>>
historyVars == <<shared, crossed>>
vars == <<jobVars, captureVars, held, countVars, historyVars>>

Claims == [attempts : Nat, text : 0..MaxAIJobs, failed : BOOLEAN]

TypeOK ==
  /\ status \in [Jobs -> {"absent", "pending", "processing", "done", "failed", "gone"}]
  /\ attempts \in [Jobs -> Nat]
  /\ due \in [Jobs -> BOOLEAN]
  /\ capture \in [AIJobs -> Captures \cup {None}]
  /\ text \in [Captures -> 0..MaxAIJobs]
  /\ summary \in [Captures -> 0..MaxAIJobs]
  /\ held \in [Agents -> [Jobs -> Claims \cup {None}]]
  /\ clicks \in 0..MaxClicks
  /\ faults \in 0..MaxFaults
  /\ shared \in SUBSET Jobs
  /\ crossed \in SUBSET Captures

Idle == [j \in Jobs |-> None]

Init ==
  /\ status = [j \in Jobs |-> "absent"]
  /\ attempts = [j \in Jobs |-> 0]
  /\ due = [j \in Jobs |-> TRUE]
  /\ capture = [j \in AIJobs |-> None]
  /\ text = [c \in Captures |-> 0]
  /\ summary = [c \in Captures |-> 0]
  /\ held = [a \in Agents |-> Idle]
  /\ clicks = 0
  /\ faults = 0
  /\ shared = {}
  /\ crossed = {}

AIJobsOf(c) == {j \in AIJobs : capture[j] = c /\ status[j] # "gone"}

Fault == faults < MaxFaults /\ faults' = faults + 1
Click == clicks < MaxClicks /\ clicks' = clicks + 1

-----------------------------------------------------------------------------
(* The captures row comes with its readability job (see Ingest), and takes *)
(* all its jobs with it by ON DELETE CASCADE.                              *)

Ingest(c) ==
  /\ status[c] = "absent"
  /\ status' = [status EXCEPT ![c] = "pending"]
  /\ UNCHANGED <<attempts, due, capture, captureVars, held, countVars, historyVars>>

DeleteCapture(c) ==
  /\ status[c] \notin {"absent", "gone"}
  /\ Click
  /\ status' = [j \in Jobs |-> IF j \in {c} \cup AIJobsOf(c) THEN "gone" ELSE status[j]]
  /\ UNCHANGED <<attempts, due, capture, captureVars, held, faults, historyVars>>

\* A backoff ends, or a claim goes stale.
TimePasses(j) ==
  /\ status[j] \in {"pending", "processing"}
  /\ ~due[j]
  /\ due' = [due EXCEPT ![j] = TRUE]
  /\ UNCHANGED <<status, attempts, capture, captureVars, held, countVars, historyVars>>

-----------------------------------------------------------------------------
(* RunOnce.                                                                *)

\* Mutants: failed jobs are claimed too; a claim is never taken over.
ClaimableFailed == {j \in Jobs : status[j] \in {"pending", "processing", "failed"} /\ due[j]}
ClaimablePending == {j \in Jobs : status[j] = "pending" /\ due[j]}

Claimable == {j \in Jobs : status[j] \in {"pending", "processing"} /\ due[j]}

\* An agent works on a text that has been extracted anew since it was read.
Outdated(a, j) == held[a][j] # None /\ status[j] # "gone" /\ held[a][j].text # text[capture[j]]

TextOf(j) == IF j \in AIJobs THEN text[capture[j]] ELSE 0

\* ClaimDueReadabilityJobs or ClaimDueAIJobs, of which an agent runs one after
\* the other has returned.  The batch limit is above the number of jobs here.
\* If the answer is lost the jobs stay claimed and nobody works on them.
Claim(a, kind) ==
  LET b == Claimable \cap kind IN
  /\ held[a] = Idle
  /\ b # {}
  /\ status' = [j \in Jobs |-> IF j \in b THEN "processing" ELSE status[j]]
  /\ due' = [j \in Jobs |-> j \notin b /\ due[j]]
  /\ shared' = shared \cup {j \in b : \E o \in Agents : held[o][j] # None}
  /\ crossed' = crossed \cup {c \in Captures : /\ b \cap AIJobsOf(c) # {}
                                             /\ \E o \in Agents, j \in AIJobsOf(c) : Outdated(o, j)}
  /\ \/ /\ held' = [held EXCEPT ![a] = [j \in Jobs |->
                      IF j \in b
                      THEN [attempts |-> attempts[j], text |-> TextOf(j), failed |-> FALSE]
                      ELSE None]]
        /\ UNCHANGED faults
     \/ /\ Fault
        /\ UNCHANGED held
  /\ UNCHANGED <<attempts, capture, captureVars, clicks>>

Working(a, j) == held[a][j] # None /\ ~held[a][j].failed

Release(a, j) == held' = [held EXCEPT ![a][j] = None]

ToFailure(a, j) == held' = [held EXCEPT ![a][j].failed = TRUE]

\* Reading the archive, the sidecar, the model or a transaction fails.
AttemptFails(a, j) ==
  /\ Working(a, j)
  /\ ToFailure(a, j)
  /\ UNCHANGED <<jobVars, captureVars, countVars, historyVars>>

\* A COMMIT that took effect may be reported as failed.
Reported(a, j) ==
  \/ Release(a, j) /\ UNCHANGED faults
  \/ ToFailure(a, j) /\ Fault

\* Mutant: the AI job of a capture is created only once.
CommitReadabilityOnce(a, c) ==
  /\ Working(a, c)
  /\ status[c] # "gone"
  /\ \E j \in AIJobs :
       /\ status[j] = "absent"
       /\ \A i \in 1..(j - 1) : status[i] # "absent"
       /\ IF AIJobsOf(c) = {}
          THEN /\ status' = [status EXCEPT ![c] = "done", ![j] = "pending"]
               /\ capture' = [capture EXCEPT ![j] = c]
          ELSE /\ status' = [status EXCEPT ![c] = "done"]
               /\ UNCHANGED capture
       /\ text' = [text EXCEPT ![c] = j]
  /\ Reported(a, c)
  /\ UNCHANGED <<attempts, due, summary, clicks, historyVars>>

\* readability.commitDone: the text, the job and a new AI job, in one
\* transaction.  When the capture is gone the foreign key of ai_jobs fails it.
CommitReadability(a, c) ==
  /\ Working(a, c)
  /\ status[c] # "gone"
  /\ \E j \in AIJobs :
       /\ status[j] = "absent"
       /\ \A i \in 1..(j - 1) : status[i] # "absent"
       /\ status' = [status EXCEPT ![c] = "done", ![j] = "pending"]
       /\ capture' = [capture EXCEPT ![j] = c]
       /\ text' = [text EXCEPT ![c] = j]
  /\ Reported(a, c)
  /\ UNCHANGED <<attempts, due, summary, clicks, historyVars>>

\* ai.commitDone: the summary and the job.  Rows that are gone are not missed.
CommitAI(a, j) ==
  /\ Working(a, j)
  /\ IF status[j] = "gone"
     THEN UNCHANGED <<status, summary>>
     ELSE /\ status' = [status EXCEPT ![j] = "done"]
          /\ summary' = [summary EXCEPT ![capture[j]] = held[a][j].text]
  /\ Reported(a, j)
  /\ UNCHANGED <<attempts, due, capture, text, clicks, historyVars>>

\* Mutant: > instead of >=.
HandleFailureLate(a, j) ==
  LET n == held[a][j].attempts + 1 IN
  /\ held[a][j] # None
  /\ held[a][j].failed
  /\ status[j] # "gone"
  /\ Release(a, j)
  /\ status' = [status EXCEPT ![j] = IF n > MaxAttempts THEN "failed" ELSE "pending"]
  /\ attempts' = [attempts EXCEPT ![j] = n]
  /\ due' = [due EXCEPT ![j] = n > MaxAttempts /\ @]
  /\ UNCHANGED <<capture, captureVars, countVars, historyVars>>

\* handleFailure counts from the attempts read by the claim.  A failure to
\* write is logged, and the job is left to its claim's going stale.
HandleFailure(a, j) ==
  LET n == held[a][j].attempts + 1 IN
  /\ held[a][j] # None
  /\ held[a][j].failed
  /\ Release(a, j)
  /\ \/ /\ status[j] # "gone"
        /\ status' = [status EXCEPT ![j] = IF n >= MaxAttempts THEN "failed" ELSE "pending"]
        /\ attempts' = [attempts EXCEPT ![j] = n]
        /\ due' = [due EXCEPT ![j] = n >= MaxAttempts /\ @]
        /\ UNCHANGED faults
     \/ /\ status[j] = "gone"
        /\ UNCHANGED <<status, attempts, due, faults>>
     \/ /\ Fault
        /\ UNCHANGED <<status, attempts, due>>
  /\ UNCHANGED <<capture, captureVars, clicks, historyVars>>

\* The process dies, or is told to stop and drops what it was doing.
Crash(a) ==
  /\ held[a] # Idle
  /\ Fault
  /\ held' = [held EXCEPT ![a] = Idle]
  /\ UNCHANGED <<jobVars, captureVars, clicks, historyVars>>

-----------------------------------------------------------------------------
(* The dashboard.                                                          *)

\* POST /api/jobs/{kind}/{id}/retry leaves attempts as they are.
RetryJob(j) ==
  /\ status[j] = "failed"
  /\ Click
  /\ status' = [status EXCEPT ![j] = "pending"]
  /\ due' = [due EXCEPT ![j] = TRUE]
  /\ UNCHANGED <<attempts, capture, captureVars, held, faults, historyVars>>

Regenerate(js) ==
  /\ js # {}
  /\ Click
  /\ status' = [j \in Jobs |-> IF j \in js THEN "pending" ELSE status[j]]
  /\ attempts' = [j \in Jobs |-> IF j \in js THEN 0 ELSE attempts[j]]
  /\ due' = [j \in Jobs |-> j \in js \/ due[j]]
  /\ UNCHANGED <<capture, captureVars, held, faults, historyVars>>

RegenerateReadability(c) == status[c] \notin {"absent", "gone"} /\ Regenerate({c})

\* The UPDATE goes by capture_id, so all AI jobs of the capture are reset.
RegenerateAISummary(c) == Regenerate(AIJobsOf(c))

-----------------------------------------------------------------------------
Dashboard ==
  \/ \E j \in Jobs : RetryJob(j)
  \/ \E c \in Captures : RegenerateReadability(c) \/ RegenerateAISummary(c) \/ DeleteCapture(c)

\* The two runners, of which runLocalCycle runs one after the other.
RunReadability(a) ==
  \/ Claim(a, Captures)
  \/ \E c \in Captures : CommitReadability(a, c) \/ AttemptFails(a, c) \/ HandleFailure(a, c)

RunAI(a) ==
  \/ Claim(a, AIJobs)
  \/ \E j \in AIJobs : CommitAI(a, j) \/ AttemptFails(a, j) \/ HandleFailure(a, j)

RunOnce(a) == RunReadability(a) \/ RunAI(a)

Agent(a) == RunOnce(a) \/ Crash(a)

Next ==
  \/ \E c \in Captures : Ingest(c)
  \/ \E j \in Jobs : TimePasses(j)
  \/ \E a \in Agents : Agent(a)
  \/ Dashboard

Spec == Init /\ [][Next]_vars

-----------------------------------------------------------------------------
\* The budget of attempts holds: the user's requests for one more try are all
\* that may exceed it, whichever runs of the job overlap.
AttemptsBounded == \A j \in Jobs : attempts[j] <= MaxAttempts + clicks

\* A failed job is the dead letter queue: no agent revives it, only the user
\* does, unless two agents came to work on it at a time.
FailedIsFinal ==
  [][\A j \in Jobs \ shared :
       status[j] = "failed" /\ status'[j] # "failed" => Dashboard]_vars

Settled(j) == status[j] \notin {"pending", "processing"}

\* commitDone of both runners: when all AI jobs of a capture are done its summary is
\* of the reader text it has now, although a job reads the text when it is claimed,
\* a commit may be reported as failed, and the text may be extracted again at any
\* time, also while it is being summarized.  Left out is a capture of which two
\* agents summarize an old text and the new one at a time: the old may land last.
\* That a regenerated text brings a new summary is more than the comment of
\* RegenerateReadability promises, "a stale AI summary is left exactly as stale".
SummaryIsCurrent ==
  \A c \in Captures \ crossed :
    /\ status[c] \notin {"absent", "gone"}
    /\ AIJobsOf(c) # {}
    /\ \A j \in AIJobsOf(c) : status[j] = "done"
    => summary[c] = text[c]

\* A job that is not settled has an attempt left.
BudgetLeft ==
  \A j \in Jobs : status[j] \in {"absent", "pending", "processing"} => attempts[j] < MaxAttempts + clicks

\* The AI jobs of a capture come after its readability job.
Lineage ==
  /\ \A j \in AIJobs : status[j] = "absent" <=> capture[j] = None
  /\ \A c \in Captures : status[c] = "absent" => \A j \in AIJobs : capture[j] # c

\* The AI job that came with the capture's present text waits for its first agent.
NotBegun(c) ==
  LET newest == text[c] IN
  /\ newest \in AIJobsOf(c)
  /\ status[newest] \in {"pending", "processing"}
  /\ \A a \in Agents : held[a][newest] = None

\* What an agent knows of a job that it works on: it has an attempt left; one that
\* holds a job alone has not failed it; and if the text it read is outdated, the AI
\* job that came with the new text has not been begun.
HolderAgrees(a, j) ==
  held[a][j] # None =>
    /\ status[j] # "absent"
    /\ held[a][j].attempts < MaxAttempts + clicks
    /\ j \notin shared => status[j] # "failed" /\ \A b \in Agents : held[b][j] # None => b = a
    /\ j \in AIJobs /\ Outdated(a, j) /\ capture[j] \notin crossed => NotBegun(capture[j])

Agreement == BudgetLeft /\ Lineage /\ \A a \in Agents, j \in Jobs : HolderAgrees(a, j)

\* handleFailure, commitDone: attempts stay within the budget and a summary is that of
\* the current text, also when the claims of two agents overlap.
AgentsInv == TypeOK /\ AttemptsBounded /\ SummaryIsCurrent /\ Agreement

\* Agents poll and time passes; users and deployments owe nothing.
Fairness ==
  /\ \A a \in Agents : WF_vars(RunOnce(a))
  /\ WF_vars(\E j \in Jobs : TimePasses(j))

FairSpec == Spec /\ Fairness

\* No job is stuck: however attempts fail, and after any finite number of
\* crashes and lost writes, it is done or has failed for good.
JobsSettle == \A j \in Jobs : ~Settled(j) ~> Settled(j)
=============================================================================
