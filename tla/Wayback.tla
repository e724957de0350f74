------------------------------ MODULE Wayback ------------------------------
(***************************************************************************)
(* Submissions of one URL to the Wayback Machine: a row that holds the job *)
(* id of the latest attempt, requests of the dashboard that start one, and *)
(* agents that ask archive.org how it went and record the answer.          *)
(*                                                                         *)
(* A page and a link with one URL share the row, and rows of other URLs    *)
(* have no part in it: a sweep passes over what it cannot resolve.         *)
(*                                                                         *)
(* Abstracted: messages, and HTTP statuses other than success and failure. *)
(***************************************************************************)
EXTENDS Naturals, FiniteSets

CONSTANTS
  JobIds,    \* job ids that archive.org may give
  Clicks,    \* requests to submit
  Sweepers,  \* agents, each sweeping again and again
  Hour,      \* PendingTimeout, in ticks
  MaxClock,  \* bound: ticks
  MaxFaults, \* bound: sweeps that a database failure ends
  None

VARIABLES
  now,
  job,     \* archive.org: the state of a job, and since when it has it
  row,     \* wayback_submissions
  click,   \* a request: what it has done so far
  sweep,   \* an agent's Resolve: the row it has read, and what it has learned
  faults,
  sent     \* history: the attempts recorded, each with its job and time

vars == <<now, job, row, click, sweep, faults, sent>>

States == {"pending", "success", "error"}
Submissions == [status : {"pending", "succeeded", "failed"}, job : JobIds, submitted : 0..MaxClock,
         last : 0..MaxClock \cup {None}, error : {"none", "job", "timeout"}]

TypeOK ==
  /\ now \in 0..MaxClock
  /\ job \in [JobIds -> [state : States, at : 0..MaxClock] \cup {None}]
  /\ row \in Submissions \cup {None}
  /\ click \in [Clicks -> [at : {"new", "save", "over"}, job : {None}] \cup [at : {"record"}, job : JobIds]]
  /\ sweep \in [Sweepers -> [sub : Submissions, expired : BOOLEAN, answer : States \cup {"unasked", "failed"}] \cup {None}]
  /\ faults \in 0..MaxFaults
  /\ sent \subseteq [job : JobIds, at : 0..MaxClock]

Init ==
  /\ now = 0
  /\ job = [j \in JobIds |-> None]
  /\ row = None
  /\ click = [c \in Clicks |-> [at |-> "new", job |-> None]]
  /\ sweep = [s \in Sweepers |-> None]
  /\ faults = 0
  /\ sent = {}

Tick ==
  /\ now < MaxClock
  /\ now' = now + 1
  /\ UNCHANGED <<job, row, click, sweep, faults, sent>>

\* archive.org ends a job, or never does.
EndJob(j, state) ==
  /\ job[j] # None /\ job[j].state = "pending"
  /\ job' = [job EXCEPT ![j] = [state |-> state, at |-> now]]
  /\ UNCHANGED <<now, row, click, sweep, faults, sent>>

Expired(sub) == now - sub.submitted >= Hour

-----------------------------------------------------------------------------
(* Submit.                                                                 *)

Pending == row # None /\ row.status = "pending"
InFlight == Pending /\ ~Expired(row)

\* ErrInProgress for a click on a URL whose attempt is in flight.
CheckInFlight(c) ==
  /\ click[c].at = "new"
  /\ click' = [click EXCEPT ![c].at = IF InFlight THEN "over" ELSE "save"]
  /\ UNCHANGED <<now, job, row, sweep, faults, sent>>

Saved(c, j) == click' = [click EXCEPT ![c] = [at |-> "record", job |-> j]]

\* Client.Save: a new job, or the one of a capture made within the last hour.
Save(c) ==
  /\ click[c].at = "save"
  /\ \/ \E j \in JobIds :
          /\ job[j] = None
          /\ job' = [job EXCEPT ![j] = [state |-> "pending", at |-> now]]
          /\ Saved(c, j)
     \/ \E j \in JobIds :
          /\ job[j] # None /\ job[j].state = "success" /\ now - job[j].at < Hour
          /\ Saved(c, j)
          /\ UNCHANGED job
  /\ UNCHANGED <<now, row, sweep, faults, sent>>

\* archive.org refuses, or cannot be reached: nothing is recorded.
SaveFails(c) ==
  /\ click[c].at = "save"
  /\ click' = [click EXCEPT ![c].at = "over"]
  /\ UNCHANGED <<now, job, row, sweep, faults, sent>>

\* StartWaybackSubmission.  Bound: no attempt that the clock leaves no hour.
Start(c) ==
  /\ click[c].at = "record"
  /\ now + Hour <= MaxClock
  /\ row' = [status |-> "pending", job |-> click[c].job, submitted |-> now,
             last |-> IF row = None THEN None ELSE row.last, error |-> "none"]
  /\ sent' = sent \cup {[job |-> click[c].job, at |-> now]}
  /\ click' = [click EXCEPT ![c] = [at |-> "over", job |-> None]]
  /\ UNCHANGED <<now, job, sweep, faults>>

-----------------------------------------------------------------------------
(* SweepPending, Resolve.                                                  *)

ListPending(s) ==
  /\ sweep[s] = None
  /\ Pending
  /\ sweep' = [sweep EXCEPT ![s] = [sub |-> row, expired |-> FALSE, answer |-> "unasked"]]
  /\ UNCHANGED <<now, job, row, click, faults, sent>>

\* The age of the attempt, then Client.Status: a job that ended an hour ago is
\* forgotten, and any request may fail.
AskStatus(s) ==
  /\ sweep[s] # None /\ sweep[s].answer = "unasked"
  /\ LET j == job[sweep[s].sub.job]
     IN \E answer \in {"failed"}
                      \cup (IF j.state = "pending" \/ now - j.at < Hour THEN {j.state} ELSE {}) :
          sweep' = [sweep EXCEPT ![s].expired = Expired(sweep[s].sub), ![s].answer = answer]
  /\ UNCHANGED <<now, job, row, click, faults, sent>>

\* Mutant: only the status is compared.
StillItsAnyJob(s) == row.status = "pending"

\* The guard of SucceedWaybackSubmission and FailWaybackSubmission.
StillIts(s) == row.status = "pending" /\ row.job = sweep[s].sub.job

Outcome(s) ==
  CASE sweep[s].answer = "success" -> [row EXCEPT !.status = "succeeded", !.last = row.submitted, !.error = "none"]
    [] sweep[s].answer = "error"   -> [row EXCEPT !.status = "failed", !.error = "job"]
    [] OTHER                       -> [row EXCEPT !.status = "failed", !.error = "timeout"]

\* Mutant: what cannot be asked stays pending, however old it is.
SettlePatient(s) ==
  /\ sweep[s] # None /\ sweep[s].answer # "unasked"
  /\ row' = IF sweep[s].answer \in {"success", "error"} /\ StillIts(s) THEN Outcome(s) ELSE row
  /\ sweep' = [sweep EXCEPT ![s] = None]
  /\ UNCHANGED <<now, job, click, faults, sent>>

\* An attempt without an answer is given up when it has expired, or left for later.
Settle(s) ==
  /\ sweep[s] # None /\ sweep[s].answer # "unasked"
  /\ row' = IF (sweep[s].answer \in {"success", "error"} \/ sweep[s].expired) /\ StillIts(s)
            THEN Outcome(s) ELSE row
  /\ sweep' = [sweep EXCEPT ![s] = None]
  /\ UNCHANGED <<now, job, click, faults, sent>>

\* The agent dies, or the database fails: the sweep ends.
EndSweep(s) ==
  /\ sweep[s] # None
  /\ faults < MaxFaults
  /\ faults' = faults + 1
  /\ sweep' = [sweep EXCEPT ![s] = None]
  /\ UNCHANGED <<now, job, row, click, sent>>

SweepPending(s) == ListPending(s) \/ AskStatus(s) \/ Settle(s)

Next ==
  \/ Tick
  \/ \E j \in JobIds, state \in States \ {"pending"} : EndJob(j, state)
  \/ \E c \in Clicks : CheckInFlight(c) \/ Save(c) \/ SaveFails(c) \/ Start(c)
  \/ \E s \in Sweepers : SweepPending(s) \/ EndSweep(s)

\* Time passes, and the agent's local cycle ends with a sweep again and again.
Spec == Init /\ [][Next]_vars
FairSpec == Spec /\ WF_vars(Tick) /\ \A s \in Sweepers : WF_vars(SweepPending(s))

-----------------------------------------------------------------------------
\* waybackResponseFrom: what the dashboard shows of the row.
Shown == IF row.status = "pending" /\ Expired(row) THEN "failed" ELSE row.status

\* Two attempts were answered with one job, so that the guard cannot tell them apart.
Shared(j) == Cardinality({a \in sent : a.job = j}) > 1

\* What the dashboard shows of the latest attempt is what became of that attempt's
\* own job, and the last success is one, however sweeps and attempts overlap.  An
\* attempt that was answered with an earlier one's job may get its timeout.
OutcomeIsTrue ==
  row # None =>
    /\ Shown = "succeeded" => job[row.job].state = "success" /\ row.last = row.submitted
    /\ Shown = "failed" => job[row.job].state = "error" \/ Expired(row) \/ Shared(row.job)
    /\ row.last # None => \E a \in sent : a.at = row.last /\ job[a.job].state = "success"

\* PendingTimeout: every attempt is settled, although archive.org may never answer.
Settles == Pending ~> ~Pending
=============================================================================
