------------------------------- MODULE Scheduler -------------------------------
(***************************************************************************)
(* The scheduler (src/runtime/scheduler/scheduler.ts) over the job table    *)
(* (jobStore.ts).  A timer, a run in progress and a start in progress each  *)
(* hold a COPY of the job row they were made from and write it back later;  *)
(* the owner's tools and the data registry change the rows in between.      *)
(*                                                                          *)
(* Jobs are numbered in the order of their rows (sort_order).  A one-shot   *)
(* job (delay, at) becomes due once; a cron job may fire whenever it is     *)
(* scheduled.  The store answers within one turn of the event loop, so an   *)
(* operation up to its first wait for a session is one step.                *)
(*                                                                          *)
(* What fails: new Cron() refuses a schedule (an expression or a zone it    *)
(* cannot use), the table cannot be read, the process ends.  Any cron job   *)
(* may be refused by a start or when it is created or enabled (the registry *)
(* can write any schedule); the end of a run arms the copy it had again.    *)
(* A write that fails under a timer rejects a promise nobody handles and    *)
(* ends the process: that outcome is Crash.  One that fails inside a start  *)
(* or a tool call is left out.                                              *)
(***************************************************************************)
EXTENDS Naturals, FiniteSets

CONSTANTS
    NumJobs,      \* jobs ever created
    CronJobs,     \* those with a cron schedule; the others are one-shot
    OwnJobs,      \* those whose target is the session whose turn is modelled
    Callable,     \* those the turn's own tool calls may create or enable
    MaxRuns,      \* bound: runs in progress at once
    MaxChanges,   \* bound: owner commands, registry edits and crashes
    MaxErrors,    \* MAX_CRON_CONSECUTIVE_ERRORS
    None

Jobs == 1 .. NumJobs
RunIds == 1 .. MaxRuns

ASSUME JobsAssumption ==
    /\ NumJobs \in Nat
    /\ CronJobs \subseteq Jobs
    /\ OwnJobs \subseteq Jobs
    /\ Callable \subseteq Jobs
    /\ MaxErrors \in Nat \ {0}
    /\ MaxChanges \in Nat
    /\ MaxRuns \in Nat
    /\ None \notin RunIds

VARIABLES
    made,       \* how many jobs were created (their ids are fresh)
    rows,       \* scheduled_jobs: the durable row of each job, or None
    timers,     \* the copy captured by the job's timeout or Cron object
    runs,       \* runs in progress: the job and the copy runJob was given
    pending,    \* copies the start in progress has still to schedule
    waits,      \* the run a start is waiting for
    loading,    \* whose start is in progress: "no", "boot", "config", "edit"
    configured, \* config.scheduler.enabled
    up,         \* the process runs
    due,        \* one-shot jobs whose time has come
    turn,       \* the owner's session: "none" or "open" (a generation runs)
    call,       \* the run a tool call of that turn is waiting for
    changes,    \* bound: how many so far
    begun,      \* observed: jobs whose instruction was ever dispatched
    overtaken,  \* observed: jobs changed while a run or a start held a copy
    unarmed,    \* observed: jobs a refused schedule has left without a timer
    unread      \* observed: jobs whose rows the last start could not read

jobVars == <<rows, timers, runs>>
loadVars == <<pending, waits, loading>>
turnVars == <<turn, call>>
leftVars == <<unarmed, unread>>
vars == <<made, rows, timers, runs, pending, waits, loading, configured, up, due,
          turn, call, changes, begun, overtaken, unarmed, unread>>

\* Of lastRunStatus only "running" is ever read.  dated: a one-shot's
\* nextRunAtMs is set (that of a cron job is only shown).
Copy == [enabled : BOOLEAN, running : BOOLEAN, errors : Nat, dated : BOOLEAN]
Run == [job : Jobs, copy : Copy, phase : {"queued", "executing", "dropped"}]

(* None is no copy and no run.                                             *)
ASSUME NoneAssumption == None \notin Copy /\ None \notin Run

TypeOK ==
    /\ made \in 0 .. NumJobs
    /\ rows \in [Jobs -> Copy \cup {None}]
    /\ timers \in [Jobs -> Copy \cup {None}]
    /\ runs \in [RunIds -> Run \cup {None}]
    /\ pending \in [Jobs -> Copy \cup {None}]
    /\ waits \in RunIds \cup {None}
    /\ loading \in {"no", "boot", "config", "edit"}
    /\ configured \in BOOLEAN
    /\ up \in BOOLEAN
    /\ due \subseteq Jobs
    /\ turn \in {"none", "open"}
    /\ call \in RunIds \cup {None}
    /\ changes \in 0 .. MaxChanges
    /\ begun \subseteq Jobs
    /\ overtaken \subseteq Jobs
    /\ unarmed \subseteq Jobs
    /\ unread \subseteq Jobs

NewJob == [enabled |-> TRUE, running |-> FALSE, errors |-> 0, dated |-> FALSE]

NoCopies == [j \in Jobs |-> None]

Init ==
    /\ made = 0
    /\ rows = NoCopies /\ timers = NoCopies /\ pending = NoCopies
    /\ runs = [r \in RunIds |-> None]
    /\ waits = None /\ loading = "no"
    /\ configured = TRUE /\ up = TRUE
    /\ due = {} /\ turn = "none" /\ call = None
    /\ changes = 0 /\ begun = {} /\ overtaken = {}
    /\ unarmed = {} /\ unread = {}

-----------------------------------------------------------------------------
(* What the operations below are built from.                               *)

Overdue(j) == j \notin CronJobs /\ j \in due

\* UPDATE ... WHERE id: a row that is gone stays gone.
Write(rs, j, c) == IF rs[j] = None THEN rs ELSE [rs EXCEPT ![j] = c]

\* The copy schedule() leaves in the timer, and the row it writes back.
Dated(j, c) == IF j \in CronJobs THEN c ELSE [c EXCEPT !.dated = TRUE]
Saved(rs, j, c) ==
    IF j \in CronJobs \/ ~c.dated THEN Write(rs, j, Dated(j, c)) ELSE rs

Running(j) == \E r \in RunIds : runs[r] # None /\ runs[r].job = j
OwnRunExists == \E r \in RunIds : runs[r] # None /\ runs[r].job \in OwnJobs
OwnRunExecutes ==
    \E r \in RunIds :
        /\ runs[r] # None
        /\ runs[r].job \in OwnJobs
        /\ runs[r].phase = "executing"

\* An instruction for a session that answers waits for its turn to come.
FirstPhase(j) ==
    IF j \in OwnJobs /\ (turn = "open" \/ OwnRunExists)
    THEN "queued" ELSE "executing"

(* Mutant: runJob leaves the timer that fired, or was set meanwhile.       *)
RunJobKeepsTimer(rs, j, c, r) ==
    /\ runs[r] = None /\ \A q \in 1 .. (r - 1) : runs[q] # None
    /\ UNCHANGED timers
    /\ rows' = Write(rs, j, [c EXCEPT !.running = TRUE])
    /\ runs' = [runs EXCEPT ![r] =
                    [job |-> j, copy |-> c, phase |-> FirstPhase(j)]]
    /\ begun' = begun \cup {j}

\* runJob up to the wait for the instruction: no timer, the row says running.
RunJob(rs, j, c, r) ==
    /\ runs[r] = None /\ \A q \in 1 .. (r - 1) : runs[q] # None
    /\ timers' = [timers EXCEPT ![j] = None]
    /\ rows' = Write(rs, j, [c EXCEPT !.running = TRUE])
    /\ runs' = [runs EXCEPT ![r] =
                    [job |-> j, copy |-> c, phase |-> FirstPhase(j)]]
    /\ begun' = begun \cup {j}

\* schedule() of a job that is not overdue: armed when enabled, else nothing.
Arm(rs, j, c) ==
    /\ timers' = [timers EXCEPT ![j] = IF c.enabled THEN Dated(j, c) ELSE None]
    /\ rows' = IF c.enabled THEN Saved(rs, j, c) ELSE rs

\* The arming of an enabled cron job may throw: its schedule is refused.
MayRefuse(j, c) == j \in CronJobs /\ c.enabled

Held(j) == Running(j) \/ pending[j] # None
Overtakes(j) ==
    overtaken' = IF Held(j) THEN overtaken \cup {j} ELSE overtaken

\* A tool call comes from the modelled turn or from another session.
CalledBy(inTurn, j) ==
    inTurn => turn = "open" /\ call = None /\ j \in Callable

\* Counts what the owner and the outside do to a working scheduler.
Change ==
    /\ changes < MaxChanges
    /\ changes' = changes + 1

-----------------------------------------------------------------------------
(* Time.                                                                   *)

TimePasses(j) ==
    /\ j \notin CronJobs /\ j \notin due
    /\ due' = due \cup {j}
    /\ UNCHANGED <<made, changes, jobVars, loadVars, turnVars, configured, up, begun, overtaken, leftVars>>

TimerFires(j, r) ==
    /\ timers[j] # None
    /\ j \in CronJobs \/ j \in due
    /\ RunJob(rows, j, timers[j], r)
    /\ Overtakes(j)
    /\ UNCHANGED <<made, changes, loadVars, turnVars, configured, up, due, leftVars>>

-----------------------------------------------------------------------------
(* Runs.  The instruction of a queued run executes when its session is free.*)

Execute(r) ==
    /\ runs[r] # None /\ runs[r].phase = "queued"
    /\ turn = "none" /\ ~OwnRunExecutes
    /\ runs' = [runs EXCEPT ![r].phase = "executing"]
    /\ UNCHANGED <<made, changes, rows, timers, loadVars, turnVars, configured, up, due, begun,
                   overtaken, leftVars>>

AfterSuccess(c) == [c EXCEPT !.running = FALSE, !.errors = 0]
(* Mutant: failures are counted down.                                      *)
AfterFailureDown(c) ==
    [c EXCEPT !.running = FALSE, !.errors = c.errors - 1,
              !.enabled = c.errors - 1 < MaxErrors]

AfterFailure(c) ==
    [c EXCEPT !.running = FALSE, !.errors = c.errors + 1,
              !.enabled = c.errors + 1 < MaxErrors]

(* Mutant: the end of a run only writes the row, it schedules nothing.     *)
RunEndsUnscheduled(r) ==
    /\ runs[r] # None /\ runs[r].phase = "executing"
    /\ LET j == runs[r].job IN
       rows' = IF j \notin CronJobs THEN [rows EXCEPT ![j] = None]
               ELSE Write(rows, j, AfterSuccess(runs[r].copy))
    /\ runs' = [runs EXCEPT ![r] = None]
    /\ waits' = IF waits = r THEN None ELSE waits
    /\ call' = IF call = r THEN None ELSE call
    /\ UNCHANGED <<made, changes, timers, pending, loading, turn, configured, up, due, begun,
                   overtaken, leftVars>>

\* The end of runJob: a one-shot is removed, a cron job is written back from
\* the copy the run was given and scheduled again from it.
RunEnds(r) ==
    /\ runs[r] # None /\ runs[r].phase = "executing"
    /\ LET j == runs[r].job IN
       IF j \notin CronJobs
       THEN /\ rows' = [rows EXCEPT ![j] = None]
            /\ UNCHANGED timers
       ELSE \E c \in {AfterSuccess(runs[r].copy), AfterFailure(runs[r].copy)} :
                Arm(Write(rows, j, c), j, c)
    /\ runs' = [runs EXCEPT ![r] = None]
    /\ waits' = IF waits = r THEN None ELSE waits
    /\ call' = IF call = r THEN None ELSE call
    /\ UNCHANGED <<made, changes, pending, loading, turn, configured, up, due, begun, overtaken, leftVars>>

-----------------------------------------------------------------------------
(* The owner's tools.                                                      *)

\* An "at" in the past is run at once, and the caller waits for it.  When the
\* schedule is refused the tool removes the row again.
CreateJob(j, inTurn) ==
    /\ up /\ CalledBy(inTurn, j)
    /\ j = made + 1 /\ made' = j
    /\ \/ /\ ~Overdue(j)
          /\ \/ Arm([rows EXCEPT ![j] = NewJob], j, NewJob)
             \/ MayRefuse(j, NewJob) /\ UNCHANGED <<rows, timers>>
          /\ UNCHANGED <<runs, begun, call>>
       \/ /\ Overdue(j)
          /\ \E r \in RunIds :
                /\ RunJob([rows EXCEPT ![j] = NewJob], j, Dated(j, NewJob), r)
                /\ call' = IF inTurn THEN r ELSE call
    /\ UNCHANGED <<changes, loadVars, turn, configured, up, due, overtaken, leftVars>>

(* Mutant: removeJob forgets to unschedule.                                *)
RemoveJobKeepsTimer(j) ==
    /\ Change
    /\ up /\ rows[j] # None
    /\ rows' = [rows EXCEPT ![j] = None]
    /\ Overtakes(j)
    /\ UNCHANGED <<made, timers, runs, loadVars, turnVars, configured, up, due, begun, leftVars>>

RemoveJob(j) ==
    /\ Change
    /\ up /\ rows[j] # None
    /\ rows' = [rows EXCEPT ![j] = None]
    /\ timers' = [timers EXCEPT ![j] = None]
    /\ Overtakes(j)
    /\ UNCHANGED <<made, runs, loadVars, turnVars, configured, up, due, begun, leftVars>>

\* The row as setEnabled writes it, scheduled from that copy.
Switched(c, e) == [c EXCEPT !.enabled = e, !.dated = e /\ c.dated]

\* The row is written first: a refused schedule leaves it enabled.
SetEnabled(j, e, inTurn) ==
    /\ Change
    /\ up /\ CalledBy(inTurn, j)
    /\ rows[j] # None
    /\ LET c == Switched(rows[j], e) IN
       \/ /\ ~(e /\ Overdue(j))
          /\ Arm(Write(rows, j, c), j, c)
          /\ unarmed' = unarmed \ {j}
          /\ UNCHANGED <<runs, begun, call>>
       \/ /\ MayRefuse(j, c)
          /\ rows' = Write(rows, j, c)
          /\ timers' = [timers EXCEPT ![j] = None]
          /\ unarmed' = unarmed \cup {j}
          /\ UNCHANGED <<runs, begun, call>>
       \/ /\ e /\ Overdue(j)
          /\ \E r \in RunIds :
                /\ RunJob(Write(rows, j, c), j, Dated(j, c), r)
                /\ call' = IF inTurn THEN r ELSE call
          /\ UNCHANGED unarmed
    /\ Overtakes(j)
    /\ UNCHANGED <<made, loadVars, turn, configured, up, due, unread>>

-----------------------------------------------------------------------------
(* start(): recovery of the rows, then the jobs one by one, waiting for the *)
(* run of each overdue one-shot.                                           *)

(* Mutant: rows are scheduled as they were left.                           *)
RecoveredAsLeft(j, c) == c

(* Mutant: an interrupted one-shot is given another try.                   *)
RecoveredRetries(j, c) ==
    IF c = None \/ ~c.running THEN c ELSE [c EXCEPT !.running = FALSE]

Recovered(j, c) ==
    IF c = None \/ ~c.running THEN c
    ELSE IF j \notin CronJobs THEN None
    ELSE [c EXCEPT !.running = FALSE, !.errors = c.errors + 1]

\* list() and recoverInterruptedJobs over the rows as they are now.  A table
\* that cannot be read is taken for an empty one.
Begin(rs, who) ==
    /\ loading = "no"
    /\ \/ /\ rows' = [j \in Jobs |-> Recovered(j, rs[j])]
          /\ pending' = [j \in Jobs |-> Recovered(j, rs[j])]
          /\ unread' = {}
       \/ /\ rows' = rs
          /\ pending' = NoCopies
          /\ unread' = {j \in Jobs : rs[j] # None}
    /\ unarmed' = {}
    /\ loading' = who
    /\ waits' = None

(* Mutant: start() leaves a job whose time has passed alone.               *)
LoadJobSkipsOverdue(j) ==
    /\ waits = None
    /\ pending[j] # None
    /\ \A i \in 1 .. (j - 1) : pending[i] = None
    /\ IF pending[j].enabled /\ Overdue(j) THEN UNCHANGED <<rows, timers>>
       ELSE Arm(rows, j, pending[j])
    /\ pending' = [pending EXCEPT ![j] = None]
    /\ UNCHANGED <<made, changes, runs, begun, waits, loading, turnVars, configured, up, due,
                   overtaken, leftVars>>

LoadJob(j) ==
    /\ waits = None
    /\ pending[j] # None
    /\ \A i \in 1 .. (j - 1) : pending[i] = None
    /\ LET c == pending[j] IN
       \/ /\ ~(c.enabled /\ Overdue(j))
          /\ Arm(rows, j, c)
          /\ UNCHANGED <<runs, begun, waits>>
       \/ /\ c.enabled /\ Overdue(j)
          /\ \E r \in RunIds : RunJob(rows, j, Dated(j, c), r) /\ waits' = r
    /\ pending' = [pending EXCEPT ![j] = None]
    /\ UNCHANGED <<made, changes, loading, turnVars, configured, up, due, overtaken, leftVars>>

\* Nothing but the rows survives the process.
ProcessEnds ==
    /\ up' = FALSE
    /\ timers' = NoCopies
    /\ runs' = [r \in RunIds |-> None]
    /\ waits' = None
    /\ turn' = "none" /\ call' = None
    /\ overtaken' = {} /\ unarmed' = {} /\ unread' = {}

\* The schedule of a job is refused: start() throws, and the jobs from this
\* one on are left.  At boot the process exits; a configuration reload is
\* rolled back, which stops the scheduler; the data registry's request fails.
LoadRefused(j) ==
    /\ waits = None
    /\ pending[j] # None /\ MayRefuse(j, pending[j])
    /\ \A i \in 1 .. (j - 1) : pending[i] = None
    /\ \/ /\ loading = "boot"
          /\ ProcessEnds
          /\ UNCHANGED configured
       \/ /\ loading = "config"
          /\ configured' = FALSE
          /\ timers' = NoCopies /\ unarmed' = {} /\ unread' = {}
          /\ UNCHANGED <<runs, waits, turnVars, up, overtaken>>
       \/ /\ loading = "edit"
          /\ timers' = [timers EXCEPT ![j] = None]
          /\ unarmed' = unarmed \cup {i \in Jobs : pending[i] # None}
          /\ UNCHANGED <<runs, waits, turnVars, configured, up, overtaken, unread>>
    /\ pending' = NoCopies /\ loading' = "no"
    /\ UNCHANGED <<made, changes, rows, due, begun>>

LoadEnds ==
    /\ loading # "no" /\ waits = None /\ pending = NoCopies
    /\ loading' = "no"
    /\ UNCHANGED <<made, changes, jobVars, pending, waits, turnVars, configured, up, due, begun,
                   overtaken, leftVars>>

\* A configuration reload enables the scheduler, or stops it: the timers go,
\* the runs in progress stay.
ConfigOn ==
    /\ up /\ ~configured
    /\ Begin(rows, "config")
    /\ configured' = TRUE
    /\ overtaken' = overtaken \cup {j \in Jobs : Running(j)}
    /\ UNCHANGED <<made, changes, timers, runs, turnVars, up, due, begun>>

ConfigOff ==
    /\ Change
    /\ up /\ configured /\ loading \in {"no", "edit"}
    /\ configured' = FALSE
    /\ timers' = NoCopies /\ unarmed' = {} /\ unread' = {}
    /\ overtaken' = overtaken \cup {j \in Jobs : Held(j)}
    /\ UNCHANGED <<made, rows, runs, loadVars, turnVars, up, due, begun>>

\* The data registry creates a row, then reloadFromStore() when configured.
CreateRow(j) ==
    /\ Change
    /\ up /\ j = made + 1 /\ made' = j
    /\ LET rs == [rows EXCEPT ![j] = NewJob] IN
       \/ configured /\ Begin(rs, "edit") /\ timers' = NoCopies
       \/ ~configured /\ rows' = rs /\ UNCHANGED <<timers, loadVars, leftVars>>
    /\ overtaken' = overtaken \cup {i \in Jobs : configured /\ Held(i)}
    /\ UNCHANGED <<runs, turnVars, configured, up, due, begun>>

\* The data registry patches or deletes a row, then reloadFromStore().
EditRow(j) ==
    /\ Change
    /\ up /\ rows[j] # None
    /\ \E c \in {None, [rows[j] EXCEPT !.enabled = TRUE],
                 [rows[j] EXCEPT !.enabled = FALSE]} :
          LET rs == [rows EXCEPT ![j] = c] IN
          \/ configured /\ Begin(rs, "edit") /\ timers' = NoCopies
          \/ /\ ~configured /\ rows' = rs
             /\ UNCHANGED <<timers, loadVars, leftVars>>
    /\ overtaken' = overtaken \cup
                      {i \in Jobs : (configured \/ i = j) /\ Held(i)}
                      \cup IF timers[j] # None /\ ~configured THEN {j} ELSE {}
    /\ UNCHANGED <<made, runs, turnVars, configured, up, due, begun>>

-----------------------------------------------------------------------------
(* The process, and the turn of the owner's session.                       *)

Crash ==
    /\ Change
    /\ up
    /\ ProcessEnds
    /\ pending' = NoCopies /\ loading' = "no"
    /\ UNCHANGED <<made, rows, configured, due, begun>>

Boot ==
    /\ ~up /\ up' = TRUE
    /\ \/ configured /\ Begin(rows, "boot")
       \/ ~configured /\ UNCHANGED <<rows, loadVars, leftVars>>
    /\ UNCHANGED <<made, changes, timers, runs, turnVars, configured, due, begun, overtaken>>

TurnBegins ==
    /\ up /\ turn = "none" /\ ~OwnRunExecutes
    /\ turn' = "open"
    /\ UNCHANGED <<made, changes, jobVars, loadVars, call, configured, up, due, begun, overtaken, leftVars>>

TurnEnds ==
    /\ turn = "open" /\ call = None
    /\ turn' = "none"
    /\ UNCHANGED <<made, changes, jobVars, loadVars, call, configured, up, due, begun, overtaken, leftVars>>

\* The user stops the response: the session is free, its tool call is left.
TurnStopped ==
    /\ turn = "open"
    /\ turn' = "none" /\ call' = None
    /\ UNCHANGED <<made, changes, jobVars, loadVars, configured, up, due, begun, overtaken, leftVars>>

\* Clearing the session empties its queue of instructions without settling
\* the promises their runs wait for (sessionMutations.ts).
ClearSession ==
    /\ Change
    /\ \E r \in RunIds : runs[r] # None /\ runs[r].phase = "queued"
    /\ runs' = [r \in RunIds |->
                  IF runs[r] # None /\ runs[r].phase = "queued"
                  THEN [runs[r] EXCEPT !.phase = "dropped"] ELSE runs[r]]
    /\ turn' = "none" /\ call' = None
    /\ UNCHANGED <<made, rows, timers, loadVars, configured, up, due, begun,
                   overtaken, leftVars>>

-----------------------------------------------------------------------------

Next ==
    \/ \E j \in Jobs :
          \/ TimePasses(j)
          \/ \E r \in RunIds : TimerFires(j, r)
          \/ \E inTurn \in BOOLEAN : CreateJob(j, inTurn)
          \/ RemoveJob(j)
          \/ \E e \in BOOLEAN, inTurn \in BOOLEAN : SetEnabled(j, e, inTurn)
          \/ LoadJob(j) \/ LoadRefused(j)
          \/ CreateRow(j) \/ EditRow(j)
    \/ \E r \in RunIds : Execute(r) \/ RunEnds(r)
    \/ LoadEnds \/ ConfigOn \/ ConfigOff
    \/ Crash \/ Boot
    \/ TurnBegins \/ TurnEnds \/ TurnStopped \/ ClearSession

Spec == Init /\ [][Next]_vars

(***************************************************************************)
(* The event loop runs timers, continuations and finished waits; the turn   *)
(* of a session ends unless one of its tool calls does not.  Nobody must    *)
(* create, change or stop anything.  A firing needs a free RunId, which only*)
(* the bound makes scarce: strong fairness.                                 *)
(***************************************************************************)
Fairness ==
    /\ \A j \in Jobs \ CronJobs :
          WF_vars(TimePasses(j)) /\ SF_vars(\E r \in RunIds : TimerFires(j, r))
    /\ SF_vars(\E j \in Jobs : LoadJob(j) \/ LoadRefused(j))
    /\ \A r \in RunIds : SF_vars(Execute(r)) /\ WF_vars(RunEnds(r))
    /\ WF_vars(TurnEnds)

LiveSpec == Spec /\ Fairness

-----------------------------------------------------------------------------
(* Properties.                                                             *)

\* A scheduled timer holds the job as its row has it: unless the job was
\* changed under a run or a start, no timer exists for a job that was removed
\* or disabled, and none will write back an outdated row when it fires.
TimersCarryTheRow ==
    \A j \in Jobs \ overtaken :
        timers[j] # None /\ pending[j] = None =>
            rows[j] # None /\ rows[j].enabled /\ timers[j] = Dated(j, rows[j])

\* A job runs once at a time, its row says so, and no timer can start it
\* again before the run has ended (runJob unschedules first).
OneRunPerJob ==
    \A r \in RunIds :
        runs[r] # None /\ runs[r].job \notin overtaken =>
            LET j == runs[r].job IN
            /\ timers[j] = None /\ pending[j] = None
            /\ rows[j] = [runs[r].copy EXCEPT !.running = TRUE]
            /\ \A q \in RunIds \ {r} : runs[q] = None \/ runs[q].job # j

\* With the scheduler on, an enabled job is forgotten in two cases only, which
\* nothing but another start mends: the last start did not read its row, or a
\* refused schedule, its own or that of an earlier row, left it unarmed.  Any
\* other one has a timer, a run, or a place in the start in progress.  And a
\* row left "running" belongs to a run in progress, unless it was not read:
\* what a crash interrupted was recovered first.
EnabledJobsAreServed ==
    up /\ configured =>
        \A j \in Jobs \ overtaken : rows[j] # None =>
            /\ rows[j].enabled => timers[j] # None \/ Held(j) \/ j \in unarmed \cup unread
            /\ rows[j].running => Running(j) \/ j \in unread

StartsRun(j) ==
    \E r \in RunIds : runs[r] = None /\ runs'[r] # None /\ runs'[r].job = j

\* The instruction of a one-shot job is dispatched at most once, crashes and
\* restarts included, unless the job was enabled, reloaded or restarted under
\* a run that still held it, the scheduler is switched off by now (enabling a
\* job then still runs it), or the start after a crash did not read its row.
OneShotsRunOnce ==
    [][\A j \in Jobs \ CronJobs :
            StartsRun(j) => j \notin begun \/ j \in overtaken' \cup unread \/ ~configured]_vars

\* A one-shot job that stays enabled is carried out, and its row removed,
\* whatever start() and its session wait for meanwhile, unless somebody stops
\* the scheduler, overtakes the job, or clears a session that queued a run, or
\* a start left the job unread or unarmed.
OneShotsComplete ==
    \A j \in Jobs \ CronJobs :
        (up /\ configured /\ rows[j] # None /\ rows[j].enabled) ~>
            \/ rows[j] = None \/ ~rows[j].enabled
            \/ ~configured \/ ~up \/ j \in overtaken \cup unarmed \cup unread
            \/ \E r \in RunIds : runs[r] # None /\ runs[r].phase = "dropped"

\* "Queue them behind the active response and open a fresh session once the
\* current turn winds down" (internalTriggerDispatcher.ts): a queued
\* instruction is executed.
QueuedInstructionsExecute ==
    \A r \in RunIds :
        (runs[r] # None /\ runs[r].phase = "queued") ~>
            (runs[r] = None \/ runs[r].phase = "executing")
=============================================================================
