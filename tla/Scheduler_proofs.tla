---------------------------- MODULE Scheduler_proofs ----------------------------
(***************************************************************************)
(* What the scheduler promises of a job nobody changed under a run or a start *)
(* that held a copy of it, for any number of jobs, runs, changes and crashes. *)
(*                                                                           *)
(* The three invariants are proved together: a timer carries the row because   *)
(* no run holds an older copy, and a run is alone because the timer it came    *)
(* from was taken away with the place in a start that the job had.            *)
(* A one-shot runs once because a dispatched one is gone or marked running     *)
(* before its run goes on, and neither survives a crash as a row to start.     *)
(***************************************************************************)
EXTENDS Scheduler, TLAPS

Rows == [Jobs -> Copy \cup {None}]

LEMMA CopyFacts ==
    /\ NewJob \in Copy /\ NewJob.enabled = TRUE /\ NewJob.running = FALSE
    /\ \A c \in Copy : c # None
    /\ \A j, c : j \in CronJobs => Dated(j, c) = c
    /\ \A j \in Jobs : \A c \in Copy :
          /\ Dated(j, c) \in Copy /\ Dated(j, Dated(j, c)) = Dated(j, c)
          /\ Dated(j, c).enabled = c.enabled /\ Dated(j, c).running = c.running
          /\ (j \in CronJobs \/ c.dated) => Dated(j, c) = c
    /\ \A c \in Copy :
          /\ [c EXCEPT !.running = TRUE] \in Copy
          /\ [c EXCEPT !.running = TRUE].running = TRUE
          /\ AfterSuccess(c) \in Copy /\ AfterSuccess(c).running = FALSE
          /\ AfterFailure(c) \in Copy /\ AfterFailure(c).running = FALSE
    /\ \A j \in Jobs : \A c \in Copy \cup {None} :
          /\ Recovered(j, c) \in Copy \cup {None}
          /\ Recovered(j, c) # None => Recovered(j, c).running = FALSE
          /\ Recovered(j, c) = None => c = None \/ (c.running /\ j \notin CronJobs)
    /\ \A j \in Jobs : Recovered(j, None) = None
  <1>1. NewJob \in Copy /\ NewJob.enabled = TRUE /\ NewJob.running = FALSE
    BY DEF NewJob, Copy
  <1>2. \A c \in Copy : c # None
    BY NoneAssumption
  <1>3. \A j, c : j \in CronJobs => Dated(j, c) = c
    BY DEF Dated
  <1>4. \A j \in Jobs : \A c \in Copy :
          /\ Dated(j, c) \in Copy /\ Dated(j, Dated(j, c)) = Dated(j, c)
          /\ Dated(j, c).enabled = c.enabled /\ Dated(j, c).running = c.running
          /\ (j \in CronJobs \/ c.dated) => Dated(j, c) = c
    BY DEF Dated, Copy
  <1>5. \A c \in Copy :
          /\ [c EXCEPT !.running = TRUE] \in Copy
          /\ [c EXCEPT !.running = TRUE].running = TRUE
    BY DEF Copy
  <1>6. \A c \in Copy :
          /\ AfterSuccess(c) \in Copy /\ AfterSuccess(c).running = FALSE
          /\ AfterFailure(c) \in Copy /\ AfterFailure(c).running = FALSE
    <2>1. \A c \in Copy : AfterSuccess(c) \in Copy /\ AfterSuccess(c).running = FALSE
      BY DEF AfterSuccess, Copy
    <2>2. ASSUME NEW c \in Copy
          PROVE  AfterFailure(c) \in Copy /\ AfterFailure(c).running = FALSE
      <3> DEFINE n == c.errors + 1
                 on == n < MaxErrors
      <3>1. n \in Nat /\ on \in BOOLEAN
        BY DEF Copy
      <3>2. AfterFailure(c) = [c EXCEPT !.running = FALSE, !.errors = n, !.enabled = on]
        BY DEF AfterFailure
      <3> HIDE DEF n, on
      <3> QED
        BY <3>1, <3>2 DEF Copy
    <2> QED
      BY <2>1, <2>2
  <1>8. \A j \in Jobs : \A c \in Copy \cup {None} :
          /\ Recovered(j, c) \in Copy \cup {None}
          /\ Recovered(j, c) # None => Recovered(j, c).running = FALSE
          /\ Recovered(j, c) = None => c = None \/ (c.running /\ j \notin CronJobs)
    <2>1. ASSUME NEW c \in Copy, c.running
          PROVE  /\ [c EXCEPT !.running = FALSE, !.errors = c.errors + 1] \in Copy
                 /\ [c EXCEPT !.running = FALSE, !.errors = c.errors + 1].running = FALSE
      <3>1. c.errors + 1 \in Nat
        BY DEF Copy
      <3> QED
        BY <3>1 DEF Copy
    <2>2. \A c \in Copy : c.running \in BOOLEAN
      BY DEF Copy
    <2> QED
      BY <1>2, <2>1, <2>2 DEF Recovered
  <1>9. \A j \in Jobs : Recovered(j, None) = None
    BY DEF Recovered
  <1> QED
    BY <1>1, <1>2, <1>3, <1>4, <1>5, <1>6, <1>8, <1>9

LEMMA SwitchFacts ==
    ASSUME NEW c \in Copy, NEW e \in BOOLEAN
    PROVE  /\ Switched(c, e) \in Copy /\ Switched(c, e).enabled = e
           /\ Switched(c, e).running = c.running
  BY DEF Switched, Copy

LEMMA WriteFacts ==
    ASSUME NEW rs \in Rows, NEW j \in Jobs, NEW c \in Copy
    PROVE  /\ Write(rs, j, c) \in Rows
           /\ Write(rs, j, c)[j] = IF rs[j] = None THEN None ELSE c
           /\ \A k \in Jobs \ {j} : Write(rs, j, c)[k] = rs[k]
           /\ Saved(rs, j, c) \in Rows
           /\ rs[j] = c => Saved(rs, j, c)[j] = Dated(j, c)
           /\ \A k \in Jobs \ {j} : Saved(rs, j, c)[k] = rs[k]
  <1>1. Dated(j, c) \in Copy /\ (j \in CronJobs \/ c.dated => Dated(j, c) = c)
    BY CopyFacts
  <1>2. \A d \in Copy : /\ Write(rs, j, d) \in Rows
                        /\ Write(rs, j, d)[j] = IF rs[j] = None THEN None ELSE d
                        /\ \A k \in Jobs \ {j} : Write(rs, j, d)[k] = rs[k]
    BY DEF Write, Rows
  <1>3. c # None
    BY CopyFacts
  <1>4. CASE j \in CronJobs \/ ~c.dated
    <2>1. Saved(rs, j, c) = Write(rs, j, Dated(j, c))
      BY <1>4 DEF Saved
    <2> QED
      BY <1>1, <1>2, <1>3, <2>1
  <1>5. CASE ~(j \in CronJobs \/ ~c.dated)
    <2>1. Saved(rs, j, c) = rs
      BY <1>5 DEF Saved
    <2>2. Dated(j, c) = c
      <3>1. c.dated
        BY <1>5
      <3> QED
        BY <3>1, <1>1
    <2> QED
      BY <1>2, <2>1, <2>2
  <1> QED
    BY <1>4, <1>5

-----------------------------------------------------------------------------
(* One job.                                                                 *)

Runs(j) == {r \in RunIds : runs[r] # None /\ runs[r].job = j}

RunFits(j, r) ==
    /\ timers[j] = None /\ pending[j] = None
    /\ rows[j] = [runs[r].copy EXCEPT !.running = TRUE]
    /\ Runs(j) = {r}

JobFits(j) ==
    /\ timers[j] # None /\ pending[j] = None =>
          /\ rows[j] # None /\ rows[j].enabled /\ timers[j] = Dated(j, rows[j])
          /\ j \notin CronJobs => ~rows[j].running
    /\ \A r \in Runs(j) : RunFits(j, r)
    /\ pending[j] # None => rows[j] = pending[j] /\ ~pending[j].running
    /\ pending[j] # None /\ loading = "edit" => timers[j] = None
    /\ up /\ configured /\ rows[j] # None =>
          /\ rows[j].enabled => \/ timers[j] # None \/ Runs(j) # {} \/ pending[j] # None
                                \/ j \in unarmed \cup unread
          /\ rows[j].running => Runs(j) # {} \/ j \in unread

Untouched(j) ==
    rows[j] = None /\ timers[j] = None /\ pending[j] = None /\ Runs(j) = {}

JobsFit ==
    \A j \in Jobs : /\ j > made => Untouched(j)
                    /\ j \notin overtaken => JobFits(j)

\* A row that says a one-shot job runs was written when its time had come,
\* and what a start is about to schedule was recovered first.
RunningRows ==
    \A j \in Jobs :
        /\ j \notin CronJobs /\ rows[j] # None /\ rows[j].running => j \in due
        /\ pending[j] # None => ~pending[j].running

SchedulerInv ==
    /\ TypeOK /\ RunningRows
    /\ loading = "no" => pending = NoCopies
    /\ ~up => timers = NoCopies /\ pending = NoCopies /\ \A j \in Jobs : Runs(j) = {}
    /\ JobsFit

LEMMA HeldMeans == \A j : Held(j) <=> Runs(j) # {} \/ pending[j] # None
  BY DEF Held, Running, Runs

\* What an operation does to other jobs: nothing.
LEMMA OthersFit ==
    ASSUME NEW j \in Jobs,
           j > made => Untouched(j), j \notin overtaken => JobFits(j),
           rows'[j] = rows[j], timers'[j] = timers[j], pending'[j] = pending[j],
           \A r \in RunIds : (runs'[r] # None /\ runs'[r].job = j) <=>
                             (runs[r] # None /\ runs[r].job = j),
           \A r \in Runs(j) : runs'[r].copy = runs[r].copy,
           made' = made \/ made' = made + 1, made \in Nat,
           j \in overtaken => j \in overtaken',
           j \in unarmed => j \in unarmed', j \in unread => j \in unread',
           up' /\ configured' => up /\ configured,
           loading' = loading \/ loading' # "edit"
    PROVE  (j > made => Untouched(j))' /\ (j \notin overtaken => JobFits(j))'
  <1>1. Runs(j)' = Runs(j)
    BY DEF Runs
  <1>2. j \in Nat
    BY JobsAssumption DEF Jobs
  <1>3. (j > made => Untouched(j))'
    BY <1>1, <1>2 DEF Untouched
  <1>4. ASSUME JobFits(j) PROVE JobFits(j)'
    <2>1. \A r \in Runs(j) : RunFits(j, r)'
      BY <1>1, <1>4 DEF JobFits, RunFits
    <2> QED
      BY <1>1, <1>4, <2>1 DEF JobFits
  <1> QED
    BY <1>3, <1>4

-----------------------------------------------------------------------------
(* Types.                                                                   *)

LEMMA RunJobTypes ==
    ASSUME NEW rs \in Rows, NEW c \in Copy, NEW j \in Jobs, NEW r \in RunIds
    PROVE  /\ Write(rs, j, [c EXCEPT !.running = TRUE]) \in Rows
           /\ [job |-> j, copy |-> c, phase |-> FirstPhase(j)] \in Run
  <1>1. [c EXCEPT !.running = TRUE] \in Copy
    BY CopyFacts
  <1>2. FirstPhase(j) \in {"queued", "executing"}
    BY DEF FirstPhase
  <1> QED
    BY <1>1, <1>2, WriteFacts DEF Run

LEMMA InitType == Init => TypeOK
  BY JobsAssumption DEF Init, TypeOK, NoCopies

LEMMA NextType == TypeOK /\ [Next]_vars => TypeOK'
  <1> SUFFICES ASSUME TypeOK, [Next]_vars PROVE TypeOK'
    OBVIOUS
  <1>0. /\ rows \in Rows /\ timers \in Rows /\ pending \in Rows
        /\ runs \in [RunIds -> Run \cup {None}]
        /\ made \in 0 .. NumJobs /\ changes \in 0 .. MaxChanges
        /\ waits \in RunIds \cup {None} /\ call \in RunIds \cup {None}
        /\ loading \in {"no", "boot", "config", "edit"} /\ turn \in {"none", "open"}
        /\ configured \in BOOLEAN /\ up \in BOOLEAN
        /\ due \subseteq Jobs /\ begun \subseteq Jobs /\ overtaken \subseteq Jobs
        /\ unarmed \subseteq Jobs /\ unread \subseteq Jobs
    BY DEF TypeOK, Rows
  <1>n. NoCopies \in Rows /\ NumJobs \in Nat /\ MaxChanges \in Nat
    BY JobsAssumption DEF NoCopies, Rows
  <1>s. \A j \in Jobs : [rows EXCEPT ![j] = None] \in Rows /\ [rows EXCEPT ![j] = NewJob] \in Rows
    BY <1>0, CopyFacts DEF Rows
  \* RunJob and Arm keep the types.
  <1>r. ASSUME NEW rs \in Rows, NEW c \in Copy, NEW j \in Jobs, NEW r \in RunIds,
               timers' = [timers EXCEPT ![j] = None],
               rows' = Write(rs, j, [c EXCEPT !.running = TRUE]),
               runs' = [runs EXCEPT ![r] = [job |-> j, copy |-> c, phase |-> FirstPhase(j)]],
               begun' = begun \cup {j}
        PROVE  /\ timers' \in Rows /\ rows' \in Rows
               /\ runs' \in [RunIds -> Run \cup {None}] /\ begun' \subseteq Jobs
    BY <1>0, <1>r, RunJobTypes DEF Rows
  <1>a. ASSUME NEW rs \in Rows, NEW c \in Copy, NEW j \in Jobs,
               timers' = [timers EXCEPT ![j] = IF c.enabled THEN Dated(j, c) ELSE None],
               rows' = IF c.enabled THEN Saved(rs, j, c) ELSE rs
        PROVE  timers' \in Rows /\ rows' \in Rows
    <2>1. Dated(j, c) \in Copy /\ Saved(rs, j, c) \in Rows
      BY CopyFacts, WriteFacts
    <2> QED
      BY <1>0, <1>a, <2>1 DEF Rows
  <1>o. \A j \in Jobs : Overtakes(j) => overtaken' \subseteq Jobs
    BY <1>0 DEF Overtakes
  <1>c. Change => changes' \in 0 .. MaxChanges
    BY <1>0, <1>n DEF Change
  <1>m. \A j \in Jobs : j = made + 1 => j \in 0 .. NumJobs
    BY <1>n DEF Jobs
  <1>1. ASSUME NEW j \in Jobs, TimePasses(j) PROVE TypeOK'
    BY <1>0, <1>1 DEF TimePasses, jobVars, loadVars, turnVars, leftVars, TypeOK, Rows
  <1>2. ASSUME NEW j \in Jobs, NEW r \in RunIds, TimerFires(j, r) PROVE TypeOK'
    <2>1. timers[j] \in Copy /\ RunJob(rows, j, timers[j], r)
      BY <1>0, <1>2 DEF TimerFires, Rows
    <2>2. /\ timers' \in Rows /\ rows' \in Rows
          /\ runs' \in [RunIds -> Run \cup {None}] /\ begun' \subseteq Jobs
      BY <1>0, <2>1, <1>r DEF RunJob
    <2> QED
      BY <1>0, <1>2, <1>o, <2>2 DEF TimerFires, loadVars, turnVars, leftVars, TypeOK, Rows
  <1>3. ASSUME NEW r \in RunIds, Execute(r) PROVE TypeOK'
    <2>1. runs' \in [RunIds -> Run \cup {None}]
      BY <1>0, <1>3 DEF Execute, Run
    <2> QED
      BY <1>0, <1>3, <2>1 DEF Execute, loadVars, turnVars, leftVars, TypeOK, Rows
  <1>4. ASSUME NEW r \in RunIds, RunEnds(r) PROVE TypeOK'
    <2>1. runs[r] \in Run
      BY <1>0, <1>4 DEF RunEnds
    <2>2. runs[r].job \in Jobs /\ runs[r].copy \in Copy
      BY <2>1 DEF Run
    <2>3. CASE runs[r].job \notin CronJobs
      BY <1>0, <1>4, <1>s, <2>2, <2>3 DEF RunEnds, leftVars, TypeOK, Rows
    <2>4. CASE runs[r].job \in CronJobs
      <3> DEFINE j == runs[r].job
      <3>1. PICK c \in {AfterSuccess(runs[r].copy), AfterFailure(runs[r].copy)} :
               /\ timers' = [timers EXCEPT ![j] = IF c.enabled THEN Dated(j, c) ELSE None]
               /\ rows' = IF c.enabled THEN Saved(Write(rows, j, c), j, c)
                          ELSE Write(rows, j, c)
        BY <1>4, <2>4 DEF RunEnds, Arm
      <3>2. c \in Copy
        <4>1. AfterSuccess(runs[r].copy) \in Copy /\ AfterFailure(runs[r].copy) \in Copy
          BY <2>2, CopyFacts
        <4>2. c = AfterSuccess(runs[r].copy) \/ c = AfterFailure(runs[r].copy)
          BY <3>1
        <4> QED
          BY <4>1, <4>2
      <3>3. Write(rows, runs[r].job, c) \in Rows
        BY <1>0, <2>2, <3>2, WriteFacts
      <3>4. timers' \in Rows /\ rows' \in Rows
        BY <1>a, <2>2, <3>1, <3>2, <3>3
      <3> QED
        BY <1>0, <1>4, <3>4 DEF RunEnds, leftVars, TypeOK, Rows
    <2> QED
      BY <2>3, <2>4
  <1>5. ASSUME NEW j \in Jobs, NEW inTurn \in BOOLEAN, CreateJob(j, inTurn) PROVE TypeOK'
    <2> DEFINE rs == [rows EXCEPT ![j] = NewJob]
    <2>1. rs \in Rows /\ NewJob \in Copy /\ Dated(j, NewJob) \in Copy
      BY <1>s, CopyFacts
    <2> HIDE DEF rs
    <2>2. CASE Arm(rs, j, NewJob) /\ UNCHANGED <<runs, begun, call>>
      <3>1. timers' \in Rows /\ rows' \in Rows
        BY <1>a, <2>1, <2>2 DEF Arm
      <3> QED
        BY <1>0, <1>5, <1>m, <2>2, <3>1 DEF CreateJob, loadVars, leftVars, TypeOK, Rows
    <2>3. ASSUME NEW r \in RunIds, RunJob(rs, j, Dated(j, NewJob), r),
                 call' = IF inTurn THEN r ELSE call
          PROVE  TypeOK'
      <3>1. /\ timers' \in Rows /\ rows' \in Rows
            /\ runs' \in [RunIds -> Run \cup {None}] /\ begun' \subseteq Jobs
        BY <1>r, <2>1, <2>3 DEF RunJob
      <3> QED
        BY <1>0, <1>5, <1>m, <2>3, <3>1 DEF CreateJob, loadVars, leftVars, TypeOK, Rows
    <2>4. CASE UNCHANGED <<rows, timers>> /\ UNCHANGED <<runs, begun, call>>
      BY <1>0, <1>5, <1>m, <2>4 DEF CreateJob, loadVars, leftVars, TypeOK, Rows
    <2> QED
      BY <1>5, <2>2, <2>3, <2>4 DEF CreateJob, rs
  <1>6. ASSUME NEW j \in Jobs, RemoveJob(j) PROVE TypeOK'
    BY <1>0, <1>6, <1>s, <1>o, <1>c DEF RemoveJob, loadVars, turnVars, leftVars, TypeOK, Rows
  <1>7. ASSUME NEW j \in Jobs, NEW e \in BOOLEAN, NEW inTurn \in BOOLEAN,
               SetEnabled(j, e, inTurn)
        PROVE  TypeOK'
    <2> DEFINE c == Switched(rows[j], e)
               rs == Write(rows, j, c)
    <2>1. rows[j] \in Copy
      BY <1>0, <1>7 DEF SetEnabled, Rows
    <2>2. c \in Copy /\ Dated(j, c) \in Copy
      <3>1. c \in Copy
        BY <2>1, SwitchFacts
      <3> QED
        BY <3>1, CopyFacts
    <2>3. rs \in Rows
      BY <1>0, <2>2, WriteFacts
    <2> HIDE DEF c, rs
    <2>4. CASE Arm(rs, j, c) /\ unarmed' = unarmed \ {j} /\ UNCHANGED <<runs, begun, call>>
      <3>1. timers' \in Rows /\ rows' \in Rows
        BY <1>a, <2>2, <2>3, <2>4 DEF Arm
      <3> QED
        BY <1>0, <1>7, <1>o, <1>c, <2>4, <3>1 DEF SetEnabled, loadVars, TypeOK, Rows
    <2>6. CASE /\ rows' = rs /\ timers' = [timers EXCEPT ![j] = None]
               /\ unarmed' = unarmed \cup {j} /\ UNCHANGED <<runs, begun, call>>
      <3>1. timers' \in Rows /\ rows' \in Rows
        BY <1>0, <2>3, <2>6 DEF Rows
      <3> QED
        BY <1>0, <1>7, <1>o, <1>c, <2>6, <3>1 DEF SetEnabled, loadVars, TypeOK, Rows
    <2>5. ASSUME NEW r \in RunIds, RunJob(rs, j, Dated(j, c), r), unarmed' = unarmed,
                 call' = IF inTurn THEN r ELSE call
          PROVE  TypeOK'
      <3>1. /\ timers' \in Rows /\ rows' \in Rows
            /\ runs' \in [RunIds -> Run \cup {None}] /\ begun' \subseteq Jobs
        BY <1>r, <2>2, <2>3, <2>5 DEF RunJob
      <3> QED
        BY <1>0, <1>7, <1>o, <1>c, <2>5, <3>1 DEF SetEnabled, loadVars, TypeOK, Rows
    <2> QED
      BY <1>7, <2>4, <2>5, <2>6 DEF SetEnabled, c, rs
  <1>8. ASSUME NEW j \in Jobs, LoadJob(j) PROVE TypeOK'
    <2> DEFINE c == pending[j]
    <2>1. c \in Copy /\ Dated(j, c) \in Copy
      BY <1>0, <1>8, CopyFacts DEF LoadJob, Rows
    <2>2. pending' \in Rows
      BY <1>0, <1>8 DEF LoadJob, Rows
    <2> HIDE DEF c
    <2>3. CASE Arm(rows, j, c) /\ UNCHANGED <<runs, begun, waits>>
      <3>1. timers' \in Rows /\ rows' \in Rows
        BY <1>0, <1>a, <2>1, <2>3 DEF Arm
      <3> QED
        BY <1>0, <1>8, <2>2, <2>3, <3>1 DEF LoadJob, turnVars, leftVars, TypeOK, Rows
    <2>4. ASSUME NEW r \in RunIds, RunJob(rows, j, Dated(j, c), r), waits' = r
          PROVE  TypeOK'
      <3>1. /\ timers' \in Rows /\ rows' \in Rows
            /\ runs' \in [RunIds -> Run \cup {None}] /\ begun' \subseteq Jobs
        BY <1>0, <1>r, <2>1, <2>4 DEF RunJob
      <3> QED
        BY <1>0, <1>8, <2>2, <2>4, <3>1 DEF LoadJob, turnVars, leftVars, TypeOK, Rows
    <2> QED
      BY <1>8, <2>3, <2>4 DEF LoadJob, c
  <1>17. ASSUME NEW j \in Jobs, LoadRefused(j) PROVE TypeOK'
    <2>1. CASE loading = "boot"
      BY <1>0, <1>n, <1>17, <2>1 DEF LoadRefused, ProcessEnds, TypeOK, Rows
    <2>2. CASE loading = "config"
      BY <1>0, <1>n, <1>17, <2>2 DEF LoadRefused, turnVars, TypeOK, Rows
    <2>3. CASE loading = "edit"
      <3>1. timers' \in Rows
        BY <1>0, <1>17, <2>3 DEF LoadRefused, Rows
      <3>2. QED
        BY <1>0, <1>n, <1>17, <2>3, <3>1 DEF LoadRefused, turnVars, TypeOK, Rows
    <2>4. QED
      BY <1>17, <2>1, <2>2, <2>3 DEF LoadRefused
  \* Begin over any rows.
  <1>b. ASSUME NEW rs \in Rows, NEW who, Begin(rs, who)
        PROVE  /\ rows' \in Rows /\ pending' \in Rows
               /\ unarmed' \subseteq Jobs /\ unread' \subseteq Jobs
               /\ loading' = who /\ waits' = None
    <2>1. \A j \in Jobs : Recovered(j, rs[j]) \in Copy \cup {None}
      BY CopyFacts DEF Rows
    <2>2. [j \in Jobs |-> Recovered(j, rs[j])] \in Rows
      BY <2>1 DEF Rows
    <2>3. QED
      BY <1>b, <1>n, <2>2 DEF Begin
  <1>9. CASE ConfigOn
    <2>1. /\ rows' \in Rows /\ pending' \in Rows /\ loading' = "config" /\ waits' = None
          /\ unarmed' \subseteq Jobs /\ unread' \subseteq Jobs
      BY <1>0, <1>9, <1>b DEF ConfigOn
    <2> QED
      BY <1>0, <1>9, <2>1 DEF ConfigOn, turnVars, TypeOK, Rows
  <1>10. CASE ConfigOff
    BY <1>0, <1>10, <1>n, <1>c DEF ConfigOff, loadVars, turnVars, TypeOK, Rows
  <1>11. ASSUME NEW j \in Jobs, CreateRow(j) PROVE TypeOK'
    <2> DEFINE rs == [rows EXCEPT ![j] = NewJob]
    <2>1. rs \in Rows
      BY <1>s
    <2> HIDE DEF rs
    <2>2. CASE Begin(rs, "edit") /\ timers' = NoCopies
      <3>1. /\ rows' \in Rows /\ pending' \in Rows /\ loading' = "edit" /\ waits' = None
            /\ unarmed' \subseteq Jobs /\ unread' \subseteq Jobs
        BY <1>b, <2>1, <2>2
      <3> QED
        BY <1>0, <1>n, <1>c, <1>m, <1>11, <2>2, <3>1 DEF CreateRow, turnVars, TypeOK, Rows
    <2>3. CASE rows' = rs /\ UNCHANGED <<timers, loadVars, leftVars>>
      BY <1>0, <1>n, <1>c, <1>m, <1>11, <2>1, <2>3
         DEF CreateRow, loadVars, turnVars, leftVars, TypeOK, Rows
    <2> QED
      BY <1>11, <2>2, <2>3 DEF CreateRow, rs
  <1>12. ASSUME NEW j \in Jobs, EditRow(j) PROVE TypeOK'
    <2>1. PICK c \in {None, [rows[j] EXCEPT !.enabled = TRUE], [rows[j] EXCEPT !.enabled = FALSE]} :
             LET rs == [rows EXCEPT ![j] = c] IN
             \/ configured /\ Begin(rs, "edit") /\ timers' = NoCopies
             \/ ~configured /\ rows' = rs /\ UNCHANGED <<timers, loadVars, leftVars>>
      BY <1>12 DEF EditRow
    <2> DEFINE rs == [rows EXCEPT ![j] = c]
    <2>2. rs \in Rows
      <3>1. rows[j] \in Copy
        BY <1>0, <1>12 DEF EditRow, Rows
      <3>2. c \in Copy \cup {None}
        BY <3>1 DEF Copy
      <3> QED
        BY <1>0, <3>2 DEF Rows
    <2> HIDE DEF rs
    <2>3. overtaken' \subseteq Jobs
      BY <1>0, <1>12 DEF EditRow
    <2>4. CASE Begin(rs, "edit") /\ timers' = NoCopies
      <3>1. /\ rows' \in Rows /\ pending' \in Rows /\ loading' = "edit" /\ waits' = None
            /\ unarmed' \subseteq Jobs /\ unread' \subseteq Jobs
        BY <1>b, <2>2, <2>4
      <3> QED
        BY <1>0, <1>n, <1>c, <1>12, <2>3, <2>4, <3>1 DEF EditRow, turnVars, TypeOK, Rows
    <2>5. CASE rows' = rs /\ UNCHANGED <<timers, loadVars, leftVars>>
      BY <1>0, <1>c, <1>12, <2>2, <2>3, <2>5 DEF EditRow, loadVars, turnVars, leftVars, TypeOK, Rows
    <2> QED
      BY <2>1, <2>4, <2>5 DEF rs
  <1>13. CASE Crash
    BY <1>0, <1>n, <1>c, <1>13 DEF Crash, ProcessEnds, TypeOK, Rows
  <1>14. CASE Boot
    <2>1. CASE Begin(rows, "boot")
      <3>1. /\ rows' \in Rows /\ pending' \in Rows /\ loading' = "boot" /\ waits' = None
            /\ unarmed' \subseteq Jobs /\ unread' \subseteq Jobs
        BY <1>0, <1>b, <2>1
      <3> QED
        BY <1>0, <1>14, <3>1 DEF Boot, turnVars, TypeOK, Rows
    <2>2. CASE UNCHANGED <<rows, loadVars, leftVars>>
      BY <1>0, <1>14, <2>2 DEF Boot, loadVars, turnVars, leftVars, TypeOK, Rows
    <2> QED
      BY <1>14, <2>1, <2>2 DEF Boot
  <1>15. CASE LoadEnds \/ TurnBegins \/ TurnEnds \/ TurnStopped \/ UNCHANGED vars
    BY <1>0, <1>15 DEF LoadEnds, TurnBegins, TurnEnds, TurnStopped, vars, jobVars, loadVars,
                       turnVars, leftVars, TypeOK, Rows
  <1>16. CASE ClearSession
    <2>1. runs' \in [RunIds -> Run \cup {None}]
      BY <1>0, <1>16 DEF ClearSession, Run
    <2> QED
      BY <1>0, <1>16, <1>c, <2>1 DEF ClearSession, loadVars, leftVars, TypeOK, Rows
  <1> QED
    BY <1>1, <1>2, <1>3, <1>4, <1>5, <1>6, <1>7, <1>8, <1>9, <1>10, <1>11, <1>12, <1>13,
       <1>14, <1>15, <1>16, <1>17 DEF Next

-----------------------------------------------------------------------------
(* The two ways an operation leaves the job it is about.                    *)

\* Nothing holds the job, its row and its timer agree, or it was left unarmed.
LEMMA IdleFits ==
    ASSUME NEW j \in Jobs, NEW c \in Copy,
           \A r \in RunIds : ~(runs'[r] # None /\ runs'[r].job = j),
           pending'[j] = None,
           \/ rows'[j] = None /\ timers'[j] = None
           \/ rows'[j] = c /\ ~c.enabled /\ timers'[j] = None
           \/ /\ rows'[j] = Dated(j, c) /\ c.enabled /\ timers'[j] = Dated(j, c)
              /\ j \notin CronJobs => ~c.running
           \/ rows'[j] = c /\ j \in unarmed' /\ timers'[j] = None,
           up' /\ configured' /\ j \notin unread' => ~c.running
    PROVE  JobFits(j)'
  <1>1. Runs(j)' = {}
    BY DEF Runs
  <1>2. /\ c # None /\ Dated(j, c) # None /\ Dated(j, Dated(j, c)) = Dated(j, c)
        /\ Dated(j, c).enabled = c.enabled /\ Dated(j, c).running = c.running
    BY CopyFacts
  <1>3. Dated(j, rows[j])' = Dated(j, rows'[j])
    BY DEF Dated
  <1> QED
    BY <1>1, <1>2, <1>3 DEF JobFits

\* A run holds the job, alone.
LEMMA RunningFits ==
    ASSUME NEW j \in Jobs, NEW c \in Copy, NEW r \in RunIds,
           \A q \in RunIds : (runs'[q] # None /\ runs'[q].job = j) <=> q = r,
           runs'[r].copy = c,
           pending'[j] = None, timers'[j] = None,
           rows'[j] = [c EXCEPT !.running = TRUE]
    PROVE  JobFits(j)'
  <1>1. Runs(j)' = {r}
    BY DEF Runs
  <1>2. [c EXCEPT !.running = TRUE] # None
    BY CopyFacts
  <1>3. RunFits(j, r)'
    BY <1>1 DEF RunFits
  <1> QED
    BY <1>1, <1>2, <1>3 DEF JobFits

\* RunJob begins the run of a job that has a row, nothing holds, and no timer.
LEMMA RunJobFits ==
    ASSUME NEW j \in Jobs, NEW c \in Copy, NEW r \in RunIds,
           runs \in [RunIds -> Run \cup {None}],
           Runs(j) = {}, runs[r] = None,
           timers'[j] = None, pending'[j] = None,
           rows'[j] = [c EXCEPT !.running = TRUE],
           runs' = [runs EXCEPT ![r] = [job |-> j, copy |-> c, phase |-> FirstPhase(j)]]
    PROVE  JobFits(j)'
  <1>1. [job |-> j, copy |-> c, phase |-> FirstPhase(j)] \in Run
    BY DEF Run, FirstPhase
  <1>2. runs'[r] # None /\ runs'[r].job = j /\ runs'[r].copy = c
    BY <1>1, NoneAssumption
  <1>3. \A q \in RunIds \ {r} : runs'[q] = runs[q]
    OBVIOUS
  <1>4. \A q \in RunIds : (runs'[q] # None /\ runs'[q].job = j) <=> q = r
    BY <1>2, <1>3 DEF Runs
  <1> QED
    BY <1>2, <1>4, RunningFits

\* A start makes its list from the rows: whoever no run holds has a place.
LEMMA StartFits ==
    ASSUME NEW j \in Jobs, NEW c \in Copy \cup {None},
           \A r \in RunIds : ~(runs'[r] # None /\ runs'[r].job = j),
           rows'[j] = Recovered(j, c), pending'[j] = Recovered(j, c),
           Recovered(j, c) = None \/ loading' = "edit" => timers'[j] = None
    PROVE  JobFits(j)'
  <1>1. Runs(j)' = {}
    BY DEF Runs
  <1>2. /\ Recovered(j, c) \in Copy \cup {None}
        /\ Recovered(j, c) # None => Recovered(j, c).running = FALSE
    BY CopyFacts
  <1> QED
    BY <1>1, <1>2 DEF JobFits

\* The table could not be read: the timers that are left are those of the rows.
LEMMA UnreadFits ==
    ASSUME NEW j \in Jobs,
           \A r \in RunIds : ~(runs'[r] # None /\ runs'[r].job = j),
           pending'[j] = None, rows'[j] # None => j \in unread',
           timers'[j] # None =>
              /\ rows'[j] # None /\ rows'[j].enabled /\ timers'[j] = Dated(j, rows'[j])
              /\ j \notin CronJobs => ~rows'[j].running
    PROVE  JobFits(j)'
  <1>1. Runs(j)' = {}
    BY DEF Runs
  <1>2. Dated(j, rows[j])' = Dated(j, rows'[j])
    BY DEF Dated
  <1> QED
    BY <1>1, <1>2 DEF JobFits

-----------------------------------------------------------------------------

LEMMA InitFits == Init => SchedulerInv
  <1> SUFFICES ASSUME Init PROVE SchedulerInv
    OBVIOUS
  <1>1. TypeOK
    BY InitType
  <1>2. \A j \in Jobs : /\ rows[j] = None /\ timers[j] = None /\ pending[j] = None
                        /\ Runs(j) = {}
    BY DEF Init, NoCopies, Runs
  <1>3. JobsFit
    BY <1>2 DEF JobsFit, Untouched, JobFits
  <1>4. RunningRows
    BY <1>2 DEF RunningRows
  <1> QED
    BY <1>1, <1>2, <1>3, <1>4 DEF Init, SchedulerInv

LEMMA NextFits == SchedulerInv /\ [Next]_vars => SchedulerInv'
  <1> SUFFICES ASSUME SchedulerInv, [Next]_vars PROVE SchedulerInv'
    OBVIOUS
  <1>0. /\ rows \in Rows /\ timers \in Rows /\ pending \in Rows
        /\ runs \in [RunIds -> Run \cup {None}]
        /\ made \in Nat /\ overtaken \subseteq Jobs /\ due \subseteq Jobs
    BY JobsAssumption DEF SchedulerInv, TypeOK, Rows
  <1>1. TypeOK'
    BY NextType DEF SchedulerInv
  <1>2. ASSUME NEW j \in Jobs
        PROVE  /\ j > made => Untouched(j)
               /\ j \notin overtaken => JobFits(j)
               /\ j \notin CronJobs /\ rows[j] # None /\ rows[j].running => j \in due
               /\ pending[j] # None => ~pending[j].running
               /\ rows[j] # None => rows[j] \in Copy
               /\ pending[j] # None => pending[j] \in Copy
    BY <1>0 DEF SchedulerInv, JobsFit, RunningRows, Rows
  <1>3. \A r \in RunIds : runs[r] # None =>
           runs[r] \in Run /\ runs[r].job \in Jobs /\ runs[r].copy \in Copy
    BY <1>0 DEF Run
  \* Steps that touch no job.
  <1>4. ASSUME jobVars' = jobVars, leftVars' = leftVars,
               pending' = pending, made' = made, due \subseteq due',
               overtaken' = overtaken, up' = up, configured' = configured,
               loading' = loading \/ (loading' = "no" /\ pending = NoCopies)
        PROVE  SchedulerInv'
    <2>1. ASSUME NEW j \in Jobs
          PROVE  (j > made => Untouched(j))' /\ (j \notin overtaken => JobFits(j))'
      BY <1>0, <1>2, <1>4, <2>1, OthersFit DEF jobVars, leftVars, Runs
    <2>2. JobsFit'
      BY <2>1 DEF JobsFit
    <2>3. RunningRows'
      BY <1>2, <1>4 DEF RunningRows, jobVars
    <2> QED
      BY <1>1, <1>4, <2>2, <2>3 DEF SchedulerInv, jobVars, Runs
  \* Operations on one job, and what they have to leave of it.
  <1>5. ASSUME NEW j \in Jobs,
               \A k \in Jobs \ {j} : rows'[k] = rows[k] /\ timers'[k] = timers[k]
                                  /\ pending'[k] = pending[k],
               \A k \in Jobs \ {j}, r \in RunIds :
                  /\ (runs'[r] # None /\ runs'[r].job = k) <=> (runs[r] # None /\ runs[r].job = k)
                  /\ runs[r] # None /\ runs[r].job = k => runs'[r].copy = runs[r].copy,
               overtaken \subseteq overtaken', unread' = unread,
               \A k \in Jobs \ {j} : k \in unarmed => k \in unarmed',
               made' = made \/ (made' = made + 1 /\ made' = j), ~(j > made'),
               up, up' = up, configured' = configured, due' = due,
               loading' = loading, loading = "no" => pending' = pending,
               j \notin overtaken' => JobFits(j)',
               j \notin CronJobs /\ rows'[j] # None /\ rows'[j].running => j \in due,
               pending'[j] # None => ~pending'[j].running
        PROVE  SchedulerInv'
    <2>1. ASSUME NEW k \in Jobs \ {j}
          PROVE  (k > made => Untouched(k))' /\ (k \notin overtaken => JobFits(k))'
      BY <1>0, <1>2, <1>5, <2>1, OthersFit DEF Runs
    <2>2. JobsFit'
      BY <1>5, <2>1 DEF JobsFit
    <2>3. RunningRows'
      BY <1>2, <1>5 DEF RunningRows
    <2> QED
      BY <1>1, <1>5, <2>2, <2>3 DEF SchedulerInv
  <1>t. \A j \in Jobs : timers[j] # None \/ pending[j] # None \/ Runs(j) # {} => up /\ ~(j > made)
    BY <1>2 DEF SchedulerInv, NoCopies, Untouched
  <1>n. \A j \in Jobs : pending[j] # None => loading # "no"
    BY DEF SchedulerInv, NoCopies
  <1>o. \A j \in Jobs : Overtakes(j) =>
           /\ overtaken \subseteq overtaken'
           /\ j \notin overtaken' => j \notin overtaken /\ Runs(j) = {} /\ pending[j] = None
    BY HeldMeans DEF Overtakes
  \* What RunJob leaves of the runs of other jobs.
  <1>r. ASSUME NEW j \in Jobs, NEW c \in Copy, NEW r \in RunIds, runs[r] = None,
               runs' = [runs EXCEPT ![r] = [job |-> j, copy |-> c, phase |-> FirstPhase(j)]]
        PROVE  \A k \in Jobs \ {j}, q \in RunIds :
                  /\ (runs'[q] # None /\ runs'[q].job = k) <=> (runs[q] # None /\ runs[q].job = k)
                  /\ runs[q] # None /\ runs[q].job = k => runs'[q].copy = runs[q].copy
    <2>1. \A q \in RunIds \ {r} : runs'[q] = runs[q]
      BY <1>0, <1>r
    <2>2. runs'[r].job = j
      BY <1>0, <1>r
    <2> QED
      BY <1>r, <2>1, <2>2
  <1>7. ASSUME NEW r \in RunIds, RunEnds(r)
        PROVE  SchedulerInv'
    <2>0. PICK j \in Jobs : j = runs[r].job
      BY <1>3, <1>7 DEF RunEnds
    <2>1. /\ runs[r] # None /\ runs[r].copy \in Copy /\ r \in Runs(j)
          /\ runs' = [runs EXCEPT ![r] = None]
          /\ made' = made /\ pending' = pending /\ loading' = loading /\ up' = up
          /\ configured' = configured /\ due' = due /\ overtaken' = overtaken
          /\ unarmed' = unarmed /\ unread' = unread
      BY <1>3, <1>7, <2>0 DEF RunEnds, Runs, leftVars
    <2>2. up /\ ~(j > made')
      BY <1>t, <2>1
    <2>3. \A k \in Jobs \ {j}, q \in RunIds :
             /\ (runs'[q] # None /\ runs'[q].job = k) <=> (runs[q] # None /\ runs[q].job = k)
             /\ runs[q] # None /\ runs[q].job = k => runs'[q].copy = runs[q].copy
      <3>1. runs'[r] = None /\ \A q \in RunIds \ {r} : runs'[q] = runs[q]
        BY <1>0, <2>1
      <3> QED
        BY <2>0, <3>1
    <2>4. ASSUME j \notin overtaken
          PROVE  /\ timers[j] = None /\ pending[j] = None /\ rows[j] # None
                 /\ \A q \in RunIds : ~(runs'[q] # None /\ runs'[q].job = j)
      <3>1. RunFits(j, r)
        BY <1>2, <2>1, <2>4 DEF JobFits
      <3>2. [runs[r].copy EXCEPT !.running = TRUE] # None
        BY <2>1, CopyFacts
      <3>3. runs'[r] = None /\ \A q \in RunIds \ {r} : runs'[q] = runs[q]
        BY <1>0, <2>1
      <3> QED
        BY <3>1, <3>2, <3>3 DEF RunFits, Runs
    <2>5. CASE j \notin CronJobs
      <3>1. rows' = [rows EXCEPT ![j] = None] /\ timers' = timers
        BY <1>7, <2>0, <2>5 DEF RunEnds
      <3>2. rows'[j] = None /\ \A k \in Jobs \ {j} : rows'[k] = rows[k]
        BY <1>0, <2>1, <3>1 DEF Rows
      <3>3. NewJob \in Copy /\ NewJob.running = FALSE
        BY CopyFacts
      <3>4. j \notin overtaken' => JobFits(j)'
        BY <2>1, <2>4, <3>1, <3>2, <3>3, IdleFits
      <3> QED
        BY <1>2, <1>5, <2>1, <2>2, <2>3, <3>1, <3>2, <3>4
    <2>6. CASE j \in CronJobs
      <3>1. PICK c \in {AfterSuccess(runs[r].copy), AfterFailure(runs[r].copy)} :
               /\ timers' = [timers EXCEPT ![j] = IF c.enabled THEN Dated(j, c) ELSE None]
               /\ rows' = IF c.enabled THEN Saved(Write(rows, j, c), j, c)
                          ELSE Write(rows, j, c)
        BY <1>7, <2>0, <2>6 DEF RunEnds, Arm
      <3>2. c \in Copy /\ ~c.running
        <4>1. /\ AfterSuccess(runs[r].copy) \in Copy /\ AfterFailure(runs[r].copy) \in Copy
              /\ ~AfterSuccess(runs[r].copy).running /\ ~AfterFailure(runs[r].copy).running
          BY <2>1, CopyFacts
        <4>2. c = AfterSuccess(runs[r].copy) \/ c = AfterFailure(runs[r].copy)
          BY <3>1
        <4> QED
          BY <4>1, <4>2
      <3>3. /\ Write(rows, j, c) \in Rows
            /\ Write(rows, j, c)[j] = IF rows[j] = None THEN None ELSE c
            /\ \A k \in Jobs \ {j} : Write(rows, j, c)[k] = rows[k]
        BY <1>0, <2>1, <3>2, WriteFacts
      <3>4. /\ Write(rows, j, c)[j] = c => Saved(Write(rows, j, c), j, c)[j] = Dated(j, c)
            /\ \A k \in Jobs \ {j} : Saved(Write(rows, j, c), j, c)[k] = rows[k]
        BY <2>1, <3>2, <3>3, WriteFacts
      <3>5. \A k \in Jobs \ {j} : rows'[k] = rows[k] /\ timers'[k] = timers[k]
        BY <1>0, <3>1, <3>3, <3>4 DEF Rows
      <3>6. timers'[j] = IF c.enabled THEN Dated(j, c) ELSE None
        BY <1>0, <2>1, <3>1 DEF Rows
      <3>7. ASSUME j \notin overtaken' PROVE JobFits(j)'
        <4>1. rows'[j] = IF c.enabled THEN Dated(j, c) ELSE c
          BY <2>1, <2>4, <3>1, <3>3, <3>4, <3>7
        <4> QED
          BY <2>1, <2>4, <3>2, <3>6, <3>7, <4>1, IdleFits
      <3> QED
        BY <1>2, <1>5, <2>1, <2>2, <2>3, <2>6, <3>5, <3>7
    <2> QED
      BY <2>5, <2>6
  \* The run that RunJob begins keeps the books, and so does a timer Arm sets,
  \* when nothing but the operation itself holds the job.
  <1>8. ASSUME NEW j \in Jobs, NEW c \in Copy, NEW r \in RunIds, NEW rs \in Rows,
               runs[r] = None, timers' = [timers EXCEPT ![j] = None],
               rows' = Write(rs, j, [c EXCEPT !.running = TRUE]),
               \A k \in Jobs \ {j} : rs[k] = rows[k],
               runs' = [runs EXCEPT ![r] = [job |-> j, copy |-> c, phase |-> FirstPhase(j)]],
               \A k \in Jobs \ {j} : pending'[k] = pending[k],
               pending'[j] # None => ~pending'[j].running,
               overtaken \subseteq overtaken', unarmed' = unarmed, unread' = unread,
               j \notin overtaken' => Runs(j) = {} /\ pending'[j] = None /\ rs[j] # None,
               made' = made \/ (made' = made + 1 /\ made' = j), ~(j > made'),
               up, up' = up, configured' = configured, due' = due,
               loading' = loading, loading = "no" => pending' = pending,
               j \in CronJobs \/ j \in due
        PROVE  SchedulerInv'
    <2>3. PICK d \in Copy : d = [c EXCEPT !.running = TRUE]
      BY CopyFacts
    <2>4. /\ rows'[j] = IF rs[j] = None THEN None ELSE d
          /\ \A k \in Jobs \ {j} : rows'[k] = rows[k]
      BY <1>8, <2>3 DEF Write, Rows
    <2>5. timers'[j] = None /\ \A k \in Jobs \ {j} : timers'[k] = timers[k]
      BY <1>0, <1>8 DEF Rows
    <2>6. ASSUME j \notin overtaken' PROVE JobFits(j)'
      BY <1>0, <1>8, <2>3, <2>4, <2>5, <2>6, RunJobFits
    <2>9. \A k \in Jobs \ {j}, q \in RunIds :
             /\ (runs'[q] # None /\ runs'[q].job = k) <=> (runs[q] # None /\ runs[q].job = k)
             /\ runs[q] # None /\ runs[q].job = k => runs'[q].copy = runs[q].copy
      BY <1>r, <1>8
    <2>7. j \notin CronJobs /\ rows'[j] # None /\ rows'[j].running => j \in due
      BY <1>8
    <2>8. \A k \in Jobs \ {j} : rows'[k] = rows[k] /\ timers'[k] = timers[k]
                              /\ pending'[k] = pending[k]
      BY <1>8, <2>4, <2>5
    <2> QED
      BY <1>5, <1>8, <2>6, <2>7, <2>8, <2>9
  <1>9. ASSUME NEW j \in Jobs, NEW c \in Copy, NEW rs \in Rows,
               timers' = [timers EXCEPT ![j] = IF c.enabled THEN Dated(j, c) ELSE None],
               rows' = IF c.enabled THEN Saved(rs, j, c) ELSE rs,
               \A k \in Jobs \ {j} : rs[k] = rows[k],
               runs' = runs,
               \A k \in Jobs \ {j} : pending'[k] = pending[k],
               pending'[j] # None => ~pending'[j].running,
               overtaken \subseteq overtaken', unread' = unread,
               \A k \in Jobs \ {j} : k \in unarmed => k \in unarmed',
               j \notin overtaken' => Runs(j) = {} /\ pending'[j] = None /\ rs[j] = c
                                   /\ (up /\ configured /\ j \notin unread => ~c.running),
               j \notin CronJobs /\ rs[j] # None /\ rs[j].running => j \in due,
               j \notin CronJobs /\ c.running => j \in due /\ ~c.enabled,
               made' = made \/ (made' = made + 1 /\ made' = j), ~(j > made'),
               up, up' = up, configured' = configured, due' = due,
               loading' = loading, loading = "no" => pending' = pending
        PROVE  SchedulerInv'
    <2>1. /\ timers'[j] = IF c.enabled THEN Dated(j, c) ELSE None
          /\ \A k \in Jobs \ {j} : timers'[k] = timers[k]
      BY <1>0, <1>9 DEF Rows
    <2>2. \A k \in Jobs \ {j} : rows'[k] = rows[k]
      BY <1>9, WriteFacts
    <2>3. j \notin CronJobs /\ rows'[j] # None /\ rows'[j].running => j \in due
      <3>1. Saved(rs, j, c)[j] = rs[j] \/ Saved(rs, j, c)[j] = Dated(j, c)
        BY <1>9, CopyFacts, WriteFacts DEF Saved
      <3>2. Dated(j, c).running = c.running
        BY CopyFacts
      <3> QED
        BY <1>9, <3>1, <3>2
    <2>4. ASSUME j \notin overtaken' PROVE JobFits(j)'
      <3>1. rows'[j] = IF c.enabled THEN Dated(j, c) ELSE c
        BY <1>9, <2>4, WriteFacts
      <3>2. \A r \in RunIds : ~(runs'[r] # None /\ runs'[r].job = j)
        BY <1>9, <2>4 DEF Runs
      <3>3. c.enabled \in BOOLEAN /\ c.running \in BOOLEAN
        BY DEF Copy
      <3> QED
        BY <1>9, <2>1, <2>4, <3>1, <3>2, <3>3, IdleFits
    <2> QED
      BY <1>5, <1>9, <2>1, <2>2, <2>3, <2>4
  <1>10. ASSUME NEW j \in Jobs, NEW r \in RunIds, TimerFires(j, r)
         PROVE  SchedulerInv'
    <2>1. PICK c \in Copy : c = timers[j]
      BY <1>0, <1>10 DEF TimerFires, Rows
    <2>2. /\ timers[j] # None /\ Overtakes(j)
          /\ j \in CronJobs \/ j \in due
          /\ made' = made /\ loading' = loading /\ up' = up
          /\ configured' = configured /\ due' = due /\ pending' = pending
          /\ unarmed' = unarmed /\ unread' = unread
      BY <1>10 DEF TimerFires, loadVars, leftVars
    <2>3. /\ runs[r] = None /\ timers' = [timers EXCEPT ![j] = None]
          /\ rows' = Write(rows, j, [c EXCEPT !.running = TRUE])
          /\ runs' = [runs EXCEPT ![r] = [job |-> j, copy |-> c, phase |-> FirstPhase(j)]]
      BY <1>10, <2>1 DEF TimerFires, RunJob
    <2>4. up /\ ~(j > made) /\ overtaken \subseteq overtaken'
      BY <1>t, <1>o, <2>2
    <2>5. ASSUME j \notin overtaken'
          PROVE  Runs(j) = {} /\ rows[j] # None /\ pending[j] = None
      <3>1. JobFits(j) /\ Runs(j) = {} /\ pending[j] = None
        BY <1>2, <1>o, <2>2, <2>5
      <3> QED
        BY <2>2, <3>1 DEF JobFits
    <2>6. pending'[j] # None => ~pending'[j].running
      BY <1>2, <2>2
    <2> QED
      BY <1>0, <1>8, <2>2, <2>3, <2>4, <2>5, <2>6
  <1>11. ASSUME NEW j \in Jobs, NEW inTurn \in BOOLEAN, CreateJob(j, inTurn)
         PROVE  SchedulerInv'
    <2>1. PICK rs \in Rows : rs = [rows EXCEPT ![j] = NewJob]
      BY <1>0, CopyFacts DEF Rows
    <2>2. rs[j] = NewJob /\ \A k \in Jobs \ {j} : rs[k] = rows[k]
      BY <1>0, <2>1 DEF Rows
    <2>3. /\ up /\ up' = up /\ j = made + 1 /\ made' = j
          /\ pending' = pending /\ loading' = loading /\ configured' = configured
          /\ due' = due /\ overtaken' = overtaken /\ unarmed' = unarmed /\ unread' = unread
      BY <1>11 DEF CreateJob, loadVars, leftVars
    <2>4. j > made /\ ~(j > made') /\ Untouched(j)
      BY <1>0, <1>2, <2>3
    <2>5. Runs(j) = {} /\ pending[j] = None
      BY <2>4 DEF Untouched
    <2>6. PICK c \in Copy : c = Dated(j, NewJob)
      BY CopyFacts
    <2>7. NewJob \in Copy /\ NewJob # None /\ ~NewJob.running
      BY CopyFacts
    <2>8. CASE Arm(rs, j, NewJob) /\ UNCHANGED <<runs, begun, call>>
      <3>1. PICK n \in Copy : n = NewJob
        BY <2>7
      <3>2. /\ timers' = [timers EXCEPT ![j] = IF n.enabled THEN Dated(j, n) ELSE None]
            /\ rows' = IF n.enabled THEN Saved(rs, j, n) ELSE rs
            /\ runs' = runs
        BY <2>8, <3>1 DEF Arm
      <3> QED
        BY <1>9, <2>2, <2>3, <2>4, <2>5, <2>7, <3>1, <3>2
    <2>9. ASSUME NEW r \in RunIds, Overdue(j), RunJob(rs, j, Dated(j, NewJob), r)
          PROVE  SchedulerInv'
      <3>1. /\ runs[r] = None /\ timers' = [timers EXCEPT ![j] = None]
            /\ rows' = Write(rs, j, [c EXCEPT !.running = TRUE])
            /\ runs' = [runs EXCEPT ![r] = [job |-> j, copy |-> c, phase |-> FirstPhase(j)]]
        BY <2>6, <2>9 DEF RunJob
      <3>2. j \in due
        BY <2>9 DEF Overdue
      <3> QED
        BY <1>8, <2>2, <2>3, <2>4, <2>5, <2>7, <3>1, <3>2
    <2>10. CASE UNCHANGED <<rows, timers>> /\ UNCHANGED <<runs, begun, call>>
      <3>1. rows'[j] = None /\ timers'[j] = None
        BY <2>4, <2>10 DEF Untouched
      <3>2. \A r \in RunIds : ~(runs'[r] # None /\ runs'[r].job = j)
        BY <2>5, <2>10 DEF Runs
      <3>3. JobFits(j)'
        BY <2>3, <2>5, <2>7, <3>1, <3>2, IdleFits
      <3>4. QED
        BY <1>5, <2>3, <2>4, <2>5, <2>10, <3>1, <3>3
    <2> QED
      BY <1>11, <2>1, <2>8, <2>9, <2>10 DEF CreateJob
  <1>12. ASSUME NEW j \in Jobs, RemoveJob(j)
         PROVE  SchedulerInv'
    <2>1. /\ rows' = [rows EXCEPT ![j] = None] /\ timers' = [timers EXCEPT ![j] = None]
          /\ up /\ up' = up /\ made' = made /\ runs' = runs /\ rows[j] # None
          /\ pending' = pending /\ loading' = loading /\ configured' = configured
          /\ due' = due /\ Overtakes(j) /\ unarmed' = unarmed /\ unread' = unread
      BY <1>12 DEF RemoveJob, loadVars, leftVars
    <2>2. /\ rows'[j] = None /\ timers'[j] = None
          /\ \A k \in Jobs \ {j} : rows'[k] = rows[k] /\ timers'[k] = timers[k]
      BY <1>0, <2>1 DEF Rows
    <2>3. overtaken \subseteq overtaken'
      BY <1>o, <2>1
    <2>4. ASSUME j \notin overtaken' PROVE JobFits(j)'
      <3>1. pending'[j] = None /\ \A r \in RunIds : ~(runs'[r] # None /\ runs'[r].job = j)
        BY <1>o, <2>1, <2>4 DEF Runs
      <3>2. NewJob \in Copy /\ ~NewJob.running
        BY CopyFacts
      <3> QED
        BY <2>2, <3>1, <3>2, IdleFits
    <2>5. ~(j > made')
      BY <1>2, <2>1 DEF Untouched
    <2> QED
      BY <1>2, <1>5, <2>1, <2>2, <2>3, <2>4, <2>5
  <1>13. ASSUME NEW j \in Jobs, NEW e \in BOOLEAN, NEW inTurn \in BOOLEAN,
                SetEnabled(j, e, inTurn)
         PROVE  SchedulerInv'
    <2>1. /\ rows[j] # None /\ rows[j] \in Copy
          /\ up /\ up' = up /\ made' = made
          /\ pending' = pending /\ loading' = loading /\ configured' = configured
          /\ due' = due /\ Overtakes(j) /\ unread' = unread
      BY <1>2, <1>13 DEF SetEnabled, loadVars
    <2>2. PICK c \in Copy : c = Switched(rows[j], e)
      BY <2>1, SwitchFacts
    <2>3. c.enabled = e /\ c.running = rows[j].running /\ c # None
      <3>1. Switched(rows[j], e).enabled = e /\ Switched(rows[j], e).running = rows[j].running
        BY <2>1, SwitchFacts
      <3> QED
        BY <2>2, <3>1, NoneAssumption
    <2>4. PICK rs \in Rows : rs = Write(rows, j, c)
      BY <1>0, WriteFacts
    <2>5. rs[j] = c /\ \A k \in Jobs \ {j} : rs[k] = rows[k]
      BY <1>0, <2>1, <2>4 DEF Write, Rows
    <2>6. ~(j > made')
      BY <1>2, <2>1 DEF Untouched
    <2>7. overtaken \subseteq overtaken'
      BY <1>o, <2>1
    <2>8. ASSUME j \notin overtaken'
          PROVE  /\ Runs(j) = {} /\ pending[j] = None
                 /\ up /\ configured /\ j \notin unread => ~c.running
      BY <1>2, <1>o, <2>1, <2>3, <2>8 DEF JobFits
    <2>9. j \notin CronJobs /\ c.running => j \in due
      BY <1>2, <2>1, <2>3
    <2>10. pending'[j] # None => ~pending'[j].running
      BY <1>2, <2>1
    <2>11. CASE /\ ~(e /\ Overdue(j)) /\ Arm(rs, j, c) /\ unarmed' = unarmed \ {j}
                /\ UNCHANGED <<runs, begun, call>>
      <3>1. /\ timers' = [timers EXCEPT ![j] = IF c.enabled THEN Dated(j, c) ELSE None]
            /\ rows' = IF c.enabled THEN Saved(rs, j, c) ELSE rs
            /\ runs' = runs
        BY <2>11 DEF Arm
      <3>2. j \notin CronJobs /\ c.running => j \in due /\ ~c.enabled
        BY <2>3, <2>9, <2>11 DEF Overdue
      <3>3. \A k \in Jobs \ {j} : k \in unarmed => k \in unarmed'
        BY <2>11
      <3> QED
        BY <1>9, <2>1, <2>5, <2>6, <2>7, <2>8, <2>10, <3>1, <3>2, <3>3
    <2>13. CASE /\ MayRefuse(j, c) /\ rows' = rs /\ timers' = [timers EXCEPT ![j] = None]
                /\ unarmed' = unarmed \cup {j} /\ UNCHANGED <<runs, begun, call>>
      <3>1. timers'[j] = None /\ \A k \in Jobs \ {j} : timers'[k] = timers[k]
        BY <1>0, <2>13 DEF Rows
      <3>2. ASSUME j \notin overtaken' PROVE JobFits(j)'
        <4>1. pending'[j] = None /\ \A r \in RunIds : ~(runs'[r] # None /\ runs'[r].job = j)
          BY <2>1, <2>8, <2>13, <3>2 DEF Runs
        <4>2. rows'[j] = c /\ j \in unarmed'
          BY <2>5, <2>13
        <4>3. up' /\ configured' /\ j \notin unread' => ~c.running
          BY <2>1, <2>8, <3>2
        <4>4. QED
          BY <3>1, <4>1, <4>2, <4>3, IdleFits
      <3>3. \A k \in Jobs \ {j} : rows'[k] = rows[k] /\ timers'[k] = timers[k]
                                /\ pending'[k] = pending[k] /\ (k \in unarmed => k \in unarmed')
        BY <2>1, <2>5, <2>13, <3>1
      <3>4. j \in CronJobs /\ runs' = runs
        BY <2>13 DEF MayRefuse
      <3>5. QED
        BY <1>5, <2>1, <2>6, <2>7, <2>10, <3>2, <3>3, <3>4
    <2>12. ASSUME Overdue(j), NEW r \in RunIds, RunJob(rs, j, Dated(j, c), r),
                  unarmed' = unarmed
           PROVE  SchedulerInv'
      <3>1. PICK d \in Copy : d = Dated(j, c)
        BY CopyFacts
      <3>2. /\ runs[r] = None /\ timers' = [timers EXCEPT ![j] = None]
            /\ rows' = Write(rs, j, [d EXCEPT !.running = TRUE])
            /\ runs' = [runs EXCEPT ![r] = [job |-> j, copy |-> d, phase |-> FirstPhase(j)]]
        BY <2>12, <3>1 DEF RunJob
      <3>3. j \in due /\ unarmed' = unarmed
        BY <2>12 DEF Overdue
      <3> QED
        BY <1>8, <2>1, <2>3, <2>5, <2>6, <2>7, <2>8, <2>10, <3>2, <3>3
    <2> QED
      BY <1>13, <2>2, <2>4, <2>11, <2>12, <2>13 DEF SetEnabled
  <1>14. ASSUME NEW j \in Jobs, LoadJob(j)
         PROVE  SchedulerInv'
    <2>1. /\ pending[j] # None /\ pending' = [pending EXCEPT ![j] = None]
          /\ up' = up /\ made' = made /\ loading' = loading /\ configured' = configured
          /\ due' = due /\ overtaken' = overtaken /\ unarmed' = unarmed /\ unread' = unread
      BY <1>14 DEF LoadJob, turnVars, leftVars
    <2>2. PICK c \in Copy : c = pending[j]
      BY <1>2, <2>1
    <2>3. /\ ~c.running /\ up /\ ~(j > made') /\ loading # "no"
      BY <1>2, <1>n, <1>t, <2>1, <2>2
    <2>4. pending'[j] = None /\ \A k \in Jobs \ {j} : pending'[k] = pending[k]
      BY <1>0, <2>1 DEF Rows
    <2>5. ASSUME j \notin overtaken' PROVE rows[j] = c /\ Runs(j) = {}
      BY <1>2, <2>1, <2>2, <2>5 DEF JobFits, RunFits
    <2>6. c # None
      BY CopyFacts
    <2>7. CASE Arm(rows, j, c) /\ UNCHANGED <<runs, begun, waits>>
      <3>1. /\ timers' = [timers EXCEPT ![j] = IF c.enabled THEN Dated(j, c) ELSE None]
            /\ rows' = IF c.enabled THEN Saved(rows, j, c) ELSE rows
            /\ runs' = runs
        BY <2>7 DEF Arm
      <3>2. overtaken \subseteq overtaken'
        BY <2>1
      <3>3. j \notin CronJobs /\ rows[j] # None /\ rows[j].running => j \in due
        BY <1>2
      <3> QED
        BY <1>0, <1>9, <2>1, <2>3, <2>4, <2>5, <3>1, <3>2, <3>3
    <2>8. ASSUME Overdue(j), NEW r \in RunIds, RunJob(rows, j, Dated(j, c), r)
          PROVE  SchedulerInv'
      <3>1. PICK d \in Copy : d = Dated(j, c)
        BY CopyFacts
      <3>2. /\ runs[r] = None /\ timers' = [timers EXCEPT ![j] = None]
            /\ rows' = Write(rows, j, [d EXCEPT !.running = TRUE])
            /\ runs' = [runs EXCEPT ![r] = [job |-> j, copy |-> d, phase |-> FirstPhase(j)]]
        BY <2>8, <3>1 DEF RunJob
      <3>3. j \in due
        BY <2>8 DEF Overdue
      <3>4. overtaken \subseteq overtaken'
        BY <2>1
      <3> QED
        BY <1>0, <1>8, <2>1, <2>3, <2>4, <2>5, <2>6, <3>2, <3>3, <3>4
    <2> QED
      BY <1>14, <2>2, <2>7, <2>8 DEF LoadJob
  \* A start begins: nobody has a place in another one.
  <1>15. ASSUME NEW rs \in Rows, Begin(rs, loading'), loading' # "no",
                runs' = runs, due' = due, up',
                made' = made \/ made' = made + 1,
                \A j \in Jobs : j > made' => rs[j] = None /\ timers'[j] = None,
                overtaken \subseteq overtaken',
                \A j \in Jobs : j \notin overtaken' => Runs(j) = {},
                \A j \in Jobs : j \notin CronJobs /\ rs[j] # None /\ rs[j].running => j \in due,
                \A j \in Jobs : j \notin overtaken' /\ timers'[j] # None =>
                   /\ rs[j] # None /\ rs[j].enabled /\ timers'[j] = Dated(j, rs[j])
                   /\ j \notin CronJobs => ~rs[j].running,
                loading' = "edit" => \A j \in Jobs : timers'[j] = None
         PROVE  SchedulerInv'
    <2> DEFINE read == \A j \in Jobs : /\ rows'[j] = Recovered(j, rs[j])
                                       /\ pending'[j] = Recovered(j, rs[j])
               missed == /\ rows' = rs
                         /\ \A j \in Jobs : pending'[j] = None /\ (rs[j] # None => j \in unread')
    <2>1. read \/ missed
      BY <1>15 DEF Begin, NoCopies
    <2> HIDE DEF read, missed
    <2>2. \A j \in Jobs : rs[j] \in Copy \cup {None}
      BY DEF Rows
    <2>3. ASSUME NEW j \in Jobs, j > made'
          PROVE  Untouched(j)'
      <3>1. j > made
        BY <1>0, <1>15, <2>3 DEF Jobs
      <3>2. Runs(j) = {}
        BY <1>2, <3>1 DEF Untouched
      <3>3. Runs(j)' = {}
        BY <1>15, <3>2 DEF Runs
      <3>4. Recovered(j, rs[j]) = None
        BY <1>15, <2>3, CopyFacts
      <3>5. rows'[j] = None /\ pending'[j] = None
        BY <1>15, <2>1, <2>3, <3>4 DEF read, missed
      <3> QED
        BY <1>15, <2>3, <3>3, <3>5 DEF Untouched
    <2>4. ASSUME NEW j \in Jobs, j \notin overtaken'
          PROVE  JobFits(j)'
      <3>1. \A r \in RunIds : ~(runs'[r] # None /\ runs'[r].job = j)
        BY <1>15, <2>4 DEF Runs
      <3>2. CASE read
        <4>1. rows'[j] = Recovered(j, rs[j]) /\ pending'[j] = Recovered(j, rs[j])
          BY <3>2 DEF read
        <4>2. Recovered(j, rs[j]) = None => rs[j] = None \/ (rs[j].running /\ j \notin CronJobs)
          BY <2>2, CopyFacts
        <4>3. Recovered(j, rs[j]) = None \/ loading' = "edit" => timers'[j] = None
          BY <1>15, <2>4, <4>2
        <4>4. QED
          BY <2>2, <3>1, <4>1, <4>3, StartFits
      <3>3. CASE missed
        <4>1. /\ rows'[j] = rs[j] /\ pending'[j] = None
              /\ rows'[j] # None => j \in unread'
          BY <3>3 DEF missed
        <4>2. timers'[j] # None =>
                 /\ rows'[j] # None /\ rows'[j].enabled /\ timers'[j] = Dated(j, rows'[j])
                 /\ j \notin CronJobs => ~rows'[j].running
          BY <1>15, <2>4, <4>1
        <4>3. QED
          BY <3>1, <4>1, <4>2, UnreadFits
      <3> QED
        BY <2>1, <3>2, <3>3
    <2>5. JobsFit'
      BY <2>3, <2>4 DEF JobsFit
    <2>6. RunningRows'
      <3>1. \A j \in Jobs : Recovered(j, rs[j]) # None => ~Recovered(j, rs[j]).running
        BY <2>2, CopyFacts
      <3>2. CASE read
        BY <3>1, <3>2 DEF RunningRows, read
      <3>3. CASE missed
        BY <1>15, <3>3 DEF RunningRows, missed
      <3> QED
        BY <2>1, <3>2, <3>3
    <2> QED
      BY <1>1, <1>15, <2>5, <2>6 DEF SchedulerInv
  <1>16. CASE ConfigOn
    <2>1. /\ up /\ up' = up /\ ~configured /\ Begin(rows, "config") /\ loading' = "config"
          /\ runs' = runs /\ due' = due /\ made' = made /\ timers' = timers
          /\ overtaken' = overtaken \cup {j \in Jobs : Running(j)} /\ loading = "no"
      BY <1>16 DEF ConfigOn, Begin, turnVars
    <2>2. \A j \in Jobs : pending[j] = None
      BY <1>n, <2>1
    <2>3. \A j \in Jobs : j \notin overtaken' => Runs(j) = {} /\ j \notin overtaken
      BY <2>1 DEF Running, Runs
    <2>4. ASSUME NEW j \in Jobs, j \notin overtaken', timers'[j] # None
          PROVE  /\ rows[j] # None /\ rows[j].enabled /\ timers'[j] = Dated(j, rows[j])
                 /\ j \notin CronJobs => ~rows[j].running
      <3>1. JobFits(j)
        BY <1>2, <2>3, <2>4
      <3> QED
        BY <2>1, <2>2, <2>4, <3>1 DEF JobFits
    <2>5. \A j \in Jobs : j > made' => rows[j] = None /\ timers'[j] = None
      BY <1>2, <2>1 DEF Untouched
    <2> QED
      BY <1>0, <1>2, <1>15, <2>1, <2>3, <2>4, <2>5
  <1>17. ASSUME NEW j \in Jobs, NEW rs \in Rows, Begin(rs, "edit"), timers' = NoCopies,
                up, up' = up, configured, runs' = runs, due' = due,
                made' = made \/ (made' = made + 1 /\ made' = j),
                \A k \in Jobs \ {j} : rs[k] = rows[k],
                rs[j] # None => /\ ~(j > made')
                                /\ rs[j].running => rows[j] # None /\ rows[j].running,
                \A i \in Jobs : i \in overtaken \/ Held(i) => i \in overtaken'
         PROVE  SchedulerInv'
    <2>1. /\ loading' = "edit" /\ overtaken \subseteq overtaken'
          /\ \A k \in Jobs : k \notin overtaken' => Runs(k) = {}
          /\ \A k \in Jobs : timers'[k] = None
      BY <1>0, <1>17, HeldMeans DEF Begin, NoCopies
    <2>2. \A k \in Jobs : k \notin CronJobs /\ rs[k] # None /\ rs[k].running => k \in due
      BY <1>2, <1>17
    <2>3. \A k \in Jobs : k > made' => rs[k] = None
      <3>1. \A k \in Jobs : k > made' => k > made
        BY <1>0, <1>17 DEF Jobs
      <3> QED
        BY <1>2, <1>17, <3>1 DEF Untouched
    <2> QED
      BY <1>15, <1>17, <2>1, <2>2, <2>3
  <1>18. ASSUME NEW j \in Jobs, NEW c \in Copy \cup {None}, ~configured, configured' = configured,
                up, up' = up, rows' = [rows EXCEPT ![j] = c],
                timers' = timers, runs' = runs, due' = due, pending' = pending,
                loading' = loading, overtaken \subseteq overtaken',
                unarmed' = unarmed, unread' = unread,
                made' = made \/ (made' = made + 1 /\ made' = j), ~(j > made'),
                c # None => (c.running => rows[j] # None /\ rows[j].running),
                j \notin overtaken' => Runs(j) = {} /\ timers[j] = None /\ pending[j] = None
         PROVE  SchedulerInv'
    <2>1. rows'[j] = c /\ \A k \in Jobs \ {j} : rows'[k] = rows[k]
      BY <1>0, <1>18 DEF Rows
    <2>2. ASSUME j \notin overtaken' PROVE JobFits(j)'
      <3>1. Runs(j)' = {}
        BY <1>18, <2>2 DEF Runs
      <3> QED
        BY <1>18, <2>2, <3>1 DEF JobFits
    <2>3. /\ j \notin CronJobs /\ rows'[j] # None /\ rows'[j].running => j \in due
          /\ pending'[j] # None => ~pending'[j].running
      BY <1>2, <1>18, <2>1
    <2> QED
      BY <1>5, <1>18, <2>1, <2>2, <2>3
  <1>19. ASSUME NEW j \in Jobs, CreateRow(j) PROVE SchedulerInv'
    <2>1. /\ up /\ up' = up /\ j = made + 1 /\ made' = j /\ runs' = runs
          /\ configured' = configured /\ due' = due
          /\ overtaken' = overtaken \cup {i \in Jobs : configured /\ Held(i)}
      BY <1>19 DEF CreateRow, turnVars
    <2>2. PICK rs \in Rows : rs = [rows EXCEPT ![j] = NewJob]
      BY <1>0, CopyFacts DEF Rows
    <2>3. rs[j] = NewJob /\ \A k \in Jobs \ {j} : rs[k] = rows[k]
      BY <1>0, <2>2 DEF Rows
    <2>4. NewJob \in Copy /\ ~NewJob.running /\ Untouched(j) /\ ~(j > made')
      BY <1>0, <1>2, <2>1, CopyFacts
    <2>5. CASE configured /\ Begin(rs, "edit") /\ timers' = NoCopies
      BY <1>17, <2>1, <2>3, <2>4, <2>5
    <2>6. CASE ~configured /\ rows' = rs /\ UNCHANGED <<timers, loadVars, leftVars>>
      <3>1. /\ timers' = timers /\ pending' = pending /\ loading' = loading
            /\ unarmed' = unarmed /\ unread' = unread
        BY <2>6 DEF loadVars, leftVars
      <3> QED
        BY <1>18, <2>1, <2>2, <2>4, <2>6, <3>1 DEF Untouched
    <2> QED
      BY <1>19, <2>2, <2>5, <2>6 DEF CreateRow
  <1>20. ASSUME NEW j \in Jobs, EditRow(j) PROVE SchedulerInv'
    <2>1. /\ up /\ up' = up /\ rows[j] # None /\ rows[j] \in Copy /\ made' = made
          /\ runs' = runs /\ configured' = configured /\ due' = due
          /\ overtaken' = overtaken \cup
                             {i \in Jobs : (configured \/ i = j) /\ Held(i)}
                             \cup IF timers[j] # None /\ ~configured THEN {j} ELSE {}
      BY <1>2, <1>20 DEF EditRow, turnVars
    <2>2. PICK c \in {None, [rows[j] EXCEPT !.enabled = TRUE], [rows[j] EXCEPT !.enabled = FALSE]} :
             LET rs == [rows EXCEPT ![j] = c] IN
             \/ configured /\ Begin(rs, "edit") /\ timers' = NoCopies
             \/ ~configured /\ rows' = rs /\ UNCHANGED <<timers, loadVars, leftVars>>
      BY <1>20 DEF EditRow
    <2>3. c \in Copy \cup {None} /\ (c # None => c.running = rows[j].running)
      BY <2>1, <2>2 DEF Copy
    <2>4. PICK rs \in Rows : rs = [rows EXCEPT ![j] = c]
      BY <1>0, <2>3 DEF Rows
    <2>5. rs[j] = c /\ \A k \in Jobs \ {j} : rs[k] = rows[k]
      BY <1>0, <2>4 DEF Rows
    <2>6. ~(j > made')
      BY <1>2, <2>1 DEF Untouched
    <2>7. CASE configured /\ Begin(rs, "edit") /\ timers' = NoCopies
      BY <1>17, <2>1, <2>3, <2>5, <2>6, <2>7
    <2>8. CASE ~configured /\ rows' = rs /\ UNCHANGED <<timers, loadVars, leftVars>>
      <3>1. /\ timers' = timers /\ pending' = pending /\ loading' = loading
            /\ unarmed' = unarmed /\ unread' = unread
        BY <2>8 DEF loadVars, leftVars
      <3>2. j \notin overtaken' => Runs(j) = {} /\ timers[j] = None /\ pending[j] = None
        BY <2>1, <2>8, HeldMeans
      <3>3. overtaken \subseteq overtaken'
        BY <2>1
      <3> QED
        BY <1>18, <2>1, <2>3, <2>4, <2>6, <2>8, <3>1, <3>2, <3>3
    <2> QED
      BY <2>2, <2>4, <2>7, <2>8
  <1>21. CASE ConfigOff
    <2>1. /\ up /\ up' = up /\ configured' = FALSE /\ timers' = NoCopies
          /\ rows' = rows /\ runs' = runs /\ pending' = pending /\ loading' = loading
          /\ made' = made /\ due' = due
          /\ overtaken' = overtaken \cup {j \in Jobs : Held(j)}
      BY <1>21 DEF ConfigOff, loadVars
    <2>2. ASSUME NEW j \in Jobs
          PROVE  (j > made => Untouched(j))' /\ (j \notin overtaken => JobFits(j))'
      <3>1. Runs(j)' = Runs(j) /\ timers'[j] = None
        BY <2>1 DEF Runs, NoCopies
      <3>2. (j > made => Untouched(j))'
        BY <1>2, <2>1, <3>1 DEF Untouched
      <3>3. ASSUME j \notin overtaken' PROVE JobFits(j)'
        <4>1. Runs(j) = {} /\ pending[j] = None
          BY <2>1, <3>3, HeldMeans
        <4> QED
          BY <2>1, <3>1, <4>1 DEF JobFits
      <3> QED
        BY <3>2, <3>3
    <2>3. JobsFit' /\ RunningRows'
      BY <1>2, <2>1, <2>2 DEF JobsFit, RunningRows
    <2> QED
      BY <1>1, <2>1, <2>3 DEF SchedulerInv
  <1>22. CASE Crash
    <2>1. /\ rows' = rows /\ timers' = NoCopies /\ pending' = NoCopies /\ up' = FALSE
          /\ runs' = [r \in RunIds |-> None] /\ made' = made /\ due' = due
      BY <1>22 DEF Crash, ProcessEnds
    <2>2. \A j \in Jobs : timers'[j] = None /\ pending'[j] = None /\ Runs(j)' = {}
      BY <2>1 DEF NoCopies, Runs
    <2>3. JobsFit' /\ RunningRows'
      BY <1>2, <2>1, <2>2 DEF JobsFit, RunningRows, JobFits, Untouched
    <2> QED
      BY <1>1, <2>1, <2>2, <2>3 DEF SchedulerInv
  <1>23. CASE Boot
    <2>1. /\ ~up /\ up' /\ made' = made /\ timers' = timers /\ runs' = runs
          /\ configured' = configured /\ due' = due /\ overtaken' = overtaken
      BY <1>23 DEF Boot, turnVars
    <2>2. \A j \in Jobs : timers[j] = None /\ pending[j] = None /\ Runs(j) = {}
      BY <2>1 DEF SchedulerInv, NoCopies
    <2>3. CASE configured /\ Begin(rows, "boot")
      <3>1. Begin(rows, loading') /\ loading' # "no" /\ loading' # "edit"
        BY <2>3 DEF Begin
      <3> QED
        BY <1>0, <1>2, <1>15, <2>1, <2>2, <3>1 DEF Untouched
    <2>4. CASE ~configured /\ UNCHANGED <<rows, loadVars, leftVars>>
      <3>1. rows' = rows /\ pending' = pending /\ loading' = loading
        BY <2>4 DEF loadVars
      <3>2. ASSUME NEW j \in Jobs
            PROVE  (j > made => Untouched(j))' /\ JobFits(j)'
        <4>1. Runs(j)' = {} /\ timers'[j] = None /\ pending'[j] = None
          BY <2>1, <2>2, <3>1 DEF Runs
        <4> QED
          BY <1>2, <2>1, <2>4, <3>1, <4>1 DEF JobFits, Untouched
      <3>3. JobsFit' /\ RunningRows'
        BY <1>2, <2>1, <3>1, <3>2 DEF JobsFit, RunningRows
      <3> QED
        BY <1>1, <2>1, <3>1, <3>3 DEF SchedulerInv
    <2> QED
      BY <1>23, <2>3, <2>4 DEF Boot
  \* A start fails: what it had still to schedule is dropped.
  <1>28. ASSUME NEW j \in Jobs, LoadRefused(j) PROVE SchedulerInv'
    <2>1. /\ rows' = rows /\ pending' = NoCopies /\ loading' = "no" /\ made' = made /\ due' = due
          /\ pending[j] # None
      BY <1>28 DEF LoadRefused
    <2>2. RunningRows' /\ \A k \in Jobs : pending'[k] = None
      BY <1>2, <2>1 DEF RunningRows, NoCopies
    <2>3. CASE loading = "boot"
      <3>1. timers' = NoCopies /\ runs' = [r \in RunIds |-> None] /\ up' = FALSE
        BY <1>28, <2>3 DEF LoadRefused, ProcessEnds
      <3>2. \A k \in Jobs : timers'[k] = None /\ Runs(k)' = {}
        BY <3>1 DEF NoCopies, Runs
      <3>3. JobsFit'
        BY <1>2, <2>1, <2>2, <3>1, <3>2 DEF JobsFit, JobFits, Untouched
      <3>4. QED
        BY <1>1, <2>1, <2>2, <3>1, <3>2, <3>3 DEF SchedulerInv
    <2>4. up
      BY <1>t, <2>1
    <2>5. CASE loading = "config"
      <3>1. /\ timers' = NoCopies /\ runs' = runs /\ up' = up /\ configured' = FALSE
            /\ overtaken' = overtaken
        BY <1>28, <2>5 DEF LoadRefused
      <3>2. ASSUME NEW k \in Jobs
            PROVE  (k > made => Untouched(k))' /\ (k \notin overtaken => JobFits(k))'
        <4>1. Runs(k)' = Runs(k) /\ timers'[k] = None /\ pending'[k] = None
          BY <2>2, <3>1 DEF Runs, NoCopies
        <4>2. (k > made => Untouched(k))'
          BY <1>2, <2>1, <4>1 DEF Untouched
        <4>3. ASSUME JobFits(k) PROVE JobFits(k)'
          <5>1. \A r \in Runs(k) : RunFits(k, r)'
            BY <2>1, <3>1, <4>1, <4>3 DEF JobFits, RunFits
          <5>2. QED
            BY <2>1, <3>1, <4>1, <5>1 DEF JobFits
        <4>4. QED
          BY <1>2, <3>1, <4>2, <4>3
      <3>3. JobsFit'
        BY <3>2 DEF JobsFit
      <3>4. QED
        BY <1>1, <2>1, <2>2, <2>4, <3>1, <3>3 DEF SchedulerInv
    <2>6. CASE loading = "edit"
      <3>1. /\ timers' = [timers EXCEPT ![j] = None] /\ runs' = runs /\ up' = up
            /\ configured' = configured /\ overtaken' = overtaken
            /\ unarmed' = unarmed \cup {i \in Jobs : pending[i] # None} /\ unread' = unread
        BY <1>28, <2>6 DEF LoadRefused
      <3>2. timers'[j] = None /\ \A k \in Jobs \ {j} : timers'[k] = timers[k]
        BY <1>0, <3>1 DEF Rows
      <3>3. ASSUME NEW k \in Jobs
            PROVE  (k > made => Untouched(k))' /\ (k \notin overtaken => JobFits(k))'
        <4>1. Runs(k)' = Runs(k) /\ pending'[k] = None
          BY <2>2, <3>1 DEF Runs
        <4>2. (k > made => Untouched(k))'
          BY <1>2, <2>1, <3>2, <4>1 DEF Untouched
        <4>3. CASE pending[k] = None
          BY <1>0, <1>2, <2>1, <2>2, <2>4, <3>1, <3>2, <4>3, OthersFit DEF Runs
        <4>4. ASSUME pending[k] # None, JobFits(k) PROVE JobFits(k)'
          <5>1. Runs(k) = {} /\ rows[k] = pending[k] /\ ~rows[k].running
            BY <4>4 DEF JobFits, RunFits
          <5>2. k \in unarmed' /\ timers'[k] = None
            BY <2>6, <3>1, <3>2, <4>4 DEF JobFits
          <5>3. QED
            BY <2>1, <4>1, <5>1, <5>2 DEF JobFits
        <4>5. QED
          BY <1>2, <3>1, <4>2, <4>3, <4>4
      <3>4. JobsFit'
        BY <3>3 DEF JobsFit
      <3>5. QED
        BY <1>1, <2>1, <2>2, <2>4, <3>1, <3>4 DEF SchedulerInv
    <2>7. QED
      BY <1>28, <2>3, <2>5, <2>6 DEF LoadRefused
  \* A run goes on: its job and its copy stay.
  <1>24. ASSUME NEW only \in SUBSET RunIds, NEW phase,
                \A r \in only : runs[r] # None,
                runs' = [r \in RunIds |-> IF r \in only THEN [runs[r] EXCEPT !.phase = phase]
                                          ELSE runs[r]],
                runs' \in [RunIds -> Run \cup {None}],
                \A r \in only : runs'[r] # None,
                rows' = rows, timers' = timers, pending' = pending, made' = made, due' = due,
                overtaken' = overtaken, up' = up, configured' = configured, loading' = loading,
                unarmed' = unarmed, unread' = unread
         PROVE  SchedulerInv'
    <2>1. \A r \in RunIds : /\ runs'[r] # None <=> runs[r] # None
                            /\ runs[r] # None => runs'[r].job = runs[r].job
                                              /\ runs'[r].copy = runs[r].copy
      BY <1>3, <1>24 DEF Run
    <2>2. ASSUME NEW j \in Jobs
          PROVE  (j > made => Untouched(j))' /\ (j \notin overtaken => JobFits(j))'
      BY <1>0, <1>2, <1>24, <2>1, <2>2, OthersFit DEF Runs
    <2>3. JobsFit' /\ RunningRows'
      BY <1>2, <1>24, <2>2 DEF JobsFit, RunningRows
    <2>4. \A j \in Jobs : Runs(j)' = Runs(j)
      BY <2>1 DEF Runs
    <2> QED
      BY <1>1, <1>24, <2>3, <2>4 DEF SchedulerInv
  <1>e. ASSUME NEW r \in RunIds, runs[r] # None, NEW phase
        PROVE  [runs[r] EXCEPT !.phase = phase] # None
               \/ phase \notin {"queued", "executing", "dropped"}
    BY <1>3, <1>e, NoneAssumption DEF Run
  <1>25. ASSUME NEW r \in RunIds, Execute(r) PROVE SchedulerInv'
    <2>1. /\ runs[r] # None /\ runs' = [runs EXCEPT ![r].phase = "executing"]
          /\ rows' = rows /\ timers' = timers /\ pending' = pending /\ made' = made
          /\ due' = due /\ overtaken' = overtaken /\ up' = up
          /\ configured' = configured /\ loading' = loading
          /\ unarmed' = unarmed /\ unread' = unread
      BY <1>25 DEF Execute, loadVars, leftVars
    <2>2. PICK only \in SUBSET RunIds : only = {r}
      OBVIOUS
    <2>3. runs' = [q \in RunIds |-> IF q \in only THEN [runs[q] EXCEPT !.phase = "executing"]
                                   ELSE runs[q]]
      BY <1>0, <2>1, <2>2
    <2>4. \A q \in only : runs[q] # None /\ runs'[q] # None
      BY <1>e, <2>1, <2>2, <2>3
    <2>5. runs' \in [RunIds -> Run \cup {None}]
      BY <1>1 DEF TypeOK
    <2> QED
      BY <1>24, <2>1, <2>3, <2>4, <2>5
  <1>26. CASE ClearSession
    <2>1. /\ runs' = [r \in RunIds |->
                        IF runs[r] # None /\ runs[r].phase = "queued"
                        THEN [runs[r] EXCEPT !.phase = "dropped"] ELSE runs[r]]
          /\ rows' = rows /\ timers' = timers /\ pending' = pending /\ made' = made
          /\ due' = due /\ overtaken' = overtaken /\ up' = up
          /\ configured' = configured /\ loading' = loading
          /\ unarmed' = unarmed /\ unread' = unread
      BY <1>26 DEF ClearSession, loadVars, leftVars
    <2>2. PICK only \in SUBSET RunIds :
             only = {r \in RunIds : runs[r] # None /\ runs[r].phase = "queued"}
      OBVIOUS
    <2>3. runs' = [q \in RunIds |-> IF q \in only THEN [runs[q] EXCEPT !.phase = "dropped"]
                                   ELSE runs[q]]
      BY <2>1, <2>2
    <2>4. \A q \in only : runs[q] # None /\ runs'[q] # None
      BY <1>e, <2>2, <2>3
    <2>5. runs' \in [RunIds -> Run \cup {None}]
      BY <1>1 DEF TypeOK
    <2> QED
      BY <1>24, <2>1, <2>3, <2>4, <2>5
  <1>27. CASE \/ \E j \in Jobs : TimePasses(j)
              \/ LoadEnds \/ TurnBegins \/ TurnEnds \/ TurnStopped \/ UNCHANGED vars
    BY <1>4, <1>27
       DEF TimePasses, LoadEnds, TurnBegins, TurnEnds, TurnStopped, vars, jobVars, loadVars,
           turnVars, leftVars
  <1> QED
    BY <1>7, <1>10, <1>11, <1>12, <1>13, <1>14, <1>16, <1>19, <1>20, <1>21, <1>22, <1>23,
       <1>25, <1>26, <1>27, <1>28 DEF Next

LEMMA SchedulerKeepsItsInv == Spec => []SchedulerInv
  BY InitFits, NextFits, PTL DEF Spec

\* Type correctness of the scheduler, its rows, timers and runs.
THEOREM SchedulerTypes == Spec => []TypeOK
  <1>1. SchedulerInv => TypeOK
    BY DEF SchedulerInv
  <1> QED
    BY <1>1, SchedulerKeepsItsInv, PTL

\* Timers hold the rows as they are (schedule, unschedule in scheduler.ts).
THEOREM TimersAreCurrent == Spec => []TimersCarryTheRow
  <1>1. SchedulerInv => TimersCarryTheRow
    BY DEF SchedulerInv, JobsFit, JobFits, TimersCarryTheRow
  <1> QED
    BY <1>1, SchedulerKeepsItsInv, PTL

\* A job runs once at a time (runJob in scheduler.ts).
THEOREM JobsRunAlone == Spec => []OneRunPerJob
  <1>1. SchedulerInv => OneRunPerJob
    <2> SUFFICES ASSUME SchedulerInv, NEW r \in RunIds, runs[r] # None,
                        NEW j, j = runs[r].job, j \notin overtaken
                 PROVE  /\ timers[j] = None /\ pending[j] = None
                        /\ rows[j] = [runs[r].copy EXCEPT !.running = TRUE]
                        /\ \A q \in RunIds \ {r} : runs[q] = None \/ runs[q].job # j
      BY DEF OneRunPerJob
    <2>1. j \in Jobs /\ r \in Runs(j)
      BY DEF SchedulerInv, TypeOK, Run, Runs
    <2>2. RunFits(j, r)
      BY <2>1 DEF SchedulerInv, JobsFit, JobFits
    <2> QED
      BY <2>2 DEF RunFits, Runs
  <1> QED
    BY <1>1, SchedulerKeepsItsInv, PTL

\* No enabled job is forgotten but by a start that could not read its row or arm
\* it, and what a crash interrupted was recovered (start, setEnabled and
\* recoverInterruptedJobs in scheduler.ts).
THEOREM EnabledJobsAreKept == Spec => []EnabledJobsAreServed
  <1>1. SchedulerInv => EnabledJobsAreServed
    <2>1. \A j : (Runs(j) # {} \/ pending[j] # None => Held(j)) /\ (Runs(j) # {} => Running(j))
      BY HeldMeans DEF Running, Runs
    <2> QED
      BY <2>1 DEF SchedulerInv, JobsFit, JobFits, EnabledJobsAreServed
  <1> QED
    BY <1>1, SchedulerKeepsItsInv, PTL

-----------------------------------------------------------------------------
(* One-shot jobs.                                                           *)
(*                                                                           *)
(* Why an instruction is dispatched once even after a crash: the row is what   *)
(* remembers it.                                                             *)

\* The row of a one-shot job whose instruction was dispatched is gone or says so,
\* whoever writes to it: no copy that says otherwise is written back after that.
BegunRow(j) ==
    j \in begun => /\ j \in due /\ j <= made
                   /\ rows[j] # None => rows[j].running

OnceInv == SchedulerInv /\ \A j \in Jobs \ CronJobs : BegunRow(j)

LEMMA BegunStays ==
    ASSUME SchedulerInv, [Next]_vars, NEW j \in Jobs \ CronJobs, BegunRow(j)
    PROVE  BegunRow(j)'
  <1>0. /\ rows \in Rows /\ timers \in Rows /\ pending \in Rows
        /\ runs \in [RunIds -> Run \cup {None}]
        /\ made \in Nat /\ due \subseteq Jobs /\ j \in Jobs /\ j \in Nat /\ j \notin CronJobs
        /\ j > made => Untouched(j)
    BY JobsAssumption DEF SchedulerInv, TypeOK, Rows, JobsFit, Jobs
  <1>1. (made' = made \/ made' = made + 1) /\ due \subseteq due'
    BY DEF Next, vars, TimePasses, TimerFires, CreateJob, RemoveJob, SetEnabled, LoadJob, LoadRefused,
           CreateRow, EditRow, Execute, RunEnds, LoadEnds, ConfigOn, ConfigOff, Crash, Boot,
           TurnBegins, TurnEnds, TurnStopped, ClearSession
  \* Nothing is written to the row, or what says the same.
  <1>2. ASSUME rows'[j] # None => rows[j] # None /\ rows'[j].running = rows[j].running,
               j \in begun' => j \in begun
        PROVE  BegunRow(j)'
    BY <1>0, <1>1, <1>2 DEF BegunRow
  <1>3. ASSUME NEW rs \in Rows, NEW k \in Jobs, NEW c \in Copy, NEW r \in RunIds,
               RunJob(rs, k, c, r), k # j => rs[j] = rows[j],
               k = j => j \in due /\ j <= made'
        PROVE  BegunRow(j)'
    <2> DEFINE d == [c EXCEPT !.running = TRUE]
    <2>1. rows' = Write(rs, k, d) /\ begun' = begun \cup {k}
      BY <1>3 DEF RunJob
    <2>2. d \in Copy /\ d.running
      BY CopyFacts
    <2> HIDE DEF d
    <2>w. /\ Write(rs, k, d)[k] = IF rs[k] = None THEN None ELSE d
          /\ k # j => Write(rs, k, d)[j] = rs[j]
      BY <1>0, <2>2, WriteFacts
    <2>3. CASE k = j
      <3>1. rows'[j] # None => rows'[j].running
        BY <2>1, <2>2, <2>3, <2>w
      <3>2. QED
        BY <1>1, <1>3, <2>3, <3>1 DEF BegunRow
    <2>4. CASE k # j
      <3>1. rows'[j] = rows[j]
        BY <1>3, <2>1, <2>4, <2>w
      <3>2. QED
        BY <1>2, <2>1, <2>4, <3>1
    <2>5. QED
      BY <2>3, <2>4
  <1>4. ASSUME NEW rs \in Rows, NEW k \in Jobs, NEW c \in Copy, Arm(rs, k, c), begun' = begun,
               k # j => rs[j] = rows[j],
               k = j /\ j \in begun => ~c.enabled,
               k = j /\ j \in begun /\ rs[j] # None => rows[j] # None /\ rs[j].running = rows[j].running
        PROVE  BegunRow(j)'
    <2>1. CASE j \notin begun
      BY <1>4, <2>1 DEF BegunRow
    <2>2. CASE k = j /\ j \in begun
      <3>1. rows' = rs
        BY <1>4, <2>2 DEF Arm
      <3>2. QED
        BY <1>2, <1>4, <2>2, <3>1
    <2>3. CASE k # j
      <3>1. rows'[j] = rows[j]
        BY <1>0, <1>4, <2>3, WriteFacts DEF Arm
      <3>2. QED
        BY <1>2, <1>4, <3>1
    <2>4. QED
      BY <2>1, <2>2, <2>3
  <1>d. \A k \in Jobs : \A c \in Copy : Dated(k, c) \in Copy
    BY CopyFacts
  <1>5. ASSUME NEW k \in Jobs, NEW r \in RunIds, TimerFires(k, r) PROVE BegunRow(j)'
    <2>1. timers[k] # None /\ RunJob(rows, k, timers[k], r) /\ (k \in CronJobs \/ k \in due)
          /\ made' = made
      BY <1>5 DEF TimerFires
    <2>2. timers[k] \in Copy
      BY <1>0, <2>1 DEF Rows
    <2>3. k = j => j \in due /\ j <= made
      BY <1>0, <2>1 DEF Untouched
    <2>4. QED
      BY <1>0, <1>3, <2>1, <2>2, <2>3
  <1>6. ASSUME NEW k \in Jobs, NEW inTurn, CreateJob(k, inTurn) PROVE BegunRow(j)'
    <2> DEFINE rs == [rows EXCEPT ![k] = NewJob]
    <2>1. rs \in Rows /\ NewJob \in Copy /\ (k # j => rs[j] = rows[j])
      BY <1>0, CopyFacts DEF Rows
    <2>2. /\ k = made + 1 /\ made' = k
          /\ \/ Arm(rs, k, NewJob) /\ begun' = begun
             \/ rows' = rows /\ begun' = begun
             \/ Overdue(k) /\ \E r \in RunIds : RunJob(rs, k, Dated(k, NewJob), r)
      BY <1>6 DEF CreateJob
    <2> HIDE DEF rs
    <2>3. k = j => j \notin begun
      BY <1>0, <2>2 DEF BegunRow
    <2>4. CASE Arm(rs, k, NewJob) /\ begun' = begun
      BY <1>4, <2>1, <2>3, <2>4
    <2>5. CASE Overdue(k) /\ \E r \in RunIds : RunJob(rs, k, Dated(k, NewJob), r)
      <3>1. k = j => j \in due /\ j <= made'
        BY <1>0, <2>2, <2>5 DEF Overdue
      <3>2. QED
        BY <1>3, <1>d, <2>1, <2>5, <3>1
    <2>6. CASE rows' = rows /\ begun' = begun
      BY <1>2, <2>6
    <2>7. QED
      BY <2>2, <2>4, <2>5, <2>6
  <1>7. ASSUME NEW k \in Jobs, NEW e \in BOOLEAN, NEW inTurn, SetEnabled(k, e, inTurn)
        PROVE  BegunRow(j)'
    <2> DEFINE c == Switched(rows[k], e)
               rs == Write(rows, k, c)
    <2>1. rows[k] # None /\ rows[k] \in Copy
      BY <1>0, <1>7 DEF SetEnabled, Rows
    <2>2. c \in Copy /\ c.enabled = e /\ c.running = rows[k].running
      BY <2>1, SwitchFacts
    <2>3. \/ ~(e /\ Overdue(k)) /\ Arm(rs, k, c) /\ begun' = begun
          \/ MayRefuse(k, c) /\ rows' = rs /\ begun' = begun
          \/ e /\ Overdue(k) /\ \E r \in RunIds : RunJob(rs, k, Dated(k, c), r)
      BY <1>7 DEF SetEnabled
    <2> HIDE DEF c
    <2>w. /\ Write(rows, k, c) \in Rows
          /\ Write(rows, k, c)[k] = IF rows[k] = None THEN None ELSE c
          /\ k # j => Write(rows, k, c)[j] = rows[j]
      BY <1>0, <2>2, WriteFacts
    <2>4. rs \in Rows /\ rs[k] = c /\ (k # j => rs[j] = rows[j])
      BY <2>1, <2>w
    <2> HIDE DEF rs
    <2>5. k = j => j <= made /\ (j \in begun => j \in due)
      BY <1>0, <2>1 DEF Untouched, BegunRow
    <2>6. CASE ~(e /\ Overdue(k)) /\ Arm(rs, k, c) /\ begun' = begun
      <3>1. k = j /\ j \in begun => ~c.enabled
        BY <1>0, <2>2, <2>5, <2>6 DEF Overdue
      <3>2. QED
        BY <1>4, <2>1, <2>2, <2>4, <2>6, <3>1
    <2>7. CASE e /\ Overdue(k) /\ \E r \in RunIds : RunJob(rs, k, Dated(k, c), r)
      <3>1. k = j => j \in due /\ j <= made'
        BY <1>0, <1>1, <2>5, <2>7 DEF Overdue
      <3>2. QED
        BY <1>3, <1>d, <2>2, <2>4, <2>7, <3>1
    <2>8. CASE MayRefuse(k, c) /\ rows' = rs /\ begun' = begun
      <3>1. k # j
        BY <1>0, <2>8 DEF MayRefuse
      <3>2. QED
        BY <1>2, <2>4, <2>8, <3>1
    <2>9. QED
      BY <2>3, <2>6, <2>7, <2>8
  <1>8. ASSUME NEW k \in Jobs, LoadJob(k) PROVE BegunRow(j)'
    <2> DEFINE c == pending[k]
    <2>1. /\ c # None
          /\ \/ ~(c.enabled /\ Overdue(k)) /\ Arm(rows, k, c) /\ begun' = begun
             \/ c.enabled /\ Overdue(k) /\ \E r \in RunIds : RunJob(rows, k, Dated(k, c), r)
      BY <1>8 DEF LoadJob
    <2>2. c \in Copy
      BY <1>0, <2>1 DEF Rows
    <2>3. k = j => j <= made /\ (j \in begun => j \in due)
      BY <1>0, <2>1 DEF Untouched, BegunRow
    <2> HIDE DEF c
    <2>4. CASE ~(c.enabled /\ Overdue(k)) /\ Arm(rows, k, c) /\ begun' = begun
      <3>1. k = j /\ j \in begun => ~c.enabled
        BY <1>0, <2>2, <2>3, <2>4 DEF Overdue
      <3>2. QED
        BY <1>0, <1>4, <2>2, <2>4, <3>1
    <2>5. CASE c.enabled /\ Overdue(k) /\ \E r \in RunIds : RunJob(rows, k, Dated(k, c), r)
      <3>1. k = j => j \in due /\ j <= made'
        BY <1>0, <1>1, <2>3, <2>5 DEF Overdue
      <3>2. QED
        BY <1>0, <1>3, <1>d, <2>2, <2>5, <3>1
    <2>6. QED
      BY <2>1, <2>4, <2>5
  <1>9. ASSUME NEW r \in RunIds, RunEnds(r) PROVE BegunRow(j)'
    <2> DEFINE k == runs[r].job
    <2>1. runs[r] \in Run /\ begun' = begun
      BY <1>0, <1>9 DEF RunEnds
    <2>2. k \in Jobs /\ runs[r].copy \in Copy
      BY <2>1 DEF Run
    <2>3. CASE k \notin CronJobs
      <3>1. rows' = [rows EXCEPT ![k] = None]
        BY <1>9, <2>3 DEF RunEnds
      <3>2. rows'[j] # None => rows'[j] = rows[j]
        BY <1>0, <2>2, <3>1 DEF Rows
      <3>3. QED
        BY <1>2, <2>1, <3>2
    <2>4. CASE k \in CronJobs
      <3>1. PICK c \in {AfterSuccess(runs[r].copy), AfterFailure(runs[r].copy)} :
               Arm(Write(rows, k, c), k, c)
        BY <1>9, <2>4 DEF RunEnds
      <3>2. c \in Copy
        <4>1. AfterSuccess(runs[r].copy) \in Copy /\ AfterFailure(runs[r].copy) \in Copy
          BY <2>2, CopyFacts
        <4>2. c = AfterSuccess(runs[r].copy) \/ c = AfterFailure(runs[r].copy)
          BY <3>1
        <4>3. QED
          BY <4>1, <4>2
      <3> HIDE DEF k
      <3>3. k # j /\ Write(rows, k, c) \in Rows /\ Write(rows, k, c)[j] = rows[j]
        <4>1. k # j /\ j \in Jobs \ {k}
          BY <1>0, <2>4
        <4>2. rows \in Rows /\ k \in Jobs
          BY <1>0, <2>2
        <4>3. QED
          BY <3>2, <4>1, <4>2, WriteFacts
      <3>4. QED
        BY <1>4, <2>1, <2>2, <3>1, <3>2, <3>3 DEF k
    <2>5. QED
      BY <2>3, <2>4
  \* A start takes away the row of a one-shot job that was interrupted, or reads none.
  <1>10. ASSUME NEW rs, NEW who, Begin(rs, who), begun' = begun,
                rs[j] # None => /\ j \in begun => rows[j] # None
                                /\ j \in begun => rs[j].running = rows[j].running
         PROVE  BegunRow(j)'
    <2>1. CASE rows'[j] = Recovered(j, rs[j])
      <3>1. j \in begun => rows'[j] = None
        BY <1>0, <1>10, <2>1 DEF Recovered, BegunRow
      <3>2. QED
        BY <1>0, <1>1, <1>10, <3>1 DEF BegunRow
    <2>2. CASE rows' = rs
      BY <1>0, <1>1, <1>10, <2>2 DEF BegunRow
    <2>3. QED
      BY <1>0, <1>10, <2>1, <2>2 DEF Begin
  <1>11. ASSUME ConfigOn \/ Boot PROVE BegunRow(j)'
    BY <1>2, <1>10, <1>11 DEF ConfigOn, Boot
  <1>12. ASSUME NEW k \in Jobs, CreateRow(k) PROVE BegunRow(j)'
    <2> DEFINE rs == [rows EXCEPT ![k] = NewJob]
    <2>1. k = j => j \notin begun
      BY <1>0, <1>12 DEF CreateRow, BegunRow
    <2>2. begun' = begun /\ (Begin(rs, "edit") \/ rows' = rs)
      BY <1>12 DEF CreateRow
    <2>3. k # j => rs[j] = rows[j]
      BY <1>0 DEF Rows
    <2> HIDE DEF rs
    <2>4. CASE k = j
      BY <2>1, <2>2, <2>4 DEF BegunRow
    <2>5. CASE k # j
      BY <1>2, <1>10, <2>2, <2>3, <2>5
    <2>6. QED
      BY <2>4, <2>5
  <1>13. ASSUME NEW k \in Jobs, EditRow(k) PROVE BegunRow(j)'
    <2>1. PICK c \in {None, [rows[k] EXCEPT !.enabled = TRUE], [rows[k] EXCEPT !.enabled = FALSE]} :
             Begin([rows EXCEPT ![k] = c], "edit") \/ rows' = [rows EXCEPT ![k] = c]
      BY <1>13 DEF EditRow
    <2>2. rows[k] \in Copy /\ begun' = begun
      BY <1>0, <1>13 DEF EditRow, Rows
    <2>3. c = None \/ c.running = rows[k].running
      BY <2>1, <2>2 DEF Copy
    <2> DEFINE rs == [rows EXCEPT ![k] = c]
    <2>4. rs[j] # None => rows[j] # None /\ rs[j].running = rows[j].running
      BY <1>0, <2>2, <2>3, CopyFacts DEF Rows
    <2>5. Begin(rs, "edit") \/ rows' = rs
      BY <2>1
    <2> HIDE DEF rs
    <2>6. QED
      BY <1>2, <1>10, <2>2, <2>4, <2>5
  <1>14. ASSUME NEW k \in Jobs, RemoveJob(k) PROVE BegunRow(j)'
    <2>1. rows' = [rows EXCEPT ![k] = None] /\ begun' = begun
      BY <1>14 DEF RemoveJob
    <2>2. rows'[j] # None => rows'[j] = rows[j]
      BY <1>0, <2>1 DEF Rows
    <2>3. QED
      BY <1>2, <2>1, <2>2
  <1>15. ASSUME rows' = rows, begun' = begun PROVE BegunRow(j)'
    BY <1>2, <1>15
  <1>16. CASE \/ \E k \in Jobs : TimePasses(k)
              \/ \E r \in RunIds : Execute(r)
              \/ \E k \in Jobs : LoadRefused(k)
              \/ LoadEnds \/ ConfigOff \/ Crash
              \/ TurnBegins \/ TurnEnds \/ TurnStopped \/ ClearSession \/ UNCHANGED vars
    BY <1>15, <1>16 DEF TimePasses, Execute, LoadRefused, LoadEnds, ConfigOff, Crash, TurnBegins, TurnEnds,
                        TurnStopped, ClearSession, vars, jobVars
  <1>17. QED
    BY <1>5, <1>6, <1>7, <1>8, <1>9, <1>11, <1>12, <1>13, <1>14, <1>16 DEF Next

LEMMA SchedulerKeepsOnce == Spec => []OnceInv
  <1>1. Init => OnceInv
    <2>1. Init => \A j \in Jobs \ CronJobs : BegunRow(j)
      BY DEF Init, BegunRow
    <2>2. QED
      BY <2>1, InitFits DEF OnceInv
  <1>2. OnceInv /\ [Next]_vars => OnceInv'
    BY NextFits, BegunStays DEF OnceInv
  <1>3. QED
    BY <1>1, <1>2, PTL DEF Spec

LEMMA RunsStartOnce ==
    ASSUME OnceInv, [Next]_vars, NEW j \in Jobs \ CronJobs, StartsRun(j), j \in begun,
           configured, j \notin overtaken', j \notin unread
    PROVE  FALSE
  <1>0. /\ rows \in Rows /\ timers \in Rows /\ pending \in Rows
        /\ runs \in [RunIds -> Run \cup {None}]
        /\ made \in Nat /\ overtaken \subseteq Jobs /\ j \in Jobs /\ j \notin CronJobs
        /\ j \in due /\ j <= made /\ (rows[j] # None => rows[j].running)
        /\ j \notin overtaken => JobFits(j)
        /\ ~up => timers = NoCopies /\ pending = NoCopies
    BY JobsAssumption DEF OnceInv, BegunRow, SchedulerInv, TypeOK, Rows, JobsFit
  <1>1. PICK q \in RunIds : runs[q] = None /\ runs'[q] # None /\ runs'[q].job = j
    BY DEF StartsRun
  \* Only runJob starts a run.
  <1>2. ASSUME NEW rs, NEW k, NEW c, NEW r \in RunIds, RunJob(rs, k, c, r) PROVE k = j
    <2>1. runs' = [runs EXCEPT ![r] = [job |-> k, copy |-> c, phase |-> FirstPhase(k)]]
      BY <1>2 DEF RunJob
    <2>2. q = r
      BY <1>0, <1>1, <2>1
    <2>3. QED
      BY <1>0, <1>1, <2>1, <2>2
  <1>3. runs' # runs
    BY <1>1
  <1>4. \A k \in Jobs : Overtakes(k) => overtaken \subseteq overtaken' /\ (Held(k) => k \in overtaken')
    BY DEF Overtakes
  <1>5. ASSUME NEW k \in Jobs, NEW r \in RunIds, TimerFires(k, r) PROVE FALSE
    <2>1. k = j /\ timers[j] # None /\ Overtakes(j)
      BY <1>2, <1>5 DEF TimerFires
    <2>2. pending[j] = None /\ j \notin overtaken
      BY <1>0, <1>4, <2>1 DEF Held
    <2>3. QED
      BY <1>0, <2>1, <2>2 DEF JobFits
  <1>6. ASSUME NEW k \in Jobs, NEW inTurn, CreateJob(k, inTurn) PROVE FALSE
    <2>1. k = j
      BY <1>2, <1>3, <1>6 DEF CreateJob
    <2>2. QED
      BY <1>0, <1>6, <2>1 DEF CreateJob
  <1>7. ASSUME NEW k \in Jobs, NEW e, NEW inTurn, SetEnabled(k, e, inTurn) PROVE FALSE
    <2>1. k = j /\ rows[j] # None /\ up /\ Overtakes(j)
      BY <1>2, <1>3, <1>7 DEF SetEnabled
    <2>2. j \notin overtaken /\ ~Held(j)
      BY <1>0, <1>4, <2>1
    <2>3. Runs(j) # {}
      BY <1>0, <2>1, <2>2 DEF JobFits
    <2>4. QED
      BY <2>2, <2>3, HeldMeans
  <1>8. ASSUME NEW k \in Jobs, LoadJob(k) PROVE FALSE
    <2>1. k = j /\ pending[j] # None /\ overtaken' = overtaken
      BY <1>2, <1>3, <1>8 DEF LoadJob
    <2>2. rows[j] = pending[j] /\ ~pending[j].running
      BY <1>0, <2>1 DEF JobFits
    <2>3. QED
      BY <1>0, <2>1, <2>2
  <1>9. ASSUME NEW r \in RunIds, Execute(r) \/ RunEnds(r) PROVE FALSE
    BY <1>0, <1>1, <1>9 DEF Execute, RunEnds
  <1>10. ASSUME Crash \/ ClearSession \/ \E k \in Jobs : LoadRefused(k) PROVE FALSE
    <2>1. runs' = runs \/ \A r \in RunIds : runs'[r] # None => runs[r] # None
      BY <1>0, <1>10 DEF Crash, ProcessEnds, ClearSession, LoadRefused
    <2>2. QED
      BY <1>1, <2>1
  <1>11. CASE \/ \E k \in Jobs : TimePasses(k) \/ RemoveJob(k) \/ CreateRow(k) \/ EditRow(k)
              \/ LoadEnds \/ ConfigOn \/ ConfigOff \/ Boot
              \/ TurnBegins \/ TurnEnds \/ TurnStopped \/ UNCHANGED vars
    BY <1>3, <1>11 DEF TimePasses, RemoveJob, CreateRow, EditRow, LoadEnds, ConfigOn, ConfigOff,
                       Boot, TurnBegins, TurnEnds, TurnStopped, vars, jobVars
  <1>12. QED
    BY <1>5, <1>6, <1>7, <1>8, <1>9, <1>10, <1>11 DEF Next

\* runJob marks the row before it dispatches, and recoverInterruptedJobs removes a
\* one-shot row that is marked: whatever crashes, is edited or started again, no second
\* run begins of a job that was not overtaken and that the last start has read.
THEOREM OneShotsAreNotRepeated == Spec => OneShotsRunOnce
  <1>1. OnceInv /\ [Next]_vars =>
           [\A j \in Jobs \ CronJobs :
               StartsRun(j) => j \notin begun \/ j \in overtaken' \cup unread \/ ~configured]_vars
    BY RunsStartOnce
  <1>2. QED
    BY <1>1, SchedulerKeepsOnce, PTL DEF Spec, OneShotsRunOnce
=============================================================================
