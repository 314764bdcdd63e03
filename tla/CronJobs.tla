------------------------------ MODULE CronJobs ------------------------------
(***************************************************************************)
(* Jobs of package jobs under robfig/cron: Job.Init registers a job, and   *)
(* at each of its times cron starts a goroutine that runs it.  A job that  *)
(* was a singleton when it was registered is wrapped in                    *)
(* DelayIfStillRunning, a mutex.  The cron has no Recover wrapper, so that *)
(* a panic of a run, which is how a failure is reported, ends the process. *)
(***************************************************************************)
EXTENDS FiniteSets, Naturals

CONSTANTS
  Jobs,
  Runs,    \* goroutines for runs; bounds the runs that are under way
  Hooked,  \* jobs with a hook
  Fails,   \* whether Run and the hook may fail
  Nil

ASSUME JobsAssumption ==
  /\ Hooked \subseteq Jobs
  /\ Fails \in BOOLEAN
  /\ Nil \notin Jobs \cup Runs

VARIABLES
  singleton,  \* the field of Job, which SetSingleton sets
  entry,      \* "none", "plain" or "delayed"
  mutex,      \* the run that holds the mutex of the job's wrapper
  pc, job,
  late,       \* runs that have waited for more than a minute
  hooks,      \* how often a run has called BeforeJobRun
  crashed

vars == <<singleton, entry, mutex, pc, job, late, hooks, crashed>>

Stages == {"idle", "lock", "start", "before", "run", "again", "end"}

At(r, stage) == pc[r] = stage /\ ~crashed
Goto(r, stage) == pc' = [pc EXCEPT ![r] = stage]

\* Mutant: a job that is registered already is wrapped at once.
SetSingletonWrapping(j) ==
  /\ ~crashed
  /\ \E b \in BOOLEAN : singleton' = [singleton EXCEPT ![j] = b]
  /\ entry' = [entry EXCEPT ![j] = IF @ = "plain" /\ singleton'[j] THEN "delayed" ELSE @]
  /\ UNCHANGED <<mutex, pc, job, late, hooks, crashed>>

SetSingleton(j) ==
  /\ ~crashed
  /\ \E b \in BOOLEAN : singleton' = [singleton EXCEPT ![j] = b]
  /\ UNCHANGED <<entry, mutex, pc, job, late, hooks, crashed>>

\* An application calls Init once.  It registers the job, and only the value
\* that singleton has now counts.
Register(j) ==
  /\ ~crashed /\ entry[j] = "none"
  /\ entry' = [entry EXCEPT ![j] = IF singleton[j] THEN "delayed" ELSE "plain"]
  /\ UNCHANGED <<singleton, mutex, pc, job, late, hooks, crashed>>

\* Cron starts a run at a time of the job's Spec.
Fire(r) ==
  /\ At(r, "idle")
  /\ \E j \in Jobs :
       /\ entry[j] # "none"
       /\ job' = [job EXCEPT ![r] = j]
       /\ Goto(r, IF entry[j] = "delayed" THEN "lock" ELSE "start")
  /\ UNCHANGED <<singleton, entry, mutex, late, hooks, crashed>>

\* A minute passes while another run holds the mutex.
Wait(r) ==
  /\ At(r, "lock") /\ mutex[job[r]] # Nil
  /\ late' = late \cup {r}
  /\ UNCHANGED <<singleton, entry, mutex, pc, job, hooks, crashed>>

\* A run that was late is logged, and Job.logger is nil: nothing sets it.
Lock(r) ==
  /\ At(r, "lock") /\ mutex[job[r]] = Nil
  /\ mutex' = [mutex EXCEPT ![job[r]] = r]
  /\ IF r \in late THEN crashed' = TRUE /\ UNCHANGED pc
     ELSE Goto(r, "start") /\ UNCHANGED crashed
  /\ UNCHANGED <<singleton, entry, job, late, hooks>>

\* funcJob
Start(r) ==
  /\ At(r, "start")
  /\ Goto(r, IF job[r] \in Hooked THEN "before" ELSE "run")
  /\ UNCHANGED <<singleton, entry, mutex, job, late, hooks, crashed>>

\* A step that panics if it fails.
Try(r, next) ==
  \/ Goto(r, next) /\ UNCHANGED crashed
  \/ Fails /\ crashed' = TRUE /\ UNCHANGED pc

\* Mutant: the second call goes on with Run like the first.
BeforeJobRunAgain(r) ==
  /\ At(r, "before") \/ At(r, "again")
  /\ hooks' = [hooks EXCEPT ![r] = 1]
  /\ Try(r, "run")
  /\ UNCHANGED <<singleton, entry, mutex, job, late>>

\* hook.process calls BeforeJobRun before Run and once more after it, in the place
\* of AfterJobRun.
BeforeJobRun(r) ==
  /\ At(r, "before") \/ At(r, "again")
  /\ hooks' = [hooks EXCEPT ![r] = @ + 1]
  /\ Try(r, IF pc[r] = "before" THEN "run" ELSE "end")
  /\ UNCHANGED <<singleton, entry, mutex, job, late>>

\* Mutant: the hook and the job are run over and over.
RunRepeating(r) ==
  /\ At(r, "run")
  /\ Try(r, IF job[r] \in Hooked THEN "before" ELSE "end")
  /\ UNCHANGED <<singleton, entry, mutex, job, late, hooks>>

Run(r) ==
  /\ At(r, "run")
  /\ Try(r, IF job[r] \in Hooked THEN "again" ELSE "end")
  /\ UNCHANGED <<singleton, entry, mutex, job, late, hooks>>

\* The run returns through its wrapper.
End(r) ==
  /\ At(r, "end")
  /\ hooks' = [hooks EXCEPT ![r] = 0]
  /\ job' = [job EXCEPT ![r] = Nil]
  /\ mutex' = [mutex EXCEPT ![job[r]] = IF @ = r THEN Nil ELSE @]
  /\ Goto(r, "idle")
  /\ UNCHANGED <<singleton, entry, late, crashed>>

\* Nothing runs after a crash.
Stopped == crashed /\ UNCHANGED vars

Init ==
  /\ singleton = [j \in Jobs |-> FALSE]
  /\ entry = [j \in Jobs |-> "none"]
  /\ mutex = [j \in Jobs |-> Nil]
  /\ pc = [r \in Runs |-> "idle"]
  /\ job = [r \in Runs |-> Nil]
  /\ late = {}
  /\ hooks = [r \in Runs |-> 0]
  /\ crashed = FALSE

Step(r) == Lock(r) \/ Start(r) \/ BeforeJobRun(r) \/ Run(r) \/ End(r)

Next ==
  \/ \E j \in Jobs : SetSingleton(j) \/ Register(j)
  \/ \E r \in Runs : Fire(r) \/ Wait(r) \/ Step(r)
  \/ Stopped

Spec == Init /\ [][Next]_vars

\* Goroutines run, jobs end, and a Go mutex starves nobody.
FairSpec ==
  /\ Spec
  /\ \A r \in Runs :
       WF_vars(Start(r) \/ BeforeJobRun(r) \/ Run(r) \/ End(r)) /\ SF_vars(Lock(r))
-----------------------------------------------------------------------------
(* Properties *)

\* Every variable keeps its shape.
TypeOK ==
  /\ singleton \in [Jobs -> BOOLEAN]
  /\ entry \in [Jobs -> {"none", "plain", "delayed"}]
  /\ mutex \in [Jobs -> Runs \cup {Nil}]
  /\ pc \in [Runs -> Stages]
  /\ job \in [Runs -> Jobs \cup {Nil}]
  /\ late \subseteq Runs
  /\ hooks \in [Runs -> 0 .. 2]
  /\ crashed \in BOOLEAN

Inside(j) == {r \in Runs : job[r] = j /\ pc[r] \notin {"idle", "lock"}}

\* A job that was a singleton when it was registered never runs twice at a time,
\* whatever SetSingleton is called with later (Job.register).
SingletonAlone == \A j \in Jobs : entry[j] = "delayed" => Cardinality(Inside(j)) <= 1

\* A run that is due while an earlier one is still going on is delayed and not
\* lost: it runs in the end, unless the process crashes.
DelayedRunsHappen ==
  \A r \in Runs : pc[r] = "lock" ~> (pc[r] = "start" \/ crashed)
=============================================================================
