--------------------------- MODULE CronJobsProofs ---------------------------
(***************************************************************************)
(* Theorems about the jobs: however many runs are due and whenever         *)
(* SetSingleton is called, a job that was registered as a singleton runs   *)
(* alone.                                                                  *)
(***************************************************************************)
EXTENDS CronJobs, FiniteSetTheorems, TLAPS

\* A run under way has a registered job, and behind a wrapper its mutex.
RunInv ==
  \A r \in Runs :
    /\ pc[r] = "idle" <=> job[r] = Nil
    /\ pc[r] # "idle" => job[r] \in Jobs /\ entry[job[r]] # "none"
    /\ pc[r] \notin {"idle", "lock"} /\ entry[job[r]] = "delayed" => mutex[job[r]] = r

\* How often the hook has been called at each stage.
HookInv ==
  ~crashed => \A r \in Runs :
    /\ pc[r] \in {"idle", "lock", "start", "before"} => hooks[r] = 0
    /\ pc[r] \in {"run", "again"} => hooks[r] <= 1

IndInv == TypeOK /\ RunInv /\ HookInv

-----------------------------------------------------------------------------
LEMMA InitInv ==
  ASSUME Init
  PROVE  IndInv
<1>1. TypeOK
  <2>1. singleton \in [Jobs -> BOOLEAN] /\ crashed \in BOOLEAN
    BY DEF Init
  <2>2. mutex \in [Jobs -> Runs \cup {Nil}] /\ job \in [Runs -> Jobs \cup {Nil}]
    BY DEF Init
  <2>3. /\ entry \in [Jobs -> {"none", "plain", "delayed"}] /\ pc \in [Runs -> Stages]
        /\ late \subseteq Runs /\ hooks \in [Runs -> 0 .. 2]
    BY DEF Init, Stages
  <2> QED BY <2>1, <2>2, <2>3 DEF TypeOK
<1>2. RunInv /\ HookInv
  BY DEF Init, RunInv, HookInv
<1> QED BY <1>1, <1>2 DEF IndInv

LEMMA RegisterInv ==
  ASSUME IndInv, NEW j \in Jobs, SetSingleton(j) \/ Register(j)
  PROVE  IndInv'
<1>1. CASE SetSingleton(j)
  <2>1. PICK b \in BOOLEAN : singleton' = [singleton EXCEPT ![j] = b]
    BY <1>1 DEF SetSingleton
  <2>2. singleton' \in [Jobs -> BOOLEAN]
    BY <2>1 DEF IndInv, TypeOK
  <2> QED BY <1>1, <2>2 DEF SetSingleton, IndInv, TypeOK, RunInv, HookInv
<1>2. CASE Register(j)
  <2>1. /\ entry[j] = "none" /\ entry' \in [Jobs -> {"none", "plain", "delayed"}]
        /\ \A i \in Jobs \ {j} : entry'[i] = entry[i]
        /\ entry'[j] # "none"
    BY <1>2 DEF Register, IndInv, TypeOK
  <2>2. \A r \in Runs : pc[r] # "idle" => job[r] \in Jobs \ {j}
    BY <2>1 DEF IndInv, RunInv
  <2>3. RunInv'
    BY <1>2, <2>1, <2>2 DEF Register, IndInv, RunInv
  <2> QED BY <1>2, <2>1, <2>3 DEF Register, IndInv, TypeOK, HookInv
<1> QED BY <1>1, <1>2

LEMMA FireInv ==
  ASSUME IndInv, NEW r \in Runs, Fire(r)
  PROVE  IndInv'
<1>1. PICK j \in Jobs :
        /\ entry[j] # "none" /\ pc[r] = "idle"
        /\ job' = [job EXCEPT ![r] = j]
        /\ pc' = [pc EXCEPT ![r] = IF entry[j] = "delayed" THEN "lock" ELSE "start"]
  BY DEF Fire, Goto, At
<1>2. TypeOK'
  BY <1>1 DEF Fire, IndInv, TypeOK, Stages
<1>3. RunInv'
  BY <1>1, JobsAssumption DEF Fire, IndInv, TypeOK, RunInv
<1>4. HookInv'
  BY <1>1 DEF Fire, IndInv, TypeOK, HookInv
<1> QED BY <1>2, <1>3, <1>4 DEF IndInv

LEMMA WaitInv ==
  ASSUME IndInv, NEW r \in Runs, Wait(r)
  PROVE  IndInv'
BY DEF Wait, IndInv, TypeOK, RunInv, HookInv

LEMMA LockInv ==
  ASSUME IndInv, NEW r \in Runs, Lock(r)
  PROVE  IndInv'
<1>1. /\ pc[r] = "lock" /\ job[r] \in Jobs /\ mutex[job[r]] = Nil
      /\ mutex' = [mutex EXCEPT ![job[r]] = r]
      /\ pc' = [pc EXCEPT ![r] = "start"] \/ (pc' = pc /\ crashed' = TRUE)
      /\ crashed' = crashed \/ crashed' = TRUE
      /\ UNCHANGED <<singleton, entry, job, late, hooks>>
  <2>1. pc[r] = "lock" /\ job[r] \in Jobs
    BY DEF Lock, At, IndInv, RunInv
  <2> QED BY <2>1 DEF Lock, Goto
<1>2. TypeOK'
  BY <1>1 DEF IndInv, TypeOK, Stages
<1>3. RunInv'
  <2> SUFFICES ASSUME NEW q \in Runs
               PROVE  /\ pc'[q] = "idle" <=> job[q] = Nil
                      /\ pc'[q] # "idle" => job[q] \in Jobs /\ entry[job[q]] # "none"
                      /\ pc'[q] \notin {"idle", "lock"} /\ entry[job[q]] = "delayed" =>
                           mutex'[job[q]] = q
    BY <1>1 DEF RunInv
  <2>1. pc[q] = "idle" <=> pc'[q] = "idle"
    BY <1>1 DEF IndInv, TypeOK
  <2>2. CASE q = r
    BY <1>1, <2>1, <2>2 DEF IndInv, TypeOK, RunInv
  <2>3. CASE q # r
    <3>1. pc'[q] = pc[q]
      BY <1>1, <2>3 DEF IndInv, TypeOK
    <3>2. pc[q] \notin {"idle", "lock"} /\ entry[job[q]] = "delayed" => job[q] # job[r]
      BY <1>1, JobsAssumption DEF IndInv, RunInv
    <3> QED BY <1>1, <3>1, <3>2 DEF IndInv, TypeOK, RunInv
  <2> QED BY <2>2, <2>3
<1>4. HookInv'
  BY <1>1 DEF IndInv, TypeOK, HookInv, Lock, At, Goto
<1> QED BY <1>2, <1>3, <1>4 DEF IndInv

\* A step of a run that keeps its job and its mutex.
LEMMA RunningInv ==
  ASSUME IndInv, NEW r \in Runs, Start(r) \/ BeforeJobRun(r) \/ Run(r)
  PROVE  IndInv'
<1>1. PICK stage \in {"before", "run", "again", "end"} :
        /\ ~crashed /\ pc[r] \in {"start", "before", "run", "again"}
        /\ pc' = [pc EXCEPT ![r] = stage] \/ (pc' = pc /\ crashed' = TRUE)
        /\ crashed' = crashed \/ crashed' = TRUE
        /\ \/ hooks' = hooks /\ pc[r] \in {"start", "run"}
           \/ hooks' = [hooks EXCEPT ![r] = @ + 1] /\ pc[r] \in {"before", "again"}
        /\ stage = "before" => pc[r] = "start"
        /\ stage = "again" => pc[r] = "run"
        /\ stage = "run" => pc[r] \in {"start", "before"}
        /\ UNCHANGED <<singleton, entry, mutex, job, late>>
  <2>1. CASE Start(r)
    BY <2>1 DEF Start, At, Goto
  <2>2. CASE BeforeJobRun(r)
    <3>1. CASE pc[r] = "before"
      BY <2>2, <3>1 DEF BeforeJobRun, Try, At, Goto
    <3>2. CASE pc[r] = "again"
      BY <2>2, <3>2 DEF BeforeJobRun, Try, At, Goto
    <3> QED BY <2>2, <3>1, <3>2 DEF BeforeJobRun, At
  <2>3. CASE Run(r)
    BY <2>3 DEF Run, Try, At, Goto
  <2> QED BY <2>1, <2>2, <2>3
<1>2. TypeOK /\ RunInv /\ hooks[r] \in 0 .. 1
  BY <1>1 DEF IndInv, TypeOK, HookInv
<1>3. hooks' \in [Runs -> 0 .. 2]
  BY <1>1, <1>2 DEF TypeOK
<1>4. TypeOK'
  BY <1>1, <1>2, <1>3 DEF TypeOK, Stages
<1>5. RunInv'
  BY <1>1, <1>2 DEF TypeOK, RunInv
<1>6. HookInv'
  <2> SUFFICES ASSUME ~crashed', NEW q \in Runs
               PROVE  /\ pc'[q] \in {"idle", "lock", "start", "before"} => hooks'[q] = 0
                      /\ pc'[q] \in {"run", "again"} => hooks'[q] <= 1
    BY DEF HookInv
  <2>1. pc' = [pc EXCEPT ![r] = stage]
    BY <1>1
  <2>2. CASE q # r
    BY <1>1, <1>2, <2>1, <2>2 DEF IndInv, TypeOK, HookInv
  <2>3. CASE q = r
    <3>1. pc'[q] = stage
      BY <1>2, <2>1, <2>3 DEF TypeOK
    <3>2. hooks[r] = 0 \/ pc[r] \in {"run", "again"}
      BY <1>1 DEF IndInv, HookInv
    <3>3. hooks'[r] = hooks[r] \/ (hooks'[r] = hooks[r] + 1 /\ pc[r] \in {"before", "again"})
      BY <1>1, <1>2 DEF TypeOK
    <3>4. stage = "run" => hooks'[r] <= 1
      BY <1>1, <1>2, <3>2, <3>3
    <3>5. stage = "again" => hooks'[r] <= 1
      BY <1>1, <1>2, <3>3
    <3>6. stage = "before" => hooks'[r] = 0
      BY <1>1, <3>2, <3>3
    <3> QED BY <2>3, <3>1, <3>4, <3>5, <3>6
  <2> QED BY <2>2, <2>3
<1> QED BY <1>4, <1>5, <1>6 DEF IndInv

LEMMA EndInv ==
  ASSUME IndInv, NEW r \in Runs, End(r)
  PROVE  IndInv'
<1>1. /\ pc[r] = "end" /\ job[r] \in Jobs
      /\ hooks' = [hooks EXCEPT ![r] = 0]
      /\ job' = [job EXCEPT ![r] = Nil]
      /\ mutex' = [mutex EXCEPT ![job[r]] = IF @ = r THEN Nil ELSE @]
      /\ pc' = [pc EXCEPT ![r] = "idle"]
      /\ UNCHANGED <<singleton, entry, late, crashed>>
  BY DEF End, At, Goto, IndInv, RunInv
<1>2. TypeOK'
  BY <1>1 DEF IndInv, TypeOK, Stages
<1>3. RunInv'
  <2> SUFFICES ASSUME NEW q \in Runs
               PROVE  /\ pc'[q] = "idle" <=> job'[q] = Nil
                      /\ pc'[q] # "idle" => job'[q] \in Jobs /\ entry[job'[q]] # "none"
                      /\ pc'[q] \notin {"idle", "lock"} /\ entry[job'[q]] = "delayed" =>
                           mutex'[job'[q]] = q
    BY <1>1 DEF RunInv
  <2>1. CASE q = r
    BY <1>1, <2>1 DEF IndInv, TypeOK
  <2>2. CASE q # r
    <3>1. pc'[q] = pc[q] /\ job'[q] = job[q]
      BY <1>1, <2>2 DEF IndInv, TypeOK
    <3>2. mutex[job[q]] = q => mutex'[job[q]] = q
      BY <1>1, <2>2 DEF IndInv, TypeOK
    <3> QED BY <3>1, <3>2 DEF IndInv, RunInv
  <2> QED BY <2>1, <2>2
<1>4. HookInv'
  BY <1>1 DEF IndInv, TypeOK, HookInv
<1> QED BY <1>2, <1>3, <1>4 DEF IndInv

LEMMA NextInv ==
  ASSUME IndInv, [Next]_vars
  PROVE  IndInv'
<1>1. CASE UNCHANGED vars
  BY <1>1 DEF vars, IndInv, TypeOK, RunInv, HookInv
<1>2. CASE \E j \in Jobs : SetSingleton(j) \/ Register(j)
  BY <1>2, RegisterInv
<1>3. CASE \E r \in Runs : Fire(r) \/ Wait(r)
  BY <1>3, FireInv, WaitInv
<1>4. CASE \E r \in Runs : Step(r)
  BY <1>4, LockInv, RunningInv, EndInv DEF Step
<1> QED BY <1>1, <1>2, <1>3, <1>4 DEF Next, Stopped

\* Whoever is inside of a wrapped job holds its mutex.
LEMMA Alone ==
  ASSUME IndInv
  PROVE  SingletonAlone
<1> SUFFICES ASSUME NEW j \in Jobs, entry[j] = "delayed"
             PROVE  Cardinality(Inside(j)) <= 1
  BY DEF SingletonAlone
<1>1. Inside(j) \subseteq {mutex[j]}
  BY DEF Inside, IndInv, RunInv
<1>2. IsFiniteSet({mutex[j]}) /\ Cardinality({mutex[j]}) = 1
  BY FS_Singleton
<1>3. Cardinality(Inside(j)) <= Cardinality({mutex[j]})
  BY <1>1, <1>2, FS_Subset
<1> QED BY <1>2, <1>3

-----------------------------------------------------------------------------
(* Theorems *)

\* Every variable keeps its shape; a run calls its hook at most twice.
THEOREM JobsTyped == Spec => []TypeOK
<1>1. Init => IndInv
  BY InitInv
<1>2. IndInv /\ [Next]_vars => IndInv'
  BY NextInv
<1>3. IndInv => TypeOK
  BY DEF IndInv
<1> QED BY <1>1, <1>2, <1>3, PTL DEF Spec

\* The wrapper of Job.register lets one run of a singleton in at a time.
THEOREM SingletonsAlone == Spec => []SingletonAlone
<1>1. Init => IndInv
  BY InitInv
<1>2. IndInv /\ [Next]_vars => IndInv'
  BY NextInv
<1>3. IndInv => SingletonAlone
  BY Alone
<1> QED BY <1>1, <1>2, <1>3, PTL DEF Spec
=============================================================================
