-------------------------- MODULE OnceHandlesProofs --------------------------
(***************************************************************************)
(* Theorems about the singletons: each is set up once, and nobody is given *)
(* a half made one unless a set-up panicked.                               *)
(***************************************************************************)
EXTENDS OnceHandles, TLAPS

\* Who is inside Do, and of which Once.
RunnerInv ==
  /\ \A g \in Goroutines :
       /\ pc[g] # "idle" => tool[g] \in Tools
       /\ pc[g] = "setUp" => runner[tool[g]] = g
       /\ pc[g] = "return" => done[tool[g]]
  /\ \A t \in Tools :
       /\ runner[t] # Nil => ~done[t] /\ pc[runner[t]] = "setUp" /\ tool[runner[t]] = t
       /\ starts[t] = IF done[t] \/ runner[t] # Nil THEN 1 ELSE 0
       /\ line[t] \in 1 .. Len(SetUp[t])

\* The handle, by what has been done of its set-up.
HandleInv ==
  \A t \in Tools :
    /\ poisoned[t] => done[t]
    /\ ~done[t] =>
         handle[t] = IF line[t] < 3 THEN Nil ELSE IF t = "db" THEN "open" ELSE "ready"
    /\ done[t] /\ ~poisoned[t] => handle[t] = "ready"
    /\ t = "db" \/ handle[t] \in {Nil, "ready"}

IndInv == TypeOK /\ RunnerInv /\ HandleInv /\ OnlyPanicsSpoil

-----------------------------------------------------------------------------

\* The steps, one by one.
LEMMA Steps ==
  /\ Len(SetUp["db"]) = 4 /\ Len(SetUp["redis"]) = 3 /\ Len(SetUp["cron"]) = 2
  /\ SetUp["db"][1] = "config" /\ SetUp["db"][2] = "open"
  /\ SetUp["db"][3] = "pool" /\ SetUp["db"][4] = "limits"
  /\ SetUp["redis"][1] = "config" /\ SetUp["redis"][2] = "make" /\ SetUp["redis"][3] = "check"
  /\ SetUp["cron"][1] = "config" /\ SetUp["cron"][2] = "make"
BY DEF SetUp

LEMMA InitInv ==
  ASSUME Init
  PROVE  IndInv
<1>1. TypeOK
  BY DEF Init, TypeOK, Tools
<1>2. RunnerInv /\ HandleInv
  BY Steps DEF Init, RunnerInv, HandleInv, Tools
<1> QED BY <1>1, <1>2 DEF Init, IndInv, OnlyPanicsSpoil

\* What a step of the set-up makes of the handle.
LEMMA AfterStep ==
  ASSUME IndInv, NEW t \in Tools, ~done[t]
  PROVE  LET new == After(SetUp[t][line[t]], handle[t]) IN
         /\ new \in {Nil, "open", "ready"}
         /\ t # "db" => new \in {Nil, "ready"}
         /\ line[t] = Len(SetUp[t]) => new = "ready"
         /\ line[t] < Len(SetUp[t]) =>
              new = IF line[t] + 1 < 3 THEN Nil ELSE IF t = "db" THEN "open" ELSE "ready"
<1>1. line[t] \in 1 .. Len(SetUp[t])
  BY DEF IndInv, RunnerInv
<1>2. handle[t] = IF line[t] < 3 THEN Nil ELSE IF t = "db" THEN "open" ELSE "ready"
  BY DEF IndInv, HandleInv
<1>3. CASE t = "db"
  <2>1. line[t] \in {1, 2, 3, 4}
    BY <1>1, <1>3, Steps
  <2> QED BY <1>2, <1>3, <2>1, Steps DEF After
<1>4. CASE t = "redis"
  <2>1. line[t] \in {1, 2, 3}
    BY <1>1, <1>4, Steps
  <2> QED BY <1>2, <1>4, <2>1, Steps DEF After
<1>5. CASE t = "cron"
  <2>1. line[t] \in {1, 2}
    BY <1>1, <1>5, Steps
  <2> QED BY <1>2, <1>5, <2>1, Steps DEF After
<1> QED BY <1>3, <1>4, <1>5 DEF Tools

\* What a step that panics leaves of the handle.
LEMMA BrokenStep ==
  ASSUME IndInv, NEW t \in Tools, ~done[t]
  PROVE  LET new == Broken(SetUp[t][line[t]], handle[t]) IN
         /\ new \in {Nil, "raw", "open", "ready"}
         /\ t # "db" => new \in {Nil, "ready"}
<1>1. line[t] \in 1 .. Len(SetUp[t]) /\ handle[t] \in {Nil, "raw", "open", "ready"}
  BY DEF IndInv, RunnerInv, TypeOK
<1>2. t # "db" => handle[t] \in {Nil, "ready"}
  BY DEF IndInv, HandleInv
<1>3. t # "db" => SetUp[t][line[t]] # "open"
  <2>1. CASE t = "redis"
    <3>1. line[t] \in {1, 2, 3}
      BY <1>1, <2>1, Steps
    <3> QED BY <2>1, <3>1, Steps
  <2>2. CASE t = "cron"
    <3>1. line[t] \in {1, 2}
      BY <1>1, <2>2, Steps
    <3> QED BY <2>2, <3>1, Steps
  <2> QED BY <2>1, <2>2 DEF Tools
<1> QED BY <1>1, <1>2, <1>3 DEF Broken

-----------------------------------------------------------------------------

LEMMA CallInv ==
  ASSUME IndInv, NEW g \in Goroutines, Call(g)
  PROVE  IndInv'
BY OnceAssumption DEF IndInv, Call, Goto, once, TypeOK, RunnerInv, HandleInv, OnlyPanicsSpoil

LEMMA EnterInv ==
  ASSUME IndInv, NEW g \in Goroutines, Enter(g)
  PROVE  IndInv'
<1>1. tool[g] \in Tools
  BY DEF IndInv, RunnerInv, Enter
<1> DEFINE t == tool[g]
<1>2. CASE done[t] /\ pc' = [pc EXCEPT ![g] = "return"] /\ UNCHANGED <<handle, once, tool, got>>
  BY <1>1, <1>2 DEF IndInv, Enter, once, TypeOK, RunnerInv, HandleInv, OnlyPanicsSpoil
<1>3. CASE /\ ~done[t] /\ runner[t] = Nil
           /\ runner' = [runner EXCEPT ![t] = g] /\ starts' = [starts EXCEPT ![t] = @ + 1]
           /\ pc' = [pc EXCEPT ![g] = "setUp"]
           /\ UNCHANGED <<handle, done, line, poisoned, tool, got>>
  <2>1. starts[t] = 0 /\ pc[g] = "do"
    BY <1>1, <1>3 DEF IndInv, RunnerInv, Enter
  <2> HIDE DEF t
  <2>2. t \in Tools /\ t = tool[g]
    BY <1>1 DEF t
  <2>3. TypeOK' /\ HandleInv' /\ OnlyPanicsSpoil'
    BY <1>3, <2>1, <2>2 DEF IndInv, TypeOK, HandleInv, OnlyPanicsSpoil
  <2>4. RunnerInv'
    BY <1>3, <2>1, <2>2, OnceAssumption DEF IndInv, TypeOK, RunnerInv
  <2> QED BY <2>3, <2>4 DEF IndInv
<1> QED BY <1>2, <1>3 DEF Enter, Goto, once

LEMMA SetUpStepInv ==
  ASSUME IndInv, NEW g \in Goroutines, SetUpStep(g)
  PROVE  IndInv'
<1> DEFINE t == tool[g]
           new == After(SetUp[t][line[t]], handle[t])
<1>1. /\ t \in Tools /\ runner[t] = g /\ ~done[t] /\ pc[g] = "setUp"
      /\ handle' = [handle EXCEPT ![t] = new]
  BY OnceAssumption DEF IndInv, RunnerInv, SetUpStep
<1>2. /\ new \in {Nil, "open", "ready"}
      /\ t # "db" => new \in {Nil, "ready"}
      /\ line[t] = Len(SetUp[t]) => new = "ready"
      /\ line[t] < Len(SetUp[t]) =>
           new = IF line[t] + 1 < 3 THEN Nil ELSE IF t = "db" THEN "open" ELSE "ready"
  BY <1>1, AfterStep
<1>3. line[t] \in 1 .. Len(SetUp[t]) /\ Len(SetUp[t]) \in 1 .. 4
  BY <1>1, Steps DEF IndInv, RunnerInv, Tools
<1> HIDE DEF t, new
<1>4. CASE line[t] < Len(SetUp[t])
  <2>1. /\ line' = [line EXCEPT ![t] = @ + 1]
        /\ UNCHANGED <<done, runner, pc, starts, poisoned, tool, got>>
    BY <1>4 DEF SetUpStep, t
  <2> DEFINE now == line[t]
             last == Len(SetUp[t])
  <2>2. now \in 1 .. last /\ last \in 1 .. 4 /\ now < last
    BY <1>3, <1>4
  <2>3. now + 1 \in 1 .. last /\ now + 1 \in 1 .. 4
    <3> HIDE DEF now, last
    <3> QED BY <2>2
  <2>4. TypeOK'
    <3>1. handle' \in [Tools -> {Nil, "raw", "open", "ready"}]
      BY <1>1, <1>2 DEF IndInv, TypeOK
    <3>2. \A s \in {"redis", "cron"} : handle'[s] \in {Nil, "ready"}
      BY <1>1, <1>2 DEF IndInv, TypeOK, Tools
    <3>3. line' \in [Tools -> 1 .. 4]
      BY <1>1, <2>1, <2>3 DEF IndInv, TypeOK
    <3> QED BY <2>1, <3>1, <3>2, <3>3 DEF IndInv, TypeOK
  <2>5. RunnerInv'
    BY <1>1, <2>1, <2>3 DEF IndInv, TypeOK, RunnerInv
  <2>6. HandleInv'
    BY <1>1, <1>2, <1>4, <2>1, <2>3 DEF IndInv, TypeOK, HandleInv
  <2> QED BY <2>1, <2>4, <2>5, <2>6 DEF IndInv, OnlyPanicsSpoil
<1>5. CASE line[t] = Len(SetUp[t])
  <2>1. /\ done' = [done EXCEPT ![t] = TRUE] /\ runner' = [runner EXCEPT ![t] = Nil]
        /\ pc' = [pc EXCEPT ![g] = "return"]
        /\ UNCHANGED <<line, starts, poisoned, tool, got>>
    BY <1>3, <1>5 DEF SetUpStep, Goto, t
  <2> QED BY <1>1, <1>2, <1>3, <1>5, <2>1, OnceAssumption
          DEF IndInv, TypeOK, RunnerInv, HandleInv, OnlyPanicsSpoil, t
<1> QED BY <1>3, <1>4, <1>5

LEMMA PanicInv ==
  ASSUME IndInv, NEW g \in Goroutines, Panic(g)
  PROVE  IndInv'
<1> DEFINE t == tool[g]
           new == Broken(SetUp[t][line[t]], handle[t])
<1>1. /\ t \in Tools /\ runner[t] = g /\ ~done[t] /\ pc[g] = "setUp"
      /\ handle' = [handle EXCEPT ![t] = new]
  BY OnceAssumption DEF IndInv, RunnerInv, Panic
<1>2. new \in {Nil, "raw", "open", "ready"} /\ (t # "db" => new \in {Nil, "ready"})
  BY <1>1, BrokenStep
<1>3. /\ done' = [done EXCEPT ![t] = TRUE] /\ runner' = [runner EXCEPT ![t] = Nil]
      /\ poisoned' = [poisoned EXCEPT ![t] = TRUE] /\ pc' = [pc EXCEPT ![g] = "idle"]
      /\ UNCHANGED <<line, starts, tool, got>>
  BY DEF Panic, Goto
<1> HIDE DEF t, new
<1> QED BY <1>1, <1>2, <1>3, OnceAssumption
        DEF IndInv, TypeOK, RunnerInv, HandleInv, OnlyPanicsSpoil, t

LEMMA ReturnInv ==
  ASSUME IndInv, NEW g \in Goroutines, Return(g)
  PROVE  IndInv'
<1> DEFINE answer == [tool |-> tool[g], handle |-> handle[tool[g]]]
<1>1. tool[g] \in Tools /\ done[tool[g]]
  BY DEF IndInv, RunnerInv, Return
<1>2. /\ answer \in [tool : Tools, handle : {Nil, "raw", "open", "ready"}]
      /\ answer.tool = tool[g] /\ answer.handle = handle[tool[g]]
  BY <1>1 DEF IndInv, TypeOK
<1>3. answer.handle # "ready" =>
        /\ poisoned[answer.tool]
        /\ answer.tool = "db" \/ answer.handle = Nil
  BY <1>1, <1>2 DEF IndInv, HandleInv
<1>4. got' = [got EXCEPT ![g] = answer] /\ pc' = [pc EXCEPT ![g] = "idle"]
  BY DEF Return, Goto
<1> HIDE DEF answer
<1>5. TypeOK' /\ OnlyPanicsSpoil'
  BY <1>2, <1>3, <1>4 DEF IndInv, TypeOK, OnlyPanicsSpoil, Return, once
<1>6. RunnerInv' /\ HandleInv'
  BY <1>4, OnceAssumption DEF IndInv, TypeOK, RunnerInv, HandleInv, Return, once
<1> QED BY <1>5, <1>6 DEF IndInv

LEMMA Invariance == Spec => []IndInv
<1>1. Init => IndInv
  BY InitInv
<1>2. IndInv /\ [Next]_vars => IndInv'
  <2> SUFFICES ASSUME IndInv, [Next]_vars PROVE IndInv'
    OBVIOUS
  <2>1. CASE UNCHANGED vars
    BY <2>1 DEF vars, IndInv, TypeOK, RunnerInv, HandleInv, OnlyPanicsSpoil
  <2> QED BY <2>1, CallInv, EnterInv, SetUpStepInv, PanicInv, ReturnInv DEF Next, Step
<1> QED BY <1>1, <1>2, PTL DEF Spec

-----------------------------------------------------------------------------

\* Every variable of the singletons keeps its shape, and the Redis client and the
\* cron runner are there whole or not at all.
THEOREM OnceTyped == Spec => []TypeOK
<1>1. IndInv => TypeOK
  BY DEF IndInv
<1> QED BY <1>1, Invariance, PTL

\* However many goroutines ask first, each handle is set up once (GetDB,
\* GetGinServerRdb, GetCron).
THEOREM HandlesSetUpOnce == Spec => []SetUpOnce
<1>1. IndInv => SetUpOnce
  BY DEF IndInv, RunnerInv, SetUpOnce
<1> QED BY <1>1, Invariance, PTL

\* A handle that is missing or half made is only given out after its set-up
\* panicked, and the Redis and the cron handle are never half made.
THEOREM SpoiledByPanics == Spec => []OnlyPanicsSpoil
<1>1. IndInv => OnlyPanicsSpoil
  BY DEF IndInv
<1> QED BY <1>1, Invariance, PTL

-----------------------------------------------------------------------------
(* OnceHandles implements OnceRegistry. *)

Handle(t) == IF done[t] THEN handle[t] ELSE "unset"
Given(g) == IF got[g] = Nil THEN Nil ELSE <<got[g].tool, got[g].handle>>
entryMap == [t \in Tools |-> Handle(t)]
answersMap == [g \in Goroutines |-> Given(g)]

LEMMA RegistryStutter ==
  ASSUME entryMap' = entryMap, answersMap' = answersMap
  PROVE  UNCHANGED Registry!rvars
BY DEF Registry!rvars, entryMap, answersMap, Handle, Given

LEMMA RegistryMakes ==
  ASSUME NEW t \in Tools, entryMap[t] = "unset",
         entryMap'[t] \in {Nil, "raw", "open", "ready"},
         entryMap' = [entryMap EXCEPT ![t] = entryMap'[t]], answersMap' = answersMap
  PROVE  Registry!Make(t)
BY DEF Registry!Make, entryMap, answersMap, Handle, Given

LEMMA RegistryGives ==
  ASSUME NEW g \in Goroutines, NEW t \in Tools, entryMap[t] # "unset",
         answersMap' = [answersMap EXCEPT ![g] = <<t, entryMap[t]>>],
         entryMap' = entryMap
  PROVE  Registry!Give(g, t)
BY DEF Registry!Give, entryMap, answersMap, Handle, Given

LEMMA RegistryStep ==
  ASSUME IndInv, [Next]_vars
  PROVE  [Registry!RegistryNext]_(Registry!rvars)
<1>1. CASE UNCHANGED <<handle, done, got>>
  <2>1. entryMap' = entryMap /\ answersMap' = answersMap
    BY <1>1 DEF entryMap, answersMap, Handle, Given
  <2> QED BY <2>1, RegistryStutter
<1>2. ASSUME NEW g \in Goroutines, SetUpStep(g) \/ Panic(g)
      PROVE  Registry!RegistryNext \/ UNCHANGED Registry!rvars
  <2> DEFINE t == tool[g]
  <2>1. /\ t \in Tools /\ ~done[t] /\ got' = got
        /\ \A s \in Tools \ {t} : done'[s] = done[s] /\ handle'[s] = handle[s]
        /\ handle'[t] \in {Nil, "raw", "open", "ready"}
    <3>1. t \in Tools /\ ~done[t] /\ got' = got
      BY <1>2, OnceAssumption DEF IndInv, RunnerInv, SetUpStep, Panic
    <3>2. \A s \in Tools \ {t} : done'[s] = done[s] /\ handle'[s] = handle[s]
      BY <1>2 DEF IndInv, TypeOK, SetUpStep, Panic
    <3>3. IndInv'
      BY <1>2, SetUpStepInv, PanicInv
    <3> QED BY <3>1, <3>2, <3>3 DEF IndInv, TypeOK
  <2> HIDE DEF t
  <2>2. answersMap' = answersMap
    BY <2>1 DEF answersMap, Given
  <2>3. entryMap[t] = "unset" /\ entryMap' = [entryMap EXCEPT ![t] = entryMap'[t]]
    BY <2>1 DEF entryMap, Handle
  <2>4. CASE done'[t]
    <3>1. entryMap'[t] \in {Nil, "raw", "open", "ready"}
      BY <2>1, <2>4 DEF entryMap, Handle
    <3> QED BY <2>1, <2>2, <2>3, <3>1, RegistryMakes DEF Registry!RegistryNext
  <2>5. CASE ~done'[t]
    <3>1. entryMap' = entryMap
      BY <2>1, <2>3, <2>5 DEF entryMap, Handle
    <3> QED BY <2>2, <3>1, RegistryStutter
  <2> QED BY <2>4, <2>5
<1>3. ASSUME NEW g \in Goroutines, Return(g)
      PROVE  Registry!RegistryNext
  <2> DEFINE a == [tool |-> tool[g], handle |-> handle[tool[g]]]
  <2>1. /\ tool[g] \in Tools /\ done[tool[g]]
        /\ got' = [got EXCEPT ![g] = a] /\ UNCHANGED <<handle, done>>
    BY <1>3 DEF IndInv, RunnerInv, Return, once
  <2>2. a \in [tool : Tools, handle : {Nil, "raw", "open", "ready"}]
        /\ a.tool = tool[g] /\ a.handle = handle[tool[g]]
    BY <2>1 DEF IndInv, TypeOK
  <2> HIDE DEF a
  <2>3. a # Nil
    BY <2>2, OnceAssumption
  <2>4. entryMap' = entryMap /\ entryMap[tool[g]] = handle[tool[g]]
    BY <2>1 DEF entryMap, Handle
  <2>5. answersMap' = [answersMap EXCEPT ![g] = <<tool[g], entryMap[tool[g]]>>]
    BY <2>1, <2>2, <2>3, <2>4 DEF answersMap, Given, IndInv, TypeOK
  <2>6. handle[tool[g]] \in {Nil, "raw", "open", "ready"}
    BY <2>2
  <2>7. entryMap[tool[g]] # "unset"
    BY <2>4, <2>6, OnceAssumption
  <2> QED BY <2>1, <2>4, <2>5, <2>7, RegistryGives DEF Registry!RegistryNext
<1> QED BY <1>1, <1>2, <1>3 DEF Next, Step, Call, Enter, once, vars

\* A handle that somebody was given is the one that all are given ever after,
\* and no set-up still works on it.
THEOREM HandlesRegistered == Spec => HandlesKeepRegistry
<1>1. Init => Registry!RegistryInit
  BY DEF Init, Registry!RegistryInit
<1>2. IndInv /\ [Next]_vars => [Registry!RegistryNext]_(Registry!rvars)
  BY RegistryStep
<1> QED BY <1>1, <1>2, Invariance, PTL DEF Spec, HandlesKeepRegistry, Registry!RegistrySpec
=============================================================================
