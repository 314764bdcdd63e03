----------------------------- MODULE OnceHandles -----------------------------
(***************************************************************************)
(* GetDB, GetGinServerRdb and GetCron: handles that the first caller sets  *)
(* up inside sync.Once.Do while the others wait.  A set-up that panics     *)
(* still counts as done: sync.Once never tries again, and Recovery keeps   *)
(* the process alive when the caller was a request.                        *)
(***************************************************************************)
EXTENDS Naturals, Sequences

CONSTANTS Goroutines, Nil

Tools == {"db", "redis", "cron"}

ASSUME OnceAssumption ==
  /\ Nil \notin Goroutines \cup Tools \cup {"raw", "open", "ready", "unset"}
  /\ Nil \notin [tool : Tools, handle : {Nil, "raw", "open", "ready"}]

VARIABLES
  handle,   \* Nil, "raw" (opening it failed), "open" (not yet limited) or "ready"
  done,     \* the Once has been used
  runner,   \* the goroutine inside Do
  line,     \* the step of the set-up that comes next
  starts,   \* how often the set-up was begun
  poisoned, \* the set-up has panicked
  pc, tool,
  got       \* what the last call of each goroutine returned, and of which tool

vars == <<handle, done, runner, line, starts, poisoned, pc, tool, got>>
once == <<done, runner, line, starts, poisoned>>

\* Mutant: the Redis client is assigned first and gets its limits afterwards, as
\* GetDB does it.
SetUpAlike ==
  [db    |-> <<"config", "open", "pool", "limits">>,
   redis |-> <<"open", "config", "limits">>,
   cron  |-> <<"config", "make">>]

\* The steps of each set-up.  At each the environment or the server can make it
\* panic; "make" cannot.
SetUp ==
  [db    |-> <<"config", "open", "pool", "limits">>,
   redis |-> <<"config", "make", "check">>,
   cron  |-> <<"config", "make">>]

\* The handle after a step that succeeds.  gorm.Open assigns db; the limits of
\* its pool are set at the end.
After(step, h) ==
  IF step = "open" THEN "open"
  ELSE IF step \in {"make", "limits"} THEN "ready" ELSE h

\* The handle after a step that panics: gorm.Open returns a handle and an error.
Broken(step, h) == IF step = "open" THEN "raw" ELSE h

Goto(g, stage) == pc' = [pc EXCEPT ![g] = stage]

Call(g) ==
  /\ pc[g] = "idle"
  /\ \E t \in Tools : tool' = [tool EXCEPT ![g] = t]
  /\ Goto(g, "do")
  /\ UNCHANGED <<handle, once, got>>

\* Mutant: no Once, only a look at the handle.
EnterIfNil(g) ==
  /\ pc[g] = "do"
  /\ LET t == tool[g] IN
     IF handle[t] # Nil \/ poisoned[t]
     THEN Goto(g, "return") /\ UNCHANGED once
     ELSE /\ runner' = [runner EXCEPT ![t] = g]
          /\ line' = [line EXCEPT ![t] = 1]
          /\ starts' = [starts EXCEPT ![t] = @ + 1]
          /\ Goto(g, "setUp")
          /\ UNCHANGED <<done, poisoned>>
  /\ UNCHANGED <<handle, tool, got>>

\* Do returns at once if it is done, else one goroutine enters and the others wait.
Enter(g) ==
  /\ pc[g] = "do"
  /\ LET t == tool[g] IN
     \/ done[t] /\ Goto(g, "return") /\ UNCHANGED once
     \/ /\ ~done[t] /\ runner[t] = Nil
        /\ runner' = [runner EXCEPT ![t] = g]
        /\ starts' = [starts EXCEPT ![t] = @ + 1]
        /\ Goto(g, "setUp")
        /\ UNCHANGED <<done, line, poisoned>>
  /\ UNCHANGED <<handle, tool, got>>

\* Mutant: the handle is published before its set-up is finished.
SetUpStepEarly(g) ==
  /\ pc[g] = "setUp"
  /\ LET t == tool[g]
         step == SetUp[t][line[t]]
     IN /\ handle' = [handle EXCEPT ![t] = After(step, @)]
        /\ done' = [done EXCEPT ![t] = handle'[t] # Nil]
        /\ IF line[t] < Len(SetUp[t])
           THEN line' = [line EXCEPT ![t] = @ + 1] /\ UNCHANGED <<runner, pc>>
           ELSE Goto(g, "return") /\ runner' = [runner EXCEPT ![t] = Nil] /\ UNCHANGED line
  /\ UNCHANGED <<starts, poisoned, tool, got>>

SetUpStep(g) ==
  /\ pc[g] = "setUp"
  /\ LET t == tool[g]
         step == SetUp[t][line[t]]
     IN /\ handle' = [handle EXCEPT ![t] = After(step, @)]
        /\ IF line[t] < Len(SetUp[t])
           THEN line' = [line EXCEPT ![t] = @ + 1] /\ UNCHANGED <<done, runner, pc>>
           ELSE /\ done' = [done EXCEPT ![t] = TRUE]
                /\ runner' = [runner EXCEPT ![t] = Nil]
                /\ Goto(g, "return")
                /\ UNCHANGED line
  /\ UNCHANGED <<starts, poisoned, tool, got>>

\* Mutant: a set-up that fails is begun again without end.
PanicRetrying(g) ==
  /\ pc[g] = "setUp"
  /\ LET t == tool[g] IN
     /\ SetUp[t][line[t]] # "make"
     /\ line' = [line EXCEPT ![t] = 1]
     /\ poisoned' = [poisoned EXCEPT ![t] = TRUE]
  /\ UNCHANGED <<handle, done, runner, starts, pc, tool, got>>

\* PanicError, or the panic of GetCron: the caller gets the panic, the Once is
\* done all the same.
Panic(g) ==
  /\ pc[g] = "setUp"
  /\ LET t == tool[g]
         step == SetUp[t][line[t]]
     IN /\ step # "make"
        /\ handle' = [handle EXCEPT ![t] = Broken(step, @)]
        /\ done' = [done EXCEPT ![t] = TRUE]
        /\ runner' = [runner EXCEPT ![t] = Nil]
        /\ poisoned' = [poisoned EXCEPT ![t] = TRUE]
  /\ Goto(g, "idle")
  /\ UNCHANGED <<line, starts, tool, got>>

Return(g) ==
  /\ pc[g] = "return"
  /\ got' = [got EXCEPT ![g] = [tool |-> tool[g], handle |-> handle[tool[g]]]]
  /\ Goto(g, "idle")
  /\ UNCHANGED <<handle, once, tool>>

Init ==
  /\ handle = [t \in Tools |-> Nil]
  /\ done = [t \in Tools |-> FALSE]
  /\ runner = [t \in Tools |-> Nil]
  /\ line = [t \in Tools |-> 1]
  /\ starts = [t \in Tools |-> 0]
  /\ poisoned = [t \in Tools |-> FALSE]
  /\ pc = [g \in Goroutines |-> "idle"]
  /\ tool = [g \in Goroutines |-> Nil]
  /\ got = [g \in Goroutines |-> Nil]

Step(g) == Enter(g) \/ SetUpStep(g) \/ Panic(g) \/ Return(g)
Next == \E g \in Goroutines : Call(g) \/ Step(g)
Spec == Init /\ [][Next]_vars

\* The Go scheduler lets every goroutine run.
FairSpec == Spec /\ \A g \in Goroutines : WF_vars(Step(g))
-----------------------------------------------------------------------------
(* Properties *)

\* Every variable keeps its shape.  Of the three handles only that of GetDB is
\* ever there before it is whole.
TypeOK ==
  /\ handle \in [Tools -> {Nil, "raw", "open", "ready"}]
  /\ handle["redis"] \in {Nil, "ready"} /\ handle["cron"] \in {Nil, "ready"}
  /\ done \in [Tools -> BOOLEAN] /\ poisoned \in [Tools -> BOOLEAN]
  /\ runner \in [Tools -> Goroutines \cup {Nil}]
  /\ line \in [Tools -> 1 .. 4] /\ starts \in [Tools -> Nat]
  /\ pc \in [Goroutines -> {"idle", "do", "setUp", "return"}]
  /\ tool \in [Goroutines -> Tools \cup {Nil}]
  /\ got \in [Goroutines -> [tool : Tools, handle : {Nil, "raw", "open", "ready"}] \cup {Nil}]

\* However many goroutines ask first, each handle is set up by one of them, once.
SetUpOnce == \A t \in Tools : starts[t] <= 1

\* Nobody is handed a missing or half set up handle, as long as no set-up has
\* panicked; the Redis and the cron handle are whole or missing even then.
OnlyPanicsSpoil ==
  \A g \in Goroutines :
    got[g] # Nil /\ got[g].handle # "ready" =>
      /\ poisoned[got[g].tool]
      /\ got[g].tool = "db" \/ got[g].handle = Nil

\* The handles are a OnceRegistry without excuses: Do publishes a handle, which
\* may be missing or half made.
Registry == INSTANCE OnceRegistry WITH
  Askers <- Goroutines, Keys <- Tools, Values <- {Nil, "raw", "open", "ready"},
  Excuses <- {}, Absent <- "unset", Unasked <- Nil,
  entry <- [t \in Tools |-> IF done[t] THEN handle[t] ELSE "unset"],
  answers <- [g \in Goroutines |-> IF got[g] = Nil THEN Nil
                                   ELSE <<got[g].tool, got[g].handle>>]

\* Once somebody was given a handle nobody is given another one, and no set-up
\* still works on a handle that is in use (GetDB, GetGinServerRdb, GetCron).
HandlesKeepRegistry == Registry!RegistrySpec

\* Every call returns or panics.
Returns == \A g \in Goroutines : pc[g] # "idle" ~> pc[g] = "idle"
=============================================================================
