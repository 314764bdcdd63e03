--------------------------- MODULE DefinedErrors ---------------------------
(***************************************************************************)
(* exceptions.GetDefinedErrors: the map of *ApiError objects, one for each *)
(* defining function, that goroutines create on first use under a          *)
(* sync.RWMutex.  The second look at the map and, when it finds an object, *)
(* the read that returns it are made without the lock.                     *)
(*                                                                         *)
(* A write of the map takes two steps, so that an unlocked read can fall   *)
(* into it.  Such a read is a data race: the Go runtime ends the process   *)
(* ("concurrent map read and map write"), or the read finds the old entry, *)
(* the new one, or, when the write moves buckets, none.                    *)
(***************************************************************************)
EXTENDS Integers

CONSTANTS Goroutines,
          Funcs,  \* names of defining functions
          Nil     \* no entry, no goroutine

ASSUME ErrorsAssumption ==
  /\ Nil \notin Goroutines \cup Funcs \cup Nat
  /\ Nil \notin [func : Funcs, object : Nat \cup {Nil}]

VARIABLES
  defined,  \* DefinedErrorsMap: Nil or the number of the object
  made,     \* how many objects each function has made
  writing,  \* the function whose entry is being written
  readers,  \* how many read locks each goroutine holds
  writer,   \* the goroutine that holds the lock
  pending,  \* the goroutine that waits for the readers and keeps new ones out
  pc,
  func,     \* the argument of the call
  got,      \* the last answer of each goroutine: for which function, which object
  fatal     \* the runtime has ended the process

lock == <<readers, writer, pending>>
vars == <<defined, made, writing, readers, writer, pending, pc, func, got, fatal>>

Stages == {"idle", "rlock", "check", "recheck", "lock", "locking", "locked",
           "writing", "written", "reread"}

At(g, stage) == pc[g] = stage /\ ~fatal
Goto(g, stage) == pc' = [pc EXCEPT ![g] = stage]
Answer(g, object) ==
  /\ Goto(g, "idle")
  /\ got' = [got EXCEPT ![g] = [func |-> func[g], object |-> object]]

\* What a read of f's entry without the lock may find.
Seen(f) ==
  {defined[f]}
    \cup (IF writing # Nil THEN {Nil} ELSE {})
    \cup (IF writing = f THEN {made[f]} ELSE {})

Call(g, f) ==
  /\ At(g, "idle")
  /\ func' = [func EXCEPT ![g] = f]
  /\ Goto(g, "rlock")
  /\ UNCHANGED <<defined, made, writing, lock, got, fatal>>

RLock(g) ==
  /\ At(g, "rlock")
  /\ writer = Nil /\ pending = Nil
  /\ readers' = [readers EXCEPT ![g] = @ + 1]
  /\ Goto(g, "check")
  /\ UNCHANGED <<defined, made, writing, writer, pending, func, got, fatal>>

\* Mutant: RUnlock is called before the answer and deferred as well.
FoundUnlockingTwice(g) ==
  /\ At(g, "check")
  /\ defined[func[g]] # Nil
  /\ Answer(g, defined[func[g]])
  /\ readers' = [readers EXCEPT ![g] = @ - 2]
  /\ UNCHANGED <<defined, made, writing, writer, pending, func, fatal>>

\* Found under the read lock; the deferred RUnlock follows.
Found(g) ==
  /\ At(g, "check")
  /\ defined[func[g]] # Nil
  /\ Answer(g, defined[func[g]])
  /\ readers' = [readers EXCEPT ![g] = @ - 1]
  /\ UNCHANGED <<defined, made, writing, writer, pending, func, fatal>>

RUnlock(g) ==
  /\ At(g, "check")
  /\ defined[func[g]] = Nil
  /\ readers' = [readers EXCEPT ![g] = @ - 1]
  /\ Goto(g, "recheck")
  /\ UNCHANGED <<defined, made, writing, writer, pending, func, got, fatal>>

\* Mutant: a goroutine that finds no entry starts over.
RecheckAgain(g) ==
  /\ At(g, "recheck")
  /\ \E object \in Seen(func[g]) : Goto(g, IF object = Nil THEN "rlock" ELSE "reread")
  /\ UNCHANGED <<defined, made, writing, lock, func, got, fatal>>

Recheck(g) ==
  /\ At(g, "recheck")
  /\ \E object \in Seen(func[g]) : Goto(g, IF object = Nil THEN "lock" ELSE "reread")
  /\ UNCHANGED <<defined, made, writing, lock, func, got, fatal>>

\* Lock first takes its turn among writers and holds new readers off ...
Announce(g) ==
  /\ At(g, "lock")
  /\ pending = Nil /\ writer = Nil
  /\ pending' = g
  /\ Goto(g, "locking")
  /\ UNCHANGED <<defined, made, writing, readers, writer, func, got, fatal>>

\* ... and then waits for those that are there.
Lock(g) ==
  /\ At(g, "locking")
  /\ \A h \in Goroutines : readers[h] = 0
  /\ writer' = g /\ pending' = Nil
  /\ Goto(g, "locked")
  /\ UNCHANGED <<defined, made, writing, readers, func, got, fatal>>

\* Mutant: the entry is not looked up again under the lock.
BeginWriteUnchecked(g) ==
  /\ At(g, "locked")
  /\ made' = [made EXCEPT ![func[g]] = @ + 1]
  /\ writing' = func[g]
  /\ Goto(g, "writing")
  /\ UNCHANGED <<defined, lock, func, got, fatal>>

BeginWrite(g) ==
  /\ At(g, "locked")
  /\ defined[func[g]] = Nil
  /\ made' = [made EXCEPT ![func[g]] = @ + 1]
  /\ writing' = func[g]
  /\ Goto(g, "writing")
  /\ UNCHANGED <<defined, lock, func, got, fatal>>

EndWrite(g) ==
  /\ At(g, "writing")
  /\ defined' = [defined EXCEPT ![func[g]] = made[func[g]]]
  /\ writing' = Nil
  /\ Goto(g, "written")
  /\ UNCHANGED <<made, lock, func, got, fatal>>

\* Mutant: a goroutine that finds the entry under the lock answers with a copy.
UnlockCopying(g) ==
  /\ At(g, "written") \/ (At(g, "locked") /\ defined[func[g]] # Nil)
  /\ Answer(g, IF pc[g] = "locked" THEN made[func[g]] + 1 ELSE defined[func[g]])
  /\ writer' = Nil
  /\ UNCHANGED <<defined, made, writing, readers, pending, func, fatal>>

\* The result is read before the deferred Unlock.
Unlock(g) ==
  /\ At(g, "written") \/ (At(g, "locked") /\ defined[func[g]] # Nil)
  /\ Answer(g, defined[func[g]])
  /\ writer' = Nil
  /\ UNCHANGED <<defined, made, writing, readers, pending, func, fatal>>

Reread(g) ==
  /\ At(g, "reread")
  /\ \E object \in Seen(func[g]) : Answer(g, object)
  /\ UNCHANGED <<defined, made, writing, lock, func, fatal>>

\* The runtime notices that the map is read while it is written.
ConcurrentMapAccess(g) ==
  /\ At(g, "recheck") \/ At(g, "reread")
  /\ writing # Nil
  /\ fatal' = TRUE
  /\ UNCHANGED <<defined, made, writing, lock, pc, func, got>>

\* Nothing runs after that.
Dead == fatal /\ UNCHANGED vars

Init ==
  /\ defined = [f \in Funcs |-> Nil]
  /\ made = [f \in Funcs |-> 0]
  /\ writing = Nil
  /\ readers = [g \in Goroutines |-> 0] /\ writer = Nil /\ pending = Nil
  /\ pc = [g \in Goroutines |-> "idle"]
  /\ func = [g \in Goroutines |-> Nil]
  /\ got = [g \in Goroutines |-> Nil]
  /\ fatal = FALSE

Step(g) ==
  \/ RLock(g) \/ Found(g) \/ RUnlock(g) \/ Recheck(g) \/ Announce(g) \/ Lock(g)
  \/ BeginWrite(g) \/ EndWrite(g) \/ Unlock(g) \/ Reread(g) \/ ConcurrentMapAccess(g)

Next ==
  \/ \E g \in Goroutines : Step(g) \/ \E f \in Funcs : Call(g, f)
  \/ Dead

Spec == Init /\ [][Next]_vars

\* The Go scheduler lets every goroutine run.
FairSpec == Spec /\ \A g \in Goroutines : WF_vars(Step(g))
-----------------------------------------------------------------------------
(* Properties *)

\* Every variable keeps its shape.  Nobody gives back a read lock it does not
\* hold: the runtime would end the process ("RUnlock of unlocked RWMutex").
TypeOK ==
  /\ defined \in [Funcs -> Nat \cup {Nil}]
  /\ made \in [Funcs -> Nat]
  /\ writing \in Funcs \cup {Nil}
  /\ readers \in [Goroutines -> Nat]
  /\ writer \in Goroutines \cup {Nil} /\ pending \in Goroutines \cup {Nil}
  /\ pc \in [Goroutines -> Stages]
  /\ func \in [Goroutines -> Funcs \cup {Nil}]
  /\ got \in [Goroutines -> [func : Funcs, object : Nat \cup {Nil}] \cup {Nil}]
  /\ fatal \in BOOLEAN

\* However many goroutines ask at once, and whatever the racing reads find, a
\* defining function runs once (lines 75-81 of error.go).
MadeOnce == \A f \in Funcs : made[f] <= 1

\* No two callers that ask for the same error get two objects, so that errors
\* can be compared by their pointers.  A read without the lock may give a caller
\* nil in its place, which GoroutineSafe is about.
AnswersAgree ==
  \A g, h \in Goroutines :
    got[g] # Nil /\ got[h] # Nil /\ got[g].func = got[h].func =>
      got[g].object = got[h].object \/ Nil \in {got[g].object, got[h].object}

\* The map is a OnceRegistry whose only excuse is nil: an object counts as made
\* when the write of its entry begins, since a racing read can find it.
Registry == INSTANCE OnceRegistry WITH
  Askers <- Goroutines, Keys <- Funcs, Values <- Nat, Excuses <- {Nil},
  Absent <- Nil, Unasked <- Nil,
  entry <- [f \in Funcs |-> IF made[f] = 0 THEN Nil ELSE made[f]],
  answers <- [g \in Goroutines |-> IF got[g] = Nil THEN Nil
                                   ELSE <<got[g].func, got[g].object>>]

\* The object of an error never changes, and an answer is that object or nil,
\* whatever a read without the lock falls into (GetDefinedErrors).
ErrorsKeepRegistry == Registry!RegistrySpec

\* The comment on GetDefinedErrors: "Goroutine-safe".
GoroutineSafe ==
  ~fatal /\ \A g \in Goroutines : got[g] # Nil => got[g].object # Nil

\* Every call returns, unless the process was ended: nobody waits for ever on
\* the two locks.
Returns == \A g \in Goroutines : pc[g] # "idle" ~> (pc[g] = "idle" \/ fatal)
=============================================================================
