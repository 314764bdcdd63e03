------------------------ MODULE DefinedErrorsProofs ------------------------
(***************************************************************************)
(* Theorems about DefinedErrors for any number of goroutines and errors.   *)
(*                                                                         *)
(* The inductive invariant says who holds the lock at which line, and that *)
(* an entry, its object and the write of it go together: no object before  *)
(* the write begins, one while it lasts, the same one ever after.          *)
(***************************************************************************)
EXTENDS DefinedErrors, TLAPS

LockInv ==
  /\ \A g \in Goroutines :
       /\ pc[g] # "idle" => func[g] \in Funcs
       /\ readers[g] = IF pc[g] = "check" THEN 1 ELSE 0
       /\ pc[g] \in {"locked", "writing", "written"} => writer = g
       /\ pc[g] = "locking" => pending = g
       /\ pc[g] = "writing" <=> (writer = g /\ writing # Nil)
       /\ pc[g] = "writing" => writing = func[g]
       /\ pc[g] = "written" => defined[func[g]] # Nil
  /\ pending # Nil => writer = Nil
  /\ writing # Nil => writer # Nil

EntryInv ==
  /\ \A f \in Funcs :
       \/ writing = f /\ defined[f] = Nil /\ made[f] = 1
       \/ writing # f /\ defined[f] = Nil /\ made[f] = 0
       \/ writing # f /\ defined[f] = 1 /\ made[f] = 1
  /\ \A g \in Goroutines : got[g] # Nil => got[g].object \in {Nil, 1}

IndInv == TypeOK /\ LockInv /\ EntryInv

LEMMA InitInv ==
  ASSUME Init
  PROVE  IndInv
BY ErrorsAssumption DEF Init, IndInv, TypeOK, LockInv, EntryInv, Stages

\* An answer names the function asked for and an object that was found.
LEMMA AnswerInv ==
  ASSUME IndInv, NEW g \in Goroutines, NEW object \in {Nil, 1},
         func[g] \in Funcs, Answer(g, object)
  PROVE  /\ pc' \in [Goroutines -> Stages]
         /\ got' \in [Goroutines -> [func : Funcs, object : Nat \cup {Nil}] \cup {Nil}]
         /\ \A h \in Goroutines : got'[h] # Nil => got'[h].object \in {Nil, 1}
         /\ pc'[g] = "idle" /\ \A h \in Goroutines \ {g} : pc'[h] = pc[h]
<1> DEFINE a == [func |-> func[g], object |-> object]
<1>1. a \in [func : Funcs, object : Nat \cup {Nil}] /\ a.object = object
  OBVIOUS
<1>2. got' = [got EXCEPT ![g] = a] /\ pc' = [pc EXCEPT ![g] = "idle"]
  BY DEF Answer, Goto
<1> HIDE DEF a
<1> QED BY <1>1, <1>2 DEF IndInv, TypeOK, EntryInv, Stages

LEMMA SeenObjects ==
  ASSUME IndInv, NEW f \in Funcs
  PROVE  Seen(f) \subseteq {Nil, 1}
BY DEF IndInv, EntryInv, Seen

LEMMA NextInv ==
  ASSUME IndInv, [Next]_vars
  PROVE  IndInv'
<1> USE ErrorsAssumption DEF IndInv, At, Goto, lock
<1>1. CASE UNCHANGED vars
  BY <1>1 DEF vars, TypeOK, LockInv, EntryInv
<1>2. CASE Dead
  BY <1>2 DEF Dead, vars, TypeOK, LockInv, EntryInv
<1>3. ASSUME NEW g \in Goroutines, NEW f \in Funcs, Call(g, f)
      PROVE  IndInv'
  BY <1>3 DEF Call, TypeOK, LockInv, EntryInv, Stages
<1>4. ASSUME NEW g \in Goroutines, RLock(g) PROVE IndInv'
  BY <1>4 DEF RLock, TypeOK, LockInv, EntryInv, Stages
<1>5. ASSUME NEW g \in Goroutines, Found(g) PROVE IndInv'
  <2>1. defined[func[g]] \in {Nil, 1} /\ func[g] \in Funcs
    BY <1>5 DEF Found, LockInv, EntryInv
  <2> QED BY <1>5, <2>1, AnswerInv DEF Found, TypeOK, LockInv, EntryInv
<1>6. ASSUME NEW g \in Goroutines, RUnlock(g) PROVE IndInv'
  BY <1>6 DEF RUnlock, TypeOK, LockInv, EntryInv, Stages
<1>7. ASSUME NEW g \in Goroutines, Recheck(g) PROVE IndInv'
  BY <1>7 DEF Recheck, TypeOK, LockInv, EntryInv, Stages
<1>8. ASSUME NEW g \in Goroutines, Announce(g) PROVE IndInv'
  BY <1>8 DEF Announce, TypeOK, LockInv, EntryInv, Stages
<1>9. ASSUME NEW g \in Goroutines, Lock(g) PROVE IndInv'
  BY <1>9 DEF Lock, TypeOK, LockInv, EntryInv, Stages
<1>10. ASSUME NEW g \in Goroutines, BeginWrite(g) PROVE IndInv'
  BY <1>10 DEF BeginWrite, TypeOK, LockInv, EntryInv, Stages
<1>11. ASSUME NEW g \in Goroutines, EndWrite(g) PROVE IndInv'
  BY <1>11 DEF EndWrite, TypeOK, LockInv, EntryInv, Stages
<1>12. ASSUME NEW g \in Goroutines, Unlock(g) PROVE IndInv'
  <2>1. defined[func[g]] \in {Nil, 1} /\ func[g] \in Funcs
    BY <1>12 DEF Unlock, LockInv, EntryInv
  <2> QED BY <1>12, <2>1, AnswerInv DEF Unlock, TypeOK, LockInv, EntryInv
<1>13. ASSUME NEW g \in Goroutines, Reread(g) PROVE IndInv'
  <2>1. func[g] \in Funcs
    BY <1>13 DEF Reread, LockInv
  <2>2. PICK object \in {Nil, 1} : Answer(g, object)
    BY <1>13, <2>1, SeenObjects DEF Reread
  <2> QED BY <1>13, <2>1, <2>2, AnswerInv DEF Reread, TypeOK, LockInv, EntryInv
<1>14. ASSUME NEW g \in Goroutines, ConcurrentMapAccess(g) PROVE IndInv'
  BY <1>14 DEF ConcurrentMapAccess, TypeOK, LockInv, EntryInv
<1> QED BY <1>1, <1>2, <1>3, <1>4, <1>5, <1>6, <1>7, <1>8, <1>9, <1>10, <1>11,
           <1>12, <1>13, <1>14 DEF Next, Step

LEMMA Invariance == Spec => []IndInv
<1>1. Init => IndInv
  BY InitInv
<1>2. IndInv /\ [Next]_vars => IndInv'
  BY NextInv
<1> QED BY <1>1, <1>2, PTL DEF Spec

\* Every variable keeps its shape, and nobody gives back a read lock it does not
\* hold.
THEOREM ErrorsTyped == Spec => []TypeOK
<1>1. IndInv => TypeOK
  BY DEF IndInv
<1> QED BY <1>1, Invariance, PTL

\* A defining function runs once, whatever the racing reads find.
THEOREM ErrorsMadeOnce == Spec => []MadeOnce
<1>1. IndInv => MadeOnce
  BY DEF IndInv, EntryInv, MadeOnce
<1> QED BY <1>1, Invariance, PTL

\* No two callers that ask for the same error get two objects, though one may
\* get nil.
THEOREM ErrorsAgree == Spec => []AnswersAgree
<1>1. IndInv => AnswersAgree
  BY DEF IndInv, EntryInv, AnswersAgree
<1> QED BY <1>1, Invariance, PTL

-----------------------------------------------------------------------------
(* DefinedErrors implements OnceRegistry. *)

Object(f) == IF made[f] = 0 THEN Nil ELSE made[f]
Given(g) == IF got[g] = Nil THEN Nil ELSE <<got[g].func, got[g].object>>
entryMap == [f \in Funcs |-> Object(f)]
answersMap == [g \in Goroutines |-> Given(g)]

LEMMA RegistryStutter ==
  ASSUME entryMap' = entryMap, answersMap' = answersMap
  PROVE  UNCHANGED Registry!rvars
BY DEF Registry!rvars, entryMap, answersMap, Object, Given

LEMMA RegistryMakes ==
  ASSUME NEW f \in Funcs, entryMap[f] = Nil, entryMap'[f] \in Nat,
         entryMap' = [entryMap EXCEPT ![f] = entryMap'[f]], answersMap' = answersMap
  PROVE  Registry!Make(f)
BY DEF Registry!Make, entryMap, answersMap, Object, Given

LEMMA RegistryGives ==
  ASSUME NEW g \in Goroutines, NEW f \in Funcs, NEW object \in {entryMap[f], Nil},
         answersMap' = [answersMap EXCEPT ![g] = <<f, object>>], entryMap' = entryMap
  PROVE  Registry!Give(g, f)
BY DEF Registry!Give, entryMap, answersMap, Object, Given

\* A read of an entry finds the object that counts as made, or nothing.
LEMMA FoundIsMade ==
  ASSUME IndInv, NEW f \in Funcs
  PROVE  Seen(f) \subseteq {entryMap[f], Nil} /\ defined[f] \in {entryMap[f], Nil}
BY DEF IndInv, EntryInv, Seen, entryMap, Object

LEMMA AnswerGives ==
  ASSUME IndInv, NEW g \in Goroutines, NEW f \in Funcs, func[g] = f,
         NEW object \in {entryMap[f], Nil}, Answer(g, object), UNCHANGED made
  PROVE  Registry!Give(g, f)
<1> DEFINE a == [func |-> f, object |-> object]
<1>1. got' = [got EXCEPT ![g] = a] /\ a.func = f /\ a.object = object
  BY DEF Answer
<1>2. a # Nil
  <2>1. object \in Nat \cup {Nil}
    BY DEF IndInv, TypeOK, entryMap, Object
  <2>2. a \in [func : Funcs, object : Nat \cup {Nil}]
    BY <2>1
  <2> QED BY <2>2, ErrorsAssumption
<1> HIDE DEF a
<1>3. answersMap' = [answersMap EXCEPT ![g] = <<f, object>>]
  BY <1>1, <1>2 DEF answersMap, Given, IndInv, TypeOK
<1>4. entryMap' = entryMap
  BY DEF entryMap, Object
<1> QED BY <1>3, <1>4, RegistryGives

LEMMA RegistryStep ==
  ASSUME IndInv, [Next]_vars
  PROVE  [Registry!RegistryNext]_(Registry!rvars)
<1>1. CASE UNCHANGED <<made, got>>
  <2>1. entryMap' = entryMap /\ answersMap' = answersMap
    BY <1>1 DEF entryMap, answersMap, Object, Given
  <2> QED BY <2>1, RegistryStutter
<1>2. ASSUME NEW g \in Goroutines, BeginWrite(g)
      PROVE  Registry!RegistryNext
  <2>1. /\ func[g] \in Funcs /\ made[func[g]] = 0
        /\ made' = [made EXCEPT ![func[g]] = 1] /\ got' = got
    <3>1. func[g] \in Funcs /\ writing = Nil /\ defined[func[g]] = Nil
      BY <1>2, ErrorsAssumption DEF BeginWrite, At, IndInv, LockInv
    <3>2. made[func[g]] = 0
      BY <3>1, ErrorsAssumption DEF IndInv, EntryInv
    <3> QED BY <1>2, <3>1, <3>2 DEF BeginWrite
  <2>2. /\ entryMap[func[g]] = Nil /\ entryMap'[func[g]] = 1
        /\ entryMap' = [entryMap EXCEPT ![func[g]] = entryMap'[func[g]]]
        /\ answersMap' = answersMap
    <3>1. made'[func[g]] = 1 /\ \A f \in Funcs \ {func[g]} : made'[f] = made[f]
      BY <2>1 DEF IndInv, TypeOK
    <3> QED BY <2>1, <3>1 DEF entryMap, Object, answersMap, Given
  <2> QED BY <2>1, <2>2, RegistryMakes DEF Registry!RegistryNext
<1>3. ASSUME NEW g \in Goroutines, Found(g) \/ Unlock(g) \/ Reread(g)
      PROVE  Registry!RegistryNext
  <2>1. PICK f \in Funcs : func[g] = f /\ made' = made
    BY <1>3 DEF Found, Unlock, Reread, At, IndInv, LockInv
  <2>2. PICK object \in {entryMap[f], Nil} : Answer(g, object)
    BY <1>3, <2>1, FoundIsMade DEF Found, Unlock, Reread
  <2>3. Registry!Give(g, f)
    BY <2>1, <2>2, AnswerGives
  <2> QED BY <2>3 DEF Registry!RegistryNext
<1>4. ASSUME NEW g \in Goroutines, Step(g)
      PROVE  BeginWrite(g) \/ Found(g) \/ Unlock(g) \/ Reread(g) \/ UNCHANGED <<made, got>>
  BY <1>4 DEF Step, RLock, RUnlock, Recheck, Announce, Lock, EndWrite, ConcurrentMapAccess
<1> QED BY <1>1, <1>2, <1>3, <1>4 DEF Next, Call, Dead, vars

\* The object of an error never changes, and an answer is that object or nil.
THEOREM ErrorsRegistered == Spec => ErrorsKeepRegistry
<1>1. Init => Registry!RegistryInit
  BY DEF Init, Registry!RegistryInit
<1>2. IndInv /\ [Next]_vars => [Registry!RegistryNext]_(Registry!rvars)
  BY RegistryStep
<1> QED BY <1>1, <1>2, Invariance, PTL DEF Spec, ErrorsKeepRegistry, Registry!RegistrySpec
=============================================================================
