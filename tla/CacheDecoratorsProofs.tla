----------------------- MODULE CacheDecoratorsProofs -----------------------
(***************************************************************************)
(* Proofs about CacheDecorators for any callers, keys and options.         *)
(***************************************************************************)
EXTENDS CacheDecorators, TLAPS

\* A caller that is inside an operation has a call.
CallTyped ==
  /\ pc \in [Callers -> Stages]
  /\ call \in [Callers -> CallType \cup {NoCall}]
  /\ \A c \in Callers : pc[c] # "idle" => call[c] \in CallType

TypeInv == TypeOK /\ CallTyped

\* What Goto and Answer do to the types.
LEMMA GotoTyped ==
  ASSUME TypeInv, NEW c \in Callers, NEW stage \in Stages, NEW v \in Stored,
         call[c] \in CallType, Goto(c, stage, v)
  PROVE  /\ pc' \in [Callers -> Stages] /\ val' \in [Callers -> Stored]
         /\ reply' \in [op : Ops, code : Codes, val : Stored] \cup {Nil}
         /\ clean' \in BOOLEAN
         /\ CallTyped'
  BY DEF TypeInv, TypeOK, CallTyped, Goto

LEMMA AnswerTyped ==
  ASSUME TypeInv, NEW c \in Callers, NEW code \in Codes, NEW v \in Stored,
         call[c] \in CallType, Answer(c, code, v)
  PROVE  /\ pc' \in [Callers -> Stages] /\ val' \in [Callers -> Stored]
         /\ reply' \in [op : Ops, code : Codes, val : Stored] \cup {Nil}
         /\ clean' \in BOOLEAN
         /\ CallTyped'
<1>1. "idle" \in Stages /\ Nil \in Stored
  BY DEF Stages, Stored
<1>2. reply' \in [op : Ops, code : Codes, val : Stored]
  BY DEF Answer, CallType
<1>3. clean' \in BOOLEAN
  BY DEF TypeInv, TypeOK, Answer
<1>4. call' \in [Callers -> CallType \cup {NoCall}]
  BY DEF TypeInv, CallTyped, Answer
<1>5. pc' \in [Callers -> Stages] /\ val' \in [Callers -> Stored]
  BY <1>1 DEF TypeInv, TypeOK, CallTyped, Answer
<1>6. \A d \in Callers : pc'[d] # "idle" => call'[d] \in CallType
  BY DEF TypeInv, CallTyped, Answer
<1>7. QED
  BY <1>2, <1>3, <1>4, <1>5, <1>6 DEF CallTyped

\* The three ways in which a step ends: at a stage, with an answer, or either.
Ends(c) ==
  \/ \E stage \in Stages, v \in Stored : Goto(c, stage, v)
  \/ \E code \in Codes, v \in Stored : Answer(c, code, v)

LEMMA EndsTyped ==
  ASSUME TypeInv, NEW c \in Callers, call[c] \in CallType, Ends(c),
         source' \in [Keys -> Versions], cache' \in [Keys -> Stored],
         lasting' \subseteq Keys, added' \subseteq Keys
  PROVE  TypeInv'
<1>1. /\ pc' \in [Callers -> Stages] /\ val' \in [Callers -> Stored]
      /\ reply' \in [op : Ops, code : Codes, val : Stored] \cup {Nil}
      /\ clean' \in BOOLEAN
      /\ CallTyped'
  BY GotoTyped, AnswerTyped DEF Ends
<1>2. QED
  BY <1>1 DEF TypeInv, TypeOK, CallTyped

\* The steps of an operation keep the types.
LEMMA StepTyped ==
  ASSUME TypeInv, NEW c \in Callers, Step(c)
  PROVE  TypeInv'
<1> DEFINE k == call[c].key
<1>1. call[c] \in CallType /\ k \in Keys /\ val[c] \in Stored
  <2>1. pc[c] # "idle"
    BY DEF Step, AskFilter, Get, ProcessRead, Fill, ProcessWrite, Put, FilterAdd, Evict,
           Exists, AddOrReplace, GetMulti, Item
  <2>2. QED
    BY <2>1 DEF TypeInv, TypeOK, CallTyped, CallType
<1>2. source[k] \in Stored /\ cache[k] \in Stored /\ Nil \in Stored /\ Blank \in Stored
  BY <1>1 DEF TypeInv, TypeOK, Stored
<1>3. /\ source \in [Keys -> Versions] /\ cache \in [Keys -> Stored]
      /\ lasting \subseteq Keys /\ added \subseteq Keys
  BY DEF TypeInv, TypeOK
<1>4. \A v \in Stored : \A code \in Codes : Answer(c, code, v) => Ends(c)
  BY DEF Ends
<1>5. \A v \in Stored : \A stage \in Stages : Goto(c, stage, v) => Ends(c)
  BY DEF Ends
<1>6. \A v \in Stored : Decode(c, v) => Ends(c)
  BY <1>2, <1>4 DEF Decode, Codes
<1> USE DEF Codes, Stages
<1>a. CASE AskFilter(c)
  BY <1>a, <1>1, <1>2, <1>3, <1>4, <1>5, EndsTyped DEF AskFilter
<1>b. CASE Get(c)
  <2>1. Ends(c)
    BY <1>b, <1>1, <1>2, <1>4, <1>5, <1>6 DEF Get
  <2>2. QED
    BY <1>b, <2>1, <1>1, <1>3, EndsTyped DEF Get
<1>c. CASE ProcessRead(c)
  <2>1. Ends(c)
    BY <1>c, <1>1, <1>2, <1>4, <1>5 DEF ProcessRead
  <2>2. QED
    BY <1>c, <2>1, <1>1, <1>3, EndsTyped DEF ProcessRead
<1>d. CASE Fill(c)
  <2>1. Ends(c) /\ cache' \in [Keys -> Stored] /\ lasting' \subseteq Keys
    BY <1>d, <1>1, <1>2, <1>3, <1>4, <1>6 DEF Fill, Store
  <2>2. QED
    BY <1>d, <2>1, <1>1, <1>3, EndsTyped DEF Fill
<1>e. CASE ProcessWrite(c)
  <2>1. source[k] < MaxVersion => source[k] + 1 \in Versions /\ source[k] + 1 \in Stored
    BY <1>1, <1>3, CacheAssumption DEF Versions, Stored
  <2>2. Ends(c)
    BY <1>e, <2>1, <1>2, <1>4, <1>5 DEF ProcessWrite
  <2>3. source' \in [Keys -> Versions]
    BY <1>e, <2>1, <1>1, <1>3 DEF ProcessWrite
  <2>4. QED
    BY <1>e, <2>2, <2>3, <1>1, <1>3, EndsTyped DEF ProcessWrite
<1>f. CASE Put(c)
  <2>1. (IF call[c].filter = "on" /\ ~FilterExists
         THEN Goto(c, "filterAdd", val[c]) ELSE Answer(c, "ok", val[c])) => Ends(c)
    BY <1>1, <1>4, <1>5
  <2>2. Ends(c) /\ cache' \in [Keys -> Stored] /\ lasting' \subseteq Keys
    BY <1>f, <2>1, <1>1, <1>2, <1>3, <1>4 DEF Put, Store
  <2>3. QED
    BY <1>f, <2>2, <1>1, <1>3, EndsTyped DEF Put
<1>g. CASE FilterAdd(c)
  <2>1. Ends(c) /\ added' \subseteq Keys
    BY <1>g, <1>1, <1>2, <1>3, <1>4 DEF FilterAdd
  <2>2. QED
    BY <1>g, <2>1, <1>1, <1>3, EndsTyped DEF FilterAdd
<1>h. CASE Evict(c)
  <2>1. Ends(c) /\ cache' \in [Keys -> Stored] /\ lasting' \subseteq Keys
    BY <1>h, <1>1, <1>2, <1>3, <1>4 DEF Evict
  <2>2. QED
    BY <1>h, <2>1, <1>1, <1>3, EndsTyped DEF Evict
<1>i. CASE Exists(c)
  <2>1. Ends(c)
    BY <1>i, <1>1, <1>2, <1>4, <1>5 DEF Exists
  <2>2. QED
    BY <1>i, <2>1, <1>1, <1>3, EndsTyped DEF Exists
<1>j. CASE AddOrReplace(c)
  <2>1. Ends(c) /\ cache' \in [Keys -> Stored] /\ lasting' \subseteq Keys
    BY <1>j, <1>1, <1>2, <1>3, <1>4 DEF AddOrReplace, Store
  <2>2. QED
    BY <1>j, <2>1, <1>1, <1>3, EndsTyped DEF AddOrReplace
<1>k. CASE GetMulti(c)
  <2>1. Ends(c)
    BY <1>k, <1>1, <1>2, <1>4, <1>5 DEF GetMulti
  <2>2. QED
    BY <1>k, <2>1, <1>1, <1>3, EndsTyped DEF GetMulti
<1>l. CASE Item(c)
  <2>1. Ends(c)
    BY <1>l, <1>1, <1>2, <1>4 DEF Item
  <2>2. QED
    BY <1>l, <2>1, <1>1, <1>3, EndsTyped DEF Item
<1>m. QED
  BY <1>a, <1>b, <1>c, <1>d, <1>e, <1>f, <1>g, <1>h, <1>i, <1>j, <1>k, <1>l DEF Step

\* So do the begin of a call and the expiry of a key.
LEMMA BeginTyped ==
  ASSUME TypeInv, NEW c \in Callers, Begin(c)
  PROVE  TypeInv'
<1>1. PICK new \in Calls :
        /\ call' = [call EXCEPT ![c] = new]
        /\ pc' = [pc EXCEPT ![c] = FirstStage(new)]
        /\ val' = [val EXCEPT ![c] =
                    IF new.op \in {"add", "replace"} THEN source[new.key] ELSE Nil]
  BY DEF Begin
<1>2. new \in CallType
  BY CacheAssumption DEF Calls, CallType
<1>3. val' \in [Callers -> Stored]
  BY <1>1, <1>2 DEF TypeInv, TypeOK, CallType, Stored
<1>4. FirstStage(new) \in Stages
  BY <1>2, CacheAssumption DEF FirstStage, Stages, CallType
<1>5. CallTyped'
  BY <1>1, <1>2, <1>4 DEF TypeInv, CallTyped
<1>6. clean' \in BOOLEAN
  BY Zenon DEF Begin
<1>7. QED
  BY <1>3, <1>5, <1>6 DEF TypeInv, TypeOK, CallTyped, Begin

LEMMA ExpireTyped ==
  ASSUME TypeInv, NEW k \in Keys, Expire(k)
  PROVE  TypeInv'
BY DEF TypeInv, TypeOK, CallTyped, Expire, Stored

LEMMA NextTyped == TypeInv /\ [Next]_vars => TypeInv'
<1>1. TypeInv /\ UNCHANGED vars => TypeInv'
  BY DEF TypeInv, TypeOK, CallTyped, vars
<1>2. QED
  BY <1>1, StepTyped, BeginTyped, ExpireTyped DEF Next

LEMMA InitTyped == Init => TypeInv
BY CacheAssumption DEF Init, TypeInv, TypeOK, CallTyped, Stages, Stored, Versions

LEMMA TypeInvariant == Spec => []TypeInv
BY InitTyped, NextTyped, PTL DEF Spec

\* For any callers, keys and options every variable keeps its shape, through
\* all the operations of the decorators and of RedisCache.
THEOREM CacheTyped == Spec => []TypeOK
<1>1. TypeInv => TypeOK
  BY DEF TypeInv
<1>2. QED
  BY <1>1, TypeInvariant, PTL

-----------------------------------------------------------------------------
(* While clean holds a single caller is at work, what it is about to store is  *)
(* the source's version or the empty string, and only a key whose new value it *)
(* has yet to store or delete can be outdated.                                 *)

Fresh(k) == cache[k] \in {Nil, Blank, source[k]}

Alone == \A c \in Callers : \A d \in Callers : pc[c] # "idle" /\ pc[d] # "idle" => c = d
InHand == \A c \in Callers :
            pc[c] \in {"exists", "set"} => val[c] \in {source[call[c].key], Blank}
ToBeCached == \A c \in Callers : pc[c] # "idle" /\ call[c].op = "put" => call[c].cached
Outdated == \A k \in Keys :
              ~Fresh(k) => \E c \in Callers : pc[c] \in {"set", "del"} /\ call[c].key = k

Serial == Alone /\ InHand /\ ToBeCached /\ Outdated
SerialInv == clean => Serial

\* What a step of c leaves alone.
OnlyOwnKey(c) ==
  \A k \in Keys : k # call[c].key => cache'[k] = cache[k] /\ source'[k] = source[k]

LEMMA OthersFresh ==
  ASSUME TypeInv, Serial, NEW c \in Callers, pc[c] # "idle", OnlyOwnKey(c)
  PROVE  \A k \in Keys : k # call[c].key => Fresh(k)'
<1>1. \A k \in Keys : k # call[c].key => Fresh(k)
  BY DEF Serial, Alone, Outdated
<1>2. QED
  BY <1>1 DEF OnlyOwnKey, Fresh

LEMMA GotoSerial ==
  ASSUME TypeInv, Serial, NEW c \in Callers, pc[c] # "idle", OnlyOwnKey(c),
         NEW k \in Keys, k = call[c].key,
         NEW stage \in Stages, NEW v \in Stored, Goto(c, stage, v),
         stage \in {"exists", "set"} => v \in {source'[k], Blank},
         stage \in {"set", "del"} \/ Fresh(k)'
  PROVE  Serial'
<1>1. /\ pc' = [pc EXCEPT ![c] = stage] /\ val' = [val EXCEPT ![c] = v] /\ call' = call
      /\ pc \in [Callers -> Stages] /\ val \in [Callers -> Stored]
  BY DEF Goto, TypeInv, TypeOK
<1>2. \A d \in Callers : d # c => pc'[d] = "idle"
  BY <1>1 DEF Serial, Alone
<1>3. Alone'
  BY <1>2 DEF Alone
<1>4. InHand'
  BY <1>1, <1>2 DEF InHand
<1>5. ToBeCached'
  BY <1>1, <1>2 DEF Serial, ToBeCached
<1>6. Outdated'
  BY <1>1, OthersFresh DEF Outdated
<1>7. QED
  BY <1>3, <1>4, <1>5, <1>6 DEF Serial

LEMMA AnswerSerial ==
  ASSUME TypeInv, Serial, NEW c \in Callers, pc[c] # "idle", OnlyOwnKey(c),
         NEW code \in Codes, NEW v \in Stored, Answer(c, code, v),
         NEW k \in Keys, k = call[c].key, Fresh(k)'
  PROVE  Serial'
<1>1. \A d \in Callers : pc'[d] = "idle"
  BY DEF Answer, TypeInv, TypeOK, Serial, Alone
<1>2. \A j \in Keys : Fresh(j)'
  BY OthersFresh
<1>3. QED
  BY <1>1, <1>2 DEF Serial, Alone, InHand, ToBeCached, Outdated

\* A step of an operation keeps the invariant.
LEMMA StepSerial ==
  ASSUME TypeInv, SerialInv, NEW c \in Callers, Step(c)
  PROVE  SerialInv'
<1>1. PICK k \in Keys : k = call[c].key
  <2>1. pc[c] # "idle"
    BY DEF Step, AskFilter, Get, ProcessRead, Fill, ProcessWrite, Put, FilterAdd, Evict,
           Exists, AddOrReplace, GetMulti, Item
  <2>2. QED
    BY <2>1 DEF TypeInv, TypeOK, CallTyped, CallType
<1>2. /\ call[c] \in CallType /\ val[c] \in Stored /\ pc[c] # "idle"
      /\ source \in [Keys -> Versions] /\ cache \in [Keys -> Stored]
  <2>1. pc[c] # "idle"
    BY DEF Step, AskFilter, Get, ProcessRead, Fill, ProcessWrite, Put, FilterAdd, Evict,
           Exists, AddOrReplace, GetMulti, Item
  <2>2. QED
    BY <2>1 DEF TypeInv, TypeOK, CallTyped
<1>3. source[k] \in Stored /\ cache[k] \in Stored /\ Nil \in Stored /\ Blank \in Stored
  BY <1>2 DEF Stored
<1>4. SUFFICES ASSUME clean' PROVE Serial'
  BY DEF SerialInv
<1>5. clean /\ Serial
  <2>1. /\ \A v : \A stage : Goto(c, stage, v) => clean
        /\ \A v : \A code : Answer(c, code, v) => clean
    BY <1>4 DEF Goto, Answer
  <2>2. clean
    BY <2>1 DEF Step, AskFilter, Get, ProcessRead, Fill, ProcessWrite, Put, FilterAdd, Evict,
           Exists, AddOrReplace, GetMulti, Item, Store, Decode
  <2>3. QED
    BY <2>2 DEF SerialInv
<1>6. \A v : ~Answer(c, "error", v)
  BY <1>4 DEF Answer
<1>7. \A stage \in Stages : \A v \in Stored :
        /\ Goto(c, stage, v) /\ OnlyOwnKey(c)
        /\ stage \in {"exists", "set"} => v \in {source'[k], Blank}
        /\ stage \in {"set", "del"} \/ Fresh(k)'
        => Serial'
  BY <1>1, <1>2, <1>5, GotoSerial
<1>8. \A code \in Codes : \A v \in Stored :
        Answer(c, code, v) /\ OnlyOwnKey(c) /\ Fresh(k)' => Serial'
  BY <1>1, <1>2, <1>5, AnswerSerial
<1>9. \A v \in Stored : Decode(c, v) /\ OnlyOwnKey(c) /\ Fresh(k)' => Serial'
  BY <1>3, <1>8 DEF Decode, Codes
<1>10. Fresh(k) \/ pc[c] \in {"set", "del"}
  BY <1>1, <1>2, <1>5 DEF Serial, Alone, Outdated
<1>11. UNCHANGED <<source, cache>> => OnlyOwnKey(c) /\ (Fresh(k) => Fresh(k)')
  BY DEF OnlyOwnKey, Fresh
<1>12. ASSUME NEW v \in Stored, cache' = [cache EXCEPT ![k] = v], UNCHANGED source
       PROVE  OnlyOwnKey(c) /\ (v \in {Nil, Blank, source[k]} => Fresh(k)')
  BY <1>1, <1>2, <1>12 DEF OnlyOwnKey, Fresh
<1>13. pc[c] \in {"exists", "set"} => val[c] \in {source[k], Blank}
  BY <1>1, <1>5 DEF Serial, InHand
<1>14. call[c].op = "put" => call[c].cached
  BY <1>2, <1>5 DEF Serial, ToBeCached
<1> USE DEF Codes, Stages
<1>a. CASE AskFilter(c)
  BY <1>a, <1>3, <1>7, <1>8, <1>10, <1>11 DEF AskFilter
<1>b. CASE Get(c)
  <2>1. OnlyOwnKey(c) /\ Fresh(k)'
    BY <1>b, <1>10, <1>11 DEF Get
  <2>2. QED
    BY <1>b, <2>1, <1>1, <1>3, <1>6, <1>7, <1>8, <1>9 DEF Get
<1>c. CASE ProcessRead(c)
  <2>1. OnlyOwnKey(c) /\ Fresh(k)' /\ source' = source
    BY <1>c, <1>10, <1>11 DEF ProcessRead
  <2>2. QED
    BY <1>c, <2>1, <1>1, <1>3, <1>7, <1>8 DEF ProcessRead
<1>d. CASE Fill(c)
  <2>1. cache' = [cache EXCEPT ![k] = val[c]] /\ Decode(c, Blank) /\ UNCHANGED source
    BY <1>d, <1>1, <1>6 DEF Fill, Store
  <2>2. OnlyOwnKey(c) /\ Fresh(k)'
    BY <1>d, <2>1, <1>2, <1>12, <1>13 DEF Fill
  <2>3. QED
    BY <2>1, <2>2, <1>3, <1>9
<1>e. CASE ProcessWrite(c)
  <2>1. source[k] < MaxVersion => source[k] + 1 \in Stored
    BY <1>2, CacheAssumption DEF Versions, Stored
  <2>2. OnlyOwnKey(c)
    BY <1>e, <1>1, <1>2 DEF ProcessWrite, OnlyOwnKey
  <2>3. CASE UNCHANGED source
    <3>1. Fresh(k)'
      BY <1>e, <2>3, <1>10, <1>11 DEF ProcessWrite
    <3>2. QED
      BY <1>e, <2>2, <2>3, <3>1, <1>1, <1>2, <1>3, <1>7, <1>8 DEF ProcessWrite
  <2>4. CASE source[k] < MaxVersion /\ source' = [source EXCEPT ![k] = @ + 1]
    <3>1. source'[k] = source[k] + 1 /\ source'[k] \in Stored
      BY <2>1, <2>4, <1>2
    <3>2. Goto(c, IF call[c].op = "evict" THEN "del" ELSE "set", source'[k])
      <4>1. ~UNCHANGED source
        BY <2>4, <3>1, <1>2 DEF Versions
      <4>2. QED
        BY <1>e, <2>4, <3>1, <4>1, <1>1, <1>14 DEF ProcessWrite
    <3>3. QED
      BY <3>1, <3>2, <2>2, <1>7
  <2>5. QED
    BY <1>e, <2>3, <2>4, <1>1 DEF ProcessWrite
<1>f. CASE Put(c)
  <2>1. /\ cache' = [cache EXCEPT ![k] = val[c]] /\ UNCHANGED source
        /\ Goto(c, "filterAdd", val[c]) \/ Answer(c, "ok", val[c])
    BY <1>f, <1>1, <1>6 DEF Put, Store
  <2>2. OnlyOwnKey(c) /\ Fresh(k)'
    BY <1>f, <2>1, <1>2, <1>12, <1>13 DEF Put
  <2>3. QED
    BY <2>1, <2>2, <1>2, <1>7, <1>8
<1>g. CASE FilterAdd(c)
  BY <1>g, <1>2, <1>6, <1>8, <1>10, <1>11 DEF FilterAdd
<1>h. CASE Evict(c)
  <2>1. cache' = [cache EXCEPT ![k] = Nil] /\ Answer(c, "ok", val[c]) /\ UNCHANGED source
    BY <1>h, <1>1, <1>6 DEF Evict
  <2>2. OnlyOwnKey(c) /\ Fresh(k)'
    BY <2>1, <1>3, <1>12
  <2>3. QED
    BY <2>1, <2>2, <1>2, <1>8
<1>i. CASE Exists(c)
  <2>1. OnlyOwnKey(c) /\ Fresh(k)' /\ source' = source
    BY <1>i, <1>10, <1>11 DEF Exists
  <2>2. QED
    BY <1>i, <2>1, <1>2, <1>3, <1>6, <1>7, <1>8, <1>13 DEF Exists
<1>j. CASE AddOrReplace(c)
  <2>1. cache' = [cache EXCEPT ![k] = val[c]] /\ Answer(c, "ok", val[c]) /\ UNCHANGED source
    BY <1>j, <1>1, <1>6 DEF AddOrReplace, Store
  <2>2. OnlyOwnKey(c) /\ Fresh(k)'
    BY <1>j, <2>1, <1>2, <1>12, <1>13 DEF AddOrReplace
  <2>3. QED
    BY <2>1, <2>2, <1>2, <1>8
<1>k. CASE GetMulti(c)
  BY <1>k, <1>1, <1>3, <1>6, <1>7, <1>10, <1>11 DEF GetMulti
<1>l. CASE Item(c)
  BY <1>l, <1>2, <1>3, <1>8, <1>10, <1>11 DEF Item
<1>m. QED
  BY <1>a, <1>b, <1>c, <1>d, <1>e, <1>f, <1>g, <1>h, <1>i, <1>j, <1>k, <1>l DEF Step

\* A call that begins while another is at work, or that writes without caching,
\* ends the claim; any other finds nothing outdated.
LEMMA BeginSerial ==
  ASSUME TypeInv, SerialInv, NEW c \in Callers, Begin(c)
  PROVE  SerialInv'
<1>1. SUFFICES ASSUME clean' PROVE Serial'
  BY DEF SerialInv
<1>2. clean /\ \A d \in Callers : pc[d] = "idle"
  BY <1>1, Zenon DEF Begin
<1>3. PICK new \in Calls :
        /\ call' = [call EXCEPT ![c] = new]
        /\ pc' = [pc EXCEPT ![c] = FirstStage(new)]
        /\ val' = [val EXCEPT ![c] =
                    IF new.op \in {"add", "replace"} THEN source[new.key] ELSE Nil]
        /\ new.op = "put" => new.cached
  BY <1>1 DEF Begin
<1>4. FirstStage(new) # "set" /\ (FirstStage(new) = "exists" => new.op \in {"add", "replace"})
  BY CacheAssumption DEF FirstStage, Calls
<1>5. /\ pc \in [Callers -> Stages] /\ val \in [Callers -> Stored]
      /\ call \in [Callers -> CallType \cup {NoCall}]
      /\ source' = source /\ cache' = cache
  BY DEF TypeInv, TypeOK, Begin
<1>6. \A d \in Callers : d # c => pc'[d] = "idle"
  BY <1>2, <1>3, <1>5
<1>7. pc'[c] = FirstStage(new) /\ call'[c] = new
      /\ (new.op \in {"add", "replace"} => val'[c] = source'[new.key])
  BY <1>3, <1>5
<1>8. Alone' /\ ToBeCached'
  BY <1>3, <1>6, <1>7 DEF Alone, ToBeCached
<1>9. InHand'
  BY <1>4, <1>6, <1>7 DEF InHand
<1>10. Outdated'
  BY <1>2, <1>5 DEF SerialInv, Serial, Outdated, Fresh
<1>11. QED
  BY <1>8, <1>9, <1>10 DEF Serial

LEMMA ExpireSerial ==
  ASSUME TypeInv, SerialInv, NEW k \in Keys, Expire(k)
  PROVE  SerialInv'
BY DEF TypeInv, TypeOK, SerialInv, Serial, Alone, InHand, ToBeCached, Outdated, Fresh, Expire

\* Calls that do not overlap and do not fail leave nothing outdated in the cache,
\* for any callers, keys and options and any mix of the operations.
THEOREM CacheSerialFresh == Spec => []SerialFresh
<1>1. Init => SerialInv
  BY DEF Init, SerialInv, Serial, Alone, InHand, ToBeCached, Outdated, Fresh
<1>2. TypeInv /\ SerialInv /\ UNCHANGED vars => SerialInv'
  BY DEF SerialInv, Serial, Alone, InHand, ToBeCached, Outdated, Fresh, vars
<1>3. TypeInv /\ SerialInv /\ [Next]_vars => SerialInv'
  BY <1>2, StepSerial, BeginSerial, ExpireSerial DEF Next
<1>4. SerialInv => SerialFresh
  BY DEF SerialInv, Serial, Outdated, Fresh, SerialFresh
<1>5. QED
  BY <1>1, <1>3, <1>4, TypeInvariant, PTL DEF Spec
=============================================================================
