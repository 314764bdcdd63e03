-------------------------- MODULE CacheDecorators --------------------------
(***************************************************************************)
(* The caching decorators CacheEnable, CachePut and CacheEvict, and Add,   *)
(* Replace, Delete and GetMulti of RedisCache, over a source of data that  *)
(* the decorated functions (process) read and write.                       *)
(*                                                                         *)
(* A value is the version of the source it was read at.  A step is the     *)
(* code between two calls of process, Redis or the Bloom filter; callers   *)
(* are goroutines or whole servers and interleave between steps.           *)
(***************************************************************************)
EXTENDS Naturals

CONSTANTS
  Callers, Keys,
  Ops,          \* which of the operations below are used
  Conditions,   \* whether condition() holds and a key is given
  Filters,      \* Bloom filter "off", "none" (enabled, but not given) or "on"
  Syncs,        \* CacheSyncOption
  Expirings,    \* whether a time to live is given: CacheExpiresOption, or the
                \* expires of Add and Replace; the default is none
  Storables,    \* whether go-redis can write what process returns
  ProcessFails, RedisFails,
  MaxVersion,   \* bound on the writes of a key
  Nil,          \* no key, no value
  Blank         \* the empty string, as which go-redis stores nil

ASSUME CacheAssumption ==
  /\ Ops \subseteq {"enable", "put", "evict", "add", "replace", "delete", "getMulti"}
  /\ Conditions \cup Syncs \cup Expirings \cup Storables \subseteq BOOLEAN
  /\ {ProcessFails, RedisFails} \subseteq BOOLEAN
  /\ Filters \subseteq {"off", "none", "on"}
  /\ MaxVersion \in Nat
  /\ Nil # Blank /\ Nil \notin Nat /\ Blank \notin Nat

VARIABLES
  source,  \* the version of each key's data
  cache,   \* Redis: Nil, Blank or a version
  lasting, \* keys that were stored without a time to live
  added,   \* keys that were added to the Bloom filter
  pc, call,
  val,     \* what process returned, or what is to be stored
  reply,   \* the answer that the last step gave, Nil if it gave none
  clean    \* so far no calls have overlapped, every call of Redis has succeeded,
           \* and every write of the source was to be cached

vars == <<source, cache, lasting, added, pc, call, val, reply, clean>>

Versions == 0 .. MaxVersion
Stages == {"idle", "filter", "get", "getAgain", "process", "exists", "set",
           "filterAdd", "del", "mget", "item"}
Codes == {"ok", "decoded", "undecoded", "error", "processError", "miss", "notFound", "refused"}
NoCall == [op |-> Nil, key |-> Nil, cached |-> FALSE, filter |-> "off",
           sync |-> FALSE, expires |-> FALSE, storable |-> TRUE]

Goto(c, stage, v) ==
  /\ pc' = [pc EXCEPT ![c] = stage]
  /\ val' = [val EXCEPT ![c] = v]
  /\ reply' = Nil
  /\ UNCHANGED <<call, clean>>
Answer(c, code, v) ==
  /\ pc' = [pc EXCEPT ![c] = "idle"]
  /\ val' = [val EXCEPT ![c] = Nil]
  /\ reply' = [op |-> call[c].op, code |-> code, val |-> v]
  /\ call' = [call EXCEPT ![c] = NoCall]
  /\ clean' = (clean /\ code # "error")

\* RedisBloomFilterClient.Exists makes its command and never sends it.
FilterExists == FALSE

\* The calls that the options make; one that an operation does not look at keeps
\* its default.
Calls ==
  {new \in [op : Ops, key : Keys, cached : Conditions, filter : Filters, sync : Syncs,
            expires : Expirings, storable : Storables] :
     /\ new.sync => new.op = "enable"
     /\ new.expires => new.op \in {"enable", "put", "add", "replace"}
     /\ new.filter # "off" => new.op \in {"enable", "put"}
     /\ ~new.cached => /\ new.op \in {"enable", "put", "evict"}
                       /\ new.filter = "off" /\ ~new.sync /\ ~new.expires
     /\ new.op = "enable" /\ new.filter = "none" => ~new.sync /\ ~new.expires}

\* Where a call goes first.
FirstStage(new) ==
  CASE new.op \in {"add", "replace"} -> "exists"
    [] new.op = "delete" -> "del"
    [] new.op = "getMulti" -> "mget"
    [] new.op \in {"put", "evict"} -> "process"
    [] new.op = "enable" -> IF ~new.cached \/ new.filter = "none" THEN "process"
                            ELSE IF new.filter = "on" THEN "filter" ELSE "get"

Begin(c) ==
  /\ pc[c] = "idle"
  /\ \E new \in Calls :
       /\ call' = [call EXCEPT ![c] = new]
       /\ pc' = [pc EXCEPT ![c] = FirstStage(new)]
       /\ val' = [val EXCEPT ![c] =
                   IF new.op \in {"add", "replace"} THEN source[new.key] ELSE Nil]
       /\ clean' = (clean /\ (new.op = "put" => new.cached) /\ \A d \in Callers : pc[d] = "idle")
  /\ reply' = Nil
  /\ UNCHANGED <<source, cache, lasting, added>>

-----------------------------------------------------------------------------
(* CacheEnable *)

AskFilter(c) ==
  /\ pc[c] = "filter"
  /\ IF FilterExists THEN Goto(c, "get", Nil) ELSE Answer(c, "notFound", Nil)
  /\ UNCHANGED <<source, cache, lasting, added>>

\* SerializeTool.Deserialize into the caller's pointer: one to bytes takes any
\* string, others need a number, or the gob that Set has not made but was given.
Decode(c, v) == Answer(c, "decoded", v) \/ Answer(c, "undecoded", Nil)

\* Mutant: what was found is stored again to renew its time to live.
GetRenewing(c) ==
  /\ pc[c] \in {"get", "getAgain"}
  /\ LET k == call[c].key IN
     \/ cache[k] = Nil /\ Answer(c, "miss", Nil)
     \/ cache[k] \notin {Nil, Blank} /\ Goto(c, "set", cache[k])
     \/ cache[k] = Blank /\ Goto(c, "process", Nil)
  /\ UNCHANGED <<source, cache, lasting, added>>

\* A key that is not there is an error of RedisCache.Get; what is found is
\* decoded; the empty string counts as no result.
Get(c) ==
  /\ pc[c] \in {"get", "getAgain"}
  /\ LET k == call[c].key IN
     \/ cache[k] = Nil /\ Answer(c, "miss", Nil)
     \/ cache[k] \notin {Nil, Blank} /\ Decode(c, cache[k])
     \/ /\ cache[k] = Blank
        /\ Goto(c, IF pc[c] = "get" /\ call[c].sync THEN "getAgain" ELSE "process", Nil)
     \/ RedisFails /\ Answer(c, "error", Nil)
  /\ UNCHANGED <<source, cache, lasting, added>>

ProcessRead(c) ==
  /\ pc[c] = "process" /\ call[c].op = "enable"
  /\ LET v == source[call[c].key] IN
     \/ IF call[c].cached /\ call[c].filter # "none"
        THEN Goto(c, "set", v) ELSE Answer(c, "ok", v)
     \/ ProcessFails /\ Answer(c, "processError", Nil)
  /\ UNCHANGED <<source, cache, lasting, added>>

\* RedisCache.Set: a failed call may have stored the value.  An expires of zero
\* stores it without a time to live, and ends the one that the key had.
Store(c, done) ==
  \/ /\ call[c].storable \/ val[c] = Blank
     /\ cache' = [cache EXCEPT ![call[c].key] = val[c]]
     /\ lasting' = IF call[c].expires THEN lasting \ {call[c].key}
                   ELSE lasting \cup {call[c].key}
     /\ done \/ (RedisFails /\ Answer(c, "error", Nil))
  \/ /\ RedisFails \/ (~call[c].storable /\ val[c] # Blank)
     /\ Answer(c, "error", Nil)
     /\ UNCHANGED <<cache, lasting>>

\* After it has stored process's result, CacheEnable decodes the empty string
\* that Get had found: the call that fills the key fails or answers nothing.
Fill(c) ==
  /\ pc[c] = "set" /\ call[c].op = "enable"
  /\ Store(c, Decode(c, Blank))
  /\ UNCHANGED <<source, added>>

-----------------------------------------------------------------------------
(* CachePut and CacheEvict *)

\* Process writes the source and returns the new version, or fails; CachePut
\* goes on with the nil of a failed process.
ProcessWrite(c) ==
  /\ pc[c] = "process" /\ call[c].op \in {"put", "evict"}
  /\ LET k == call[c].key
         next == IF call[c].op = "evict" THEN "del" ELSE "set"
         stores == call[c].op = "put" /\ call[c].cached
     IN
     \/ /\ source[k] < MaxVersion
        /\ source' = [source EXCEPT ![k] = @ + 1]
        /\ IF stores \/ call[c].op = "evict"
           THEN Goto(c, next, source[k] + 1) ELSE Answer(c, "ok", source[k] + 1)
     \/ /\ ProcessFails \/ source[k] = MaxVersion
        /\ IF stores THEN Goto(c, next, Blank) ELSE Answer(c, "processError", Nil)
        /\ UNCHANGED source
  /\ UNCHANGED <<cache, lasting, added>>

\* Mutant: a value that is already cached is kept.
PutIfAbsent(c) ==
  /\ pc[c] = "set" /\ call[c].op = "put"
  /\ cache' = [cache EXCEPT ![call[c].key] = IF @ = Nil THEN val[c] ELSE @]
  /\ Answer(c, "ok", val[c])
  /\ UNCHANGED <<source, lasting, added>>

Put(c) ==
  /\ pc[c] = "set" /\ call[c].op = "put"
  /\ Store(c, IF call[c].filter = "on" /\ ~FilterExists
              THEN Goto(c, "filterAdd", val[c]) ELSE Answer(c, "ok", val[c]))
  /\ UNCHANGED <<source, added>>

\* Mutant: the value is added in the place of the key.
FilterAddValue(c) ==
  /\ pc[c] = "filterAdd"
  /\ added' = added \cup {val[c]}
  /\ Answer(c, "ok", val[c])
  /\ UNCHANGED <<source, cache, lasting>>

FilterAdd(c) ==
  /\ pc[c] = "filterAdd"
  /\ \/ /\ added' = added \cup {call[c].key}
        /\ Answer(c, "ok", val[c]) \/ (RedisFails /\ Answer(c, "error", Nil))
     \/ RedisFails /\ Answer(c, "error", Nil) /\ UNCHANGED added
  /\ UNCHANGED <<source, cache, lasting>>

\* Mutant: a failed deletion is tried again without end.
EvictRetrying(c) ==
  /\ pc[c] = "del"
  /\ \/ cache' = [cache EXCEPT ![call[c].key] = Nil] /\ Answer(c, "ok", val[c])
     \/ RedisFails /\ Goto(c, "del", val[c]) /\ UNCHANGED cache
  /\ UNCHANGED <<source, lasting, added>>

\* Delete, and the DeleteMulti of CacheEvict, which fails if it is given no key.
Evict(c) ==
  /\ pc[c] = "del"
  /\ \/ /\ call[c].cached
        /\ cache' = [cache EXCEPT ![call[c].key] = Nil]
        /\ lasting' = lasting \ {call[c].key}
        /\ Answer(c, "ok", val[c]) \/ (RedisFails /\ Answer(c, "error", Nil))
     \/ /\ RedisFails \/ ~call[c].cached
        /\ Answer(c, "error", Nil)
        /\ UNCHANGED <<cache, lasting>>
  /\ UNCHANGED <<source, added>>

-----------------------------------------------------------------------------
(* RedisCache.Add, Replace and GetMulti *)

Exists(c) ==
  /\ pc[c] = "exists"
  /\ LET there == cache[call[c].key] # Nil IN
     \/ there = (call[c].op = "add") /\ Answer(c, "refused", Nil)
     \/ there = (call[c].op = "replace") /\ Goto(c, "set", val[c])
     \/ RedisFails /\ Answer(c, "error", Nil)
  /\ UNCHANGED <<source, cache, lasting, added>>

AddOrReplace(c) ==
  /\ pc[c] = "set" /\ call[c].op \in {"add", "replace"}
  /\ Store(c, Answer(c, "ok", val[c]))
  /\ UNCHANGED <<source, added>>

\* The getter that GetMulti returns answers from the values of one MGET.
GetMulti(c) ==
  /\ pc[c] = "mget"
  /\ \/ Goto(c, "item", cache[call[c].key])
     \/ RedisFails /\ Answer(c, "error", Nil)
  /\ UNCHANGED <<source, cache, lasting, added>>

Item(c) ==
  /\ pc[c] = "item"
  /\ IF val[c] = Nil THEN Answer(c, "miss", Nil) ELSE Answer(c, "ok", val[c])
  /\ UNCHANGED <<source, cache, lasting, added>>

\* The time to live that a key was stored with is over.
Expire(k) ==
  /\ cache[k] # Nil /\ k \notin lasting
  /\ cache' = [cache EXCEPT ![k] = Nil]
  /\ reply' = Nil
  /\ UNCHANGED <<source, lasting, added, pc, call, val, clean>>

Init ==
  /\ source = [k \in Keys |-> 0]
  /\ cache = [k \in Keys |-> Nil]
  /\ lasting = {}
  /\ added = {}
  /\ pc = [c \in Callers |-> "idle"]
  /\ call = [c \in Callers |-> NoCall]
  /\ val = [c \in Callers |-> Nil]
  /\ reply = Nil
  /\ clean = TRUE

Step(c) ==
  \/ AskFilter(c) \/ Get(c) \/ ProcessRead(c) \/ Fill(c)
  \/ ProcessWrite(c) \/ Put(c) \/ FilterAdd(c) \/ Evict(c)
  \/ Exists(c) \/ AddOrReplace(c) \/ GetMulti(c) \/ Item(c)

Next ==
  \/ \E c \in Callers : Begin(c) \/ Step(c)
  \/ \E k \in Keys : Expire(k)

Spec == Init /\ [][Next]_vars

\* Calls return; a time to live ends, where one was given.
FairSpec ==
  /\ Spec
  /\ \A c \in Callers : WF_vars(Step(c))
  /\ \A k \in Keys : WF_vars(Expire(k))
-----------------------------------------------------------------------------
(* Properties *)

CallType == [op : Ops, key : Keys, cached : BOOLEAN,
             filter : {"off", "none", "on"}, sync : BOOLEAN, expires : BOOLEAN,
             storable : BOOLEAN]
Stored == Versions \cup {Nil, Blank}

\* Every variable keeps its shape.
TypeOK ==
  /\ source \in [Keys -> Versions]
  /\ cache \in [Keys -> Stored]
  /\ lasting \subseteq Keys /\ added \subseteq Keys
  /\ pc \in [Callers -> Stages]
  /\ call \in [Callers -> CallType \cup {NoCall}]
  /\ val \in [Callers -> Stored]
  /\ reply \in [op : Ops, code : Codes, val : Stored] \cup {Nil}
  /\ clean \in BOOLEAN

\* Calls that do not overlap, whose writes all go through the decorators and
\* whose calls of Redis succeed, leave no outdated value in the cache, whichever
\* operations they mix and even if process fails (order of process, Set and Del).
SerialFresh ==
  clean /\ (\A c \in Callers : pc[c] = "idle") =>
    \A k \in Keys : cache[k] \in {Nil, Blank, source[k]}

\* Once the data of a key no longer changes, an outdated value that overlapping
\* calls, failures or condition() = false have left in the cache disappears and
\* none comes back, unless it was stored without CacheExpiresOption: such a value
\* stays until a later call overwrites or deletes it (caches.go:46, 179, 190, 229).
StaleExpires == \A k \in Keys : <>[](k \in lasting \/ cache[k] \in {Nil, Blank, source[k]})

\* Every call returns.
Completed == \A c \in Callers : pc[c] # "idle" ~> pc[c] = "idle"

\* caches.go:115, of CacheEnable: if there is no cached value, the result comes
\* from the decorated function and is stored.
MissIsFilled == reply # Nil => (reply.op = "enable" => reply.code # "miss")
=============================================================================
