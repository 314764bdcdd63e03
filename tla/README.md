# gin-common: a formal model

TLA+ modules that model the program logic of `fakerjeff/gin-common`, a small Go
scaffold for REST services: users and sessions on MySQL and Redis, middlewares
and controllers on gin, caching decorators, lazily made errors and handles, and
cron jobs. TLC checks the modules on small instances, TLAPS proves the theorems
listed below for every instance. Paths are relative to the repository.

## 1. The system

| part | state it keeps | operations | talks to |
|---|---|---|---|
| Users and sessions: `app/service/impl`, `app/middleware`, `app/model`, `common/models` | table `users`; Redis keys `user:<id>` and `accessToken:<uuid>`; the gin context of each request | login, logout, current user, create, get, edit, delete, activate, deactivate, change password | gorm, go-redis, the caching decorators, the JWT tool |
| Controllers: `app/controller` | none between requests | check the arguments, call one service | services |
| Caching decorators: `common/caches` | Redis keys, a Bloom filter | `CacheEnable`, `CachePut`, `CacheEvict`, `Add`, `Replace`, `GetMulti`, `Delete` | Redis, the decorated function |
| Bloom filter client: `common/bloomfilter` | a filter in Redis | `Add`, `Exists`, and commands nobody calls | Redis |
| Defined errors: `common/exceptions` | a map and an `RWMutex` | `GetDefinedErrors` | all services |
| Request pipeline: `common/controllers`, `common/gin_recovery`, `common/loggers/gin_logger` | index and stack of one request | Before, After, DoRequest, Recovery | gin |
| Route table: `common/routers`, `app/router`, `server.go` | the chain of each route | `CombineRouters` | gin |
| Singletons: `tools/db_tool`, `tools/redis_tool`, `common/jobs/cron_runner.go` | a handle and a `sync.Once` each | `GetDB`, `GetGinServerRdb`, `GetCron` | the environment, MySQL |
| Cron jobs: `common/jobs/jobs.go` | registered entries, a mutex per singleton job | `Init`, `SetSingleton`, the runs | robfig/cron |
| Serialization, helpers: `util` | none | conversions | decorators |
| Wiring: `wires` | none | builds controllers and middlewares per request | everything |
| Cron and gorm loggers, validator texts, responses, constants, JSON, migration | none of interest | output, one-time set-up | |

How a request goes: gin runs the chain of its route, which is the logger,
Recovery, the middlewares and the controller. `AuthMiddleware.Before` verifies the
JWT, looks the session key up and loads the user through the cache;
`DeactivatedAbortMiddleware` judges the user so loaded; the controller calls a
service, which often loads another user through the cache and then writes the
table. `GetUserInfoById` is decorated with `CacheEnable`; no code of the
repository calls `CachePut` or `CacheEvict`, so that nothing it does fills or
clears `user:<id>`.

What is hard:

* **Stale state.** Middlewares and writers act on a cached record that no write
  refreshes; `ChangePassword` saves all columns of such a record.
* **Interleaving.** Each request has a goroutine; between two calls of MySQL or
  Redis another request can log the same token out, delete the same user or fill
  the same key. `GetDefinedErrors` reads its map twice without the lock.
* **Partial failure.** A call whose deadline passes may have been executed. A
  panic can come at any point of a chain, of a set-up or of a run.
* **Ordering.** Nested `Next` loops share an index; After may answer again.
* **Liveness.** Locks, mutexes and `sync.Once` must let everybody through.

What makes each part correct: a revoked token is of no more use; a record never
stands for another user; success is only reported for what was done; an account
comes back only if somebody brings it back; a lasting deactivation bites; one
error object per definition, and no other for anybody; nothing outdated that has
a time to live stays in the cache for ever; a controller runs only behind its middlewares, an After for each
Before, one response per request, no panic past Recovery, and an end to every
request; every route has the middlewares of its router and its own, and no
others; one set-up per handle; one run at a time of a singleton job, and none
lost.

## 2. Modules

| module | models | state and actions |
|---|---|---|
| `Accounts` | users, sessions, both middlewares, controllers | `rows`, `userKey`, `session`, `jwt` are the stores; `pc`, `req`, `ctx` one request per goroutine; an action is the code between two calls of a store, named for the function |
| `SessionLedger` | what tokens promise, in the abstract | `ledger`, `presented`, `acting`; implemented by `Accounts` (`TokensKeepLedger`) |
| `OnceRegistry` | what a registry that makes each value on first use promises, in the abstract | `entry`, `answers`; implemented by `DefinedErrors` (`ErrorsKeepRegistry`) and `OnceHandles` (`HandlesKeepRegistry`) |
| `CacheDecorators` | the decorators and all of `RedisCache` over a source of versions | `source`, `cache`, `added`; `lasting` are the keys without a time to live; `pc`, `call`, `val` per caller; `clean` is a history variable for one property |
| `DefinedErrors` | `GetDefinedErrors` with its lock | `defined` is the map, `writing` an unfinished map write, `readers` (read locks per goroutine), `writer`, `pending` the `RWMutex` |
| `GinHandlers` | the functions that handle requests and the chains gin accepts | `Fits`, `WellFormed`; `Kept`, with which lists are cut down to some of their places |
| `ApiRouters` | `UserRouter`, `AuthRouter` and the list that `main` combines | `routerConfigs`; `NeedsAuth` and `NeedsActive` say what `Accounts` lets each endpoint run through |
| `RouteTable` | `CombineRouters` over any list of routers | `root` and `used` are the handlers of the root group and of the router's group, `todo` the paths Go has not yet iterated over, `table` gin's routes; `HandleGroup`, `HandlePath`, `Listen` |
| `HandlerChain` | gin's loops, the handlers, Recovery | `chain`, `index`, `stack`, `panic`; `trace` records what happened, for the properties |
| `Server` | the composition: `main` fills the table, then requests run through its chains | `route` is the key of the last request; `ServesChains` says that requests do what `HandlerChain` describes |
| `OnceHandles` | the three singletons | `handle`, `done`, `runner`, `line`, per tool |
| `CronJobs` | jobs under `DelayIfStillRunning` | `entry`, `mutex`, per job; `pc`, `late` per run |
| `MC...` | the instances for TLC | `MCAccounts` adds the symmetry of the model values, `MCServer` the lists of routers |
| `AccountsProofs`, `DefinedErrorsProofs`, `OnceHandlesProofs`, `CacheDecoratorsProofs`, `HandlerChainProofs`, `RequestProofs`, `ServerProofs`, `CronJobsProofs` | the theorems | each extends the module of its component; `RequestProofs` builds on `HandlerChainProofs`, and `ServerProofs`, about the composition, on `RequestProofs` |

Modelling decisions that a reader of the code should know:

* *A failed store call* (`Faulty`, `RedisFails`) may have been executed: the
  actions have both outcomes. `ProcessFails` lets the decorated function fail.
* *Cached users.* `RedisCache.Get` turns a missing key into `ErrCacheMiss`, which
  `CacheEnable` returns; only the empty string leads to the table. From there the
  call fails as well: go-redis cannot marshal a `*model.User`
  (`Accounts!Refill`). A row therefore gets under `user:<id>` only through a
  caller of `CachePut`, an application's code: the actions `PutProcess` and
  `PutSet` of a set `Putters` that is empty for the repository as it is.
* *gorm* hides softly deleted rows from reads. Whether an update with a condition
  on the id skips them depends on gorm's version, so `WriteRow` has both outcomes.
* *A `*_controller.go`* is the first part of the action of its service call. An
  argument that the form or `strconv.Atoi` rejects is the value `Nil`; all such
  requests get the same answer, so that one which lacks every argument stands for
  them (`Arguments`, `WellFormed`).
* *Time to live.* `expires` is zero unless `CacheExpiresOption` is given
  (`caches.go:46`), and go-redis stores a key with an expiry of zero for good: such
  keys are `lasting`, and `Expire` passes them over. `user:<id>` is given 5 minutes
  (`user_service_impl.go:124`); `Accounts` supposes that putters do likewise.
* *The map race.* A read that overlaps a write finds the old entry, the new
  one or none (`Seen`), or the Go runtime notices and ends the process
  (`ConcurrentMapAccess`).
* *What is decoded.* `Set` stores what process returned as go-redis writes it,
  while `Deserialize` expects a number, gob or, for a pointer to bytes, anything.
  Whether a stored value can be read back depends on the caller's types: `Decode`
  has both outcomes, for the empty string too.
* *Routers.* A function goes by its name, as `runtime.FuncForPC` gives it. `Use`
  on a group with a blank name is `Use` on the engine. A panic of gin (a chain
  too long, a route that is there already) ends `main`: `Down` is all that is left then.
* *Flags.* Both loops of `router.go` append a function whose flag is not set: the
  places that are first of their name (`Firsts`), less those that the group has
  (`Fresh`). A `RouteDesc` may have no controllers; gin takes the chain then, as
  long as the engine or the group has handlers.
* *Recovery* answers a value that is neither an error nor a string without
  `Abort`; the loop outside of it then goes on.
* *`provideUserService`* (`wires/provider.go:65`) calls `Init` with one argument
  where `UserServiceImpl.Init` takes four, so that package `wires` does not
  compile at this commit. The models follow `Init`.

Each property that TLC checks has a mutant, an operator named after the
definition it would replace (`LogoutDelRetrying` for `LogoutDel`), placed before
it and marked `Mutant`; it is not part of the specification.

## 3. Runs

| run | bounds | shows |
|---|---|---|
| `AccountsSessions` | 2 users, 2 requests, 1 token; login, logout, current user; faults, arguments missing | `TypeOK`, `RevokedTokenRefused`, `TokensKeepLedger` |
| `AccountsRecords` | 2 users, 2 names, 1 password, 1 request, 1 putter, 9 routes; faults, arguments missing | `RecordsKeepIdentity`, `SuccessTookEffect` |
| `AccountsWrites` | 1 user, 2 passwords, 2 requests, 1 putter; login, delete, activate, deactivate, change of password | `NoSilentRevival` |
| `AccountsLive` | 1 user, 2 requests, 1 putter; faults | `Answered`, `DeactivationBites` |
| `AccountsChangePass` | 1 user, 1 request | violates `ChangePassTookEffect` |
| `ErrorsShared` | 3 goroutines, 2 errors | `TypeOK`, `MadeOnce`, `AnswersAgree`, `ErrorsKeepRegistry`, `Returns` |
| `ErrorsRace` | 2 goroutines | violates `GoroutineSafe` |
| `CacheShared` | 2 callers, 1 key, 2 writes, all options and operations, with and without a time to live | `TypeOK`, `SerialFresh`, `StaleExpires`, `Completed` |
| `CacheMiss` | 1 caller, values with a time to live | violates `MissIsFilled` |
| `ServerRoutes` | 396 lists of routers: each single route with lists of at most 2 of 2 middlewares and 2 controllers, pairs of routers with and without names, a crowded root group, the application's own; `AbortIndex = 8` | `TypeOK`, `RoutesGuarded`, `NoForeignGuards`, `EndpointsGuarded`, `RequestGuarded`, `HandledOnce`, `ControllerGuarded`, `AfterMirrorsBefore`, `PanicContained`, `AnsweredOnce`, `ServesChains`, `RunsDown`, `RequestsEnd` |
| `OnceShared` | 2 goroutines, all 3 handles | `TypeOK`, `SetUpOnce`, `OnlyPanicsSpoil`, `HandlesKeepRegistry`, `Returns` |
| `JobsSingleton` | 2 jobs, 3 runs | `TypeOK`, `SingletonAlone`, `DelayedRunsHappen` |

Why the bounds are enough. Conflicts in `Accounts` are between two requests and
one row, key or token, and the identity of records needs two users; a token is
issued once, so a second one would only repeat the first. One token means that
two requests always share it, which is the case that can go wrong. In
`AccountsWrites` stores do not fail, since a failing write changes nothing or
what a successful one changes, which `AccountsRecords` covers. With the one
password of `AccountsRecords` a change of password has the same old and new one
and is refused; its write is in `AccountsWrites`, and the theorems cover both.
Three goroutines
are the least with which a reader, a writer and a waiting writer of the
`RWMutex` meet. The decorators treat keys apart, so that one key and two callers
show every overlap of two calls (`GetMulti` and the multiple deletion are one
command of Redis each); the bound `MaxVersion` makes later writes fail,
and a process may fail anyway. Two middlewares and two controllers give a
handler inside and one outside of any other, lists of two give every
repetition, and two routers what one leaves behind for the next. gin's
`abortIndex` is 64 when counted from 1; with 8 a few routers overflow a chain.
A third run of a job waits while one runs and another is waiting.

Fairness. `WF` on the steps of a request, a call or a goroutine that has begun:
the Go scheduler runs every goroutine and both clients have deadlines
(`wires/provider.go:39`, go-redis' timeouts), so that calls of MySQL and Redis
return. `WF` on the expiry of the keys that have a time to live
(`StaleExpires`, which promises nothing of the others, and `DeactivationBites`, as
all that is stored under `user:<id>` has one). `SF` on taking a job's mutex: a Go mutex starves nobody
since its starvation mode. `WF` on the goroutine of a request in `Server`
(`RequestsEnd`), for the same reasons as in `Accounts`. Nothing is assumed of clients, of putters before they
have begun, or of cron's clock.

`CHECK_DEADLOCK` is on in every run. After a fatal error or a crash, the actions
`Dead` and `Stopped` stand for a process that is no more.

## 4. Theorems

| theorem | says | argument |
|---|---|---|
| `AccountsProofs!TypeCorrect` | `TypeOK`, and what each stage of a request finds in its context | `IndInv == TypeOK /\ StageOK`: the types alone are not inductive, since a handler dereferences `ctx[r].actor` or `.subject`, which are `Nil` at other stages. One lemma per action; `AnswerInv` and `GotoInv` carry the common part |
| `AccountsProofs!RevokedRefused` | `[]RevokedTokenRefused` | `TokenInv` adds that an unused uuid has no session key and that a request which was admitted carried an open token when it arrived or later; `TokensAge` says tokens only grow older |
| `AccountsProofs!LedgerKept` | `Accounts` implements `SessionLedger` | initial states map, and each step maps to a step of the ledger or a stutter (`LedgerStep`) |
| `AccountsProofs!ColdTable` | with `Putters = {}` the table never changes (`AccountsFrozen`) | `ColdInv`: no user is cached and no request gets beyond loading its user |
| `AccountsProofs!RecordsNotMixedUp` | `[]RecordsKeepIdentity` | `RecordInv` adds to `IndInv` that every cached, fetched or loaded record is of the id it goes by (`StoreKeeps`, `KeepsRecords`) |
| `AccountsProofs!RevivedKnowingly` | `NoSilentRevival` | no induction beyond `IndInv`: `RowsRevive` says which steps bring a row back |
| `AccountsProofs!SuccessMeansDone` | `SuccessTookEffect` | `EffectInv` ties each stage to the endpoints that reach it, so that only the step which writes can answer Success (`OwnStepSucceeds`) |
| `DefinedErrorsProofs!ErrorsTyped`, `ErrorsMadeOnce`, `ErrorsAgree` | type, `MadeOnce`, `AnswersAgree` (no two callers get two objects; a racing read may give nil) | `LockInv` (who is where holds which lock and how many read locks, at most one map write under way) and `EntryInv` (an entry is there exactly when its function has run and the write has ended) |
| `OnceHandlesProofs!OnceTyped`, `HandlesSetUpOnce`, `SpoiledByPanics` | type (only GetDB's handle is ever half made), `SetUpOnce`, `OnlyPanicsSpoil` | `RunnerInv` (a goroutine is in a set-up exactly when it is the runner of its tool, and the set-up was begun exactly when it is running or done) and `HandleInv` (the handle at each line of the set-up); `AfterStep` and `BrokenStep` say what one line leaves |
| `DefinedErrorsProofs!ErrorsRegistered`, `OnceHandlesProofs!HandlesRegistered` | both implement `OnceRegistry` | from the invariants above: the end of a map write, or of a set-up or a panic in it, is `Make`, an answer is `Give`, all else a stutter (`RegistryStep`) |
| `CacheDecoratorsProofs!CacheTyped`, `CacheSerialFresh` | type, `SerialFresh` | every step ends at a stage or with an answer (`Ends`), which settles the types. `Serial`: while `clean` holds one caller is at work, it has the source's version or the empty string in hand, and only the key it is about to set or delete can be outdated |
| `HandlerChainProofs!ChainTyped`, `ControllersGuarded`, `PanicsContained` | type with the bound on gin's index, `ControllerGuarded`, `PanicContained` | `StackInv` (frames grow inwards, the index is past each, `index + Len(stack)` is bounded), `PassedInv` (what is behind the index has let the request through) and `InsideInv` (until a panic is not aborted all that can panic runs inside Recovery) |
| `RequestProofs!AftersMirrored` | `AfterMirrorsBefore` | `MirrorInv`: as long as nothing panics the frames of the stack are those of the chain in its order (`FramesInOrder`), nothing is left on the way in (`WayIn`), and what was entered is what was left, backwards, and what is still open (`WayOut`) |
| `RequestProofs!RequestsRunDown` | `RunsDown` | no invariant beyond `IndInv`: `StepsLeft` weighs what gin's index has still to come to, the frames that have to return and a panic that can still be thrown, and each action takes away more than it adds. Recovery's own frame is one of those it removes, so that not even an answer that fails keeps the weight (`RecoverDown`) |
| `ServerProofs!ChainsServed` | `ServesChains`: requests of a server do what `HandlerChain` describes | `TableInv`, below: no chain of the table is ill formed |
| `ServerProofs!RoutesStandGuarded`, `GuardsStayHome` | `RoutesGuarded`, `NoForeignGuards` | `TableInv` follows `CombineRouters`: `RootInv` and `UsedInv` say what the groups hold and how often, `Registered` that every path which has been taken has its chains, `Derived` that there are no others. `RouteHandlersFulfil` says of one chain all that it should do (`Fulfils`) |
| `ServerProofs!RequestsRunGuarded` | `RequestGuarded` | `ControllersGuarded` for the chain, and `RouteInv`, which ties the chain of the last request to its key |
| `ServerProofs!HandlersRunOnce` | `HandledOnce` | `OnceInv`: a function is handled no more often than it stands behind gin's index. `Fulfils` bounds how often it stands in a chain |
| `ServerProofs!ClientsAnsweredOnce` | `AnsweredOnce` | `UnansweredInv`: until there is an answer no controller is behind the index, and a panic is inside of Recovery. `SingleInv`: while no After fails and every panic is aborted, the answers are those of handlers and at most one of Recovery, which ends the request. With `OnceInv` two answers take two controllers |
| `ServerProofs!EndpointsStandGuarded` | `EndpointsGuarded` | `AppInv` says of the application's two routers what the groups hold, and that a key of the table is that of an endpoint (`KeyFor`) and has its chain (`ChainFor`); the keys differ, so that they are as many as the endpoints |
| `CronJobsProofs!JobsTyped`, `SingletonsAlone` | type, `SingletonAlone` | `RunInv`: a run behind a wrapper that is past its lock holds the mutex; `HookInv` counts the calls of the hook |

They hold for all values of the constants under the assumptions named in the
modules: `AccountsAssumption`, `ErrorsAssumption`, `OnceAssumption`,
`CacheAssumption`, `HandlersAssumption`, `ChainAssumption` and `JobsAssumption`
keep the model values apart and give the options their types, and say nothing
about sizes; `ConfigsAssumption` says that a router lists middlewares where Go's
types ask for a `MiddlewareFunc`, and controllers where they ask for a
`ControllerFunc`. The theorems of `HandlerChainProofs` and `RequestProofs` are about
every chain that `WellFormed` lets through, and `ChainsServed` says that
`CombineRouters` makes no others, so that they hold of every server.
`AnsweredOnce` is about the server and not about any chain: it needs that no
controller stands twice in a chain, which is true of the table's chains since
routers list only middlewares (`ControllersOnce`). `ColdTable` describes the
repository as it is: all routes behind `AuthMiddleware` fail, because nothing fills
the cache.

`AfterMirrorsBefore`, `HandledOnce` and `AnsweredOnce` compare what is read off a
finished trace, and say nothing of a request that is under way; the invariants
above say for every moment how the trace, the stack and gin's index go together,
and the properties are what is left of them when the stack is empty. How often a
middleware stands in a chain is no matter of its own route alone: a router with a
blank name adds to all later groups, which is why `RootInv` counts
(`Blanks`, `Lent`), and why `HandledOnce` has its bound.

Every safety invariant and every action property of the passing runs is stated by
a theorem. Only model-checked is liveness (`Answered`, `DeactivationBites`, the
`Returns`, `StaleExpires`, `Completed`, `DelayedRunsHappen`, `RequestsEnd`): the
prover does not reach liveness under fairness, nor `ENABLED`. Of `RequestsEnd` the
safe half is proved: a request takes at most `10 * Len(chain) + 7` steps
(`RunsDown`), and what the run adds is that it never gets stuck before. Nothing here needs
an induction over data, which it cannot instantiate either: `Kept` is written
with the number of places in a set rather than with recursion, so that its lemmas
(`PlaceFacts`, `KeptFacts`, `KeptAppend`, `KeptAll`) follow from the library's facts
about finite sets.

## 5. Where code and comments disagree

Shown by a run that TLC finds violated:

* `user_service_impl.go:178` drops the error of `Save`: a failed change of a
  password is answered with success (`ChangePassTookEffect`).
* `error.go:75` reads the map without the lock, under the comment
  "Goroutine-safe" (`GoroutineSafe`). The reader can get a nil object, too, or
  the process ends.
* `caches.go:158` returns a miss as an error; the comment at 115 promises a fill
  (`MissIsFilled`).

In the models, without a run of their own:

* `caches.go:46`: without `CacheExpiresOption` what is stored has no time to live
  (lines 179, 190, 229 and `RedisCache.Set` pass the zero on), so that an outdated
  value that overlapping or failed calls leave stays until it is overwritten or
  deleted (`Store`, `lasting`). `StaleExpires` excuses such keys: the option is
  the caller's choice.
* `caches.go:198` decodes the string that was read before the fill, which is
  empty: the call that fills a key fails, or answers nothing if its pointer is to
  bytes (`Fill`). `Set` is given what process returned and nobody calls
  `Serialize`, so that what is found later need not decode (`Decode`).
* `caches.go:273`: `CacheEvict` without a key has Redis refuse its DEL, after
  process has written (`Evict`).
* `caches.go:166`: sync mode reads twice and locks nothing; the Todo says so.
* `caches.go:216` and 229: `CachePut` goes on when process failed, stores nil
  and loses the error (`ProcessWrite`).
* `bloomfilter.go:122`: `Exists` makes a command and never sends it, so that the
  filter turns every key away (`FilterExists`).
* `db_tool.go:67`: a set-up that panics uses the `Once` up; later callers get nil
  or a handle without limits for ever. `OnlyPanicsSpoil` says who is affected; it
  does not rule such handles out.
* `jobs.go:52`: `BeforeJobRun` is called where `AfterJobRun` is due
  (`BeforeJobRun`).
* `jobs.go:112`: a run that waited for more than a minute is logged through
  `Job.logger`, which nothing sets (`Lock`).
* `gin_recovery.go:156`: the branch without `Abort` (`Recover`); handlers behind
  it run outside of Recovery. `ControllerGuarded`, `PanicContained` and
  `RequestGuarded` excuse such a panic, as no line promises otherwise; that the
  request ends all the same is shown (`RunsDown`, `RequestsEnd`).
* `controller.go:114`: an After that fails answers a request that has been answered
  (`After`); `AnsweredOnce` excuses it.
* `user_service_impl.go:178`: the record that `Save` writes back can be minutes old.
  `NoSilentRevival` excuses the password change that does so and holds of all the
  other writers.
* `router.go:49`: a router with a blank group name installs its middlewares on
  the engine, and they guard every router combined later (`RootAfter`); of the
  application's routers `AuthRouter` has a blank name and no middlewares.

Noted while reading, outside of the models: functions are told apart by their
names, so that two closures made at one place would count as one (nothing in the
repository passes such closures to `CombineRouters` or to `GetDefinedErrors`).
`bloomfilter.go:93` passes `items` on without spreading them, which go-redis cannot
marshal; `Insert` sends `CAPACITY n` as one argument and no `ITEMS`; `ScanDump`
expects bytes where go-redis gives a string. `gorm_logger.go`'s `LogMode` changes
the logger it shares. The README's `DATABASE_LOC` is read as `LOCATION`.

## 6. Not modelled

The wiring, the cron and gorm loggers, the validator's texts, `resp`, `consts`,
`internal/json` and `migrate` keep no state that a property is about; the request
logger is the outermost handler of `HandlerChain`, and what it prints is left out.
`models.Recover` and the commands of the Bloom filter other than `Add` and `Exists`
have no caller, and each of them is one call of Redis. Two routes whose paths gin's
tree refuses to hold side by side (a wildcard beside a name) are not told apart
from others. Times are abstract: keys and tokens may run out at any moment.
Negative ids (converted to `uint`) behave as ids without a row; an
`ACCESS_TOKEN_EXPIRE` of zero or less, which gives a key without a time to live,
and the discarded `cancel` of `wires/provider.go:40` are outside of the models.

## 7. Order and what is left

Written in the order of what matters most: `Accounts`, `SessionLedger`,
`DefinedErrors`, `CacheDecorators`, `HandlerChain`, `OnceHandles`, `CronJobs`, then
`RouteTable` and `Server`, `OnceRegistry`, and the proofs. Left
are the Bloom filter's other commands, once something calls them.
