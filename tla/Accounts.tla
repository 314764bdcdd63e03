------------------------------ MODULE Accounts ------------------------------
(***************************************************************************)
(* The user and session service: UserServiceImpl, AuthServiceImpl, the two *)
(* authentication middlewares and the controllers behind them, over the    *)
(* MySQL table of users and the Redis keys "accessToken:<uuid>" and        *)
(* "user:<id>".                                                            *)
(*                                                                         *)
(* Every HTTP request runs in a goroutine of its own (an element of        *)
(* Requests, reused for one request after the other).  A step is the code  *)
(* between two calls of MySQL or Redis; requests interleave between steps. *)
(* A read of a user by id goes through caches.CacheEnable; a row reaches   *)
(* the key "user:<id>" only by a caller of caches.CachePut (a Putter).     *)
(***************************************************************************)
EXTENDS ApiRouters, FiniteSets, Naturals

CONSTANTS
  Ids,        \* primary keys of the users table
  Names,      \* usernames, standing for all that UpdateUser can change
  Passwords,
  Tokens,     \* uuids; bounds the number of logins
  Requests,   \* goroutines that serve requests
  Putters,    \* application goroutines that call CachePut; {} in this repository
  Endpoints,  \* the routes that clients use
  Faulty,     \* whether MySQL and Redis calls may fail
  Nil,        \* no row, no key, no value
  Blank       \* the empty string

\* A row of the table and also the *model.User that is decoded from the cache.
Row == [id : Ids, username : Names, pass : Passwords, active : BOOLEAN, deleted : BOOLEAN]

ASSUME AccountsAssumption ==
  /\ Endpoints \subseteq Routes
  /\ Faulty \in BOOLEAN
  /\ Nil # Blank
  /\ Nil \notin Ids \cup Names \cup Passwords \cup Tokens \cup Row
  /\ Blank \notin Row
  /\ {"fresh", "closed"} \cap Ids = {}

VARIABLES
  rows,     \* users table
  userKey,  \* Redis "user:<id>": Nil, the empty string or an encoded user
  session,  \* Redis "accessToken:<uuid>": Nil or the user id it holds
  jwt,      \* what became of each uuid: see Jwt
  put,      \* CachePut calls under way
  pc,       \* where each request is: see Stages
  req,      \* what the client sent
  ctx,      \* gin context and locals of the handler
  reply     \* the answer that the last step sent, Nil if it sent none

store == <<rows, userKey, session, jwt>>
vars == <<rows, userKey, session, jwt, put, pc, req, ctx, reply>>

\* "orphan": saveAuth failed after the key was stored, no client has the token.
Jwt == {"unused", "orphan", "valid", "expired"}
Stages == {"idle", "login", "saveAuth", "jwt", "session", "me", "refillMe",
           "control", "refillSubject", "write", "del"}
Replies == {"Success", "BadRequest", "ServerError", "TokenInvalid", "TokenExpired",
            "UserDeactivated", "UserNameOrPassInvalid", "LoginFailed", "UserNotFound",
            "UserNameDuplicate", "UserCreateFailed", "UserUpdateFailed", "DeleteUserFailed",
            "ActivateUserFailed", "DeActivateUserFailed", "OldPassInvalid", "ChangePassFailed"}

-----------------------------------------------------------------------------
(* Requests *)

Call(ep, i, n, p, q, t, dead) ==
  [ep |-> ep, id |-> i, name |-> n, old |-> p, new |-> q, tok |-> t, dead |-> dead]
NoCall == Call("logout", Nil, Nil, Nil, Nil, Nil, FALSE)
NoCtx == [actor |-> Nil, me |-> Nil, subject |-> Nil]
NoPut == [id |-> Nil, val |-> Nil]

\* Nil for an argument that the form bindings or strconv.Atoi reject.
WellFormed(c) ==
  /\ c.ep \in ById => c.id # Nil
  /\ c.ep \in {"login", "createUser", "editUser"} => c.name # Nil
  /\ c.ep \in {"login", "changePass"} => c.old # Nil
  /\ c.ep \in {"createUser", "changePass"} => c.new # Nil
  /\ c.ep = "changePass" => c.old # c.new

\* A token that can no longer be used: its exp is past or its key is gone.
Dead(t) == t # Nil /\ (jwt[t] = "expired" \/ session[t] = Nil)

\* What the route does not read stays Nil.  Requests that lack an argument are all
\* answered alike, and the one that lacks all of them stands for the others.
Arguments(ep) ==
  [id   : IF ep \in ById THEN Ids ELSE {Nil},
   name : IF ep \in {"login", "createUser", "editUser"} THEN Names ELSE {Nil},
   old  : IF ep \in {"login", "changePass"} THEN Passwords ELSE {Nil},
   new  : IF ep \in {"createUser", "changePass"} THEN Passwords ELSE {Nil}]
  \cup [{"id", "name", "old", "new"} -> {Nil}]

\* The tokens that a client can hold.
Bearers == {t \in Tokens : jwt[t] \in {"valid", "expired"}} \cup {Nil}

\* Bound: a login starts only while a uuid is left for it.
TokenLeft ==
  Cardinality({q \in Requests : pc[q] \in {"login", "saveAuth"}})
    < Cardinality({t \in Tokens : jwt[t] = "unused"})

Answer(r, code) ==
  /\ pc' = [pc EXCEPT ![r] = "idle"]
  /\ reply' = code
  /\ ctx' = [ctx EXCEPT ![r] = NoCtx]
  /\ req' = [req EXCEPT ![r] = NoCall]

Goto(r, stage, c) ==
  /\ pc' = [pc EXCEPT ![r] = stage]
  /\ ctx' = [ctx EXCEPT ![r] = c]
  /\ reply' = Nil
  /\ UNCHANGED req

Arrive(r) ==
  /\ pc[r] = "idle"
  /\ \E ep \in Endpoints : \E a \in Arguments(ep) : \E t \in Bearers :
       /\ NeedsAuth(ep) \/ (t = Nil /\ TokenLeft)
       /\ req' = [req EXCEPT ![r] = Call(ep, a.id, a.name, a.old, a.new, t, Dead(t))]
       /\ pc' = [pc EXCEPT ![r] = IF NeedsAuth(ep) THEN "jwt" ELSE "login"]
  /\ reply' = Nil
  /\ UNCHANGED <<store, put, ctx>>

-----------------------------------------------------------------------------
(* MySQL, as gorm is used: reads and updates skip soft-deleted rows (the   *)
(* read always, the update in some versions of gorm), usernames are unique *)
(* over all rows, and a statement whose deadline passes may have applied.  *)

Visible(u) == rows[u] # Nil /\ ~rows[u].deleted
Taken(n, u) == \E v \in Ids \ {u} : rows[v] # Nil /\ rows[v].username = n

WriteRow(r, new, failure) ==
  LET u == req[r].id IN
  \/ /\ rows[u] # Nil
     /\ ~Taken(new.username, u)
     /\ rows' = [rows EXCEPT ![u] = new]
     /\ Answer(r, "Success") \/ (Faulty /\ Answer(r, failure))
  \/ /\ ~Visible(u)
     /\ Answer(r, "Success")
     /\ UNCHANGED rows
  \/ /\ Faulty \/ Taken(new.username, u)
     /\ Answer(r, failure)
     /\ UNCHANGED rows

-----------------------------------------------------------------------------
(* Login *)

\* A form that lacks a name or a password is refused.  GetUserInfoByUserName
\* reads the table itself; any error of it is reported as a wrong name or password.
Login(r) ==
  /\ pc[r] = "login"
  /\ \/ ~WellFormed(req[r]) /\ Answer(r, "BadRequest")
     \/ \E u \in Ids :
          /\ WellFormed(req[r]) /\ Visible(u)
          /\ rows[u].username = req[r].name
          /\ \/ ~rows[u].active /\ Answer(r, "UserDeactivated")
             \/ /\ rows[u].active /\ rows[u].pass # req[r].old
                /\ Answer(r, "UserNameOrPassInvalid")
             \/ /\ rows[u].active /\ rows[u].pass = req[r].old
                /\ Goto(r, "saveAuth", [ctx[r] EXCEPT !.actor = u])
     \/ /\ WellFormed(req[r])
        /\ Faulty \/ \A u \in Ids : Visible(u) => rows[u].username # req[r].name
        /\ Answer(r, "UserNameOrPassInvalid")
  /\ UNCHANGED <<store, put>>

SaveAuth(r) ==
  /\ pc[r] = "saveAuth"
  /\ \/ \E t \in Tokens :
          /\ jwt[t] = "unused"
          /\ session' = [session EXCEPT ![t] = ctx[r].actor]
          /\ \/ jwt' = [jwt EXCEPT ![t] = "valid"] /\ Answer(r, "Success")
             \/ Faulty /\ jwt' = [jwt EXCEPT ![t] = "orphan"] /\ Answer(r, "LoginFailed")
     \/ Faulty /\ Answer(r, "LoginFailed") /\ UNCHANGED <<session, jwt>>
  /\ UNCHANGED <<rows, userKey, put>>

-----------------------------------------------------------------------------
(* The middlewares *)

\* Mutant: exp is not verified.
CheckTokenForever(r) ==
  /\ pc[r] = "jwt"
  /\ LET t == req[r].tok IN
     \/ t = Nil /\ Answer(r, "TokenInvalid")
     \/ t # Nil /\ Goto(r, "session", ctx[r])
  /\ UNCHANGED <<store, put>>

CheckToken(r) ==
  /\ pc[r] = "jwt"
  /\ LET t == req[r].tok IN
     \/ t = Nil /\ Answer(r, "TokenInvalid")
     \/ t # Nil /\ jwt[t] = "expired" /\ Answer(r, "TokenExpired")
     \/ t # Nil /\ jwt[t] # "expired" /\ Goto(r, "session", ctx[r])
  /\ UNCHANGED <<store, put>>

LoadSession(r) ==
  /\ pc[r] = "session"
  /\ LET u == session[req[r].tok] IN
     \/ u = Nil /\ Answer(r, "TokenExpired")
     \/ u # Nil /\ Goto(r, "me", [ctx[r] EXCEPT !.actor = u])
     \/ Faulty /\ Answer(r, "ServerError")
  /\ UNCHANGED <<store, put>>

\* GetUserInfoById: CacheEnable answers a missing key with ErrCacheMiss, turns
\* to the table only for the empty string, and decodes anything else.
CachedUser(r, u, refill, hit) ==
  \/ (userKey[u] = Nil \/ Faulty) /\ Answer(r, "ServerError")
  \/ userKey[u] = Blank /\ Goto(r, refill, ctx[r])
  \/ userKey[u] \notin {Nil, Blank} /\ hit

Admit(r, user) ==
  \/ NeedsActive(req[r].ep) /\ ~user.active /\ Answer(r, "UserDeactivated")
  \/ /\ NeedsActive(req[r].ep) => user.active
     /\ Goto(r, "control", [ctx[r] EXCEPT !.me = user])

\* Mutant: the session key is stored again, so that it lives on with its use.
LoadMeSliding(r) ==
  /\ pc[r] = "me"
  /\ LET u == ctx[r].actor IN CachedUser(r, u, "refillMe", Admit(r, userKey[u]))
  /\ session' = [session EXCEPT ![req[r].tok] = ctx[r].actor]
  /\ UNCHANGED <<rows, userKey, jwt, put>>

LoadMe(r) ==
  /\ pc[r] = "me"
  /\ LET u == ctx[r].actor IN CachedUser(r, u, "refillMe", Admit(r, userKey[u]))
  /\ UNCHANGED <<store, put>>

\* The row is read, but go-redis cannot marshal a *model.User, so that storing
\* it fails and so does the call; a missing row fails it before that.
Refill(r) ==
  /\ pc[r] \in {"refillMe", "refillSubject"}
  /\ LET u == IF pc[r] = "refillMe" THEN ctx[r].actor ELSE req[r].id IN
     \/ (Visible(u) \/ Faulty) /\ Answer(r, "ServerError")
     \/ ~Visible(u) /\ Answer(r, "UserNotFound")
  /\ UNCHANGED <<store, put>>

-----------------------------------------------------------------------------
(* The controllers and what they call *)

CurrentUser(r) ==
  /\ pc[r] = "control" /\ req[r].ep = "currentUser"
  /\ Answer(r, "Success")
  /\ UNCHANGED <<store, put>>

Logout(r) ==
  /\ pc[r] = "control" /\ req[r].ep = "logout"
  /\ \/ session[req[r].tok] = Nil /\ Answer(r, "Success")
     \/ session[req[r].tok] # Nil /\ Goto(r, "del", ctx[r])
     \/ Faulty /\ Answer(r, "ServerError")
  /\ UNCHANGED <<store, put>>

\* Mutant: the key is emptied where it should be removed.
LogoutDelEmpties(r) ==
  /\ pc[r] = "del"
  /\ session' = [session EXCEPT ![req[r].tok] = Blank]
  /\ Answer(r, "Success")
  /\ UNCHANGED <<rows, userKey, jwt, put>>

\* Mutant: a failed deletion is tried again without end.
LogoutDelRetrying(r) ==
  /\ pc[r] = "del"
  /\ \/ session' = [session EXCEPT ![req[r].tok] = Nil] /\ Answer(r, "Success")
     \/ Faulty /\ Goto(r, "control", ctx[r]) /\ UNCHANGED session
  /\ UNCHANGED <<rows, userKey, jwt, put>>

LogoutDel(r) ==
  /\ pc[r] = "del"
  /\ \/ /\ session' = [session EXCEPT ![req[r].tok] = Nil]
        /\ Answer(r, "Success") \/ (Faulty /\ Answer(r, "ServerError"))
     \/ Faulty /\ Answer(r, "ServerError") /\ UNCHANGED session
  /\ UNCHANGED <<rows, userKey, jwt, put>>

\* Bound: with no id left the insert fails.
CreateUser(r) ==
  /\ pc[r] = "control" /\ req[r].ep = "createUser"
  /\ \/ ~WellFormed(req[r]) /\ Answer(r, "BadRequest") /\ UNCHANGED rows
     \/ /\ WellFormed(req[r]) /\ ~Taken(req[r].name, Nil)
        /\ \E u \in Ids :
             /\ rows[u] = Nil
             /\ rows' = [rows EXCEPT ![u] = [id |-> u, username |-> req[r].name,
                           pass |-> req[r].new, active |-> TRUE, deleted |-> FALSE]]
        /\ Answer(r, "Success") \/ (Faulty /\ Answer(r, "UserCreateFailed"))
     \/ /\ WellFormed(req[r]) /\ Taken(req[r].name, Nil)
        /\ Answer(r, "UserNameDuplicate")
        /\ UNCHANGED rows
     \/ /\ WellFormed(req[r]) /\ (Faulty \/ \A u \in Ids : rows[u] # Nil)
        /\ Answer(r, "UserCreateFailed")
        /\ UNCHANGED rows
  /\ UNCHANGED <<userKey, session, jwt, put>>

\* What each handler by id does with the user that GetUserInfoById returned.
Fetched(r, user) ==
  \/ req[r].ep = "getUser" /\ Answer(r, "Success")
  \/ /\ req[r].ep = "changePass" /\ user.pass # req[r].old
     /\ Answer(r, "OldPassInvalid")
  \/ /\ req[r].ep = "changePass" /\ user.pass = req[r].old /\ Faulty
     /\ Answer(r, "ChangePassFailed")
  \/ /\ req[r].ep # "getUser"
     /\ req[r].ep = "changePass" => user.pass = req[r].old
     /\ Goto(r, "write", [ctx[r] EXCEPT !.subject = user])

\* Mutant: the user who is logged in takes the place of the one in the path.
LoadSubjectOfActor(r) ==
  /\ pc[r] = "control" /\ req[r].ep \in ById
  /\ LET u == ctx[r].actor IN CachedUser(r, u, "refillSubject", Fetched(r, userKey[u]))
  /\ UNCHANGED <<store, put>>

LoadSubject(r) ==
  /\ pc[r] = "control" /\ req[r].ep \in ById
  /\ LET u == req[r].id IN
     \/ ~WellFormed(req[r]) /\ Answer(r, "BadRequest")
     \/ /\ WellFormed(req[r])
        /\ CachedUser(r, u, "refillSubject", Fetched(r, userKey[u]))
  /\ UNCHANGED <<store, put>>

Writing(r, ep) ==
  /\ pc[r] = "write" /\ req[r].ep = ep
  /\ UNCHANGED <<userKey, session, jwt, put>>

\* Mutant: the error of the update is dropped.
UpdateUserUnchecked(r) ==
  /\ Writing(r, "editUser")
  /\ WriteRow(r, [rows[req[r].id] EXCEPT !.username = req[r].name], "Success")

UpdateUser(r) ==
  /\ Writing(r, "editUser")
  /\ WriteRow(r, [rows[req[r].id] EXCEPT !.username = req[r].name], "UserUpdateFailed")

DeleteUser(r) ==
  /\ Writing(r, "deleteUser")
  /\ WriteRow(r, [rows[req[r].id] EXCEPT !.deleted = TRUE], "DeleteUserFailed")

ActivateUser(r) ==
  /\ Writing(r, "activate")
  /\ WriteRow(r, [rows[req[r].id] EXCEPT !.active = TRUE], "ActivateUserFailed")

\* Mutant: the whole record that was read is saved.
DeactivateUserBySave(r) ==
  /\ Writing(r, "deactivate")
  /\ WriteRow(r, [ctx[r].subject EXCEPT !.active = FALSE], "DeActivateUserFailed")

DeactivateUser(r) ==
  /\ Writing(r, "deactivate")
  /\ WriteRow(r, [rows[req[r].id] EXCEPT !.active = FALSE], "DeActivateUserFailed")

\* Save writes every column of the user that was read, and its error is dropped.
ChangePassword(r) ==
  /\ Writing(r, "changePass")
  /\ WriteRow(r, [ctx[r].subject EXCEPT !.pass = req[r].new], "Success")

-----------------------------------------------------------------------------
(* CachePut on "user:<id>", by an application that encodes the row with      *)
(* SerializeTool.  The error of its process is dropped: a failed read stores *)
(* the empty string.                                                         *)

\* Mutant: what is put is what the cache already holds.
PutProcessFromCache(w) ==
  /\ put[w] = NoPut
  /\ \E u \in Ids :
       LET val == IF userKey[u] # Nil THEN userKey[u]
                  ELSE IF Visible(u) THEN rows[u] ELSE Blank
       IN  put' = [put EXCEPT ![w] = [id |-> u, val |-> val]]
  /\ reply' = Nil
  /\ UNCHANGED <<store, pc, req, ctx>>

PutProcess(w) ==
  /\ put[w] = NoPut
  /\ \E u \in Ids :
       \/ Visible(u) /\ put' = [put EXCEPT ![w] = [id |-> u, val |-> rows[u]]]
       \/ /\ ~Visible(u) \/ Faulty
          /\ put' = [put EXCEPT ![w] = [id |-> u, val |-> Blank]]
  /\ reply' = Nil
  /\ UNCHANGED <<store, pc, req, ctx>>

PutSet(w) ==
  /\ put[w] # NoPut
  /\ put' = [put EXCEPT ![w] = NoPut]
  /\ \/ userKey' = [userKey EXCEPT ![put[w].id] = put[w].val]
     \/ Faulty /\ UNCHANGED userKey
  /\ reply' = Nil
  /\ UNCHANGED <<rows, session, jwt, pc, req, ctx>>

(* The passing of time *)

ExpireJwt(t) ==
  /\ jwt[t] = "valid"
  /\ jwt' = [jwt EXCEPT ![t] = "expired"]
  /\ reply' = Nil
  /\ UNCHANGED <<rows, userKey, session, put, pc, req, ctx>>

ExpireSession(t) ==
  /\ session[t] # Nil
  /\ session' = [session EXCEPT ![t] = Nil]
  /\ reply' = Nil
  /\ UNCHANGED <<rows, userKey, jwt, put, pc, req, ctx>>

ExpireUserKey(u) ==
  /\ userKey[u] # Nil
  /\ userKey' = [userKey EXCEPT ![u] = Nil]
  /\ reply' = Nil
  /\ UNCHANGED <<rows, session, jwt, put, pc, req, ctx>>

-----------------------------------------------------------------------------
\* Any table with unique usernames; Redis starts empty.
Init ==
  /\ rows \in {f \in [Ids -> Row \cup {Nil}] :
                 \A u, v \in Ids :
                   f[u] # Nil =>
                     /\ f[u].id = u
                     /\ (v # u /\ f[v] # Nil) => f[u].username # f[v].username}
  /\ userKey = [u \in Ids |-> Nil]
  /\ session = [t \in Tokens |-> Nil]
  /\ jwt = [t \in Tokens |-> "unused"]
  /\ put = [w \in Putters |-> NoPut]
  /\ pc = [r \in Requests |-> "idle"]
  /\ req = [r \in Requests |-> NoCall]
  /\ ctx = [r \in Requests |-> NoCtx]
  /\ reply = Nil

Serve(r) ==
  \/ Login(r) \/ SaveAuth(r)
  \/ CheckToken(r) \/ LoadSession(r) \/ LoadMe(r) \/ Refill(r)
  \/ CurrentUser(r) \/ Logout(r) \/ LogoutDel(r) \/ CreateUser(r) \/ LoadSubject(r)
  \/ UpdateUser(r) \/ DeleteUser(r) \/ ActivateUser(r) \/ DeactivateUser(r)
  \/ ChangePassword(r)

Next ==
  \/ \E r \in Requests : Arrive(r) \/ Serve(r)
  \/ \E w \in Putters : PutProcess(w) \/ PutSet(w)
  \/ \E t \in Tokens : ExpireJwt(t) \/ ExpireSession(t)
  \/ \E u \in Ids : ExpireUserKey(u)

Spec == Init /\ [][Next]_vars

\* Calls of MySQL and Redis return: both clients have deadlines.
FairSpec == Spec /\ \A r \in Requests : WF_vars(Serve(r))
-----------------------------------------------------------------------------
(* Properties *)

CallType == [ep : Routes, id : Ids \cup {Nil}, name : Names \cup {Nil},
             old : Passwords \cup {Nil}, new : Passwords \cup {Nil},
             tok : Tokens \cup {Nil}, dead : BOOLEAN]
CtxType == [actor : Ids \cup {Nil}, me : Row \cup {Nil}, subject : Row \cup {Nil}]

StoreType ==
  /\ rows \in [Ids -> Row \cup {Nil}]
  /\ userKey \in [Ids -> Row \cup {Nil, Blank}]
  /\ session \in [Tokens -> Ids \cup {Nil}]
  /\ jwt \in [Tokens -> Jwt]
  /\ put \in [Putters -> [id : Ids \cup {Nil}, val : Row \cup {Nil, Blank}]]

FlowType ==
  /\ pc \in [Requests -> Stages]
  /\ req \in [Requests -> CallType]
  /\ ctx \in [Requests -> CtxType]
  /\ reply \in Replies \cup {Nil}

\* Every variable keeps its shape.
TypeOK == StoreType /\ FlowType

\* A request that arrives with a token whose session was logged out or ran out,
\* or whose exp is past, never gets as far as loading a user, whatever the
\* requests that were under way at that time still do (AuthMiddleware.Before,
\* AuthServiceImpl.Logout, saveAuth).
RevokedTokenRefused ==
  \A r \in Requests : req[r].dead => pc[r] \in {"idle", "jwt", "session"}

\* Records are never mixed up: the user behind a request is the one its session
\* names, the user a handler works on is the one in its path, and a cache key
\* holds a record of its own id (GetUserInfoById, AuthMiddleware.Before).
RecordsKeepIdentity ==
  /\ \A u \in Ids : /\ rows[u] # Nil => rows[u].id = u
                    /\ userKey[u] \notin {Nil, Blank} => userKey[u].id = u
  /\ \A r \in Requests :
       /\ ctx[r].me # Nil => ctx[r].me.id = ctx[r].actor
       /\ ctx[r].subject # Nil => ctx[r].subject.id = req[r].id

\* An update keeps the row, and what it turns on again it was sent to turn on, or
\* was on in the record that it writes back.
OnlyKnowinglyRevived(u) ==
  LET Writer(ep) == {r \in Requests : pc[r] = "write" /\ req[r].id = u /\ req[r].ep = ep} IN
  rows[u] # Nil =>
    /\ rows'[u] # Nil
    /\ ~rows[u].active /\ rows'[u].active =>
         Writer("activate") # {} \/ \E r \in Writer("changePass") : ctx[r].subject.active
    /\ rows[u].deleted /\ ~rows'[u].deleted =>
         \E r \in Writer("changePass") : ~ctx[r].subject.deleted

\* An account comes back to life (active again, or no longer deleted) only by
\* an activation or by a password change that writes back the record it read.
NoSilentRevival == [][\A u \in Ids : OnlyKnowinglyRevived(u)]_vars

\* What a step that answers "Success" leaves behind.  A row that is deleted
\* when its update runs may be left as it was.
TookEffect(c) ==
  LET u == c.id IN
  /\ c.ep = "logout" => session'[c.tok] = Nil
  /\ c.ep \in {"editUser", "deleteUser", "activate", "deactivate"} /\ Visible(u) =>
       /\ c.ep = "editUser" => rows'[u].username = c.name
       /\ c.ep = "deleteUser" => rows'[u].deleted
       /\ c.ep = "activate" => rows'[u].active
       /\ c.ep = "deactivate" => ~rows'[u].active

Succeeds(r) == pc[r] # "idle" /\ pc'[r] = "idle" /\ reply' = "Success"

\* A client that is told "Success" of a logout or of a change to a live account
\* finds it done, even if calls of MySQL or Redis fail or are late.
SuccessTookEffect == [][\A r \in Requests : Succeeds(r) => TookEffect(req[r])]_vars

\* ChangePassword reports a failed change ("ChangePassFailed"), so after
\* "Success" a live account has the new password.
ChangePassTookEffect ==
  [][\A r \in Requests :
       Succeeds(r) /\ req[r].ep = "changePass" /\ Visible(req[r].id) =>
         rows'[req[r].id].pass = req[r].new]_vars

\* As long as nobody calls CachePut, no request ever changes the users table:
\* GetUserInfoById fails on every missing key, and with it every route behind
\* AuthMiddleware.
AccountsFrozen == [][rows' = rows]_vars

\* The tokens and requests of this module are those of SessionLedger: the
\* session key says whether an issued token is open, and a request acts for the
\* user that AuthMiddleware found under it.
Ledger == INSTANCE SessionLedger WITH
  Users <- Ids, Fresh <- "fresh", Closed <- "closed", Nobody <- Nil,
  ledger <- [t \in Tokens |-> IF session[t] # Nil THEN session[t]
                              ELSE IF jwt[t] = "unused" THEN "fresh" ELSE "closed"],
  presented <- [r \in Requests |-> req[r].tok],
  acting <- [r \in Requests |-> IF req[r].tok = Nil THEN Nil ELSE ctx[r].actor]

\* A token is issued once, to one user, and over for good once it is logged out
\* or runs out; a request acts for a user only if the token it carries was that
\* user's and open at one moment since it arrived (AuthServiceImpl.saveAuth and
\* Logout, AuthMiddleware.Before).
TokensKeepLedger == Ledger!LedgerSpec

\* Every request is answered.
Answered == \A r \in Requests : pc[r] # "idle" ~> pc[r] = "idle"

\* The key "user:<id>" has a time to live and CachePut returns.
TimeSpec ==
  /\ FairSpec
  /\ \A u \in Ids : WF_vars(ExpireUserKey(u))
  /\ \A w \in Putters : WF_vars(PutSet(w))

\* Once an account stays inactive, its user is in the end kept out of every
\* route behind DeactivatedAbortMiddleware, although the middleware judges by a
\* cached record.
DeactivationBites ==
  \A u \in Ids :
    <>[](rows[u] # Nil /\ ~rows[u].active) =>
      <>[](\A r \in Requests :
             ~(pc[r] = "control" /\ ctx[r].actor = u /\ NeedsActive(req[r].ep)))
=============================================================================
