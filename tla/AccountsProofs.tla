--------------------------- MODULE AccountsProofs ---------------------------
(***************************************************************************)
(* Theorems about Accounts for all sets of users, tokens and requests.     *)
(*                                                                         *)
(* TypeOK is not inductive: a handler that has come to a stage relies on   *)
(* what earlier stages put into its call and context.  StageOK says what   *)
(* that is.                                                                *)
(*                                                                         *)
(* A revoked token is refused, and Accounts implements SessionLedger: for  *)
(* this the inductive invariant TokenInv says that an unused uuid has no   *)
(* session key, that no request carries an unused uuid, and that a request *)
(* that arrived with a dead token is still before AuthMiddleware's look at *)
(* Redis, or about to take it and to find nothing.                         *)
(*                                                                         *)
(* About user records: nothing changes them while no CachePut fills        *)
(* "user:<id>"; they are never mixed up; they come back to life only by    *)
(* the two operations that may do so; and "Success" means done.  Records   *)
(* are not mixed up because each that is under way, in a CachePut or in a  *)
(* context, is still of the id it was looked up by.                        *)
(***************************************************************************)
EXTENDS Accounts, TLAPS

\* The stages of a request whose token was found to name a user.
Admitted == {"me", "refillMe", "control", "refillSubject", "write", "del"}

\* What a call q and a context c have to be at a stage.
Fits(stage, q, c) ==
  /\ stage \in {"login", "saveAuth"} => q.tok = Nil
  /\ stage \in Admitted \cup {"session"} => q.tok \in Tokens
  /\ stage \in Admitted \cup {"saveAuth"} => c.actor \in Ids
  /\ stage \in {"refillSubject", "write"} => q.ep \in ById /\ WellFormed(q)
  /\ stage = "write" => c.subject \in Row

StageOK == \A r \in Requests : Fits(pc[r], req[r], ctx[r])

IndInv == TypeOK /\ StageOK

-----------------------------------------------------------------------------
(* Lemmas about the operators that the actions are built from. *)

LEMMA NoCallType == NoCall \in CallType /\ NoCtx \in CtxType
BY DEF NoCall, NoCtx, Call, CallType, CtxType, Routes, ById

\* Answering ends the request and disturbs no other.
LEMMA AnswerInv ==
  ASSUME IndInv, NEW r \in Requests, NEW code \in Replies, Answer(r, code)
  PROVE  FlowType' /\ StageOK'
<1>1. FlowType'
  BY NoCallType DEF IndInv, TypeOK, FlowType, Answer, Stages
<1>2. ASSUME NEW q \in Requests PROVE Fits(pc'[q], req'[q], ctx'[q])
  <2>1. CASE q = r
    <3>1. pc'[q] = "idle" /\ req'[q] = NoCall /\ ctx'[q] = NoCtx
      BY <2>1 DEF IndInv, TypeOK, FlowType, Answer
    <3> QED BY <3>1 DEF Fits, Admitted, NoCall, Call
  <2>2. CASE q # r
    <3>1. pc'[q] = pc[q] /\ req'[q] = req[q] /\ ctx'[q] = ctx[q]
      BY <2>2 DEF IndInv, TypeOK, FlowType, Answer
    <3> QED BY <3>1 DEF IndInv, StageOK
  <2> QED BY <2>1, <2>2
<1> QED BY <1>1, <1>2 DEF StageOK

\* Going on to a stage that the call and the new context fit.
LEMMA GotoInv ==
  ASSUME IndInv, NEW r \in Requests, NEW stage \in Stages, NEW c \in CtxType,
         Fits(stage, req[r], c), Goto(r, stage, c)
  PROVE  FlowType' /\ StageOK'
<1>1. FlowType'
  BY DEF IndInv, TypeOK, FlowType, Goto
<1>2. ASSUME NEW q \in Requests PROVE Fits(pc'[q], req'[q], ctx'[q])
  <2>1. CASE q = r
    <3>1. pc'[q] = stage /\ req'[q] = req[q] /\ ctx'[q] = c
      BY <2>1 DEF IndInv, TypeOK, FlowType, Goto
    <3> QED BY <2>1, <3>1
  <2>2. CASE q # r
    <3>1. pc'[q] = pc[q] /\ req'[q] = req[q] /\ ctx'[q] = ctx[q]
      BY <2>2 DEF IndInv, TypeOK, FlowType, Goto
    <3> QED BY <3>1 DEF IndInv, StageOK
  <2> QED BY <2>1, <2>2
<1> QED BY <1>1, <1>2 DEF StageOK

\* Steps that touch no request.
LEMMA IdleInv ==
  ASSUME IndInv, reply' = Nil, UNCHANGED <<pc, req, ctx>>
  PROVE  FlowType' /\ StageOK'
BY DEF IndInv, TypeOK, FlowType, StageOK

LEMMA StoreSame ==
  ASSUME IndInv, UNCHANGED <<store, put>>
  PROVE  StoreType'
BY DEF IndInv, TypeOK, StoreType, store

LEMMA ArriveInv ==
  ASSUME IndInv, NEW r \in Requests, Arrive(r)
  PROVE  IndInv'
<1>1. StoreType'
  BY StoreSame DEF Arrive
<1>0. PICK ep \in Endpoints : \E a \in Arguments(ep), t \in Bearers :
        /\ NeedsAuth(ep) \/ t = Nil
        /\ req' = [req EXCEPT ![r] = Call(ep, a.id, a.name, a.old, a.new, t, Dead(t))]
        /\ pc' = [pc EXCEPT ![r] = IF NeedsAuth(ep) THEN "jwt" ELSE "login"]
        /\ reply' = Nil /\ ctx' = ctx
  BY DEF Arrive
<1>2. PICK a \in Arguments(ep), t \in Bearers :
        /\ NeedsAuth(ep) \/ t = Nil
        /\ req' = [req EXCEPT ![r] = Call(ep, a.id, a.name, a.old, a.new, t, Dead(t))]
        /\ pc' = [pc EXCEPT ![r] = IF NeedsAuth(ep) THEN "jwt" ELSE "login"]
        /\ reply' = Nil /\ ctx' = ctx
  BY <1>0
<1> DEFINE c == Call(ep, a.id, a.name, a.old, a.new, t, Dead(t))
<1>3. /\ ep \in Routes /\ t \in Tokens \cup {Nil}
      /\ a.id \in Ids \cup {Nil} /\ a.name \in Names \cup {Nil}
      /\ a.old \in Passwords \cup {Nil} /\ a.new \in Passwords \cup {Nil}
  BY AccountsAssumption DEF Arguments, Bearers
<1>4. Dead(t) \in BOOLEAN
  BY DEF Dead
<1>5. c \in CallType
  BY <1>3, <1>4 DEF Call, CallType
<1>6. FlowType'
  BY <1>2, <1>5 DEF IndInv, TypeOK, FlowType, Stages
<1>7. ASSUME NEW q \in Requests PROVE Fits(pc'[q], req'[q], ctx'[q])
  <2>1. CASE q = r
    <3>1. /\ pc'[q] = IF NeedsAuth(ep) THEN "jwt" ELSE "login"
          /\ req'[q] = c /\ ctx'[q] = ctx[q]
      BY <1>2, <2>1 DEF IndInv, TypeOK, FlowType
    <3>2. c.tok = t
      BY DEF Call
    <3> HIDE DEF c
    <3> QED BY <1>2, <1>3, <3>1, <3>2 DEF Fits, Admitted
  <2>2. CASE q # r
    <3>1. pc'[q] = pc[q] /\ req'[q] = req[q] /\ ctx'[q] = ctx[q]
      BY <1>2, <2>2 DEF IndInv, TypeOK, FlowType
    <3> QED BY <3>1 DEF IndInv, StageOK
  <2> QED BY <2>1, <2>2
<1> QED BY <1>1, <1>6, <1>7 DEF IndInv, TypeOK, StageOK

-----------------------------------------------------------------------------
(* Each action keeps the inductive invariant. *)

LEMMA LoginInv ==
  ASSUME IndInv, NEW r \in Requests, Login(r)
  PROVE  IndInv'
<1>1. StoreType'
  BY StoreSame DEF Login
<1>2. CASE \E code \in Replies : Answer(r, code)
  BY <1>1, <1>2, AnswerInv DEF IndInv, TypeOK
<1>3. CASE \E u \in Ids : Goto(r, "saveAuth", [ctx[r] EXCEPT !.actor = u])
  <2>1. PICK u \in Ids : Goto(r, "saveAuth", [ctx[r] EXCEPT !.actor = u])
    BY <1>3
  <2> DEFINE c == [ctx[r] EXCEPT !.actor = u]
  <2>2. ctx[r] \in CtxType /\ Fits("login", req[r], ctx[r])
    BY DEF IndInv, TypeOK, FlowType, StageOK, Login
  <2>3. c \in CtxType /\ c.actor = u
    BY <2>2 DEF CtxType
  <2> HIDE DEF c
  <2>4. Fits("saveAuth", req[r], c)
    BY <2>2, <2>3 DEF Fits, Admitted
  <2>5. "saveAuth" \in Stages
    BY DEF Stages
  <2> QED BY <1>1, <2>1, <2>3, <2>4, <2>5, GotoInv DEF IndInv, TypeOK, c
<1> QED BY <1>2, <1>3 DEF Login, Replies

LEMMA SaveAuthInv ==
  ASSUME IndInv, NEW r \in Requests, SaveAuth(r)
  PROVE  IndInv'
<1>1. \E code \in Replies : Answer(r, code)
  BY DEF SaveAuth, Replies
<1>2. ctx[r].actor \in Ids
  BY DEF IndInv, StageOK, Fits, SaveAuth
<1>3. StoreType'
  BY <1>2 DEF IndInv, TypeOK, StoreType, SaveAuth, Jwt
<1> QED BY <1>1, <1>3, AnswerInv DEF IndInv, TypeOK

LEMMA CheckTokenInv ==
  ASSUME IndInv, NEW r \in Requests, CheckToken(r)
  PROVE  IndInv'
<1>1. StoreType'
  BY StoreSame DEF CheckToken
<1>2. CASE \E code \in Replies : Answer(r, code)
  BY <1>1, <1>2, AnswerInv DEF IndInv, TypeOK
<1>3. CASE req[r].tok # Nil /\ Goto(r, "session", ctx[r])
  <2>1. /\ ctx[r] \in CtxType /\ req[r] \in CallType
        /\ Fits("jwt", req[r], ctx[r])
    BY DEF IndInv, TypeOK, FlowType, StageOK, CheckToken
  <2>2. req[r].tok \in Tokens
    BY <1>3, <2>1 DEF CallType
  <2>3. Fits("session", req[r], ctx[r]) /\ "session" \in Stages
    BY <2>1, <2>2 DEF Fits, Admitted, Stages
  <2> QED BY <1>1, <1>3, <2>1, <2>3, GotoInv DEF IndInv, TypeOK
<1> QED BY <1>2, <1>3 DEF CheckToken, Replies

LEMMA LoadSessionInv ==
  ASSUME IndInv, NEW r \in Requests, LoadSession(r)
  PROVE  IndInv'
<1>1. StoreType'
  BY StoreSame DEF LoadSession
<1> DEFINE u == session[req[r].tok]
           c == [ctx[r] EXCEPT !.actor = u]
<1>2. CASE \E code \in Replies : Answer(r, code)
  BY <1>1, <1>2, AnswerInv DEF IndInv, TypeOK
<1>3. CASE u # Nil /\ Goto(r, "me", c)
  <2>1. ctx[r] \in CtxType /\ Fits("session", req[r], ctx[r])
    BY DEF IndInv, TypeOK, FlowType, StageOK, LoadSession
  <2>2. u \in Ids
    BY <1>3, <2>1 DEF IndInv, TypeOK, StoreType, Fits
  <2>3. c \in CtxType /\ c.actor = u
    BY <2>1, <2>2 DEF CtxType
  <2> HIDE DEF c
  <2>4. Fits("me", req[r], c) /\ "me" \in Stages
    BY <2>1, <2>2, <2>3 DEF Fits, Admitted, Stages
  <2> QED BY <1>1, <1>3, <2>3, <2>4, GotoInv DEF IndInv, TypeOK
<1> QED BY <1>2, <1>3 DEF LoadSession, Replies

LEMMA LoadMeInv ==
  ASSUME IndInv, NEW r \in Requests, LoadMe(r)
  PROVE  IndInv'
<1>1. StoreType'
  BY StoreSame DEF LoadMe
<1> DEFINE u == ctx[r].actor
           c == [ctx[r] EXCEPT !.me = userKey[u]]
<1>2. /\ ctx[r] \in CtxType /\ Fits("me", req[r], ctx[r])
      /\ {"refillMe", "control"} \subseteq Stages
  BY DEF IndInv, TypeOK, FlowType, StageOK, LoadMe, Stages
<1>3. CASE \E code \in Replies : Answer(r, code)
  BY <1>1, <1>3, AnswerInv DEF IndInv, TypeOK
<1>4. CASE Goto(r, "refillMe", ctx[r])
  <2>1. Fits("refillMe", req[r], ctx[r])
    BY <1>2 DEF Fits, Admitted
  <2> QED BY <1>1, <1>2, <1>4, <2>1, GotoInv DEF IndInv, TypeOK
<1>5. CASE userKey[u] \notin {Nil, Blank} /\ Goto(r, "control", c)
  <2>1. userKey[u] \in Row
    BY <1>2, <1>5 DEF IndInv, TypeOK, StoreType, Fits, Admitted
  <2>2. c \in CtxType /\ c.actor = u
    BY <1>2, <2>1 DEF CtxType
  <2> HIDE DEF c
  <2>3. Fits("control", req[r], c)
    BY <1>2, <2>2 DEF Fits, Admitted
  <2> QED BY <1>1, <1>2, <1>5, <2>2, <2>3, GotoInv DEF IndInv, TypeOK
<1> QED BY <1>3, <1>4, <1>5 DEF LoadMe, CachedUser, Admit, Replies

LEMMA AnsweringInv ==
  ASSUME IndInv, NEW r \in Requests,
         Refill(r) \/ CurrentUser(r)
  PROVE  IndInv'
<1>1. StoreType'
  BY StoreSame DEF Refill, CurrentUser
<1>2. \E code \in Replies : Answer(r, code)
  BY DEF Refill, CurrentUser, Replies
<1> QED BY <1>1, <1>2, AnswerInv DEF IndInv, TypeOK

LEMMA LogoutInv ==
  ASSUME IndInv, NEW r \in Requests, Logout(r)
  PROVE  IndInv'
<1>1. StoreType'
  BY StoreSame DEF Logout
<1>2. CASE \E code \in Replies : Answer(r, code)
  BY <1>1, <1>2, AnswerInv DEF IndInv, TypeOK
<1>3. CASE Goto(r, "del", ctx[r])
  <2>1. ctx[r] \in CtxType /\ Fits("control", req[r], ctx[r])
    BY DEF IndInv, TypeOK, FlowType, StageOK, Logout
  <2>2. Fits("del", req[r], ctx[r]) /\ "del" \in Stages
    BY <2>1 DEF Fits, Admitted, Stages
  <2> QED BY <1>1, <1>3, <2>1, <2>2, GotoInv DEF IndInv, TypeOK
<1> QED BY <1>2, <1>3 DEF Logout, Replies

LEMMA LogoutDelInv ==
  ASSUME IndInv, NEW r \in Requests, LogoutDel(r)
  PROVE  IndInv'
<1>1. \E code \in Replies : Answer(r, code)
  BY DEF LogoutDel, Replies
<1>2. StoreType'
  BY DEF IndInv, TypeOK, StoreType, LogoutDel
<1> QED BY <1>1, <1>2, AnswerInv DEF IndInv, TypeOK

LEMMA CreateUserInv ==
  ASSUME IndInv, NEW r \in Requests, CreateUser(r)
  PROVE  IndInv'
<1>1. \E code \in Replies : Answer(r, code)
  BY DEF CreateUser, Replies
<1>2. rows' \in [Ids -> Row \cup {Nil}]
  <2>1. CASE rows' = rows
    BY <2>1 DEF IndInv, TypeOK, StoreType
  <2>2. CASE WellFormed(req[r])
             /\ \E u \in Ids :
                  rows' = [rows EXCEPT ![u] = [id |-> u, username |-> req[r].name,
                             pass |-> req[r].new, active |-> TRUE, deleted |-> FALSE]]
    <3>1. req[r].new \in Passwords /\ req[r].name \in Names
      BY <2>2 DEF IndInv, TypeOK, FlowType, StageOK, Fits, CreateUser, WellFormed, CallType
    <3> QED BY <2>2, <3>1 DEF IndInv, TypeOK, StoreType, Row
  <2> QED BY <2>1, <2>2 DEF CreateUser
<1>3. StoreType'
  BY <1>2 DEF IndInv, TypeOK, StoreType, CreateUser
<1> QED BY <1>1, <1>3, AnswerInv DEF IndInv, TypeOK

LEMMA LoadSubjectInv ==
  ASSUME IndInv, NEW r \in Requests, LoadSubject(r)
  PROVE  IndInv'
<1>1. StoreType'
  BY StoreSame DEF LoadSubject
<1> DEFINE u == req[r].id
           c == [ctx[r] EXCEPT !.subject = userKey[u]]
<1>2. /\ ctx[r] \in CtxType /\ req[r] \in CallType /\ req[r].ep \in ById
      /\ Fits("control", req[r], ctx[r])
      /\ {"refillSubject", "write"} \subseteq Stages
  BY DEF IndInv, TypeOK, FlowType, StageOK, LoadSubject, Stages
<1>3. CASE \E code \in Replies : Answer(r, code)
  BY <1>1, <1>3, AnswerInv DEF IndInv, TypeOK
<1>4. CASE WellFormed(req[r]) /\ Goto(r, "refillSubject", ctx[r])
  <2>1. Fits("refillSubject", req[r], ctx[r])
    BY <1>2, <1>4 DEF Fits, Admitted
  <2> QED BY <1>1, <1>2, <1>4, <2>1, GotoInv DEF IndInv, TypeOK
<1>5. CASE WellFormed(req[r]) /\ userKey[u] \notin {Nil, Blank} /\ Goto(r, "write", c)
  <2>1. u \in Ids
    BY <1>2, <1>5 DEF WellFormed, CallType
  <2>2. userKey[u] \in Row
    BY <1>5, <2>1 DEF IndInv, TypeOK, StoreType
  <2>3. c \in CtxType /\ c.actor = ctx[r].actor /\ c.subject = userKey[u]
    BY <1>2, <2>2 DEF CtxType
  <2> HIDE DEF c
  <2>4. Fits("write", req[r], c)
    BY <1>2, <1>5, <2>2, <2>3 DEF Fits, Admitted
  <2> QED BY <1>1, <1>2, <1>5, <2>3, <2>4, GotoInv DEF IndInv, TypeOK
<1> QED BY <1>3, <1>4, <1>5 DEF LoadSubject, CachedUser, Fetched, Replies

\* An update writes a row or leaves the table alone, and answers.
LEMMA WriteRowInv ==
  ASSUME IndInv, NEW r \in Requests, NEW new, NEW failure \in Replies,
         UNCHANGED <<userKey, session, jwt, put>>,
         rows[req[r].id] # Nil => new \in Row,
         WriteRow(r, new, failure)
  PROVE  IndInv'
<1>1. \E code \in Replies : Answer(r, code)
  BY DEF WriteRow, Replies
<1>2. StoreType'
  BY DEF IndInv, TypeOK, StoreType, WriteRow
<1> QED BY <1>1, <1>2, AnswerInv DEF IndInv, TypeOK

LEMMA WritersInv ==
  ASSUME IndInv, NEW r \in Requests,
         \/ UpdateUser(r) \/ DeleteUser(r) \/ ActivateUser(r)
         \/ DeactivateUser(r) \/ ChangePassword(r)
  PROVE  IndInv'
<1> DEFINE u == req[r].id
<1>1. /\ pc[r] = "write" /\ Fits("write", req[r], ctx[r]) /\ req[r] \in CallType
      /\ UNCHANGED <<userKey, session, jwt, put>>
  BY DEF IndInv, TypeOK, FlowType, StageOK, UpdateUser, DeleteUser, ActivateUser,
         DeactivateUser, ChangePassword, Writing
<1>2. u \in Ids /\ ctx[r].subject \in Row /\ WellFormed(req[r])
  BY <1>1 DEF Fits, WellFormed, CallType
<1>3. rows[u] # Nil => rows[u] \in Row
  BY <1>2 DEF IndInv, TypeOK, StoreType
<1>4. CASE UpdateUser(r)
  <2>1. req[r].name \in Names
    BY <1>1, <1>2, <1>4 DEF UpdateUser, Writing, WellFormed, CallType
  <2>2. rows[u] # Nil => [rows[u] EXCEPT !.username = req[r].name] \in Row
    BY <1>3, <2>1 DEF Row
  <2> QED BY <1>1, <1>4, <2>2, WriteRowInv DEF UpdateUser, Replies
<1>5. CASE DeleteUser(r)
  <2>1. rows[u] # Nil => [rows[u] EXCEPT !.deleted = TRUE] \in Row
    BY <1>3 DEF Row
  <2> QED BY <1>1, <1>5, <2>1, WriteRowInv DEF DeleteUser, Replies
<1>6. CASE ActivateUser(r)
  <2>1. rows[u] # Nil => [rows[u] EXCEPT !.active = TRUE] \in Row
    BY <1>3 DEF Row
  <2> QED BY <1>1, <1>6, <2>1, WriteRowInv DEF ActivateUser, Replies
<1>7. CASE DeactivateUser(r)
  <2>1. rows[u] # Nil => [rows[u] EXCEPT !.active = FALSE] \in Row
    BY <1>3 DEF Row
  <2> QED BY <1>1, <1>7, <2>1, WriteRowInv DEF DeactivateUser, Replies
<1>8. CASE ChangePassword(r)
  <2>1. req[r].new \in Passwords
    BY <1>1, <1>2, <1>8 DEF ChangePassword, Writing, WellFormed, CallType
  <2>2. [ctx[r].subject EXCEPT !.pass = req[r].new] \in Row
    BY <1>2, <2>1 DEF Row
  <2> QED BY <1>1, <1>8, <2>2, WriteRowInv DEF ChangePassword, Replies
<1> QED BY <1>4, <1>5, <1>6, <1>7, <1>8

LEMMA PutInv ==
  ASSUME IndInv, NEW w \in Putters, PutProcess(w) \/ PutSet(w)
  PROVE  IndInv'
<1>1. FlowType' /\ StageOK'
  BY IdleInv DEF PutProcess, PutSet
<1>2. CASE PutProcess(w)
  <2>1. StoreType'
    BY <1>2 DEF IndInv, TypeOK, StoreType, PutProcess, Visible, store
  <2> QED BY <1>1, <2>1 DEF IndInv, TypeOK
<1>3. CASE PutSet(w)
  <2>1. NoPut \in [id : Ids \cup {Nil}, val : Row \cup {Nil, Blank}]
    BY DEF NoPut
  <2>2. put[w].val \in Row \cup {Nil, Blank}
    BY DEF IndInv, TypeOK, StoreType
  <2>3. StoreType'
    BY <1>3, <2>1, <2>2 DEF IndInv, TypeOK, StoreType, PutSet
  <2> QED BY <1>1, <2>3 DEF IndInv, TypeOK
<1> QED BY <1>2, <1>3

LEMMA ExpiryInv ==
  ASSUME IndInv,
         \/ \E t \in Tokens : ExpireJwt(t) \/ ExpireSession(t)
         \/ \E u \in Ids : ExpireUserKey(u)
  PROVE  IndInv'
<1>1. FlowType' /\ StageOK'
  BY IdleInv DEF ExpireJwt, ExpireSession, ExpireUserKey
<1>2. StoreType'
  BY DEF IndInv, TypeOK, StoreType, ExpireJwt, ExpireSession, ExpireUserKey, Jwt
<1> QED BY <1>1, <1>2 DEF IndInv, TypeOK

-----------------------------------------------------------------------------
(* The theorems. *)

LEMMA InitInv ==
  ASSUME Init
  PROVE  IndInv
<1>1. FlowType
  BY NoCallType DEF Init, FlowType, Stages
<1>2. NoPut \in [id : Ids \cup {Nil}, val : Row \cup {Nil, Blank}]
  BY DEF NoPut
<1>3. StoreType
  BY <1>2 DEF Init, StoreType, Jwt
<1>4. StageOK
  BY DEF Init, StageOK, Fits, Admitted, NoCall, Call
<1> QED BY <1>1, <1>3, <1>4 DEF IndInv, TypeOK

LEMMA NextInv ==
  ASSUME IndInv, [Next]_vars
  PROVE  IndInv'
<1>1. CASE UNCHANGED vars
  BY <1>1 DEF IndInv, TypeOK, StoreType, FlowType, StageOK, vars
<1>2. ASSUME NEW r \in Requests, Arrive(r) \/ Serve(r)
      PROVE  IndInv'
  BY <1>2, ArriveInv, LoginInv, SaveAuthInv, CheckTokenInv, LoadSessionInv, LoadMeInv,
     AnsweringInv, LogoutInv, LogoutDelInv, CreateUserInv, LoadSubjectInv, WritersInv
     DEF Serve
<1>3. ASSUME NEW w \in Putters, PutProcess(w) \/ PutSet(w)
      PROVE  IndInv'
  BY <1>3, PutInv
<1>4. CASE \/ \E t \in Tokens : ExpireJwt(t) \/ ExpireSession(t)
           \/ \E u \in Ids : ExpireUserKey(u)
  BY <1>4, ExpiryInv
<1> QED BY <1>1, <1>2, <1>3, <1>4 DEF Next

\* Every variable keeps its shape, and every request has at each stage what the
\* stages before it must have provided.
THEOREM TypeCorrect == Spec => [](TypeOK /\ StageOK)
<1>1. Init => IndInv
  BY InitInv
<1>2. IndInv /\ [Next]_vars => IndInv'
  BY NextInv
<1>3. IndInv <=> TypeOK /\ StageOK
  BY DEF IndInv
<1> QED BY <1>1, <1>2, <1>3, PTL DEF Spec

-----------------------------------------------------------------------------
(* Access tokens *)

UnusedHaveNoKey == \A t \in Tokens : jwt[t] = "unused" => session[t] = Nil

CarriesToken(r) ==
  /\ pc[r] = "idle" => req[r] = NoCall
  /\ pc[r] \in {"idle", "login", "jwt", "session"} => ctx[r].actor = Nil
  /\ req[r].tok # Nil => jwt[req[r].tok] # "unused"
  /\ req[r].dead => /\ req[r].tok # Nil
                    /\ Dead(req[r].tok)
                    /\ pc[r] \in {"jwt", "session"}
                    /\ pc[r] = "session" => session[req[r].tok] = Nil

TokenInv ==
  /\ IndInv
  /\ UnusedHaveNoKey
  /\ \A r \in Requests : CarriesToken(r)

-----------------------------------------------------------------------------
(* What a step does to the request that takes it. *)

Ended(r) == pc'[r] = "idle" /\ req'[r] = NoCall /\ ctx'[r] = NoCtx

Moved(r) ==
  /\ req'[r] = req[r]
  /\ \/ pc[r] = "login" /\ pc'[r] = "saveAuth"
     \/ /\ pc[r] = "jwt" /\ pc'[r] = "session"
        /\ jwt[req[r].tok] # "expired" /\ ctx'[r] = ctx[r]
     \/ /\ pc[r] = "session" /\ pc'[r] = "me"
        /\ session[req[r].tok] # Nil
        /\ ctx'[r].actor = session[req[r].tok]
     \/ /\ pc[r] \in Admitted /\ pc'[r] \in Admitted
        /\ ctx'[r].actor = ctx[r].actor

OthersSame(r) ==
  \A q \in Requests \ {r} : pc'[q] = pc[q] /\ req'[q] = req[q] /\ ctx'[q] = ctx[q]

LEMMA AnswerEnds ==
  ASSUME IndInv, NEW r \in Requests, NEW code, Answer(r, code)
  PROVE  Ended(r) /\ OthersSame(r)
BY DEF IndInv, TypeOK, FlowType, Answer, Ended, OthersSame

LEMMA GotoMoves ==
  ASSUME IndInv, NEW r \in Requests, NEW stage, NEW c, Goto(r, stage, c)
  PROVE  pc'[r] = stage /\ req'[r] = req[r] /\ ctx'[r] = c /\ OthersSame(r)
BY DEF IndInv, TypeOK, FlowType, Goto, OthersSame

\* A step of a handler ends its request or moves it on, and touches no other.
LEMMA ServeShape ==
  ASSUME IndInv, NEW r \in Requests, Serve(r)
  PROVE  OthersSame(r) /\ (Ended(r) \/ Moved(r))
<1>1. ctx[r] \in CtxType
  BY DEF IndInv, TypeOK, FlowType
<1>2. \A u : /\ [ctx[r] EXCEPT !.actor = u].actor = u
             /\ [ctx[r] EXCEPT !.me = u].actor = ctx[r].actor
             /\ [ctx[r] EXCEPT !.subject = u].actor = ctx[r].actor
  BY <1>1 DEF CtxType
<1>3. CASE \E code : Answer(r, code)
  BY <1>3, AnswerEnds
<1>4. CASE Login(r) /\ \E u : Goto(r, "saveAuth", [ctx[r] EXCEPT !.actor = u])
  BY <1>4, GotoMoves DEF Login, Moved
<1>5. CASE CheckToken(r) /\ jwt[req[r].tok] # "expired" /\ Goto(r, "session", ctx[r])
  BY <1>5, GotoMoves DEF CheckToken, Moved
<1>6. CASE /\ LoadSession(r) /\ session[req[r].tok] # Nil
           /\ Goto(r, "me", [ctx[r] EXCEPT !.actor = session[req[r].tok]])
  <2> DEFINE c == [ctx[r] EXCEPT !.actor = session[req[r].tok]]
  <2>1. c.actor = session[req[r].tok]
    BY <1>2
  <2> HIDE DEF c
  <2>2. pc'[r] = "me" /\ req'[r] = req[r] /\ ctx'[r] = c /\ OthersSame(r)
    BY <1>6, GotoMoves DEF c
  <2> QED BY <1>6, <2>1, <2>2 DEF LoadSession, Moved
<1>7. CASE /\ pc[r] \in Admitted
           /\ \E stage \in Admitted : \E u :
                \/ Goto(r, stage, ctx[r])
                \/ Goto(r, stage, [ctx[r] EXCEPT !.me = u])
                \/ Goto(r, stage, [ctx[r] EXCEPT !.subject = u])
  <2>1. PICK stage, c : stage \in Admitted /\ c.actor = ctx[r].actor /\ Goto(r, stage, c)
    BY <1>7, <1>2
  <2>2. pc'[r] = stage /\ req'[r] = req[r] /\ ctx'[r] = c /\ OthersSame(r)
    BY <2>1, GotoMoves
  <2> QED BY <1>7, <2>1, <2>2 DEF Moved
<1>8. CASE Login(r)
  BY <1>3, <1>4, <1>8 DEF Login
<1>9. CASE SaveAuth(r) \/ Refill(r) \/ CurrentUser(r) \/ LogoutDel(r) \/ CreateUser(r)
  BY <1>3, <1>9 DEF SaveAuth, Refill, CurrentUser, LogoutDel, CreateUser
<1>10. CASE CheckToken(r)
  BY <1>3, <1>5, <1>10 DEF CheckToken
<1>11. CASE LoadSession(r)
  BY <1>3, <1>6, <1>11 DEF LoadSession
<1>12. CASE LoadMe(r)
  BY <1>3, <1>7, <1>12 DEF LoadMe, CachedUser, Admit, Admitted
<1>13. CASE Logout(r)
  BY <1>3, <1>7, <1>13 DEF Logout, Admitted
<1>14. CASE LoadSubject(r)
  BY <1>3, <1>7, <1>14 DEF LoadSubject, CachedUser, Fetched, Admitted
<1>15. CASE \/ UpdateUser(r) \/ DeleteUser(r) \/ ActivateUser(r)
            \/ DeactivateUser(r) \/ ChangePassword(r)
  BY <1>3, <1>15 DEF UpdateUser, DeleteUser, ActivateUser, DeactivateUser,
                     ChangePassword, WriteRow
<1> QED BY <1>8, <1>9, <1>10, <1>11, <1>12, <1>13, <1>14, <1>15 DEF Serve

-----------------------------------------------------------------------------
(* What a step does to the tokens. *)

\* A token in use may lose its key and may expire, and nothing else.
TokensAge ==
  \A t \in Tokens :
    jwt[t] # "unused" =>
      /\ jwt'[t] # "unused"
      /\ session'[t] \in {session[t], Nil}
      /\ jwt[t] = "expired" => jwt'[t] = "expired"

LEMMA NextTokens ==
  ASSUME TokenInv, [Next]_vars
  PROVE  UnusedHaveNoKey' /\ TokensAge
<1> USE DEF TokenInv, IndInv, TypeOK, StoreType
<1>1. CASE UNCHANGED <<session, jwt>>
  BY <1>1 DEF UnusedHaveNoKey, TokensAge
<1>2. ASSUME NEW r \in Requests, SaveAuth(r)
      PROVE  UnusedHaveNoKey' /\ TokensAge
  BY <1>1, <1>2 DEF SaveAuth, UnusedHaveNoKey, TokensAge
<1>3. ASSUME NEW r \in Requests, LogoutDel(r)
      PROVE  UnusedHaveNoKey' /\ TokensAge
  BY <1>3 DEF LogoutDel, UnusedHaveNoKey, TokensAge
<1>4. ASSUME NEW t \in Tokens, ExpireJwt(t) \/ ExpireSession(t)
      PROVE  UnusedHaveNoKey' /\ TokensAge
  BY <1>4 DEF ExpireJwt, ExpireSession, UnusedHaveNoKey, TokensAge
<1>5. ASSUME NEW r \in Requests, Arrive(r) \/ Serve(r)
      PROVE  SaveAuth(r) \/ LogoutDel(r) \/ UNCHANGED <<session, jwt>>
  BY <1>5 DEF Arrive, Serve, Login, CheckToken, LoadSession, LoadMe, Refill,
       CurrentUser, Logout, CreateUser, LoadSubject, UpdateUser, DeleteUser,
       ActivateUser, DeactivateUser, ChangePassword, Writing, store
<1>6. CASE \/ \E w \in Putters : PutProcess(w) \/ PutSet(w)
           \/ \E u \in Ids : ExpireUserKey(u)
           \/ UNCHANGED vars
  BY <1>1, <1>6 DEF PutProcess, PutSet, ExpireUserKey, store, vars
<1> QED BY <1>1, <1>2, <1>3, <1>4, <1>5, <1>6 DEF Next

\* A request that a step leaves alone goes on carrying its token.
LEMMA CarriesStays ==
  ASSUME TokenInv, TokensAge, NEW r \in Requests,
         pc'[r] = pc[r], req'[r] = req[r], ctx'[r] = ctx[r]
  PROVE  CarriesToken(r)'
<1>1. CarriesToken(r) /\ req[r].tok \in Tokens \cup {Nil}
  BY DEF TokenInv, IndInv, TypeOK, FlowType, CallType
<1>2. req[r].tok # Nil => jwt'[req[r].tok] # "unused"
  BY <1>1 DEF CarriesToken, TokensAge
<1>3. req[r].dead => /\ (jwt'[req[r].tok] = "expired" \/ session'[req[r].tok] = Nil)
                     /\ pc[r] = "session" => session'[req[r].tok] = Nil
  BY <1>1 DEF CarriesToken, TokensAge, Dead
<1> QED BY <1>1, <1>2, <1>3 DEF CarriesToken, Dead

LEMMA CarriesMoved ==
  ASSUME TokenInv, TokensAge, NEW r \in Requests, Ended(r) \/ Moved(r)
  PROVE  CarriesToken(r)'
<1>1. CASE Ended(r)
  BY <1>1 DEF Ended, CarriesToken, NoCall, NoCtx, Call
<1>2. CASE Moved(r)
  <2>1. CarriesToken(r) /\ req[r].tok \in Tokens \cup {Nil} /\ req'[r] = req[r]
    BY <1>2 DEF TokenInv, IndInv, TypeOK, FlowType, CallType, Moved
  <2>2. req[r].tok # Nil => jwt'[req[r].tok] # "unused"
    BY <2>1 DEF CarriesToken, TokensAge
  <2>3. pc'[r] \in {"session", "saveAuth"} \cup Admitted
    BY <1>2 DEF Moved, Admitted
  <2>4. pc'[r] = "session" => ctx'[r].actor = Nil
    BY <1>2, <2>1 DEF Moved, CarriesToken, Admitted
  <2>5. req[r].dead => /\ pc'[r] = "session"
                       /\ session'[req[r].tok] = Nil
    BY <1>2, <2>1 DEF Moved, CarriesToken, TokensAge, Dead, Admitted
  <2> QED BY <2>1, <2>2, <2>3, <2>4, <2>5 DEF CarriesToken, Dead, Admitted
<1> QED BY <1>1, <1>2

LEMMA CarriesArrived ==
  ASSUME TokenInv, NEW r \in Requests, Arrive(r)
  PROVE  CarriesToken(r)' /\ OthersSame(r)
<1>0. PICK ep \in Endpoints : \E a \in Arguments(ep), t \in Bearers :
        /\ NeedsAuth(ep) \/ t = Nil
        /\ req' = [req EXCEPT ![r] = Call(ep, a.id, a.name, a.old, a.new, t, Dead(t))]
        /\ pc' = [pc EXCEPT ![r] = IF NeedsAuth(ep) THEN "jwt" ELSE "login"]
        /\ ctx' = ctx /\ UNCHANGED <<session, jwt>> /\ pc[r] = "idle"
  BY DEF Arrive, store
<1>1. PICK a \in Arguments(ep), t \in Bearers :
        /\ NeedsAuth(ep) \/ t = Nil
        /\ req' = [req EXCEPT ![r] = Call(ep, a.id, a.name, a.old, a.new, t, Dead(t))]
        /\ pc' = [pc EXCEPT ![r] = IF NeedsAuth(ep) THEN "jwt" ELSE "login"]
        /\ ctx' = ctx /\ UNCHANGED <<session, jwt>> /\ pc[r] = "idle"
  BY <1>0
<1> DEFINE c == Call(ep, a.id, a.name, a.old, a.new, t, Dead(t))
<1>2. c.tok = t /\ c.dead = Dead(t)
  BY DEF Call
<1>3. /\ req'[r] = c /\ pc'[r] = IF NeedsAuth(ep) THEN "jwt" ELSE "login"
      /\ OthersSame(r) /\ ctx'[r].actor = Nil
  BY <1>1 DEF TokenInv, IndInv, TypeOK, FlowType, OthersSame, CarriesToken
<1>4. t # Nil => jwt[t] # "unused"
  BY DEF Bearers
<1>5. Dead(t) => t # Nil /\ (jwt'[t] = "expired" \/ session'[t] = Nil)
  BY <1>1 DEF Dead
<1>6. Dead(t) => pc'[r] = "jwt"
  BY <1>1, <1>3, <1>5
<1>7. t # Nil => jwt'[t] # "unused"
  BY <1>1, <1>4
<1> HIDE DEF c
<1>8. /\ req'[r].tok = t
      /\ req'[r].dead = Dead(t)
      /\ pc'[r] \in {"jwt", "login"}
  BY <1>2, <1>3
<1> QED BY <1>3, <1>5, <1>6, <1>7, <1>8 DEF CarriesToken, Dead

LEMMA NextTokenInv ==
  ASSUME TokenInv, [Next]_vars
  PROVE  TokenInv'
<1>1. IndInv'
  BY NextInv DEF TokenInv
<1>2. UnusedHaveNoKey' /\ TokensAge
  BY NextTokens
<1>3. ASSUME NEW r \in Requests, Arrive(r) \/ Serve(r), NEW q \in Requests
      PROVE  CarriesToken(q)'
  <2>1. OthersSame(r) /\ CarriesToken(r)'
    BY <1>2, <1>3, ServeShape, CarriesMoved, CarriesArrived DEF TokenInv
  <2> QED BY <1>2, <2>1, CarriesStays DEF OthersSame
<1>4. ASSUME UNCHANGED <<pc, req, ctx>>, NEW q \in Requests
      PROVE  CarriesToken(q)'
  BY <1>2, <1>4, CarriesStays
<1>5. CASE UNCHANGED <<pc, req, ctx>>
  BY <1>1, <1>2, <1>4, <1>5 DEF TokenInv
<1>6. CASE \E r \in Requests : Arrive(r) \/ Serve(r)
  BY <1>1, <1>2, <1>3, <1>6 DEF TokenInv
<1> QED BY <1>5, <1>6 DEF Next, PutProcess, PutSet, ExpireJwt, ExpireSession,
                          ExpireUserKey, vars

LEMMA InitTokenInv ==
  ASSUME Init
  PROVE  TokenInv
<1>1. IndInv
  BY InitInv
<1>2. \A r \in Requests : CarriesToken(r)
  BY DEF Init, CarriesToken, NoCall, NoCtx, Call
<1> QED BY <1>1, <1>2 DEF TokenInv, UnusedHaveNoKey, Init

\* A token whose session was logged out or ran out, or whose exp is past, when
\* it arrives never brings its request as far as loading a user.
THEOREM RevokedRefused == Spec => []RevokedTokenRefused
<1>1. Init => TokenInv
  BY InitTokenInv
<1>2. TokenInv /\ [Next]_vars => TokenInv'
  BY NextTokenInv
<1>3. TokenInv => RevokedTokenRefused
  BY DEF TokenInv, CarriesToken, RevokedTokenRefused
<1> QED BY <1>1, <1>2, <1>3, PTL DEF Spec

-----------------------------------------------------------------------------
(* Accounts implements SessionLedger. *)

Owner(t) == IF session[t] # Nil THEN session[t]
            ELSE IF jwt[t] = "unused" THEN "fresh" ELSE "closed"
Actor(r) == IF req[r].tok = Nil THEN Nil ELSE ctx[r].actor

ledgerMap == [t \in Tokens |-> Owner(t)]
presentedMap == [r \in Requests |-> req[r].tok]
actingMap == [r \in Requests |-> Actor(r)]

\* The ledger's actions, said of the three maps.
LEMMA LedgerStutter ==
  ASSUME ledgerMap' = ledgerMap, presentedMap' = presentedMap, actingMap' = actingMap
  PROVE  UNCHANGED Ledger!lvars
BY DEF Ledger!lvars, ledgerMap, presentedMap, actingMap, Owner, Actor

LEMMA LedgerTokens ==
  ASSUME NEW t \in Tokens, presentedMap' = presentedMap, actingMap' = actingMap
  PROVE  /\ \A u \in Ids :
              ledgerMap[t] = "fresh" /\ ledgerMap' = [ledgerMap EXCEPT ![t] = u]
              => Ledger!Open(t, u)
         /\ ledgerMap[t] \in Ids /\ ledgerMap' = [ledgerMap EXCEPT ![t] = "closed"]
            => Ledger!Close(t)
BY DEF Ledger!Open, Ledger!Close, ledgerMap, presentedMap, actingMap, Owner, Actor

LEMMA LedgerPresent ==
  ASSUME NEW r \in Requests, NEW t \in Tokens,
         presentedMap[r] = Nil, ledgerMap[t] # "fresh",
         ledgerMap' = ledgerMap,
         presentedMap' = [presentedMap EXCEPT ![r] = t],
         actingMap' = actingMap
  PROVE  Ledger!Present(r, t)
BY DEF Ledger!Present, ledgerMap, presentedMap, actingMap, Owner, Actor

LEMMA LedgerAdmit ==
  ASSUME NEW r \in Requests,
         presentedMap[r] # Nil, actingMap[r] = Nil, ledgerMap[presentedMap[r]] \in Ids,
         ledgerMap' = ledgerMap,
         presentedMap' = presentedMap,
         actingMap' = [actingMap EXCEPT ![r] = ledgerMap[presentedMap[r]]]
  PROVE  Ledger!Admit(r)
BY DEF Ledger!Admit, ledgerMap, presentedMap, actingMap, Owner, Actor

LEMMA LedgerLeave ==
  ASSUME NEW r \in Requests,
         ledgerMap' = ledgerMap,
         presentedMap' = [presentedMap EXCEPT ![r] = Nil],
         actingMap' = [actingMap EXCEPT ![r] = Nil]
  PROVE  Ledger!Leave(r)
BY DEF Ledger!Leave, ledgerMap, presentedMap, actingMap, Owner, Actor

LEMMA LedgerSignOut ==
  ASSUME NEW r \in Requests,
         actingMap[r] # Nil, ledgerMap[presentedMap[r]] \in Ids,
         ledgerMap' = [ledgerMap EXCEPT ![presentedMap[r]] = "closed"],
         presentedMap' = [presentedMap EXCEPT ![r] = Nil],
         actingMap' = [actingMap EXCEPT ![r] = Nil]
  PROVE  Ledger!SignOut(r)
BY DEF Ledger!SignOut, ledgerMap, presentedMap, actingMap, Owner, Actor

LEMMA InitLedger ==
  ASSUME Init
  PROVE  Ledger!LedgerInit
BY DEF Init, Ledger!LedgerInit, NoCall, NoCtx, Call

LEMMA LedgerSame ==
  ASSUME UNCHANGED <<session, jwt>>
  PROVE  ledgerMap' = ledgerMap
BY DEF ledgerMap, Owner

LEMMA RequestsSame ==
  ASSUME UNCHANGED <<pc, req, ctx>>
  PROVE  presentedMap' = presentedMap /\ actingMap' = actingMap
BY DEF presentedMap, actingMap, Actor

\* When a request ends or arrives, the maps change at that request only.
LEMMA OneRequest ==
  ASSUME NEW r \in Requests, OthersSame(r)
  PROVE  /\ presentedMap' = [presentedMap EXCEPT ![r] = req'[r].tok]
         /\ actingMap' = [actingMap EXCEPT ![r] = IF req'[r].tok = Nil THEN Nil
                                                  ELSE ctx'[r].actor]
BY DEF OthersSame, presentedMap, actingMap, Actor

LEMMA EndedLedger ==
  ASSUME NEW r \in Requests, OthersSame(r), Ended(r)
  PROVE  /\ presentedMap' = [presentedMap EXCEPT ![r] = Nil]
         /\ actingMap' = [actingMap EXCEPT ![r] = Nil]
<1>1. req'[r].tok = Nil
  BY DEF Ended, NoCall, Call
<1> QED BY <1>1, OneRequest

LEMMA LedgerStep ==
  ASSUME TokenInv, [Next]_vars
  PROVE  [Ledger!LedgerNext]_(Ledger!lvars)
<1> DEFINE Stutter == /\ ledgerMap' = ledgerMap
                      /\ presentedMap' = presentedMap
                      /\ actingMap' = actingMap
<1>0. Stutter => UNCHANGED Ledger!lvars
  BY LedgerStutter
<1>1. ASSUME NEW r \in Requests, Arrive(r)
      PROVE  Stutter \/ \E t \in Tokens : Ledger!Present(r, t)
  <2>1. /\ ledgerMap' = ledgerMap /\ OthersSame(r) /\ ctx'[r] = ctx[r]
        /\ presentedMap[r] = Nil /\ req[r].tok = Nil /\ ctx[r].actor = Nil
    <3>1. UNCHANGED <<session, jwt>> /\ ctx' = ctx /\ pc[r] = "idle"
      BY <1>1 DEF Arrive, store
    <3>2. req[r] = NoCall /\ ctx[r].actor = Nil
      BY <3>1 DEF TokenInv, CarriesToken
    <3>3. req[r].tok = Nil
      BY <3>2 DEF NoCall, Call
    <3> QED BY <1>1, <3>1, <3>2, <3>3, LedgerSame, CarriesArrived DEF presentedMap
  <2>2. actingMap[r] = Nil /\ actingMap' = actingMap
    <3>1. actingMap[r] = Nil
      BY <2>1 DEF actingMap, Actor
    <3>2. actingMap' = [actingMap EXCEPT ![r] = Nil]
      BY <2>1, OneRequest
    <3> QED BY <3>1, <3>2 DEF actingMap
  <2>3. req'[r].tok \in Tokens \cup {Nil}
    BY <1>1, NextInv DEF TokenInv, IndInv, TypeOK, FlowType, CallType
  <2>4. CASE req'[r].tok = Nil
    BY <2>1, <2>2, <2>4, OneRequest DEF presentedMap
  <2>5. CASE req'[r].tok # Nil
    <3> DEFINE t == req'[r].tok
    <3>1. t \in Tokens /\ jwt[t] # "unused"
      BY <1>1, <2>3, <2>5, CarriesArrived DEF CarriesToken, Arrive, store
    <3>2. ledgerMap[t] # "fresh"
      BY <3>1, AccountsAssumption DEF ledgerMap, Owner, TokenInv, IndInv, TypeOK, StoreType
    <3>3. presentedMap' = [presentedMap EXCEPT ![r] = t]
      BY <2>1, OneRequest
    <3> QED BY <2>1, <2>2, <3>1, <3>2, <3>3, LedgerPresent
  <2> QED BY <2>4, <2>5
<1>2. ASSUME NEW r \in Requests, SaveAuth(r)
      PROVE  Ledger!Leave(r) \/ \E t \in Tokens, u \in Ids : Ledger!Open(t, u)
  <2>1. /\ presentedMap' = [presentedMap EXCEPT ![r] = Nil]
        /\ actingMap' = [actingMap EXCEPT ![r] = Nil]
    BY <1>2, AnswerEnds, EndedLedger DEF SaveAuth, TokenInv
  <2>2. CASE UNCHANGED <<session, jwt>>
    BY <2>1, <2>2, LedgerSame, LedgerLeave
  <2>3. CASE \E t \in Tokens :
               /\ jwt[t] = "unused" /\ session' = [session EXCEPT ![t] = ctx[r].actor]
               /\ \E o \in {"valid", "orphan"} : jwt' = [jwt EXCEPT ![t] = o]
    <3>1. PICK t \in Tokens :
               /\ jwt[t] = "unused" /\ session' = [session EXCEPT ![t] = ctx[r].actor]
               /\ \E o \in {"valid", "orphan"} : jwt' = [jwt EXCEPT ![t] = o]
      BY <2>3
    <3>2. ctx[r].actor \in Ids /\ req[r].tok = Nil
      BY <1>2 DEF TokenInv, IndInv, StageOK, Fits, SaveAuth
    <3>3. ledgerMap[t] = "fresh"
      BY <3>1 DEF TokenInv, UnusedHaveNoKey, ledgerMap, Owner
    <3>4. ledgerMap' = [ledgerMap EXCEPT ![t] = ctx[r].actor]
      BY <3>1, <3>2, AccountsAssumption
         DEF TokenInv, IndInv, TypeOK, StoreType, ledgerMap, Owner
    <3>5. presentedMap' = presentedMap /\ actingMap' = actingMap
      BY <2>1, <3>2 DEF presentedMap, actingMap, Actor
    <3> QED BY <3>2, <3>3, <3>4, <3>5, LedgerTokens
  <2> QED BY <1>2, <2>2, <2>3 DEF SaveAuth
<1>3. ASSUME NEW r \in Requests, LogoutDel(r)
      PROVE  Ledger!Leave(r) \/ Ledger!SignOut(r)
  <2>1. /\ presentedMap' = [presentedMap EXCEPT ![r] = Nil]
        /\ actingMap' = [actingMap EXCEPT ![r] = Nil]
    BY <1>3, AnswerEnds, EndedLedger DEF LogoutDel, TokenInv
  <2> DEFINE t == req[r].tok
  <2>2. t \in Tokens /\ ctx[r].actor \in Ids
    BY <1>3 DEF TokenInv, IndInv, StageOK, Fits, Admitted, LogoutDel
  <2>3. CASE session' = session \/ session[t] = Nil
    <3>1. UNCHANGED <<session, jwt>>
      BY <1>3, <2>2, <2>3 DEF LogoutDel, TokenInv, IndInv, TypeOK, StoreType
    <3> QED BY <2>1, <3>1, LedgerSame, LedgerLeave
  <2>4. CASE session[t] # Nil /\ session' = [session EXCEPT ![t] = Nil]
    <3>1. ledgerMap[t] \in Ids
      BY <2>2, <2>4 DEF TokenInv, IndInv, TypeOK, StoreType, ledgerMap, Owner
    <3>2. jwt[t] # "unused" /\ jwt' = jwt
      BY <1>3, <2>2, <2>4 DEF TokenInv, UnusedHaveNoKey, LogoutDel
    <3>3. ledgerMap' = [ledgerMap EXCEPT ![t] = "closed"]
      BY <2>2, <2>4, <3>2 DEF TokenInv, IndInv, TypeOK, StoreType, ledgerMap, Owner
    <3>4. presentedMap[r] = t /\ actingMap[r] # Nil
      BY <2>2, AccountsAssumption DEF presentedMap, actingMap, Actor
    <3> QED BY <2>1, <3>1, <3>3, <3>4, LedgerSignOut
  <2> QED BY <1>3, <2>3, <2>4 DEF LogoutDel
<1>4. ASSUME NEW r \in Requests, Serve(r), UNCHANGED <<session, jwt>>
      PROVE  Stutter \/ Ledger!Admit(r) \/ Ledger!Leave(r)
  <2>1. ledgerMap' = ledgerMap /\ OthersSame(r)
    BY <1>4, LedgerSame, ServeShape DEF TokenInv
  <2>2. CASE Ended(r)
    BY <2>1, <2>2, EndedLedger, LedgerLeave
  <2>3. CASE Moved(r)
    <3>1. presentedMap' = presentedMap
      BY <2>1, <2>3, OneRequest DEF Moved, presentedMap
    <3>2. CASE pc[r] = "session"
      <4> DEFINE t == req[r].tok
      <4>1. t \in Tokens /\ ctx[r].actor = Nil /\ session[t] # Nil
        BY <2>3, <3>2 DEF TokenInv, IndInv, StageOK, Fits, CarriesToken, Moved, Admitted
      <4>2. ledgerMap[t] = session[t] /\ session[t] \in Ids
        BY <4>1 DEF TokenInv, IndInv, TypeOK, StoreType, ledgerMap, Owner
      <4>3. presentedMap[r] = t /\ t # Nil /\ actingMap[r] = Nil
        BY <4>1, AccountsAssumption DEF presentedMap, actingMap, Actor
      <4>4. ctx'[r].actor = session[t] /\ req'[r] = req[r]
        BY <2>3, <3>2 DEF Moved, Admitted
      <4>5. actingMap' = [actingMap EXCEPT ![r] = session[t]]
        BY <2>1, <4>3, <4>4, OneRequest
      <4> QED BY <2>1, <3>1, <4>2, <4>3, <4>5, LedgerAdmit
    <3>3. CASE pc[r] # "session"
      <4>1. req'[r] = req[r]
        BY <2>3 DEF Moved
      <4>2. req[r].tok = Nil \/ ctx'[r].actor = ctx[r].actor
        BY <2>3, <3>3 DEF Moved, TokenInv, IndInv, StageOK, Fits
      <4>3. actingMap' = actingMap
        BY <2>1, <4>1, <4>2, OneRequest DEF actingMap, Actor
      <4> QED BY <2>1, <3>1, <4>3
    <3> QED BY <3>2, <3>3
  <2> QED BY <1>4, <2>2, <2>3, ServeShape DEF TokenInv
<1>5. ASSUME NEW t \in Tokens, ExpireJwt(t)
      PROVE  Stutter
  <2>1. ledgerMap' = ledgerMap
    BY <1>5 DEF ExpireJwt, ledgerMap, Owner, TokenInv, IndInv, TypeOK, StoreType
  <2> QED BY <1>5, <2>1, RequestsSame DEF ExpireJwt
<1>6. ASSUME NEW t \in Tokens, ExpireSession(t)
      PROVE  Ledger!Close(t)
  <2>1. jwt[t] # "unused" /\ session[t] \in Ids
    BY <1>6 DEF ExpireSession, TokenInv, UnusedHaveNoKey, IndInv, TypeOK, StoreType
  <2>2. ledgerMap[t] \in Ids
    BY <2>1, <1>6 DEF ExpireSession, ledgerMap, Owner
  <2>3. ledgerMap' = [ledgerMap EXCEPT ![t] = "closed"]
    BY <1>6, <2>1 DEF ExpireSession, ledgerMap, Owner, TokenInv, IndInv, TypeOK, StoreType
  <2> QED BY <1>6, <2>2, <2>3, RequestsSame, LedgerTokens DEF ExpireSession
<1>7. CASE \/ \E w \in Putters : PutProcess(w) \/ PutSet(w)
           \/ \E u \in Ids : ExpireUserKey(u)
           \/ UNCHANGED vars
  <2>1. UNCHANGED <<session, jwt, pc, req, ctx>>
    BY <1>7 DEF PutProcess, PutSet, ExpireUserKey, store, vars
  <2> QED BY <1>0, <2>1, LedgerSame, RequestsSame
<1>8. ASSUME NEW r \in Requests, Serve(r)
      PROVE  SaveAuth(r) \/ LogoutDel(r) \/ UNCHANGED <<session, jwt>>
  BY <1>8 DEF Serve, Login, CheckToken, LoadSession, LoadMe, Refill,
       CurrentUser, Logout, CreateUser, LoadSubject, UpdateUser, DeleteUser,
       ActivateUser, DeactivateUser, ChangePassword, Writing, store
<1> HIDE DEF Stutter
<1>9. ASSUME NEW r \in Requests, Arrive(r) \/ Serve(r)
      PROVE  Stutter \/ Ledger!LedgerNext
  BY <1>1, <1>2, <1>3, <1>4, <1>8, <1>9 DEF Ledger!LedgerNext
<1>10. ASSUME NEW t \in Tokens, ExpireJwt(t) \/ ExpireSession(t)
       PROVE  Stutter \/ Ledger!LedgerNext
  BY <1>5, <1>6, <1>10 DEF Ledger!LedgerNext
<1> QED BY <1>0, <1>7, <1>9, <1>10 DEF Next

\* Accounts implements SessionLedger: issuing, closing and presenting tokens are
\* steps of the ledger, and all else leaves it alone.
THEOREM LedgerKept == Spec => TokensKeepLedger
<1>1. Init => TokenInv /\ Ledger!LedgerInit
  BY InitTokenInv, InitLedger
<1>2. TokenInv /\ [Next]_vars => TokenInv'
  BY NextTokenInv
<1>3. TokenInv /\ [Next]_vars => [Ledger!LedgerNext]_(Ledger!lvars)
  BY LedgerStep
<1> QED BY <1>1, <1>2, <1>3, PTL DEF Spec, TokensKeepLedger, Ledger!LedgerSpec

-----------------------------------------------------------------------------
(* User records *)

\* The stages that a request reaches while its user is not cached.
ColdStages == {"idle", "login", "saveAuth", "jwt", "session", "me"}

ColdInv ==
  /\ IndInv
  /\ \A u \in Ids : userKey[u] = Nil
  /\ \A r \in Requests : pc[r] \in ColdStages

LEMMA ColdStep ==
  ASSUME Putters = {}, ColdInv, [Next]_vars
  PROVE  ColdInv' /\ rows' = rows
<1>1. IndInv'
  BY NextInv DEF ColdInv
<1>2. CASE UNCHANGED vars
  BY <1>1, <1>2 DEF vars, ColdInv
<1>3. ASSUME NEW r \in Requests, Arrive(r)
      PROVE  ColdInv' /\ rows' = rows
  <2>1. UNCHANGED <<rows, userKey>> /\ pc'[r] \in ColdStages /\ OthersSame(r)
    <3>1. PICK s \in {"jwt", "login"} : pc' = [pc EXCEPT ![r] = s]
      BY <1>3 DEF Arrive
    <3>2. OthersSame(r)
      BY <1>3 DEF Arrive, ColdInv, IndInv, TypeOK, FlowType, OthersSame
    <3> QED BY <1>3, <3>1, <3>2
            DEF Arrive, store, ColdStages, ColdInv, IndInv, TypeOK, FlowType
  <2> QED BY <1>1, <2>1 DEF ColdInv, OthersSame
<1>4. ASSUME NEW r \in Requests, Serve(r)
      PROVE  ColdInv' /\ rows' = rows
  <2>1. OthersSame(r) /\ (Ended(r) \/ Moved(r))
    BY <1>4, ServeShape DEF ColdInv
  <2>2. \/ Login(r) \/ SaveAuth(r) \/ CheckToken(r) \/ LoadSession(r) \/ LoadMe(r)
    BY <1>4 DEF ColdInv, ColdStages, Serve, Refill, CurrentUser, Logout, LogoutDel,
       CreateUser, LoadSubject, UpdateUser, DeleteUser, ActivateUser, DeactivateUser,
       ChangePassword, Writing
  <2>3. UNCHANGED <<rows, userKey>>
    BY <2>2 DEF Login, SaveAuth, CheckToken, LoadSession, LoadMe, store
  <2>4. pc[r] = "me" => Ended(r)
    <3>1. CASE LoadMe(r)
      <4>1. ctx[r].actor \in Ids
        BY <3>1 DEF LoadMe, ColdInv, IndInv, StageOK, Fits, Admitted
      <4>2. Answer(r, "ServerError")
        BY <3>1, <4>1, AccountsAssumption DEF LoadMe, CachedUser, ColdInv
      <4> QED BY <4>2, AnswerEnds DEF ColdInv
    <3> QED BY <2>2, <3>1 DEF Login, SaveAuth, CheckToken, LoadSession
  <2>5. pc'[r] \in ColdStages
    BY <2>1, <2>4 DEF Ended, Moved, ColdStages, ColdInv, Admitted
  <2> QED BY <1>1, <2>1, <2>3, <2>5 DEF ColdInv, OthersSame
<1>5. CASE \/ \E t \in Tokens : ExpireJwt(t) \/ ExpireSession(t)
           \/ \E u \in Ids : ExpireUserKey(u)
  BY <1>1, <1>5 DEF ColdInv, ExpireJwt, ExpireSession, ExpireUserKey
<1> QED BY <1>2, <1>3, <1>4, <1>5 DEF Next

\* While nobody calls CachePut no request changes the users table.
THEOREM ColdTable ==
  ASSUME Putters = {}
  PROVE  Spec => AccountsFrozen
<1>1. Init => ColdInv
  BY InitInv DEF ColdInv, Init, ColdStages
<1>2. ColdInv /\ [Next]_vars => ColdInv' /\ [rows' = rows]_vars
  BY ColdStep
<1> QED BY <1>1, <1>2, PTL DEF Spec, AccountsFrozen

-----------------------------------------------------------------------------
(* Records keep their identity. *)

\* Before its session is looked up a request has no record, and its user is the
\* one that the record will be looked up by.
KeepsRecords(r) ==
  /\ pc[r] \in {"idle", "login", "jwt", "session"} => ctx[r] = NoCtx
  /\ ctx[r].me # Nil => ctx[r].me.id = ctx[r].actor
  /\ ctx[r].subject # Nil => ctx[r].subject.id = req[r].id

StoreKeeps ==
  /\ \A u \in Ids : /\ rows[u] # Nil => rows[u].id = u
                    /\ userKey[u] \notin {Nil, Blank} => userKey[u].id = u
  /\ \A w \in Putters : put[w].val \notin {Nil, Blank} => put[w].val.id = put[w].id

RecordInv == IndInv /\ StoreKeeps /\ \A r \in Requests : KeepsRecords(r)

LEMMA NoRecords == NoCtx.me = Nil /\ NoCtx.subject = Nil
BY DEF NoCtx

\* What a step does to the users table: it puts a row into a free place, or
\* changes the row of the id in the path.
Created(r) ==
  \E u \in Ids, new \in Row :
    rows[u] = Nil /\ new.id = u /\ rows' = [rows EXCEPT ![u] = new]

Changed(r, new) ==
  /\ rows[req[r].id] \in Row /\ new \in Row
  /\ rows' = [rows EXCEPT ![req[r].id] = new]

Changes(r) ==
  LET u == req[r].id IN
  /\ pc[r] = "write" /\ u \in Ids /\ ctx[r].subject \in Row
  /\ \/ req[r].ep = "editUser" /\ Changed(r, [rows[u] EXCEPT !.username = req[r].name])
     \/ req[r].ep = "deleteUser" /\ Changed(r, [rows[u] EXCEPT !.deleted = TRUE])
     \/ req[r].ep = "activate" /\ Changed(r, [rows[u] EXCEPT !.active = TRUE])
     \/ req[r].ep = "deactivate" /\ Changed(r, [rows[u] EXCEPT !.active = FALSE])
     \/ req[r].ep = "changePass" /\ Changed(r, [ctx[r].subject EXCEPT !.pass = req[r].new])

LEMMA ServeRows ==
  ASSUME IndInv, NEW r \in Requests, Serve(r)
  PROVE  rows' = rows \/ Created(r) \/ Changes(r)
<1>1. CASE CreateUser(r)
  <2>1. CASE rows' = rows
    BY <2>1
  <2>2. CASE WellFormed(req[r])
             /\ \E u \in Ids : rows[u] = Nil /\
                  rows' = [rows EXCEPT ![u] = [id |-> u, username |-> req[r].name,
                             pass |-> req[r].new, active |-> TRUE, deleted |-> FALSE]]
    <3>1. req[r].new \in Passwords /\ req[r].name \in Names
      BY <1>1, <2>2 DEF IndInv, TypeOK, FlowType, StageOK, Fits, CreateUser, WellFormed,
         CallType
    <3> QED BY <2>2, <3>1 DEF Row, Created
  <2> QED BY <1>1, <2>1, <2>2 DEF CreateUser
<1>2. CASE \/ UpdateUser(r) \/ DeleteUser(r) \/ ActivateUser(r)
           \/ DeactivateUser(r) \/ ChangePassword(r)
  <2>1. /\ pc[r] = "write" /\ req[r].id \in Ids /\ ctx[r].subject \in Row
        /\ req[r].ep = "editUser" => req[r].name \in Names
        /\ req[r].ep = "changePass" => req[r].new \in Passwords
    BY <1>2 DEF IndInv, TypeOK, FlowType, StageOK, UpdateUser, DeleteUser, ActivateUser,
           DeactivateUser, ChangePassword, Writing, Fits, WellFormed, CallType
  <2>2. rows[req[r].id] \in Row \cup {Nil}
    BY <2>1 DEF IndInv, TypeOK, StoreType
  <2>3. ASSUME NEW new, NEW failure, WriteRow(r, new, failure),
               rows[req[r].id] # Nil => new \in Row
        PROVE  rows' = rows \/ Changed(r, new)
    BY <2>2, <2>3 DEF WriteRow, Changed
  <2>4. \A x \in Row : \A b \in BOOLEAN :
          [x EXCEPT !.active = b] \in Row /\ [x EXCEPT !.deleted = b] \in Row
    BY DEF Row
  <2>5. CASE UpdateUser(r)
    <3>1. rows[req[r].id] # Nil => [rows[req[r].id] EXCEPT !.username = req[r].name] \in Row
      BY <2>1, <2>2, <2>5 DEF UpdateUser, Writing, Row
    <3> QED BY <2>1, <2>3, <2>5, <3>1 DEF Changes, UpdateUser, Writing
  <2>6. CASE ChangePassword(r)
    <3>1. [ctx[r].subject EXCEPT !.pass = req[r].new] \in Row
      BY <2>1, <2>6 DEF ChangePassword, Writing, Row
    <3> QED BY <2>1, <2>3, <2>6, <3>1 DEF Changes, ChangePassword, Writing
  <2>7. CASE DeleteUser(r)
    BY <2>1, <2>2, <2>3, <2>4, <2>7 DEF Changes, DeleteUser, Writing
  <2>8. CASE ActivateUser(r)
    BY <2>1, <2>2, <2>3, <2>4, <2>8 DEF Changes, ActivateUser, Writing
  <2>9. CASE DeactivateUser(r)
    BY <2>1, <2>2, <2>3, <2>4, <2>9 DEF Changes, DeactivateUser, Writing
  <2> QED BY <1>2, <2>5, <2>6, <2>7, <2>8, <2>9
<1> QED BY <1>1, <1>2 DEF Serve, Login, SaveAuth, CheckToken, LoadSession, LoadMe, Refill,
           CurrentUser, Logout, LogoutDel, LoadSubject, store

\* Other steps leave the table alone.
LEMMA RowsMove ==
  ASSUME IndInv, [Next]_vars
  PROVE  rows' = rows \/ \E r \in Requests : Created(r) \/ Changes(r)
BY ServeRows DEF Next, Arrive, PutProcess, PutSet, ExpireJwt, ExpireSession, ExpireUserKey,
   store, vars

\* A row that is there stays, with its id.
LEMMA RowsKeep ==
  ASSUME RecordInv, [Next]_vars, NEW u \in Ids
  PROVE  rows'[u] # Nil => rows'[u].id = u
<1>1. rows \in [Ids -> Row \cup {Nil}] /\ (rows[u] # Nil => rows[u].id = u)
  BY DEF RecordInv, IndInv, TypeOK, StoreType, StoreKeeps
<1>2. ASSUME NEW r \in Requests, Created(r)
      PROVE  rows'[u] # Nil => rows'[u].id = u
  BY <1>1, <1>2 DEF Created
<1>3. ASSUME NEW r \in Requests, Changes(r)
      PROVE  rows'[u] # Nil => rows'[u].id = u
  <2>1. PICK new : Changed(r, new) /\ new.id = req[r].id
    <3> DEFINE u1 == req[r].id
    <3>1. rows[u1] \in Row => rows[u1].id = u1
      BY <1>3, AccountsAssumption DEF Changes, RecordInv, StoreKeeps
    <3>2. ctx[r].subject \in Row /\ ctx[r].subject.id = u1
      BY <1>3, AccountsAssumption DEF Changes, RecordInv, KeepsRecords
    <3>3. PICK old \in Row : \E new : /\ Changed(r, new) /\ old.id = u1
                                     /\ \/ \E v : new = [old EXCEPT !.username = v]
                                        \/ \E v : new = [old EXCEPT !.deleted = v]
                                        \/ \E v : new = [old EXCEPT !.active = v]
                                        \/ \E v : new = [old EXCEPT !.pass = v]
      <4>1. \A new : Changed(r, new) => rows[u1] \in Row
        BY DEF Changed
      <4> QED BY <1>3, <3>1, <3>2, <4>1 DEF Changes
    <3> QED BY <3>3 DEF Row
  <2> QED BY <1>1, <1>3, <2>1 DEF Changed, Changes
<1> QED BY <1>1, <1>2, <1>3, RowsMove DEF RecordInv

LEMMA StoreKept ==
  ASSUME RecordInv, [Next]_vars
  PROVE  StoreKeeps'
<1>1. \A u \in Ids : rows'[u] # Nil => rows'[u].id = u
  BY RowsKeep
<1>2. CASE UNCHANGED <<userKey, put>>
  BY <1>1, <1>2 DEF RecordInv, StoreKeeps
<1>3. ASSUME NEW w \in Putters, PutProcess(w)
      PROVE  StoreKeeps'
  <2>1. PICK u \in Ids : \E val :
          /\ put' = [put EXCEPT ![w] = [id |-> u, val |-> val]]
          /\ val \notin {Nil, Blank} => val.id = u
    BY <1>3, AccountsAssumption DEF PutProcess, Visible, RecordInv, StoreKeeps
  <2>2. PICK val :
          /\ put' = [put EXCEPT ![w] = [id |-> u, val |-> val]]
          /\ val \notin {Nil, Blank} => val.id = u
    BY <2>1
  <2>3. UNCHANGED userKey
    BY <1>3 DEF PutProcess, store
  <2> QED BY <1>1, <2>2, <2>3 DEF RecordInv, StoreKeeps, IndInv, TypeOK, StoreType
<1>4. ASSUME NEW w \in Putters, PutSet(w)
      PROVE  StoreKeeps'
  <2>1. put[w].val \notin {Nil, Blank} => put[w].val.id = put[w].id
    BY DEF RecordInv, StoreKeeps
  <2>2. put' = [put EXCEPT ![w] = NoPut] /\ NoPut.val = Nil
    BY <1>4 DEF PutSet, NoPut
  <2>3. userKey' = userKey \/ userKey' = [userKey EXCEPT ![put[w].id] = put[w].val]
    BY <1>4 DEF PutSet
  <2>4. \A v \in Putters : put'[v].val \notin {Nil, Blank} => put'[v].val.id = put'[v].id
    BY <2>2 DEF RecordInv, StoreKeeps, IndInv, TypeOK, StoreType
  <2>5. \A u \in Ids : userKey'[u] \notin {Nil, Blank} => userKey'[u].id = u
    BY <2>1, <2>3 DEF RecordInv, StoreKeeps, IndInv, TypeOK, StoreType
  <2> QED BY <1>1, <2>4, <2>5 DEF StoreKeeps
<1>5. ASSUME NEW u \in Ids, ExpireUserKey(u)
      PROVE  StoreKeeps'
  BY <1>1, <1>5 DEF ExpireUserKey, RecordInv, StoreKeeps, IndInv, TypeOK, StoreType
<1>6. ASSUME NEW r \in Requests, Arrive(r) \/ Serve(r)
      PROVE  UNCHANGED <<userKey, put>>
  BY <1>6 DEF Arrive, Serve, Login, SaveAuth, CheckToken, LoadSession, LoadMe, Refill,
     CurrentUser, Logout, LogoutDel, CreateUser, LoadSubject, UpdateUser, DeleteUser,
     ActivateUser, DeactivateUser, ChangePassword, Writing, store
<1>7. ASSUME NEW t \in Tokens, ExpireJwt(t) \/ ExpireSession(t)
      PROVE  UNCHANGED <<userKey, put>>
  BY <1>7 DEF ExpireJwt, ExpireSession
<1>8. CASE UNCHANGED vars
  BY <1>2, <1>8 DEF vars
<1> QED BY <1>2, <1>3, <1>4, <1>5, <1>6, <1>7, <1>8 DEF Next

\* Going on to a stage with the records in hand.
LEMMA KeepsGoto ==
  ASSUME IndInv, NEW r \in Requests, NEW stage, NEW c, Goto(r, stage, c),
         stage \in {"idle", "login", "jwt", "session"} => c = NoCtx,
         c.me # Nil => c.me.id = c.actor,
         c.subject # Nil => c.subject.id = req[r].id
  PROVE  KeepsRecords(r)'
BY GotoMoves DEF KeepsRecords

LEMMA KeepsServed ==
  ASSUME RecordInv, NEW r \in Requests, Serve(r)
  PROVE  KeepsRecords(r)'
<1>1. /\ ctx[r] \in CtxType /\ req[r] \in CallType /\ KeepsRecords(r)
      /\ Fits(pc[r], req[r], ctx[r]) /\ IndInv
  BY DEF RecordInv, IndInv, TypeOK, FlowType, StageOK
<1>2. \A u : /\ [ctx[r] EXCEPT !.actor = u].me = ctx[r].me
             /\ [ctx[r] EXCEPT !.actor = u].subject = ctx[r].subject
             /\ [ctx[r] EXCEPT !.me = u].me = u
             /\ [ctx[r] EXCEPT !.me = u].actor = ctx[r].actor
             /\ [ctx[r] EXCEPT !.me = u].subject = ctx[r].subject
             /\ [ctx[r] EXCEPT !.subject = u].subject = u
             /\ [ctx[r] EXCEPT !.subject = u].me = ctx[r].me
             /\ [ctx[r] EXCEPT !.subject = u].actor = ctx[r].actor
  BY <1>1 DEF CtxType
<1>3. CASE \E code : Answer(r, code)
  <2>1. ctx'[r] = NoCtx
    BY <1>1, <1>3, AnswerEnds DEF Ended
  <2> QED BY <2>1, NoRecords DEF KeepsRecords
<1>4. CASE pc[r] \in {"login", "session"}
           /\ \E u : \E stage \in {"saveAuth", "me"} :
                Goto(r, stage, [ctx[r] EXCEPT !.actor = u])
  <2>1. PICK u, stage : /\ stage \in {"saveAuth", "me"}
                        /\ Goto(r, stage, [ctx[r] EXCEPT !.actor = u])
    BY <1>4
  <2>2. ctx[r].me = Nil /\ ctx[r].subject = Nil
    BY <1>1, <1>4, NoRecords DEF KeepsRecords
  <2> QED BY <1>1, <1>2, <2>1, <2>2, KeepsGoto
<1>5. CASE \/ pc[r] = "jwt" /\ Goto(r, "session", ctx[r])
           \/ \E stage \in {"refillMe", "del", "refillSubject"} : Goto(r, stage, ctx[r])
  BY <1>1, <1>5, KeepsGoto DEF KeepsRecords
<1>6. CASE /\ pc[r] = "me" /\ userKey[ctx[r].actor] \notin {Nil, Blank}
           /\ Goto(r, "control", [ctx[r] EXCEPT !.me = userKey[ctx[r].actor]])
  <2>1. userKey[ctx[r].actor].id = ctx[r].actor
    BY <1>1, <1>6 DEF RecordInv, StoreKeeps, Fits, Admitted
  <2>2. ctx[r].subject # Nil => ctx[r].subject.id = req[r].id
    BY <1>1 DEF KeepsRecords
  <2> QED BY <1>1, <1>2, <1>6, <2>1, <2>2, KeepsGoto
<1>7. CASE /\ req[r].ep \in ById /\ WellFormed(req[r])
           /\ userKey[req[r].id] \notin {Nil, Blank}
           /\ Goto(r, "write", [ctx[r] EXCEPT !.subject = userKey[req[r].id]])
  <2>1. userKey[req[r].id].id = req[r].id
    BY <1>1, <1>7 DEF RecordInv, StoreKeeps, WellFormed, CallType
  <2>2. ctx[r].me # Nil => ctx[r].me.id = ctx[r].actor
    BY <1>1 DEF KeepsRecords
  <2> QED BY <1>1, <1>2, <1>7, <2>1, <2>2, KeepsGoto
<1>8. CASE Login(r)
  BY <1>3, <1>4, <1>8 DEF Login
<1>9. CASE SaveAuth(r) \/ Refill(r) \/ CurrentUser(r) \/ LogoutDel(r) \/ CreateUser(r)
  BY <1>3, <1>9 DEF SaveAuth, Refill, CurrentUser, LogoutDel, CreateUser
<1>10. CASE CheckToken(r)
  BY <1>3, <1>5, <1>10 DEF CheckToken
<1>11. CASE LoadSession(r)
  BY <1>3, <1>4, <1>11 DEF LoadSession
<1>12. CASE LoadMe(r)
  BY <1>3, <1>5, <1>6, <1>12 DEF LoadMe, CachedUser, Admit
<1>13. CASE Logout(r)
  BY <1>3, <1>5, <1>13 DEF Logout
<1>14. CASE LoadSubject(r)
  BY <1>3, <1>5, <1>7, <1>14 DEF LoadSubject, CachedUser, Fetched
<1>15. CASE \/ UpdateUser(r) \/ DeleteUser(r) \/ ActivateUser(r)
            \/ DeactivateUser(r) \/ ChangePassword(r)
  BY <1>3, <1>15 DEF UpdateUser, DeleteUser, ActivateUser, DeactivateUser,
                     ChangePassword, WriteRow
<1> QED BY <1>8, <1>9, <1>10, <1>11, <1>12, <1>13, <1>14, <1>15 DEF Serve

LEMMA NextRecordInv ==
  ASSUME RecordInv, [Next]_vars
  PROVE  RecordInv'
<1>1. IndInv' /\ StoreKeeps'
  BY NextInv, StoreKept DEF RecordInv
<1>2. ASSUME NEW q \in Requests, pc'[q] = pc[q], req'[q] = req[q], ctx'[q] = ctx[q]
      PROVE  KeepsRecords(q)'
  BY <1>2 DEF RecordInv, KeepsRecords
<1>3. ASSUME NEW r \in Requests, Serve(r)
      PROVE  \A q \in Requests : KeepsRecords(q)'
  BY <1>2, <1>3, KeepsServed, ServeShape DEF RecordInv, OthersSame
<1>4. ASSUME NEW r \in Requests, Arrive(r), NEW q \in Requests
      PROVE  KeepsRecords(q)'
  <2>1. PICK stage \in {"jwt", "login"} : \E c :
          /\ req' = [req EXCEPT ![r] = c] /\ pc' = [pc EXCEPT ![r] = stage]
          /\ ctx' = ctx /\ pc[r] = "idle"
    BY <1>4 DEF Arrive
  <2>2. ctx[r] = NoCtx
    BY <2>1 DEF RecordInv, KeepsRecords
  <2>3. CASE q = r
    BY <2>1, <2>2, <2>3, NoRecords DEF KeepsRecords
  <2>4. CASE q # r
    BY <1>2, <2>1, <2>4 DEF RecordInv, IndInv, TypeOK, FlowType
  <2> QED BY <2>3, <2>4
<1>5. CASE UNCHANGED <<pc, req, ctx>>
  BY <1>1, <1>2, <1>5 DEF RecordInv
<1>6. CASE \E r \in Requests : Arrive(r) \/ Serve(r)
  BY <1>1, <1>3, <1>4, <1>6 DEF RecordInv
<1> QED BY <1>5, <1>6 DEF Next, PutProcess, PutSet, ExpireJwt, ExpireSession,
                          ExpireUserKey, vars

\* The user behind a request is the one its session names, the user a handler
\* works on is the one in its path, and a key holds a record of its own id.
THEOREM RecordsNotMixedUp == Spec => []RecordsKeepIdentity
<1>1. Init => RecordInv
  <2>1. Init => StoreKeeps
    BY DEF Init, StoreKeeps, NoPut
  <2>2. Init => \A r \in Requests : KeepsRecords(r)
    BY NoRecords DEF Init, KeepsRecords
  <2> QED BY <2>1, <2>2, InitInv DEF RecordInv
<1>2. RecordInv /\ [Next]_vars => RecordInv'
  BY NextRecordInv
<1>3. RecordInv => RecordsKeepIdentity
  BY DEF RecordInv, StoreKeeps, KeepsRecords, RecordsKeepIdentity
<1> QED BY <1>1, <1>2, <1>3, PTL DEF Spec

-----------------------------------------------------------------------------
(* What may bring an account back to life. *)

LEMMA RowsRevive ==
  ASSUME IndInv, [Next]_vars, NEW u \in Ids
  PROVE  OnlyKnowinglyRevived(u)
<1>1. rows \in [Ids -> Row \cup {Nil}] /\ Nil \notin Row
  BY AccountsAssumption DEF IndInv, TypeOK, StoreType
<1>2. CASE rows' = rows
  BY <1>2 DEF OnlyKnowinglyRevived
<1>3. ASSUME NEW r \in Requests, Created(r)
      PROVE  OnlyKnowinglyRevived(u)
  <2>1. PICK v \in Ids, new \in Row : rows[v] = Nil /\ rows' = [rows EXCEPT ![v] = new]
    BY <1>3 DEF Created
  <2>2. rows[u] # Nil => rows'[u] = rows[u]
    BY <1>1, <2>1
  <2> QED BY <2>2 DEF OnlyKnowinglyRevived
<1>4. ASSUME NEW r \in Requests, Changes(r)
      PROVE  OnlyKnowinglyRevived(u)
  <2>1. CASE u # req[r].id
    <3>1. rows'[u] = rows[u]
      BY <1>1, <1>4, <2>1 DEF Changes, Changed
    <3> QED BY <3>1 DEF OnlyKnowinglyRevived
  <2>2. CASE u = req[r].id
    <3>1. \A new : Changed(r, new) => rows'[u] = new /\ rows[u] \in Row /\ new \in Row
      BY <1>1, <2>2 DEF Changed
    <3>2. pc[r] = "write" /\ ctx[r].subject \in Row
      BY <1>4 DEF Changes
    <3>3. CASE \/ Changed(r, [rows[u] EXCEPT !.username = req[r].name])
               \/ Changed(r, [rows[u] EXCEPT !.deleted = TRUE])
               \/ Changed(r, [rows[u] EXCEPT !.active = FALSE])
      BY <1>1, <3>1, <3>3 DEF OnlyKnowinglyRevived, Row
    <3>4. CASE req[r].ep = "activate" /\ Changed(r, [rows[u] EXCEPT !.active = TRUE])
      <4>1. rows[u] \in Row /\ rows'[u].deleted = rows[u].deleted /\ rows'[u] \in Row
        BY <3>1, <3>4 DEF Row
      <4> QED BY <1>1, <2>2, <3>2, <3>4, <4>1 DEF OnlyKnowinglyRevived
    <3>5. CASE req[r].ep = "changePass"
               /\ Changed(r, [ctx[r].subject EXCEPT !.pass = req[r].new])
      <4>1. /\ rows[u] \in Row /\ rows'[u] \in Row
            /\ rows'[u].deleted = ctx[r].subject.deleted
            /\ rows'[u].active = ctx[r].subject.active
        BY <3>1, <3>2, <3>5 DEF Row
      <4> QED BY <1>1, <2>2, <3>2, <3>5, <4>1 DEF OnlyKnowinglyRevived
    <3> QED BY <1>4, <2>2, <3>3, <3>4, <3>5 DEF Changes
  <2> QED BY <2>1, <2>2
<1> QED BY <1>2, <1>3, <1>4, RowsMove

\* An account comes back to life only by an activation, or by a password change
\* that writes back the record it read.
THEOREM RevivedKnowingly == Spec => NoSilentRevival
<1>1. Init => IndInv
  BY InitInv
<1>2. IndInv /\ [Next]_vars => IndInv'
  BY NextInv
<1>3. IndInv /\ [Next]_vars => [\A u \in Ids : OnlyKnowinglyRevived(u)]_vars
  BY RowsRevive
<1> QED BY <1>1, <1>2, <1>3, PTL DEF Spec, NoSilentRevival

-----------------------------------------------------------------------------
(* "Success" means done. *)

\* The stages that only one endpoint reaches.
StageOfEndpoint(r) ==
  /\ pc[r] \in {"login", "saveAuth"} => req[r].ep = "login"
  /\ pc[r] = "del" => req[r].ep = "logout"

EffectInv == IndInv /\ \A r \in Requests : StageOfEndpoint(r)

LEMMA ServedStage ==
  ASSUME EffectInv, NEW r \in Requests, Serve(r)
  PROVE  StageOfEndpoint(r)'
<1>1. IndInv /\ StageOfEndpoint(r)
  BY DEF EffectInv
<1>2. CASE \E code : Answer(r, code)
  <2>1. pc'[r] = "idle"
    BY <1>1, <1>2, AnswerEnds DEF Ended
  <2> QED BY <2>1 DEF StageOfEndpoint
<1>3. CASE \E stage \in Stages \ {"login", "saveAuth", "del"} : \E c : Goto(r, stage, c)
  BY <1>1, <1>3, GotoMoves DEF StageOfEndpoint
<1>4. CASE pc[r] = "login" /\ \E c : Goto(r, "saveAuth", c)
  BY <1>1, <1>4, GotoMoves DEF StageOfEndpoint
<1>5. CASE req[r].ep = "logout" /\ \E c : Goto(r, "del", c)
  BY <1>1, <1>5, GotoMoves DEF StageOfEndpoint
<1>6. CASE Login(r) \/ Logout(r)
  BY <1>2, <1>4, <1>5, <1>6 DEF Login, Logout
<1>7. CASE SaveAuth(r) \/ Refill(r) \/ CurrentUser(r) \/ LogoutDel(r) \/ CreateUser(r)
  BY <1>2, <1>7 DEF SaveAuth, Refill, CurrentUser, LogoutDel, CreateUser
<1>8. CASE CheckToken(r) \/ LoadSession(r)
  BY <1>2, <1>3, <1>8 DEF CheckToken, LoadSession, Stages
<1>9. CASE LoadMe(r) \/ LoadSubject(r)
  BY <1>2, <1>3, <1>9 DEF LoadMe, LoadSubject, CachedUser, Admit, Fetched, Stages
<1>10. CASE \/ UpdateUser(r) \/ DeleteUser(r) \/ ActivateUser(r)
            \/ DeactivateUser(r) \/ ChangePassword(r)
  BY <1>2, <1>10 DEF UpdateUser, DeleteUser, ActivateUser, DeactivateUser,
                     ChangePassword, WriteRow
<1> QED BY <1>6, <1>7, <1>8, <1>9, <1>10 DEF Serve

LEMMA NextEffectInv ==
  ASSUME EffectInv, [Next]_vars
  PROVE  EffectInv'
<1>1. IndInv'
  BY NextInv DEF EffectInv
<1>2. ASSUME NEW r \in Requests, Serve(r)
      PROVE  \A q \in Requests : StageOfEndpoint(q)'
  BY <1>2, ServedStage, ServeShape DEF EffectInv, OthersSame, StageOfEndpoint
<1>3. ASSUME NEW r \in Requests, Arrive(r), NEW q \in Requests
      PROVE  StageOfEndpoint(q)'
  <2>1. PICK ep \in Endpoints : \E c :
          /\ c.ep = ep
          /\ req' = [req EXCEPT ![r] = c]
          /\ pc' = [pc EXCEPT ![r] = IF NeedsAuth(ep) THEN "jwt" ELSE "login"]
    BY <1>3 DEF Arrive, Call
  <2>2. CASE q = r
    BY <2>1, <2>2 DEF EffectInv, IndInv, TypeOK, FlowType, StageOfEndpoint, NeedsAuth
  <2>3. CASE q # r
    BY <2>1, <2>3 DEF EffectInv, IndInv, TypeOK, FlowType, StageOfEndpoint
  <2> QED BY <2>2, <2>3
<1>4. CASE UNCHANGED <<pc, req, ctx>>
  BY <1>1, <1>4 DEF EffectInv, StageOfEndpoint
<1>5. CASE \E r \in Requests : Arrive(r) \/ Serve(r)
  BY <1>1, <1>2, <1>3, <1>5 DEF EffectInv
<1> QED BY <1>4, <1>5 DEF Next, PutProcess, PutSet, ExpireJwt, ExpireSession,
                          ExpireUserKey, vars

\* The step that ends a request is one of its own.
LEMMA OwnStepSucceeds ==
  ASSUME EffectInv, [Next]_vars, NEW r \in Requests, Succeeds(r)
  PROVE  Serve(r)
<1>1. ASSUME NEW q \in Requests, Serve(q)
      PROVE  q = r
  BY <1>1, ServeShape DEF EffectInv, OthersSame, Succeeds
<1>2. ASSUME NEW q \in Requests, Arrive(q)
      PROVE  FALSE
  <2>1. PICK stage \in {"jwt", "login"} : pc' = [pc EXCEPT ![q] = stage]
    BY <1>2 DEF Arrive
  <2> QED BY <2>1 DEF Succeeds, EffectInv, IndInv, TypeOK, FlowType
<1>3. ~ UNCHANGED pc
  BY DEF Succeeds
<1> QED BY <1>1, <1>2, <1>3 DEF Next, PutProcess, PutSet, ExpireJwt, ExpireSession,
                                ExpireUserKey, vars

LEMMA SuccessDone ==
  ASSUME EffectInv, [Next]_vars, NEW r \in Requests, Succeeds(r)
  PROVE  TookEffect(req[r])
<1>1. /\ pc[r] # "idle" /\ pc'[r] = "idle" /\ reply' = "Success"
      /\ IndInv /\ StageOfEndpoint(r) /\ Fits(pc[r], req[r], ctx[r]) /\ req[r] \in CallType
      /\ \A code : Answer(r, code) => code = "Success"
      /\ \A stage, c : Goto(r, stage, c) => stage = "idle"
  BY GotoMoves DEF Succeeds, EffectInv, IndInv, StageOK, TypeOK, FlowType, Answer
<1>2. CASE \/ Login(r) \/ CheckToken(r) \/ LoadSession(r) \/ LoadMe(r) \/ Refill(r)
  BY <1>1, <1>2 DEF Login, CheckToken, LoadSession, LoadMe, Refill, CachedUser, Admit
<1>3. CASE SaveAuth(r) \/ CurrentUser(r) \/ CreateUser(r)
  BY <1>1, <1>3 DEF SaveAuth, CurrentUser, CreateUser, StageOfEndpoint, TookEffect
<1>4. CASE Logout(r)
  BY <1>1, <1>4 DEF Logout, TookEffect, store
<1>5. CASE LogoutDel(r)
  <2>1. session' = [session EXCEPT ![req[r].tok] = Nil] /\ req[r].ep = "logout"
    BY <1>1, <1>5 DEF LogoutDel, StageOfEndpoint
  <2>2. req[r].tok \in Tokens
    BY <1>1, <1>5 DEF LogoutDel, Fits, Admitted
  <2> QED BY <1>1, <2>1, <2>2 DEF TookEffect, IndInv, TypeOK, StoreType
<1>6. CASE LoadSubject(r)
  BY <1>1, <1>6 DEF LoadSubject, CachedUser, Fetched, TookEffect
<1>7. ASSUME NEW new, NEW failure, WriteRow(r, new, failure), failure # "Success",
             Visible(req[r].id), req[r].id \in Ids
      PROVE  rows'[req[r].id] = new
  BY <1>1, <1>7 DEF WriteRow, IndInv, TypeOK, StoreType
<1>8. CASE \/ UpdateUser(r) \/ DeleteUser(r) \/ ActivateUser(r) \/ DeactivateUser(r)
  <2>1. req[r].id \in Ids
    BY <1>1, <1>8 DEF UpdateUser, DeleteUser, ActivateUser, DeactivateUser, Writing,
                      Fits, WellFormed, CallType
  <2>2. Visible(req[r].id) => rows[req[r].id] \in Row
    BY <1>1, <2>1 DEF Visible, IndInv, TypeOK, StoreType
  <2>3. \A x \in Row : \A v : /\ [x EXCEPT !.username = v].username = v
                              /\ [x EXCEPT !.deleted = v].deleted = v
                              /\ [x EXCEPT !.active = v].active = v
    BY DEF Row
  <2>4. CASE UpdateUser(r)
    <3>1. Visible(req[r].id) => rows'[req[r].id] = [rows[req[r].id] EXCEPT !.username = req[r].name]
      BY <1>7, <2>1, <2>4 DEF UpdateUser
    <3>2. Visible(req[r].id) => rows'[req[r].id].username = req[r].name
      <4>1. Visible(req[r].id) =>
              \A v : [rows[req[r].id] EXCEPT !.username = v].username = v
        BY <2>2, <2>3
      <4> QED BY <3>1, <4>1
    <3>3. req[r].ep = "editUser"
      BY <2>4 DEF UpdateUser, Writing
    <3> QED BY <3>2, <3>3 DEF TookEffect
  <2>5. CASE DeleteUser(r)
    <3>1. Visible(req[r].id) => rows'[req[r].id] = [rows[req[r].id] EXCEPT !.deleted = TRUE]
      BY <1>7, <2>1, <2>5 DEF DeleteUser
    <3> QED BY <2>2, <2>3, <2>5, <3>1 DEF DeleteUser, Writing, TookEffect
  <2>6. CASE ActivateUser(r)
    <3>1. Visible(req[r].id) => rows'[req[r].id] = [rows[req[r].id] EXCEPT !.active = TRUE]
      BY <1>7, <2>1, <2>6 DEF ActivateUser
    <3> QED BY <2>2, <2>3, <2>6, <3>1 DEF ActivateUser, Writing, TookEffect
  <2>7. CASE DeactivateUser(r)
    <3>1. Visible(req[r].id) => rows'[req[r].id] = [rows[req[r].id] EXCEPT !.active = FALSE]
      BY <1>7, <2>1, <2>7 DEF DeactivateUser
    <3> QED BY <2>2, <2>3, <2>7, <3>1 DEF DeactivateUser, Writing, TookEffect
  <2> QED BY <1>8, <2>4, <2>5, <2>6, <2>7
<1>9. CASE ChangePassword(r)
  BY <1>9 DEF ChangePassword, Writing, TookEffect
<1> QED BY <1>2, <1>3, <1>4, <1>5, <1>6, <1>8, <1>9, OwnStepSucceeds DEF Serve

\* A client that is told "Success" of a logout or of a change to a live account
\* finds it done, even if calls of MySQL or Redis fail or are late.
THEOREM SuccessMeansDone == Spec => SuccessTookEffect
<1>1. Init => EffectInv
  <2>1. Init => \A r \in Requests : StageOfEndpoint(r)
    BY DEF Init, StageOfEndpoint
  <2> QED BY <2>1, InitInv DEF EffectInv
<1>2. EffectInv /\ [Next]_vars => EffectInv'
  BY NextEffectInv
<1>3. EffectInv /\ [Next]_vars
      => [\A r \in Requests : Succeeds(r) => TookEffect(req[r])]_vars
  BY SuccessDone
<1> QED BY <1>1, <1>2, <1>3, PTL DEF Spec, SuccessTookEffect
=============================================================================
