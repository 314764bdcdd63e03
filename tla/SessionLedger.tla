--------------------------- MODULE SessionLedger ---------------------------
(***************************************************************************)
(* What AuthServiceImpl and AuthMiddleware promise about access tokens,    *)
(* whatever happens to JWTs, Redis and the requests under way: a token is  *)
(* issued once, to one user, and closed for good by a logout or by time; a *)
(* request acts for the user of the token it presented, and only if that   *)
(* token was open at some moment between its arrival and its admission.    *)
(***************************************************************************)
CONSTANTS Tokens, Users, Requests,
          Fresh,   \* a token not issued yet
          Closed,  \* a token that is over
          Nobody   \* no user, no token

VARIABLES
  ledger,     \* Fresh, the user of an open token, or Closed
  presented,  \* the token that a request carries
  acting      \* the user for whom a request was admitted

lvars == <<ledger, presented, acting>>

LedgerInit ==
  /\ ledger = [t \in Tokens |-> Fresh]
  /\ presented = [r \in Requests |-> Nobody]
  /\ acting = [r \in Requests |-> Nobody]

Open(t, u) ==
  /\ ledger[t] = Fresh
  /\ ledger' = [ledger EXCEPT ![t] = u]
  /\ UNCHANGED <<presented, acting>>

Close(t) ==
  /\ ledger[t] \in Users
  /\ ledger' = [ledger EXCEPT ![t] = Closed]
  /\ UNCHANGED <<presented, acting>>

Present(r, t) ==
  /\ presented[r] = Nobody
  /\ ledger[t] # Fresh
  /\ presented' = [presented EXCEPT ![r] = t]
  /\ UNCHANGED <<ledger, acting>>

Admit(r) ==
  /\ presented[r] # Nobody
  /\ acting[r] = Nobody
  /\ ledger[presented[r]] \in Users
  /\ acting' = [acting EXCEPT ![r] = ledger[presented[r]]]
  /\ UNCHANGED <<ledger, presented>>

\* A request ends, admitted or not.
Leave(r) ==
  /\ presented' = [presented EXCEPT ![r] = Nobody]
  /\ acting' = [acting EXCEPT ![r] = Nobody]
  /\ UNCHANGED ledger

\* A logout ends with its token.
SignOut(r) ==
  /\ acting[r] # Nobody
  /\ ledger[presented[r]] \in Users
  /\ ledger' = [ledger EXCEPT ![presented[r]] = Closed]
  /\ presented' = [presented EXCEPT ![r] = Nobody]
  /\ acting' = [acting EXCEPT ![r] = Nobody]

LedgerNext ==
  \/ \E t \in Tokens : Close(t) \/ \E u \in Users : Open(t, u)
  \/ \E r \in Requests :
       Admit(r) \/ Leave(r) \/ SignOut(r) \/ \E t \in Tokens : Present(r, t)

LedgerSpec == LedgerInit /\ [][LedgerNext]_lvars
=============================================================================
