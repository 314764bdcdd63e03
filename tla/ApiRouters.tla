----------------------------- MODULE ApiRouters -----------------------------
(* The routes of the application: UserRouter, AuthRouter and the list that *)
(* main combines.  A controller goes by the endpoint it serves, a path by  *)
(* the words of which it is made.                                          *)

ById == {"getUser", "editUser", "deleteUser", "activate", "deactivate", "changePass"}
Routes == {"login", "logout", "currentUser", "createUser"} \cup ById

\* The middlewares that Accounts lets each route run through.
NeedsAuth(ep) == ep # "login"
NeedsActive(ep) == ep \notin {"login", "logout"}

Desc(method, guards, ep) == [method |-> method, guards |-> guards, controllers |-> <<ep>>]

\* Mutant: the other way round.
UserMiddlewaresSwapped == <<"active", "auth">>

UserMiddlewares == <<"auth", "active">>

UserRouter ==
  [group |-> "/user",
   guards |-> UserMiddlewares,
   routes |->
     [user            |-> <<Desc("POST", <<>>, "createUser")>>,
      user_id         |-> <<Desc("GET", <<>>, "getUser"), Desc("PUT", <<>>, "editUser"),
                            Desc("DELETE", <<>>, "deleteUser")>>,
      user_activate   |-> <<Desc("PATCH", <<>>, "activate")>>,
      user_deactivate |-> <<Desc("PATCH", <<>>, "deactivate")>>,
      user_changePass |-> <<Desc("POST", <<>>, "changePass")>>]]

AuthRouter ==
  [group |-> "",
   guards |-> <<>>,
   routes |->
     [login        |-> <<Desc("POST", <<>>, "login")>>,
      logout       |-> <<Desc("POST", <<"auth">>, "logout")>>,
      current_user |-> <<Desc("GET", <<"auth", "active">>, "currentUser")>>]]

routerConfigs == <<UserRouter, AuthRouter>>
=============================================================================
