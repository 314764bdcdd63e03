------------------------------- MODULE Server -------------------------------
(***************************************************************************)
(* The server from its start: main combines its routers, and then requests *)
(* run through the chains of gin's table.                                  *)
(***************************************************************************)
EXTENDS ApiRouters, RouteTable, HandlerChain

VARIABLE route  \* the key in the table of the last request

serverVars == <<tableVars, vars, route>>

ServeRoute ==
  /\ phase = "listening"
  /\ \E key \in DOMAIN table : Start(table[key]) /\ route' = key
  /\ UNCHANGED tableVars

\* main has panicked.
Down == phase = "down" /\ UNCHANGED serverVars

ServerInit == TableInit /\ Init /\ route = Nil

ServerNext ==
  \/ TableNext /\ UNCHANGED <<vars, route>>
  \/ ServeRoute
  \/ Handle /\ UNCHANGED <<tableVars, route>>
  \/ Down

ServerSpec == ServerInit /\ [][ServerNext]_serverVars

\* The goroutine of a request goes on.
FairServerSpec == ServerSpec /\ WF_serverVars(Handle /\ UNCHANGED <<tableVars, route>>)
-----------------------------------------------------------------------------
(* Properties *)

\* What the server does with a request is what HandlerChain describes, since
\* CombineRouters gives gin no other chains.
ServesChains == Spec

\* The routers and the routes that stand for a key of the table.
DeclaredAs(key) ==
  UNION {{<<k, d>> : d \in {d \in ToSet(routers[k].routes[key[2]]) : Upper(d.method) = key[1]}} :
           k \in {k \in DOMAIN routers : key[2] \in DOMAIN routers[k].routes}}

\* A controller runs only in a request that all middlewares which the router
\* and the route list have let through, unless a handler panicked with a value
\* for which Recovery does not abort (CombineRouters, MiddlewareHandler).
RequestGuarded ==
  \A n \in DOMAIN trace :
    trace[n].mark = "request" /\ ~Happened("other") =>
      \A kd \in DeclaredAs(route) : \A m \in Guards(kd[1], kd[2]) :
        \E i \in Did(m, {"passed", "waived"}) : i < n

\* A function that is listed twice, in the router or in its route, handles a
\* request once; only an earlier router with a blank name adds another time
\* (handleGroupMiddleware, handleGroupConfigs).
HandledOnce ==
  \A h \in Handlers : \A kd \in IF stack = <<>> THEN {} ELSE DeclaredAs(route) :
    Cardinality(Did(h, {"passed", "waived", "refused", "request"})) <=
      1 + Cardinality({j \in 1 .. kd[1] - 1 :
             IsBlank(routers[j].group) /\ h \in ToSet(routers[j].guards)})

\* The application's endpoints run through the middlewares that Accounts
\* supposes, authentication first (UserRouter, AuthRouter).
EndpointsGuarded ==
  routers = routerConfigs /\ phase = "listening" =>
    /\ Cardinality(DOMAIN table) = Cardinality(Routes)
    /\ \A ep \in Routes : \E key \in DOMAIN table :
         table[key] = <<"logger", "recovery">>
                        \o (IF NeedsAuth(ep) THEN <<"auth">> ELSE <<>>)
                        \o (IF NeedsActive(ep) THEN <<"active">> ELSE <<>>)
                        \o <<ep>>

\* Every request ends, however its middlewares refuse, fail and panic: the nested
\* loops, which share one index, and what Recovery leaves of them never go round
\* for ever (MiddlewareHandler, RecoveryWithLogger).
RequestsEnd == stack # <<>> ~> stack = <<>>
=============================================================================
