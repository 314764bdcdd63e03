------------------------------ MODULE MCServer ------------------------------
(* Instances of Server for TLC. *)
EXTENDS Server

CONSTANT MaxListed  \* bound on the length of the lists of a router

Lists(S, from) == UNION {[1 .. n -> S] : n \in from .. MaxListed}

Route(method, guards, controllers) ==
  [method |-> method, guards |-> guards, controllers |-> controllers]
Router(group, guards, routes) == [group |-> group, guards |-> guards, routes |-> routes]

\* Every single route.
OneRoute ==
  {<<Router("/a", guards, [p |-> <<Route("GET", own, ctrls)>>])>> :
     guards, own \in Lists({"m1", "m2"}, 0), ctrls \in Lists({"c1", "c2"}, 0)}

\* Two routers, with or without names, that share a path.
TwoRouters ==
  {<<Router(first, guards1, [p |-> <<Route("GET", <<"m2">>, <<"c1">>)>>]),
     Router(second, guards2,
       [p |-> <<Route(method, <<"m1">>, <<"c1">>)>>,
        q |-> <<Route("GET", <<"m2">>, <<"c1">>), Route("POST", <<"m2", "m1">>, <<"c2">>)>>])>> :
     first \in {" ", "/a"}, guards1 \in {<<>>, <<"m1">>, <<"m1", "m2">>},
     second \in {"", "/b"}, guards2 \in {<<>>, <<"m1">>},
     method \in {"get", "post"}}

\* More middlewares on the root group than a chain has room for.
Crowded ==
  LET both(name, routes) == Router(name, <<"m1", "m2">>, routes) IN
  {<<both("", <<>>), both(" ", <<>>), both(name, <<>>),
     Router(last, <<>>, [p |-> <<Route("GET", <<>>, <<"c1">>)>>])>> : name, last \in {"", "/a"}}

MCConfigs == OneRoute \cup TwoRouters \cup Crowded \cup {routerConfigs}
MCMiddlewares == {"auth", "active", "m1", "m2"}
MCControllers == {"c1", "c2"} \cup Routes
=============================================================================
