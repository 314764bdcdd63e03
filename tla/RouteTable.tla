----------------------------- MODULE RouteTable -----------------------------
(***************************************************************************)
(* How main's CombineRouters fills gin's route table: for each router its  *)
(* group with the group's middlewares, then every path, in the order in    *)
(* which Go happens to iterate over the map of paths.                      *)
(*                                                                         *)
(* A router is [group, guards, routes]; routes maps a path (joined with    *)
(* the group's name) to a sequence of [method, guards, controllers].       *)
(***************************************************************************)
EXTENDS GinHandlers, SequencesExt

CONSTANT Configs  \* lists of routers that a program may combine

Descs == [method : STRING, guards : Seq(Middlewares), controllers : Seq(Controllers)]

ASSUME ConfigsAssumption ==
  \A rs \in Configs :
    /\ rs \in Seq(ToSet(rs))
    /\ \A k \in DOMAIN rs :
         /\ rs[k].guards \in Seq(Middlewares)
         /\ \A p \in DOMAIN rs[k].routes : rs[k].routes[p] \in Seq(Descs)

VARIABLES
  routers,  \* the list of this program
  at,       \* the router being combined, 0 before the first
  root,     \* handlers of the root group
  used,     \* handlers of the router's group
  listed,   \* alreadyUseMiddlewareFlag: the middlewares of the router's group
  todo,     \* paths of the router that are still to be registered
  table,    \* <<method, path>> to chain
  phase     \* "combining", "listening", or "down" after a panic

tableVars == <<routers, at, root, used, listed, todo, table, phase>>

-----------------------------------------------------------------------------
\* The places of functions whose flag is not yet set.
Firsts(s) == {i \in DOMAIN s : \A j \in 1 .. i - 1 : s[j] # s[i]}

\* Each function once, at its first place.
Once(s) == Kept(s, Firsts(s))

\* The middlewares of a route that its group does not have already.
Fresh(d) == {i \in Firsts(d.guards) : d.guards[i] \notin listed}

\* strings.ToUpper, over the methods that routers are written with.
Upper(method) == CASE method = "get" -> "GET" [] method = "post" -> "POST" [] OTHER -> method

\* strings.Trim leaves nothing of the name.
IsBlank(name) == name \in {"", " "}

\* Mutant: what the group has already is not taken out.
RouteHandlersRepeating(d) == used \o Once(d.guards) \o Once(d.controllers)

\* Mutant: the controllers are added first.
RouteHandlersReversed(d) ==
  used \o Once(d.controllers) \o Kept(d.guards, Fresh(d))

\* The chain of a route.
RouteHandlers(d) == used \o Kept(d.guards, Fresh(d)) \o Once(d.controllers)

\* Mutant: the flags are kept from one router to the next.
FlagsKept(r) == listed \cup ToSet(r.guards)

Flags(r) == ToSet(r.guards)

\* Mutant: middlewares always go to the engine.
RootAfterUse(r, handlers) == handlers

\* A router with a blank name has the root group itself, so that Use changes
\* what all later groups begin with.
RootAfter(r, handlers) == IF IsBlank(r.group) THEN handlers ELSE root

\* Group, but not Use, counts handlers and panics.
HandleGroup ==
  /\ phase = "combining" /\ todo = {} /\ at < Len(routers)
  /\ LET r == routers[at + 1] IN
     IF IsBlank(r.group) \/ Fits(Len(root))
     THEN /\ at' = at + 1
          /\ used' = root \o Once(r.guards)
          /\ root' = RootAfter(r, used')
          /\ listed' = Flags(r)
          /\ todo' = DOMAIN r.routes
          /\ UNCHANGED phase
     ELSE phase' = "down" /\ UNCHANGED <<at, root, used, listed, todo>>
  /\ UNCHANGED <<routers, table>>

\* All routes of a path.  gin panics if a chain is too long, or if the method
\* and the path have a chain already.
HandlePath ==
  /\ phase = "combining"
  /\ \E p \in todo :
       LET descs == routers[at].routes[p]
           keys == [i \in DOMAIN descs |-> <<Upper(descs[i].method), p>>]
       IN IF /\ \A i \in DOMAIN descs : Fits(Len(RouteHandlers(descs[i])))
             /\ IsInjective(keys) /\ Range(keys) \cap DOMAIN table = {}
          THEN /\ table' = [k \in DOMAIN table \cup Range(keys) |->
                              IF k \in DOMAIN table THEN table[k]
                              ELSE RouteHandlers(descs[CHOOSE i \in DOMAIN descs : keys[i] = k])]
               /\ todo' = todo \ {p}
               /\ UNCHANGED phase
          ELSE phase' = "down" /\ UNCHANGED <<table, todo>>
  /\ UNCHANGED <<routers, at, root, used, listed>>

Listen ==
  /\ phase = "combining" /\ todo = {} /\ at = Len(routers)
  /\ phase' = "listening"
  /\ UNCHANGED <<routers, at, root, used, listed, todo, table>>

\* Mutant: main combines the routers before it calls Use.
TableInitBare ==
  /\ routers \in Configs
  /\ at = 0 /\ root = <<>> /\ used = root
  /\ listed = {} /\ todo = {} /\ table = <<>> /\ phase = "combining"

TableInit ==
  /\ routers \in Configs
  /\ at = 0 /\ root = <<"logger", "recovery">> /\ used = root
  /\ listed = {} /\ todo = {} /\ table = <<>> /\ phase = "combining"

TableNext == HandleGroup \/ HandlePath \/ Listen
-----------------------------------------------------------------------------
(* Properties *)

Guards(k, d) == ToSet(routers[k].guards) \cup ToSet(d.guards)

\* What earlier routers have put on the root group.
Inherited(k) ==
  UNION {ToSet(routers[j].guards) : j \in {j \in 1 .. k - 1 : IsBlank(routers[j].group)}}

\* A property P(k, d, ch) of each route d of router k and its chain.
OfRoutes(P(_, _, _)) ==
  phase = "listening" =>
    \A k \in DOMAIN routers : \A p \in DOMAIN routers[k].routes :
      \A d \in ToSet(routers[k].routes[p]) : P(k, d, table[<<Upper(d.method), p>>])

\* In a server that listens every route is there, and its controllers stand
\* behind every middleware that its router or the route itself lists, those of
\* the router first, whatever order Go took the paths in (handleGroupConfigs).
RoutesGuarded ==
  OfRoutes(LAMBDA k, d, ch :
    /\ WellFormed(ch)
    /\ ToSet(ch) \cap Controllers = ToSet(d.controllers)
    /\ Guards(k, d) \subseteq ToSet(ch)
    /\ \A g \in ToSet(routers[k].guards), h \in ToSet(d.guards) \ ToSet(routers[k].guards) :
         \E i, j \in DOMAIN ch : i < j /\ ch[i] = g /\ ch[j] = h)

\* No route gets a middleware of another route or router, save for those that
\* an earlier router with a blank name put on the engine (handleGroupName).
NoForeignGuards ==
  OfRoutes(LAMBDA k, d, ch :
    ToSet(ch) \cap Middlewares \subseteq Guards(k, d) \cup Inherited(k))
=============================================================================
