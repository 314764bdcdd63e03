---------------------------- MODULE ServerProofs ----------------------------
(***************************************************************************)
(* Theorems about the server, for all lists of routers and requests: the   *)
(* table has the chains that the routers ask for, in whatever order Go     *)
(* takes the paths, and what runs through them was declared.               *)
(*                                                                         *)
(* That a route has its chain is no invariant by itself.  TableInv follows *)
(* CombineRouters: what the root group has got (RootInv), what the         *)
(* router's group has (UsedInv), that each path which has been taken has   *)
(* its chains (Registered), and that there are no others (Derived).        *)
(* RouteInv ties the request to its key.  AppInv says of the two routers   *)
(* of the application what their groups are and which chain each endpoint  *)
(* gets.                                                                   *)
(***************************************************************************)
EXTENDS Server, RequestProofs

Times(s, h) == Cardinality({i \in DOMAIN s : s[i] = h})

\* The earlier routers that have put h on the root group.
Blanks(rs, k, h) == {j \in 1 .. k - 1 : IsBlank(rs[j].group) /\ h \in ToSet(rs[j].guards)}

\* What routers that come before router k have put there.
Lent(rs, k) == UNION {ToSet(rs[j].guards) : j \in {j \in 1 .. k - 1 : IsBlank(rs[j].group)}}

\* The middlewares that router k and its route d list.
Listed(rs, k, d) == ToSet(rs[k].guards) \cup ToSet(d.guards)

\* What a group may begin with.
GroupHandlers(s) ==
  /\ s \in Seq(Handlers) /\ Len(s) >= 2 /\ s[1] = "logger" /\ s[2] = "recovery"
  /\ \A i \in 3 .. Len(s) : s[i] \in Middlewares

RootInv ==
  /\ GroupHandlers(root)
  /\ ToSet(root) \cap Middlewares \subseteq Lent(routers, at + 1)
  /\ \A h \in Handlers :
       Times(root, h) <= (IF h \in {"logger", "recovery"} THEN 1 ELSE 0)
                           + Cardinality(Blanks(routers, at + 1, h))

UsedInv ==
  at > 0 =>
    /\ listed = ToSet(routers[at].guards)
    /\ GroupHandlers(used)
    /\ listed \subseteq ToSet(used)
    /\ ToSet(used) \cap Middlewares \subseteq listed \cup Lent(routers, at)
    /\ \A h \in Handlers :
         Times(used, h) <= (IF h \in {"logger", "recovery"} \cup listed THEN 1 ELSE 0)
                             + Cardinality(Blanks(routers, at, h))

\* The chain ch does all that it should for the route d of router k.
Fulfils(rs, k, d, ch) ==
  /\ WellFormed(ch)
  /\ ToSet(ch) \cap Controllers = ToSet(d.controllers)
  /\ Listed(rs, k, d) \subseteq ToSet(ch)
  /\ \A g \in ToSet(rs[k].guards), h \in ToSet(d.guards) \ ToSet(rs[k].guards) :
       \E i, j \in DOMAIN ch : i < j /\ ch[i] = g /\ ch[j] = h
  /\ ToSet(ch) \cap Middlewares \subseteq Listed(rs, k, d) \cup Lent(rs, k)
  /\ \A h \in Handlers : Times(ch, h) <= 1 + Cardinality(Blanks(rs, k, h))

\* The paths that are registered have their chains.
Registered ==
  \A k \in 1 .. at : \A p \in DOMAIN routers[k].routes :
    (k = at => p \notin todo) =>
      \A d \in ToSet(routers[k].routes[p]) :
        /\ <<Upper(d.method), p>> \in DOMAIN table
        /\ Fulfils(routers, k, d, table[<<Upper(d.method), p>>])

\* Each chain of the table is that of a route.
Derived ==
  \A key \in DOMAIN table :
    /\ key = <<key[1], key[2]>>
    /\ \E k \in DOMAIN routers : \E d \in Descs : Fulfils(routers, k, d, table[key])

TableInv ==
  /\ routers \in Configs /\ at \in 0 .. Len(routers)
  /\ todo \subseteq IF at = 0 THEN {} ELSE DOMAIN routers[at].routes
  /\ RootInv /\ UsedInv /\ Registered /\ Derived
  /\ phase = "listening" => at = Len(routers) /\ todo = {}

-----------------------------------------------------------------------------
(* Lemmas *)

\* Every function of a list has a first place there.
LEMMA FirstsCover ==
  ASSUME NEW S, NEW s \in Seq(S), NEW i \in DOMAIN s
  PROVE  \E m \in Firsts(s) : s[m] = s[i]
<1> DEFINE I == {j \in DOMAIN s : s[j] = s[i]}
           m == Place(I, 1)
<1>1. Len(s) \in Nat /\ DOMAIN s = 1 .. Len(s) /\ I \in SUBSET (1 .. Len(s)) /\ i \in I
  OBVIOUS
<1> HIDE DEF I
<1>2. /\ Cardinality(I) \in Nat
      /\ \A n \in 1 .. Cardinality(I) : Place(I, n) \in I
      /\ \A j \in I : \E n \in 1 .. Cardinality(I) : Place(I, n) = j
      /\ \A n, k \in 1 .. Cardinality(I) : n < k => Place(I, n) < Place(I, k)
  BY <1>1, PlaceFacts
<1>3. 1 \in 1 .. Cardinality(I)
  BY <1>1, <1>2
<1>4. m \in I /\ \A j \in I : m = j \/ m < j
  BY <1>2, <1>3
<1> HIDE DEF m
<1>5. \A j \in 1 .. m - 1 : j \in DOMAIN s /\ j \notin I
  BY <1>1, <1>4
<1>6. s[m] = s[i] /\ \A j \in 1 .. m - 1 : s[j] # s[m]
  BY <1>4, <1>5 DEF I
<1> QED BY <1>1, <1>4, <1>6 DEF Firsts

\* What the flags let through stands there once.
LEMMA KeptOnce ==
  ASSUME NEW S, NEW s \in Seq(S), NEW I \in SUBSET Firsts(s)
  PROVE  /\ Kept(s, I) \in Seq(S)
         /\ ToSet(Kept(s, I)) = {s[i] : i \in I}
         /\ \A n, m \in DOMAIN Kept(s, I) : Kept(s, I)[n] = Kept(s, I)[m] => n = m
<1> DEFINE t == Kept(s, I)
           c == Cardinality(I)
<1>1. /\ I \in SUBSET DOMAIN s /\ I \in SUBSET Nat
      /\ \A i, j \in I : i < j => s[i] # s[j]
  BY DEF Firsts
<1>2. /\ t \in Seq(S) /\ Len(t) = c /\ c \in Nat
      /\ \A n \in 1 .. c : Place(I, n) \in I /\ t[n] = s[Place(I, n)]
      /\ \A n, m \in 1 .. c : n < m => Place(I, n) < Place(I, m)
      /\ \A i \in I : \E n \in 1 .. c : t[n] = s[i]
  BY <1>1, KeptFacts
<1> HIDE DEF t, c
<1>3. DOMAIN t = 1 .. c /\ 1 .. c \subseteq Nat
  BY <1>2
<1>4. \A n, m \in 1 .. c : n < m => t[n] # t[m]
  BY <1>1, <1>2
<1>5. \A n, m \in 1 .. c : n = m \/ n < m \/ m < n
  BY <1>2
<1>6. \A n, m \in DOMAIN t : t[n] = t[m] => n = m
  BY <1>3, <1>4, <1>5
<1>7. ToSet(t) = {s[i] : i \in I}
  <2>1. \A n \in DOMAIN t : t[n] \in {s[i] : i \in I}
    BY <1>2, <1>3
  <2>2. \A i \in I : \E n \in DOMAIN t : t[n] = s[i]
    BY <1>2, <1>3
  <2>3. ToSet(t) \subseteq {s[i] : i \in I}
    BY <2>1 DEF ToSet
  <2>4. {s[i] : i \in I} \subseteq ToSet(t)
    BY <2>2 DEF ToSet
  <2> QED BY <2>3, <2>4
<1> QED BY <1>2, <1>6, <1>7 DEF t

\* Once loses no function and lets none stand twice.
LEMMA OnceFacts ==
  ASSUME NEW S, NEW s \in Seq(S)
  PROVE  /\ Once(s) \in Seq(S)
         /\ ToSet(Once(s)) = ToSet(s)
         /\ \A n, m \in DOMAIN Once(s) : Once(s)[n] = Once(s)[m] => n = m
<1>1. {s[i] : i \in Firsts(s)} = ToSet(s)
  <2>1. Firsts(s) \subseteq DOMAIN s
    BY DEF Firsts
  <2>2. \A i \in DOMAIN s : \E m \in Firsts(s) : s[m] = s[i]
    BY FirstsCover
  <2> QED BY <2>1, <2>2 DEF ToSet
<1>2. /\ Kept(s, Firsts(s)) \in Seq(S)
      /\ ToSet(Kept(s, Firsts(s))) = {s[i] : i \in Firsts(s)}
      /\ \A n, m \in DOMAIN Kept(s, Firsts(s)) :
           Kept(s, Firsts(s))[n] = Kept(s, Firsts(s))[m] => n = m
  BY KeptOnce
<1> QED BY <1>1, <1>2 DEF Once

\* How often a function stands in a list.
LEMMA TimesType ==
  ASSUME NEW S, NEW s \in Seq(S), NEW h
  PROVE  IsFiniteSet({i \in DOMAIN s : s[i] = h}) /\ Times(s, h) \in Nat
<1>1. IsFiniteSet(DOMAIN s)
  <2>1. DOMAIN s = 1 .. Len(s) /\ Len(s) \in Int
    OBVIOUS
  <2> QED BY <2>1, FS_Interval
<1>2. IsFiniteSet({i \in DOMAIN s : s[i] = h})
  BY <1>1, FS_Subset
<1> QED BY <1>2, FS_CardinalityType DEF Times

\* A list that repeats nothing has each function at most once.
LEMMA TimesOnce ==
  ASSUME NEW S, NEW s \in Seq(S), NEW h,
         \A n, m \in DOMAIN s : s[n] = s[m] => n = m
  PROVE  Times(s, h) <= (IF h \in ToSet(s) THEN 1 ELSE 0)
<1> DEFINE I == {i \in DOMAIN s : s[i] = h}
<1>1. CASE h \notin ToSet(s)
  <2>1. I = {}
    BY <1>1 DEF ToSet
  <2>2. Cardinality(I) = 0
    BY <2>1, FS_EmptySet
  <2> QED BY <1>1, <2>2 DEF Times
<1>2. CASE h \in ToSet(s)
  <2>1. PICK i \in DOMAIN s : s[i] = h
    BY <1>2 DEF ToSet
  <2>2. I = {i}
    BY <2>1
  <2>3. Cardinality(I) = 1
    BY <2>2, FS_Singleton
  <2> QED BY <1>2, <2>3 DEF Times
<1> QED BY <1>1, <1>2

\* Two lists together have a function as often as both have it.
LEMMA TimesConcat ==
  ASSUME NEW S, NEW s \in Seq(S), NEW t \in Seq(S), NEW h
  PROVE  Times(s \o t, h) <= Times(s, h) + Times(t, h)
<1> DEFINE u == s \o t
           A == {i \in DOMAIN s : s[i] = h}
           B == {i \in DOMAIN t : t[i] = h}
           C == {i \in DOMAIN u : u[i] = h}
           D == {i \in C : i > Len(s)}
<1>1. /\ Len(s) \in Nat /\ Len(t) \in Nat /\ u \in Seq(S) /\ Len(u) = Len(s) + Len(t)
      /\ DOMAIN s = 1 .. Len(s) /\ DOMAIN t = 1 .. Len(t) /\ DOMAIN u = 1 .. Len(s) + Len(t)
      /\ \A i \in 1 .. Len(s) + Len(t) : u[i] = IF i <= Len(s) THEN s[i] ELSE t[i - Len(s)]
  BY ConcatProperties
<1>2. IsFiniteSet(A) /\ IsFiniteSet(B) /\ IsFiniteSet(C) /\ IsFiniteSet(D)
  <2>1. IsFiniteSet(A) /\ IsFiniteSet(B) /\ IsFiniteSet(C)
    BY <1>1, TimesType
  <2> HIDE DEF C
  <2> QED BY <2>1, FS_Subset
<1> HIDE DEF u
<1>3. C \subseteq A \cup D
  BY <1>1
<1>4. Cardinality(D) <= Cardinality(B)
  <2> DEFINE f == [i \in D |-> i - Len(s)]
  <2>1. f \in [D -> B]
    BY <1>1
  <2>2. \A i, j \in D : f[i] = f[j] => i = j
    BY <1>1
  <2>3. f \in Injection(D, B)
    BY <2>1, <2>2 DEF Injection, IsInjective
  <2> HIDE DEF f, D, B
  <2> QED BY <1>2, <2>3, FS_Injection
<1> HIDE DEF A, B, C, D
<1>5. Cardinality(C) <= Cardinality(A) + Cardinality(D)
  <2>1. /\ IsFiniteSet(A \cup D) /\ Cardinality(A \cup D) \in Nat
        /\ Cardinality(A \cup D) = Cardinality(A) + Cardinality(D) - Cardinality(A \cap D)
    BY <1>2, FS_Union, FS_CardinalityType
  <2>2. IsFiniteSet(A \cap D)
    BY <1>2, FS_Intersection
  <2>3. Cardinality(C) <= Cardinality(A \cup D)
    BY <1>3, <2>1, FS_Subset
  <2>4. /\ Cardinality(A) \in Nat /\ Cardinality(D) \in Nat /\ Cardinality(C) \in Nat
        /\ Cardinality(A \cap D) \in Nat
    BY <1>2, <2>2, FS_CardinalityType
  <2> QED BY <2>1, <2>3, <2>4
<1>6. Cardinality(A) \in Nat /\ Cardinality(B) \in Nat /\ Cardinality(C) \in Nat
        /\ Cardinality(D) \in Nat
  BY <1>2, FS_CardinalityType
<1>7. Cardinality(C) <= Cardinality(A) + Cardinality(B)
  BY <1>4, <1>5, <1>6
<1> QED BY <1>7 DEF A, B, C, u, Times

\* Only so many routers come before one.
LEMMA BlanksFinite ==
  ASSUME TableInv, NEW k \in 0 .. Len(routers) + 1, NEW h
  PROVE  IsFiniteSet(Blanks(routers, k, h)) /\ Cardinality(Blanks(routers, k, h)) \in Nat
<1>1. k \in Int
  BY ConfigsAssumption DEF TableInv
<1>2. IsFiniteSet(1 .. k - 1)
  BY <1>1, FS_Interval
<1>3. IsFiniteSet(Blanks(routers, k, h))
  BY <1>2, FS_Subset DEF Blanks
<1> QED BY <1>3, FS_CardinalityType

\* What ConfigsAssumption says of the routers that are combined.
LEMMA RoutersFacts ==
  ASSUME TableInv
  PROVE  /\ Len(routers) \in Nat /\ DOMAIN routers = 1 .. Len(routers) /\ at \in Nat
         /\ \A k \in DOMAIN routers :
              /\ routers[k].guards \in Seq(Middlewares)
              /\ \A p \in DOMAIN routers[k].routes : routers[k].routes[p] \in Seq(Descs)
<1>1. routers \in Configs /\ at \in 0 .. Len(routers)
  BY DEF TableInv
<1>2. /\ routers \in Seq(ToSet(routers))
      /\ \A k \in DOMAIN routers :
           /\ routers[k].guards \in Seq(Middlewares)
           /\ \A p \in DOMAIN routers[k].routes : routers[k].routes[p] \in Seq(Descs)
  BY <1>1, ConfigsAssumption
<1> QED BY <1>1, <1>2

\* The chain that handleGroupConfigs makes for a route, if gin accepts it.
LEMMA RouteHandlersFulfil ==
  ASSUME TableInv, at > 0, NEW d \in Descs, Fits(Len(RouteHandlers(d)))
  PROVE  Fulfils(routers, at, d, RouteHandlers(d))
<1> DEFINE u == used
           x == Kept(d.guards, Fresh(d))
           y == Once(d.controllers)
           ch == (u \o x) \o y
           l == Len(u)
           m == Len(u) + Len(x)
<1>1. /\ at \in DOMAIN routers /\ at \in Nat /\ routers[at].guards \in Seq(Middlewares)
      /\ d.guards \in Seq(Middlewares) /\ d.controllers \in Seq(Controllers)
      /\ listed = ToSet(routers[at].guards) /\ listed \subseteq Middlewares
  <2>1. at \in DOMAIN routers /\ at \in Nat
    BY RoutersFacts DEF TableInv
  <2>2. routers[at].guards \in Seq(Middlewares)
    BY <2>1, RoutersFacts
  <2>3. ToSet(routers[at].guards) \subseteq Middlewares
    BY <2>2 DEF ToSet
  <2> QED BY <2>1, <2>2, <2>3 DEF Descs, TableInv, UsedInv
<1>2. /\ GroupHandlers(u) /\ listed \subseteq ToSet(u)
      /\ ToSet(u) \cap Middlewares \subseteq listed \cup Lent(routers, at)
      /\ \A h \in Handlers :
           Times(u, h) <= (IF h \in {"logger", "recovery"} \cup listed THEN 1 ELSE 0)
                             + Cardinality(Blanks(routers, at, h))
  BY DEF TableInv, UsedInv
<1>3. /\ x \in Seq(Middlewares) /\ ToSet(x) = ToSet(d.guards) \ listed
      /\ \A i, j \in DOMAIN x : x[i] = x[j] => i = j
  <2>1. Fresh(d) \in SUBSET Firsts(d.guards)
    BY DEF Fresh
  <2>2. /\ x \in Seq(Middlewares) /\ ToSet(x) = {d.guards[i] : i \in Fresh(d)}
        /\ \A i, j \in DOMAIN x : x[i] = x[j] => i = j
    BY <1>1, <2>1, KeptOnce
  <2>3. \A i \in DOMAIN d.guards : \E n \in Firsts(d.guards) : d.guards[n] = d.guards[i]
    BY <1>1, FirstsCover
  <2>4. {d.guards[i] : i \in Fresh(d)} = ToSet(d.guards) \ listed
    BY <2>3 DEF Fresh, ToSet, Firsts
  <2> QED BY <2>2, <2>4
<1>4. /\ y \in Seq(Controllers) /\ ToSet(y) = ToSet(d.controllers)
      /\ \A i, j \in DOMAIN y : y[i] = y[j] => i = j
  BY <1>1, OnceFacts
<1> HIDE DEF x, y
<1>5. u \in Seq(Handlers) /\ x \in Seq(Handlers) /\ y \in Seq(Handlers)
  <2>1. Middlewares \subseteq Handlers /\ Controllers \subseteq Handlers
    BY DEF Handlers
  <2> QED BY <1>2, <1>3, <1>4, <2>1, SeqMonotonic DEF GroupHandlers
<1>6. RouteHandlers(d) = ch
  <2>1. u \o (x \o y) = (u \o x) \o y
    BY <1>5, ConcatAssociative, SMTT(30)
  <2> QED BY <2>1 DEF RouteHandlers, x, y
<1>7. /\ ch \in Seq(Handlers) /\ Len(u) \in Nat /\ Len(x) \in Nat /\ Len(y) \in Nat
      /\ l \in Nat /\ m \in Nat /\ l <= m
      /\ Len(ch) = m + Len(y) /\ DOMAIN ch = 1 .. m + Len(y)
      /\ DOMAIN u = 1 .. l /\ DOMAIN x = 1 .. Len(x) /\ DOMAIN y = 1 .. Len(y)
      /\ \A i \in 1 .. m + Len(y) :
           ch[i] = IF i <= l THEN u[i] ELSE IF i <= m THEN x[i - l] ELSE y[i - m]
  <2>1. /\ u \o x \in Seq(Handlers) /\ Len(u \o x) = Len(u) + Len(x)
        /\ \A i \in 1 .. Len(u) + Len(x) : (u \o x)[i] = IF i <= Len(u) THEN u[i] ELSE x[i - Len(u)]
    BY <1>5, ConcatProperties
  <2> DEFINE w == u \o x
  <2>2. w \in Seq(Handlers) /\ Len(w) = m
    BY <2>1
  <2>3. /\ Len(u) \in Nat /\ Len(x) \in Nat /\ Len(y) \in Nat
        /\ DOMAIN u = 1 .. l /\ DOMAIN x = 1 .. Len(x) /\ DOMAIN y = 1 .. Len(y)
    BY <1>5
  <2>4. \A i \in 1 .. m : w[i] = IF i <= l THEN u[i] ELSE x[i - l]
    BY <2>1
  <2> HIDE DEF w
  <2>5. /\ w \o y \in Seq(Handlers) /\ Len(w \o y) = m + Len(y)
        /\ \A i \in 1 .. m + Len(y) : (w \o y)[i] = IF i <= m THEN w[i] ELSE y[i - m]
    <3>1. /\ w \o y \in Seq(Handlers) /\ Len(w \o y) = Len(w) + Len(y)
          /\ \A i \in 1 .. Len(w) + Len(y) : (w \o y)[i] = IF i <= Len(w) THEN w[i]
               ELSE y[i - Len(w)]
      <4>1. \A a \in Seq(Handlers), b \in Seq(Handlers) :
              /\ a \o b \in Seq(Handlers) /\ Len(a \o b) = Len(a) + Len(b)
              /\ \A i \in 1 .. Len(a) + Len(b) :
                   (a \o b)[i] = IF i <= Len(a) THEN a[i] ELSE b[i - Len(a)]
        BY ConcatProperties
      <4> QED BY <1>5, <2>2, <4>1
    <3> HIDE DEF m
    <3> QED BY <2>2, <3>1
  <2>6. l \in Nat /\ m \in Nat /\ l <= m
    BY <2>3
  <2> DEFINE c == w \o y
  <2>7. c \in Seq(Handlers) /\ Len(c) = m + Len(y)
        /\ \A i \in 1 .. m + Len(y) : c[i] = IF i <= m THEN w[i] ELSE y[i - m]
    BY <2>5
  <2> HIDE DEF c
  <2> HIDE DEF l, m
  <2>8. \A i \in 1 .. m + Len(y) :
          c[i] = IF i <= l THEN u[i] ELSE IF i <= m THEN x[i - l] ELSE y[i - m]
    <3> TAKE i \in 1 .. m + Len(y)
    <3>1. i <= m => i \in 1 .. m
      BY <2>3, <2>6
    <3>2. i <= l => i <= m
      BY <2>3, <2>6
    <3> QED BY <2>4, <2>7, <3>1, <3>2
  <2>9. DOMAIN c = 1 .. m + Len(y)
    BY <2>7
  <2> QED BY <2>3, <2>6, <2>7, <2>8, <2>9 DEF c, w
<1> HIDE DEF u, l, m
<1> DEFINE c == ch
<1>8. /\ \A i \in 1 .. l : i \in DOMAIN c /\ c[i] = u[i]
      /\ \A i \in 1 .. Len(x) : l + i \in DOMAIN c /\ c[l + i] = x[i]
      /\ \A i \in 1 .. Len(y) : m + i \in DOMAIN c /\ c[m + i] = y[i]
  BY <1>7 DEF l, m
<1>9. \A i \in DOMAIN c :
        \/ i \in 1 .. l /\ c[i] = u[i]
        \/ i > l /\ i <= m /\ i - l \in 1 .. Len(x) /\ c[i] = x[i - l]
        \/ i > m /\ i - m \in 1 .. Len(y) /\ c[i] = y[i - m]
  BY <1>7 DEF l, m
<1>10. c \in Seq(Handlers) /\ c = (u \o x) \o y
  BY <1>7
<1> HIDE DEF c
<1>11. ToSet(c) = ToSet(u) \cup ToSet(x) \cup ToSet(y)
  <2>1. /\ \A i \in 1 .. l : u[i] \in ToSet(c)
        /\ \A i \in 1 .. Len(x) : x[i] \in ToSet(c)
        /\ \A i \in 1 .. Len(y) : y[i] \in ToSet(c)
    BY <1>8 DEF ToSet
  <2>2. \A i \in DOMAIN c : c[i] \in ToSet(u) \cup ToSet(x) \cup ToSet(y)
    BY <1>7, <1>9 DEF ToSet
  <2>3. ToSet(u) \subseteq ToSet(c) /\ ToSet(x) \subseteq ToSet(c) /\ ToSet(y) \subseteq ToSet(c)
    BY <1>7, <2>1 DEF ToSet
  <2>4. ToSet(c) \subseteq ToSet(u) \cup ToSet(x) \cup ToSet(y)
    BY <2>2 DEF ToSet
  <2> QED BY <2>3, <2>4
<1>12. /\ ToSet(x) \subseteq Middlewares /\ ToSet(y) \subseteq Controllers
       /\ ToSet(u) \subseteq {"logger", "recovery"} \cup Middlewares
  <2>1. ToSet(x) \subseteq Middlewares /\ ToSet(y) \subseteq Controllers
    BY <1>3, <1>4 DEF ToSet
  <2>2. \A i \in 1 .. l : i = 1 \/ i = 2 \/ i \in 3 .. l
    BY <1>7
  <2>3. \A i \in DOMAIN u : u[i] \in {"logger", "recovery"} \cup Middlewares
    BY <1>2, <1>7, <2>2 DEF GroupHandlers, l
  <2> QED BY <2>1, <2>3 DEF ToSet
<1>13. WellFormed(c)
  <2>1. /\ c \in Seq(Handlers) /\ Fits(Len(c)) /\ Len(c) \in Nat /\ Len(c) >= l /\ l >= 2
        /\ DOMAIN c = 1 .. Len(c)
    <3>1. Fits(Len(c))
      BY <1>6, <1>10
    <3>2. Len(c) = m + Len(y)
      BY <1>7 DEF c
    <3>3. l >= 2
      BY <1>2 DEF GroupHandlers, l
    <3> QED BY <1>7, <1>10, <3>1, <3>2, <3>3
  <2>2. c[1] = "logger" /\ c[2] = "recovery"
    <3>1. 1 \in 1 .. l /\ 2 \in 1 .. l
      BY <1>7, <2>1
    <3> QED BY <1>2, <1>8, <3>1 DEF GroupHandlers
  <2>3. /\ \A i \in DOMAIN x : x[i] \in Middlewares
        /\ \A i \in DOMAIN y : y[i] \in Controllers
        /\ \A i \in 3 .. l : u[i] \in Middlewares
    BY <1>2, <1>3, <1>4 DEF GroupHandlers, l
  <2>4. \A i \in 3 .. Len(c) : c[i] \in Middlewares \cup Controllers
    <3> TAKE i \in 3 .. Len(c)
    <3>1. i \in DOMAIN c /\ i \in Nat /\ i >= 3
      BY <2>1
    <3> QED BY <1>7, <1>9, <2>3, <3>1
  <2>5. \A i \in 1 .. Len(c) : c[i] \in Controllers => i > m
    <3> TAKE i \in 1 .. Len(c)
    <3>1. i \in DOMAIN c
      BY <2>1
    <3>2. \A h \in Middlewares \cup {"logger", "recovery"} : h \notin Controllers
      BY HandlersAssumption
    <3>3. \A j \in 1 .. l : u[j] \in Middlewares \cup {"logger", "recovery"}
      BY <1>7, <1>12 DEF ToSet
    <3> QED BY <1>7, <1>9, <2>3, <3>1, <3>2, <3>3
  <2>6. \A j \in 1 .. Len(c) : j > m => c[j] \in Controllers
    <3> TAKE j \in 1 .. Len(c)
    <3>1. j \in DOMAIN c
      BY <2>1
    <3> QED BY <1>7, <1>9, <2>3, <3>1
  <2>7. \A i, j \in 1 .. Len(c) : i < j /\ c[i] \in Controllers => c[j] \in Controllers
    <3>1. \A i, j \in 1 .. Len(c) : i < j /\ i > m => j > m
      BY <1>7, <2>1
    <3> QED BY <2>5, <2>6, <3>1
  <2>8. Len(c) >= 2
    BY <1>7, <2>1
  <2> QED BY <2>1, <2>2, <2>4, <2>7, <2>8 DEF WellFormed
<1>14. ToSet(c) \cap Controllers = ToSet(d.controllers)
  BY <1>4, <1>11, <1>12, HandlersAssumption
<1>15. /\ Listed(routers, at, d) \subseteq ToSet(c)
       /\ ToSet(c) \cap Middlewares \subseteq Listed(routers, at, d) \cup Lent(routers, at)
  BY <1>1, <1>2, <1>3, <1>11, <1>12, HandlersAssumption DEF Listed
<1>16. ASSUME NEW g \in listed, NEW h \in ToSet(d.guards) \ listed
       PROVE  \E i, j \in DOMAIN c : i < j /\ c[i] = g /\ c[j] = h
  <2>1. PICK i \in 1 .. l : u[i] = g
    BY <1>2, <1>7 DEF ToSet
  <2>2. PICK j \in 1 .. Len(x) : x[j] = h
    BY <1>3, <1>7 DEF ToSet
  <2>3. i < l + j
    BY <1>7
  <2> QED BY <1>8, <2>1, <2>2, <2>3
<1>17. ASSUME NEW h \in Handlers
       PROVE  Times(c, h) <= 1 + Cardinality(Blanks(routers, at, h))
  <2>1. /\ Times(c, h) \in Nat /\ Times(u, h) \in Nat /\ Times(x, h) \in Nat /\ Times(y, h) \in Nat
        /\ Times(u \o x, h) \in Nat
    BY <1>5, <1>10, TimesType, ConcatProperties
  <2>2. /\ Times(c, h) <= Times(u \o x, h) + Times(y, h)
        /\ Times(u \o x, h) <= Times(u, h) + Times(x, h)
    <3>1. u \o x \in Seq(Handlers)
      BY <1>5
    <3> QED BY <1>5, <1>10, <3>1, TimesConcat
  <2>3. /\ Times(x, h) <= IF h \in ToSet(x) THEN 1 ELSE 0
        /\ Times(y, h) <= IF h \in ToSet(y) THEN 1 ELSE 0
    BY <1>3, <1>4, TimesOnce
  <2>4. Times(u, h) <= (IF h \in {"logger", "recovery"} \cup listed THEN 1 ELSE 0)
                             + Cardinality(Blanks(routers, at, h))
    BY <1>2
  <2>5. /\ h \in {"logger", "recovery"} \cup listed => h \notin ToSet(x) /\ h \notin ToSet(y)
        /\ h \in ToSet(x) => h \notin ToSet(y)
    BY <1>1, <1>3, <1>12, HandlersAssumption
  <2>6. Cardinality(Blanks(routers, at, h)) \in Nat
    <3>1. at \in 0 .. Len(routers) + 1
      BY RoutersFacts DEF TableInv
    <3> QED BY <3>1, BlanksFinite
  <2> QED BY <2>1, <2>2, <2>3, <2>4, <2>5, <2>6
<1>18. c = RouteHandlers(d)
  BY <1>6, <1>10
<1> QED BY <1>1, <1>13, <1>14, <1>15, <1>16, <1>17, <1>18 DEF Fulfils

-----------------------------------------------------------------------------
(* The steps *)

\* What Use makes of the handlers of a group.
LEMMA UsedFulfils ==
  ASSUME TableInv, at < Len(routers), NEW handlers,
         handlers = root \o Once(routers[at + 1].guards)
  PROVE  LET flags == ToSet(routers[at + 1].guards) IN
         /\ GroupHandlers(handlers)
         /\ flags \subseteq ToSet(handlers)
         /\ ToSet(handlers) \cap Middlewares \subseteq flags \cup Lent(routers, at + 1)
         /\ \A h \in Handlers :
              Times(handlers, h) <= (IF h \in {"logger", "recovery"} \cup flags THEN 1 ELSE 0)
                                      + Cardinality(Blanks(routers, at + 1, h))
<1> DEFINE k == at + 1
           s == routers[at + 1].guards
           x == Once(s)
           flags == ToSet(routers[at + 1].guards)
<1>1. at \in Nat /\ k \in DOMAIN routers /\ s \in Seq(Middlewares)
  <2>1. at \in Nat /\ k \in DOMAIN routers
    BY RoutersFacts
  <2> QED BY <2>1, RoutersFacts
<1>2. /\ x \in Seq(Middlewares) /\ ToSet(x) = flags
      /\ \A i, j \in DOMAIN x : x[i] = x[j] => i = j
  BY <1>1, OnceFacts
<1> HIDE DEF x
<1>3. /\ GroupHandlers(root)
      /\ ToSet(root) \cap Middlewares \subseteq Lent(routers, at + 1)
      /\ \A h \in Handlers :
           Times(root, h) <= (IF h \in {"logger", "recovery"} THEN 1 ELSE 0)
                               + Cardinality(Blanks(routers, at + 1, h))
  BY DEF TableInv, RootInv
<1>4. root \in Seq(Handlers) /\ x \in Seq(Handlers) /\ flags \subseteq Middlewares
  <2>1. Middlewares \subseteq Handlers
    BY DEF Handlers
  <2> QED BY <1>1, <1>2, <1>3, <2>1, SeqMonotonic DEF GroupHandlers, ToSet
<1>5. /\ handlers \in Seq(Handlers) /\ Len(handlers) = Len(root) + Len(x)
      /\ Len(root) \in Nat /\ Len(x) \in Nat
      /\ DOMAIN root = 1 .. Len(root) /\ DOMAIN x = 1 .. Len(x)
      /\ DOMAIN handlers = 1 .. Len(root) + Len(x)
      /\ \A i \in 1 .. Len(root) + Len(x) :
           handlers[i] = IF i <= Len(root) THEN root[i] ELSE x[i - Len(root)]
  <2>1. /\ root \o x \in Seq(Handlers) /\ Len(root \o x) = Len(root) + Len(x)
        /\ \A i \in 1 .. Len(root) + Len(x) :
           (root \o x)[i] = IF i <= Len(root) THEN root[i] ELSE x[i - Len(root)]
    BY <1>4, ConcatProperties
  <2>2. handlers = root \o x
    BY DEF x
  <2> QED BY <1>4, <2>1, <2>2
<1>6. GroupHandlers(handlers)
  <2>1. \A i \in DOMAIN x : x[i] \in Middlewares
    BY <1>2
  <2>2. Len(root) >= 2 /\ \A i \in 3 .. Len(root) : root[i] \in Middlewares
    BY <1>3 DEF GroupHandlers
  <2>3. \A i \in 3 .. Len(handlers) : handlers[i] \in Middlewares
    <3> TAKE i \in 3 .. Len(handlers)
    <3>1. CASE i <= Len(root)
      <4>1. i \in 3 .. Len(root) /\ i \in 1 .. Len(root) + Len(x)
        BY <1>5, <3>1
      <4> QED BY <1>5, <2>2, <3>1, <4>1
    <3>2. CASE ~(i <= Len(root))
      <4>1. i - Len(root) \in DOMAIN x /\ i \in 1 .. Len(root) + Len(x)
        BY <1>5, <3>2
      <4> QED BY <1>5, <2>1, <3>2, <4>1
    <3> QED BY <3>1, <3>2
  <2>4. Len(handlers) >= 2 /\ handlers[1] = root[1] /\ handlers[2] = root[2]
    BY <1>5, <2>2
  <2> QED BY <1>3, <1>5, <2>3, <2>4 DEF GroupHandlers
<1>7. ToSet(handlers) = ToSet(root) \cup ToSet(x)
  <2>1. \A i \in DOMAIN handlers : handlers[i] \in ToSet(root) \cup ToSet(x)
    <3>1. (\A i \in DOMAIN root : root[i] \in ToSet(root))
            /\ (\A i \in DOMAIN x : x[i] \in ToSet(x))
      BY DEF ToSet
    <3>2. \A i \in 1 .. Len(root) + Len(x) : IF i <= Len(root) THEN i \in 1 .. Len(root)
                                                ELSE i - Len(root) \in 1 .. Len(x)
      BY <1>5
    <3> QED BY <1>5, <3>1, <3>2
  <2>2. \A i \in DOMAIN root : i \in DOMAIN handlers /\ handlers[i] = root[i]
    BY <1>5
  <2>3. \A i \in DOMAIN x : Len(root) + i \in DOMAIN handlers /\ handlers[Len(root) + i] = x[i]
    BY <1>5
  <2>4. ToSet(handlers) \subseteq ToSet(root) \cup ToSet(x)
    BY <2>1 DEF ToSet
  <2>5. ToSet(root) \subseteq ToSet(handlers)
    BY <2>2 DEF ToSet
  <2>6. ToSet(x) \subseteq ToSet(handlers)
    BY <2>3 DEF ToSet
  <2> QED BY <2>4, <2>5, <2>6
<1>8. ASSUME NEW h \in Handlers
      PROVE  Times(handlers, h) <= (IF h \in {"logger", "recovery"} \cup flags THEN 1 ELSE 0)
                                      + Cardinality(Blanks(routers, at + 1, h))
  <2>1. Times(handlers, h) <= Times(root, h) + Times(x, h)
    BY <1>4, TimesConcat DEF x
  <2>2. Times(handlers, h) \in Nat /\ Times(root, h) \in Nat /\ Times(x, h) \in Nat
    BY <1>4, <1>5, TimesType
  <2>3. Times(x, h) <= IF h \in flags THEN 1 ELSE 0
    BY <1>2, TimesOnce
  <2>4. h \in flags => h \notin {"logger", "recovery"}
    BY <1>4, HandlersAssumption
  <2>5. Cardinality(Blanks(routers, at + 1, h)) \in Nat
    <3>1. at + 1 \in 0 .. Len(routers) + 1
      BY RoutersFacts DEF TableInv
    <3> QED BY <3>1, BlanksFinite
  <2> QED BY <1>3, <2>1, <2>2, <2>3, <2>4, <2>5
<1> QED BY <1>2, <1>3, <1>6, <1>7, <1>8

\* The group of the next router.
LEMMA HandleGroupInv ==
  ASSUME TableInv, HandleGroup
  PROVE  TableInv'
<1>1. /\ phase = "combining" /\ todo = {} /\ at < Len(routers) /\ UNCHANGED <<routers, table>>
      /\ Len(routers) \in Nat /\ DOMAIN routers = 1 .. Len(routers) /\ at \in Nat
  BY RoutersFacts DEF HandleGroup
<1> DEFINE r == routers[at + 1]
           flags == ToSet(r.guards)
<1>2. CASE phase' = "down" /\ UNCHANGED <<at, root, used, listed, todo>>
  <2>1. phase' # "listening"
    BY <1>2
  <2>2. RootInv' /\ UsedInv' /\ Registered' /\ Derived'
    BY <1>1, <1>2 DEF TableInv, RootInv, UsedInv, Registered, Derived
  <2> QED BY <1>1, <1>2, <2>1, <2>2 DEF TableInv
<1>3. CASE /\ at' = at + 1 /\ used' = root \o Once(r.guards)
           /\ root' = RootAfter(r, used') /\ listed' = Flags(r) /\ todo' = DOMAIN r.routes
           /\ UNCHANGED phase
  <2>1. /\ GroupHandlers(used') /\ flags \subseteq ToSet(used')
        /\ ToSet(used') \cap Middlewares \subseteq flags \cup Lent(routers, at + 1)
        /\ \A h \in Handlers :
             Times(used', h) <= (IF h \in {"logger", "recovery"} \cup flags THEN 1 ELSE 0)
                                   + Cardinality(Blanks(routers, at + 1, h))
    BY <1>1, <1>3, UsedFulfils
  <2>2. listed' = flags
    BY <1>3 DEF Flags
  <2>4. UsedInv'
    <3>1. listed' = ToSet(routers'[at'].guards) /\ routers' = routers /\ at' = at + 1
      BY <1>1, <1>3, <2>2
    <3> QED BY <2>1, <2>2, <3>1 DEF UsedInv
  <2>5. RootInv'
    <3>1. /\ Lent(routers, at + 1) \subseteq Lent(routers, at + 2)
          /\ IsBlank(r.group) => flags \subseteq Lent(routers, at + 2)
          /\ routers' = routers /\ at' + 1 = at + 2
      <4>1. \A j \in 1 .. (at + 1) - 1 : j \in 1 .. (at + 2) - 1
        BY <1>1
      <4>2. at + 1 \in 1 .. (at + 2) - 1
        BY <1>1
      <4>3. routers' = routers /\ at' + 1 = at + 2
        BY <1>1, <1>3
      <4>4. ASSUME NEW g \in Lent(routers, at + 1)
            PROVE  g \in Lent(routers, at + 2)
        <5>1. PICK j \in 1 .. (at + 1) - 1 :
                     IsBlank(routers[j].group) /\ g \in ToSet(routers[j].guards)
          BY <4>4 DEF Lent
        <5> QED BY <4>1, <5>1 DEF Lent
      <4>5. ASSUME IsBlank(r.group), NEW g \in flags
            PROVE  g \in Lent(routers, at + 2)
        BY <4>2, <4>5 DEF Lent
      <4> QED BY <4>3, <4>4, <4>5
    <3>2. ASSUME NEW h
          PROVE  /\ Cardinality(Blanks(routers, at + 1, h)) <=
                      Cardinality(Blanks(routers, at + 2, h))
                 /\ IsBlank(r.group) /\ h \in flags =>
                      Cardinality(Blanks(routers, at + 2, h)) =
                        Cardinality(Blanks(routers, at + 1, h)) + 1
                 /\ Cardinality(Blanks(routers, at + 1, h)) \in Nat
                      /\ Cardinality(Blanks(routers, at + 2, h)) \in Nat
      <4> DEFINE A == Blanks(routers, at + 1, h)
                 B == Blanks(routers, at + 2, h)
      <4>1. IsFiniteSet(A) /\ IsFiniteSet(B) /\ Cardinality(A) \in Nat /\ Cardinality(B) \in Nat
        <5>1. at + 1 \in 0 .. Len(routers) + 1 /\ at + 2 \in 0 .. Len(routers) + 1
          BY <1>1
        <5> QED BY <5>1, BlanksFinite
      <4>2. /\ \A j : j \in A <=> /\ j \in 1 .. (at + 1) - 1 /\ IsBlank(routers[j].group)
                                   /\ h \in ToSet(routers[j].guards)
            /\ \A j : j \in B <=> /\ j \in 1 .. (at + 2) - 1 /\ IsBlank(routers[j].group)
                                   /\ h \in ToSet(routers[j].guards)
        BY DEF Blanks
      <4> HIDE DEF A, B
      <4>3. A \subseteq B /\ at + 1 \notin A
        <5>1. \A j \in 1 .. (at + 1) - 1 : j \in 1 .. (at + 2) - 1 /\ j # at + 1
          BY <1>1
        <5> QED BY <4>2, <5>1
      <4>4. IsBlank(r.group) /\ h \in flags => B = A \cup {at + 1}
        <5>1. \A j \in 1 .. (at + 2) - 1 : j = at + 1 \/ j \in 1 .. (at + 1) - 1
          BY <1>1
        <5>2. at + 1 \in 1 .. (at + 2) - 1
          BY <1>1
        <5> QED BY <4>2, <4>3, <5>1, <5>2
      <4>6. Cardinality(A) <= Cardinality(B)
        BY <4>1, <4>3, FS_Subset
      <4>7. IsBlank(r.group) /\ h \in flags => Cardinality(B) = Cardinality(A) + 1
        BY <4>1, <4>3, <4>4, FS_AddElement
      <4> QED BY <4>1, <4>6, <4>7 DEF A, B
    <3>3. CASE IsBlank(r.group)
      <4>1. root' = used'
        BY <1>3, <3>3 DEF RootAfter
      <4>2. GroupHandlers(root') /\ ToSet(root') \cap Middlewares \subseteq Lent(routers, at + 2)
        BY <2>1, <3>1, <3>3, <4>1
      <4>3. ASSUME NEW h \in Handlers
            PROVE  Times(root', h) <= (IF h \in {"logger", "recovery"} THEN 1 ELSE 0)
                                        + Cardinality(Blanks(routers, at + 2, h))
        <5>1. Times(root', h) \in Nat
          BY <4>2, TimesType DEF GroupHandlers
        <5>2. Times(root', h) <= (IF h \in {"logger", "recovery"} \cup flags THEN 1 ELSE 0)
                                   + Cardinality(Blanks(routers, at + 1, h))
          BY <2>1, <4>1
        <5> HIDE DEF flags
        <5> QED BY <3>2, <3>3, <5>1, <5>2
      <4> QED BY <3>1, <4>2, <4>3 DEF RootInv
    <3>4. CASE ~IsBlank(r.group)
      <4>1. root' = root
        BY <1>3, <3>4 DEF RootAfter
      <4>2. GroupHandlers(root') /\ ToSet(root') \cap Middlewares \subseteq Lent(routers, at + 2)
        BY <3>1, <4>1 DEF TableInv, RootInv
      <4>3. ASSUME NEW h \in Handlers
            PROVE  Times(root', h) <= (IF h \in {"logger", "recovery"} THEN 1 ELSE 0)
                                        + Cardinality(Blanks(routers, at + 2, h))
        <5>1. Times(root', h) \in Nat
          BY <4>2, TimesType DEF GroupHandlers
        <5>2. Times(root', h) <= (IF h \in {"logger", "recovery"} THEN 1 ELSE 0)
                                   + Cardinality(Blanks(routers, at + 1, h))
          BY <4>1 DEF TableInv, RootInv
        <5> QED BY <3>2, <5>1, <5>2
      <4> QED BY <3>1, <4>2, <4>3 DEF RootInv
    <3> QED BY <3>3, <3>4
  <2>6. Registered'
    <3> SUFFICES ASSUME NEW k \in 1 .. at', NEW p \in DOMAIN routers[k].routes,
                        k = at' => p \notin todo', NEW d \in ToSet(routers[k].routes[p])
                 PROVE  /\ <<Upper(d.method), p>> \in DOMAIN table
                        /\ Fulfils(routers, k, d, table[<<Upper(d.method), p>>])
      BY <1>1 DEF Registered
    <3>1. k \in 1 .. at
      BY <1>1, <1>3
    <3>2. k = at => p \notin todo
      BY <1>1
    <3> QED BY <3>1, <3>2 DEF TableInv, Registered
  <2>7. at' \in 0 .. Len(routers') /\ at' # 0 /\ todo' \subseteq DOMAIN routers'[at'].routes
    BY <1>1, <1>3
  <2>8. phase' # "listening"
    BY <1>1, <1>3
  <2>9. routers' \in Configs /\ Derived'
    BY <1>1 DEF TableInv, Derived
  <2> QED BY <2>4, <2>5, <2>6, <2>7, <2>8, <2>9 DEF TableInv
<1> QED BY <1>2, <1>3 DEF HandleGroup

\* A step of HandlePath: gin panics, or a path has its chains and nothing else
\* of the table has changed.
LEMMA PathSteps ==
  ASSUME TableInv, HandlePath
  PROVE  /\ phase = "combining" /\ UNCHANGED <<routers, at, root, used, listed>>
         /\ \/ phase' = "down" /\ UNCHANGED <<table, todo>>
            \/ \E p \in todo :
                 /\ at > 0 /\ at \in DOMAIN routers /\ p \in DOMAIN routers[at].routes
                 /\ todo' = todo \ {p} /\ UNCHANGED phase
                 /\ \A key \in DOMAIN table : key \in DOMAIN table' /\ table'[key] = table[key]
                 /\ \A d \in ToSet(routers[at].routes[p]) :
                      /\ d \in Descs /\ Fits(Len(RouteHandlers(d)))
                      /\ <<Upper(d.method), p>> \in DOMAIN table'
                      /\ table'[<<Upper(d.method), p>>] = RouteHandlers(d)
                 /\ \A key \in DOMAIN table' : key \notin DOMAIN table =>
                      \E d \in ToSet(routers[at].routes[p]) : key = <<Upper(d.method), p>>
<1>1. phase = "combining" /\ UNCHANGED <<routers, at, root, used, listed>>
  BY DEF HandlePath
<1>2. PICK p \in todo :
        LET descs == routers[at].routes[p]
            keys == [i \in DOMAIN descs |-> <<Upper(descs[i].method), p>>]
        IN IF /\ \A i \in DOMAIN descs : Fits(Len(RouteHandlers(descs[i])))
              /\ IsInjective(keys) /\ Range(keys) \cap DOMAIN table = {}
           THEN /\ table' = [k \in DOMAIN table \cup Range(keys) |->
                               IF k \in DOMAIN table THEN table[k]
                               ELSE RouteHandlers(descs[CHOOSE i \in DOMAIN descs : keys[i] = k])]
                /\ todo' = todo \ {p}
                /\ UNCHANGED phase
           ELSE phase' = "down" /\ UNCHANGED <<table, todo>>
  BY DEF HandlePath
<1> DEFINE descs == routers[at].routes[p]
           keys == [i \in DOMAIN descs |-> <<Upper(descs[i].method), p>>]
<1>3. /\ at > 0 /\ at \in DOMAIN routers /\ p \in DOMAIN routers[at].routes
      /\ descs \in Seq(Descs)
  <2>1. at # 0 /\ p \in DOMAIN routers[at].routes
    BY <1>2 DEF TableInv
  <2>2. at > 0 /\ at \in DOMAIN routers
    BY <2>1, RoutersFacts DEF TableInv
  <2> QED BY <2>1, <2>2, RoutersFacts
<1>4. CASE /\ \A i \in DOMAIN descs : Fits(Len(RouteHandlers(descs[i])))
           /\ IsInjective(keys) /\ Range(keys) \cap DOMAIN table = {}
           /\ table' = [k \in DOMAIN table \cup Range(keys) |->
                          IF k \in DOMAIN table THEN table[k]
                          ELSE RouteHandlers(descs[CHOOSE i \in DOMAIN descs : keys[i] = k])]
           /\ todo' = todo \ {p}
           /\ UNCHANGED phase
  <2>1. \A i \in DOMAIN descs : keys[i] \in Range(keys) /\ keys[i] = <<Upper(descs[i].method), p>>
    BY DEF Range
  <2>2. \A key \in Range(keys) : \E i \in DOMAIN descs : keys[i] = key
    BY DEF Range
  <2>3. \A i, j \in DOMAIN descs : keys[i] = keys[j] => i = j
    <3>1. DOMAIN keys = DOMAIN descs
      OBVIOUS
    <3> HIDE DEF keys
    <3> QED BY <1>4, <3>1 DEF IsInjective
  <2>4. /\ \A d \in ToSet(descs) : \E i \in DOMAIN descs : descs[i] = d
        /\ \A i \in DOMAIN descs : descs[i] \in ToSet(descs) /\ descs[i] \in Descs
    BY <1>3 DEF ToSet
  <2> HIDE DEF descs, keys
  <2>5. \A key \in DOMAIN table : key \in DOMAIN table' /\ table'[key] = table[key]
    BY <1>4
  <2>6. ASSUME NEW d \in ToSet(descs)
        PROVE  /\ d \in Descs /\ Fits(Len(RouteHandlers(d)))
               /\ <<Upper(d.method), p>> \in DOMAIN table'
               /\ table'[<<Upper(d.method), p>>] = RouteHandlers(d)
    <3>1. PICK i \in DOMAIN descs : descs[i] = d
      BY <2>4
    <3>2. keys[i] = <<Upper(d.method), p>> /\ keys[i] \in Range(keys) /\ keys[i] \notin DOMAIN table
      BY <1>4, <2>1, <3>1
    <3>3. (CHOOSE j \in DOMAIN descs : keys[j] = keys[i]) = i
      BY <2>3
    <3>4. keys[i] \in DOMAIN table' /\ table'[keys[i]] = RouteHandlers(d)
      BY <1>4, <3>1, <3>2, <3>3
    <3> QED BY <1>4, <2>4, <3>1, <3>2, <3>4
  <2>7. ASSUME NEW key \in DOMAIN table', key \notin DOMAIN table
        PROVE  \E d \in ToSet(descs) : key = <<Upper(d.method), p>>
    <3>1. key \in Range(keys)
      BY <1>4, <2>7
    <3>2. PICK i \in DOMAIN descs : keys[i] = key
      BY <2>2, <3>1
    <3> QED BY <2>1, <2>4, <3>2
  <2> QED BY <1>1, <1>3, <1>4, <2>5, <2>6, <2>7 DEF descs
<1> QED BY <1>1, <1>2, <1>4

\* The chains of a path are those that its routes should have.
LEMMA HandlePathInv ==
  ASSUME TableInv, HandlePath
  PROVE  TableInv'
<1>1. /\ phase = "combining" /\ UNCHANGED <<routers, at, root, used, listed>>
      /\ Len(routers) \in Nat /\ DOMAIN routers = 1 .. Len(routers) /\ at \in Nat
  BY RoutersFacts, PathSteps
<1>2. RootInv' /\ UsedInv'
  BY <1>1 DEF TableInv, RootInv, UsedInv
<1>3. CASE phase' = "down" /\ UNCHANGED <<table, todo>>
  <2>1. phase' # "listening"
    BY <1>3
  <2>2. Registered' /\ Derived'
    BY <1>1, <1>3 DEF TableInv, Registered, Derived
  <2> QED BY <1>1, <1>2, <1>3, <2>1, <2>2 DEF TableInv
<1>4. CASE ~(phase' = "down" /\ UNCHANGED <<table, todo>>)
  <2>1. PICK p \in todo :
          /\ at > 0 /\ at \in DOMAIN routers /\ p \in DOMAIN routers[at].routes
          /\ todo' = todo \ {p} /\ UNCHANGED phase
          /\ \A key \in DOMAIN table : key \in DOMAIN table' /\ table'[key] = table[key]
          /\ \A d \in ToSet(routers[at].routes[p]) :
               /\ d \in Descs /\ Fits(Len(RouteHandlers(d)))
               /\ <<Upper(d.method), p>> \in DOMAIN table'
               /\ table'[<<Upper(d.method), p>>] = RouteHandlers(d)
          /\ \A key \in DOMAIN table' : key \notin DOMAIN table =>
               \E d \in ToSet(routers[at].routes[p]) : key = <<Upper(d.method), p>>
    BY <1>4, PathSteps
  <2>2. ASSUME NEW d \in ToSet(routers[at].routes[p])
        PROVE  d \in Descs /\ Fulfils(routers, at, d, table'[<<Upper(d.method), p>>])
    BY <2>1, RouteHandlersFulfil
  <2>3. ASSUME NEW key \in DOMAIN table'
        PROVE  /\ key = <<key[1], key[2]>>
               /\ \E k \in DOMAIN routers : \E d \in Descs : Fulfils(routers, k, d, table'[key])
    <3>1. CASE key \in DOMAIN table
      BY <2>1, <3>1 DEF TableInv, Derived
    <3>2. CASE key \notin DOMAIN table
      <4>1. PICK d \in ToSet(routers[at].routes[p]) : key = <<Upper(d.method), p>>
        BY <2>1, <3>2
      <4>2. key = <<key[1], key[2]>>
        BY <4>1
      <4> QED BY <2>1, <2>2, <4>1, <4>2
    <3> QED BY <3>1, <3>2
  <2>4. Registered'
    <3> SUFFICES ASSUME NEW k \in 1 .. at, NEW q \in DOMAIN routers[k].routes,
                        k = at => q \notin todo', NEW d \in ToSet(routers[k].routes[q])
                 PROVE  /\ <<Upper(d.method), q>> \in DOMAIN table'
                        /\ Fulfils(routers, k, d, table'[<<Upper(d.method), q>>])
      BY <1>1 DEF Registered
    <3>1. CASE k = at /\ q = p
      BY <2>1, <2>2, <3>1
    <3>2. CASE ~(k = at /\ q = p)
      <4>1. k = at => q \notin todo
        BY <2>1, <3>2
      <4>2. /\ <<Upper(d.method), q>> \in DOMAIN table
            /\ Fulfils(routers, k, d, table[<<Upper(d.method), q>>])
        BY <4>1 DEF TableInv, Registered
      <4> QED BY <2>1, <4>2
    <3> QED BY <3>1, <3>2
  <2>5. phase' # "listening" /\ todo' \subseteq DOMAIN routers[at].routes
    BY <1>1, <2>1 DEF TableInv
  <2>6. Derived'
    BY <1>1, <2>3 DEF Derived
  <2> QED BY <1>1, <1>2, <2>1, <2>4, <2>5, <2>6 DEF TableInv
<1> QED BY <1>3, <1>4

\* main starts to listen when all paths have been taken.
LEMMA ListenInv ==
  ASSUME TableInv, Listen
  PROVE  TableInv'
BY DEF Listen, TableInv, RootInv, UsedInv, Registered, Derived

\* Before the first router only the engine has middlewares.
LEMMA TableInitInv ==
  ASSUME TableInit
  PROVE  TableInv
<1>1. /\ routers \in Configs /\ at = 0 /\ root = <<"logger", "recovery">> /\ todo = {}
      /\ table = <<>> /\ phase = "combining"
  BY DEF TableInit
<1>2. Len(routers) \in Nat
  BY <1>1, ConfigsAssumption
<1>3. /\ root \in Seq(Handlers) /\ Len(root) = 2 /\ root[1] = "logger" /\ root[2] = "recovery"
      /\ DOMAIN root = 1 .. 2
  BY <1>1 DEF Handlers
<1>4. GroupHandlers(root)
  BY <1>3 DEF GroupHandlers
<1>5. ToSet(root) \cap Middlewares = {}
  <2>1. \A i \in DOMAIN root : root[i] \in {"logger", "recovery"}
    <3>1. \A i \in 1 .. 2 : i = 1 \/ i = 2
      OBVIOUS
    <3> QED BY <1>3, <3>1
  <2> QED BY <2>1, HandlersAssumption DEF ToSet
<1>6. ASSUME NEW h \in Handlers
      PROVE  Times(root, h) <= (IF h \in {"logger", "recovery"} THEN 1 ELSE 0)
                                 + Cardinality(Blanks(routers, at + 1, h))
  <2>1. \A i, j \in DOMAIN root : root[i] = root[j] => i = j
    <3>1. \A i \in 1 .. 2 : i = 1 \/ i = 2
      OBVIOUS
    <3> QED BY <1>3, <3>1
  <2>2. Times(root, h) <= IF h \in ToSet(root) THEN 1 ELSE 0
    BY <1>3, <2>1, TimesOnce
  <2>3. h \in ToSet(root) => h \in {"logger", "recovery"}
    <3>1. \A i \in 1 .. 2 : i = 1 \/ i = 2
      OBVIOUS
    <3> QED BY <1>3, <3>1 DEF ToSet
  <2>4. Blanks(routers, at + 1, h) = {}
    BY <1>1 DEF Blanks
  <2>5. Times(root, h) \in Nat /\ Cardinality(Blanks(routers, at + 1, h)) = 0
    BY <1>3, <2>4, TimesType, FS_EmptySet
  <2> QED BY <2>2, <2>3, <2>5
<1>7. RootInv
  BY <1>4, <1>5, <1>6 DEF RootInv
<1>8. UsedInv /\ Registered
  BY <1>1 DEF UsedInv, Registered
<1>9. DOMAIN table = {}
  BY <1>1
<1> QED BY <1>1, <1>2, <1>7, <1>8, <1>9 DEF TableInv, Derived

-----------------------------------------------------------------------------
(* Requests in a server *)

\* The last request, if there was one, has the chain of its route.
RouteInv ==
  \/ chain = <<>> /\ trace = <<>> /\ stack = <<>>
  \/ phase = "listening" /\ route \in DOMAIN table /\ chain = table[route]

ServerInv == TableInv /\ ChainInv /\ RouteInv

-----------------------------------------------------------------------------

\* The server's steps are those of the table and of the request.
LEMMA ServerSteps ==
  ASSUME ServerInv, [ServerNext]_serverVars
  PROVE  [Next]_vars /\ [TableNext]_tableVars
<1>1. CASE ServeRoute
  <2>1. PICK key \in DOMAIN table : Start(table[key]) /\ UNCHANGED tableVars
    BY <1>1 DEF ServeRoute
  <2>2. PICK k \in DOMAIN routers : \E d \in Descs : Fulfils(routers, k, d, table[key])
    BY DEF ServerInv, TableInv, Derived
  <2>3. WellFormed(table[key])
    BY <2>2 DEF Fulfils
  <2>4. chain' = table[key]
    BY <2>1 DEF Start
  <2>5. Start(chain')
    BY <2>1, <2>4 DEF Start
  <2> QED BY <2>1, <2>3, <2>4, <2>5 DEF Serve, Next
<1>2. CASE (TableNext /\ UNCHANGED <<vars, route>>)
             \/ (Handle /\ UNCHANGED <<tableVars, route>>) \/ Down \/ UNCHANGED serverVars
  BY <1>2 DEF Next, Down, serverVars
<1> QED BY <1>1, <1>2 DEF ServerNext

\* What fills the table keeps its invariant.
LEMMA NextTableInv ==
  ASSUME TableInv, [TableNext]_tableVars
  PROVE  TableInv'
<1>1. CASE UNCHANGED tableVars
  BY <1>1 DEF tableVars, TableInv, RootInv, UsedInv, Registered, Derived
<1> QED BY <1>1, HandleGroupInv, HandlePathInv, ListenInv DEF TableNext

\* A request keeps the chain that its key had when it came in.
LEMMA NextRouteInv ==
  ASSUME ServerInv, [ServerNext]_serverVars
  PROVE  RouteInv'
<1>1. CASE ServeRoute
  BY <1>1 DEF ServeRoute, Start, RouteInv, tableVars
<1>2. CASE TableNext /\ UNCHANGED <<vars, route>>
  <2>1. phase # "listening"
    BY <1>2 DEF TableNext, HandleGroup, HandlePath, Listen
  <2> QED BY <1>2, <2>1 DEF ServerInv, RouteInv, vars
<1>3. CASE Handle /\ UNCHANGED <<tableVars, route>>
  <2>1. stack # <<>> /\ chain' = chain
    BY <1>3 DEF Handle, Invoke, LoopEnd, Before, After, Request, Recover, Drop, Renders, Panics,
                At, Busy, ServerInv, ChainInv, IndInv, StackInv
  <2> QED BY <1>3, <2>1 DEF ServerInv, RouteInv, tableVars
<1>4. CASE Down \/ UNCHANGED serverVars
  BY <1>4 DEF Down, serverVars, tableVars, vars, ServerInv, RouteInv
<1> QED BY <1>1, <1>2, <1>3, <1>4 DEF ServerNext

\* All steps of the server keep the invariant.
LEMMA NextServerInv ==
  ASSUME ServerInv, [ServerNext]_serverVars
  PROVE  ServerInv'
BY ServerSteps, NextTableInv, NextChainInv, NextRouteInv DEF ServerInv

\* The invariant holds when main starts.
LEMMA InitServerInv ==
  ASSUME ServerInit
  PROVE  ServerInv
BY TableInitInv, InitChainInv DEF ServerInit, ServerInv, RouteInv, Init

\* What a listening server has in its table for the routes of a key.
LEMMA RoutesFulfilled ==
  ASSUME TableInv, phase = "listening",
         NEW k \in DOMAIN routers, NEW p \in DOMAIN routers[k].routes,
         NEW d \in ToSet(routers[k].routes[p])
  PROVE  Fulfils(routers, k, d, table[<<Upper(d.method), p>>])
<1>1. at = Len(routers) /\ todo = {} /\ k \in 1 .. at
  BY RoutersFacts DEF TableInv
<1> QED BY <1>1 DEF TableInv, Registered

\* The chain of the request that is under way does what its key was declared
\* with.
LEMMA DeclaredFulfilled ==
  ASSUME ServerInv, stack # <<>> \/ trace # <<>>, NEW kd \in DeclaredAs(route)
  PROVE  Fulfils(routers, kd[1], kd[2], chain) /\ kd[1] \in DOMAIN routers /\ kd[2] \in Descs
<1>1. /\ phase = "listening" /\ route \in DOMAIN table /\ chain = table[route]
      /\ route = <<route[1], route[2]>> /\ TableInv
  BY DEF ServerInv, RouteInv, TableInv, Derived
<1>2. PICK k \in DOMAIN routers :
        /\ route[2] \in DOMAIN routers[k].routes
        /\ kd \in {<<k, d>> :
             d \in {d \in ToSet(routers[k].routes[route[2]]) : Upper(d.method) = route[1]}}
  BY DEF DeclaredAs
<1>3. PICK d \in ToSet(routers[k].routes[route[2]]) : Upper(d.method) = route[1] /\ kd = <<k, d>>
  BY <1>2
<1>4. Fulfils(routers, k, d, table[<<Upper(d.method), route[2]>>])
  BY <1>1, <1>2, <1>3, RoutesFulfilled
<1>5. <<Upper(d.method), route[2]>> = route
  BY <1>1, <1>3
<1>6. d \in Descs
  <2>1. routers[k].routes[route[2]] \in Seq(Descs)
    BY <1>1, <1>2, RoutersFacts
  <2> QED BY <2>1 DEF ToSet
<1> QED BY <1>1, <1>2, <1>3, <1>4, <1>5, <1>6

\* A function is not handled more often than it stands in the chain.
LEMMA HandledTimes ==
  ASSUME ChainInv, NEW h \in Handlers
  PROVE  /\ Cardinality(Did(h, Handled)) <= Times(chain, h)
         /\ Cardinality(Did(h, Handled)) \in Nat /\ Times(chain, h) \in Nat
<1> DEFINE I == {i \in DOMAIN chain : chain[i] = h}
<1>1. /\ Cardinality(Did(h, Handled)) <= Cardinality(Past(h))
      /\ Cardinality(Did(h, Handled)) \in Nat /\ Cardinality(Past(h)) \in Nat
  BY SetSizes DEF ChainInv, OnceInv
<1>2. IsFiniteSet(I) /\ Past(h) \in SUBSET I /\ Times(chain, h) = Cardinality(I)
  <2>1. chain \in Seq(Handlers)
    <3>1. chain = <<>> \/ chain \in Seq(Handlers)
      BY DEF ChainInv, IndInv, TypeOK, WellFormed
    <3>2. <<>> \in Seq(Handlers)
      OBVIOUS
    <3> QED BY <3>1, <3>2
  <2> QED BY <2>1, TimesType DEF Past, Times
<1> HIDE DEF I
<1>3. Cardinality(Past(h)) <= Cardinality(I) /\ Cardinality(I) \in Nat
  BY <1>2, FS_Subset, FS_CardinalityType
<1> QED BY <1>1, <1>2, <1>3

\* Routers list only middlewares, so that a controller has no second place.
LEMMA ControllersOnce ==
  ASSUME ServerInv, NEW c \in Controllers
  PROVE  Times(chain, c) <= 1
<1>1. CASE chain = <<>>
  <2>1. {i \in DOMAIN chain : chain[i] = c} = {}
    BY <1>1
  <2>2. Times(chain, c) = 0
    BY <2>1, FS_EmptySet DEF Times
  <2> QED BY <2>2
<1>2. CASE chain # <<>>
  <2>1. PICK k \in DOMAIN routers : \E d \in Descs : Fulfils(routers, k, d, chain)
    BY <1>2 DEF ServerInv, RouteInv, TableInv, Derived
  <2>2. Times(chain, c) <= 1 + Cardinality(Blanks(routers, k, c))
    BY <2>1 DEF Fulfils, Handlers
  <2>3. Blanks(routers, k, c) = {}
    <3> SUFFICES ASSUME NEW j \in 1 .. k - 1, c \in ToSet(routers[j].guards) PROVE FALSE
      BY DEF Blanks
    <3>1. j \in DOMAIN routers
      BY <2>1, RoutersFacts DEF ServerInv
    <3>2. routers[j].guards \in Seq(Middlewares)
      BY <3>1, RoutersFacts DEF ServerInv
    <3>3. c \in Middlewares
      BY <3>2 DEF ToSet
    <3> QED BY <3>3, HandlersAssumption
  <2>4. Cardinality(Blanks(routers, k, c)) = 0
    BY <2>3, FS_EmptySet
  <2> QED BY <2>2, <2>4
<1> QED BY <1>1, <1>2

-----------------------------------------------------------------------------
(* The application's endpoints *)

\* The key of each endpoint in the table.
KeyFor ==
  [createUser |-> <<"POST", "user">>,
   getUser |-> <<"GET", "user_id">>,
   editUser |-> <<"PUT", "user_id">>,
   deleteUser |-> <<"DELETE", "user_id">>,
   activate |-> <<"PATCH", "user_activate">>,
   deactivate |-> <<"PATCH", "user_deactivate">>,
   changePass |-> <<"POST", "user_changePass">>,
   login |-> <<"POST", "login">>,
   logout |-> <<"POST", "logout">>,
   currentUser |-> <<"GET", "current_user">>]

\* The chain of an endpoint.
ChainFor(ep) ==
  <<"logger", "recovery">>
    \o (IF NeedsAuth(ep) THEN <<"auth">> ELSE <<>>)
    \o (IF NeedsActive(ep) THEN <<"active">> ELSE <<>>)
    \o <<ep>>

\* The middlewares that the route of an endpoint lists itself.
OwnGuards(ep) ==
  IF ep = "logout" THEN <<"auth">>
  ELSE IF ep = "currentUser" THEN <<"auth", "active">>
  ELSE <<>>

\* The routers are written with capitals.
LEMMA UpperFacts ==
  ASSUME NEW m \in {"GET", "PUT", "POST", "DELETE", "PATCH"}
  PROVE  Upper(m) = m
<1>1. m # "get" /\ m # "post"
  OBVIOUS
<1> QED BY <1>1 DEF Upper

\* What short lists consist of.
LEMMA ShortLists ==
  /\ \A a : ToSet(<<a>>) = {a}
  /\ \A a, b, c : ToSet(<<a, b, c>>) = {a, b, c}
<1>1. \A a : ToSet(<<a>>) = {a}
  BY DEF ToSet
<1>2. \A a, b, c : ToSet(<<a, b, c>>) = {a, b, c}
  <2> TAKE a, b, c
  <2> DEFINE s == <<a, b, c>>
  <2>1. DOMAIN s = {1, 2, 3} /\ s[1] = a /\ s[2] = b /\ s[3] = c
    OBVIOUS
  <2> HIDE DEF s
  <2>2. ToSet(s) = {a, b, c}
    BY <2>1 DEF ToSet
  <2> QED BY <2>2 DEF s
<1> QED BY <1>1, <1>2

\* The groups of the two routers.
LEMMA AppFacts ==
  /\ Len(routerConfigs) = 2 /\ routerConfigs[1] = UserRouter /\ routerConfigs[2] = AuthRouter
  /\ UserRouter.group = "/user" /\ UserRouter.guards = <<"auth", "active">>
  /\ AuthRouter.group = "" /\ AuthRouter.guards = <<>>
BY DEF routerConfigs, UserRouter, AuthRouter, UserMiddlewares

\* The routes of UserRouter: none has middlewares of its own.
LEMMA UserRoutes ==
  ASSUME NEW p \in DOMAIN UserRouter.routes, NEW d \in ToSet(UserRouter.routes[p])
  PROVE  \E ep \in Routes \ {"login", "logout", "currentUser"} :
           d.controllers = <<ep>> /\ d.guards = <<>> /\ <<Upper(d.method), p>> = KeyFor[ep]
<1> DEFINE R == UserRouter.routes
<1>1. /\ DOMAIN R = {"user", "user_id", "user_activate", "user_deactivate", "user_changePass"}
      /\ R["user"] = <<Desc("POST", <<>>, "createUser")>>
      /\ R["user_id"] = <<Desc("GET", <<>>, "getUser"), Desc("PUT", <<>>, "editUser"),
                          Desc("DELETE", <<>>, "deleteUser")>>
      /\ R["user_activate"] = <<Desc("PATCH", <<>>, "activate")>>
      /\ R["user_deactivate"] = <<Desc("PATCH", <<>>, "deactivate")>>
      /\ R["user_changePass"] = <<Desc("POST", <<>>, "changePass")>>
  BY DEF UserRouter
<1> HIDE DEF R
<1>2. p \in DOMAIN R /\ d \in ToSet(R[p])
  BY DEF R
<1>3. \/ p = "user" /\ d = Desc("POST", <<>>, "createUser")
      \/ p = "user_id" /\ d = Desc("GET", <<>>, "getUser")
      \/ p = "user_id" /\ d = Desc("PUT", <<>>, "editUser")
      \/ p = "user_id" /\ d = Desc("DELETE", <<>>, "deleteUser")
      \/ p = "user_activate" /\ d = Desc("PATCH", <<>>, "activate")
      \/ p = "user_deactivate" /\ d = Desc("PATCH", <<>>, "deactivate")
      \/ p = "user_changePass" /\ d = Desc("POST", <<>>, "changePass")
  <2>1. /\ p = "user" => d \in {Desc("POST", <<>>, "createUser")}
        /\ p = "user_activate" => d \in {Desc("PATCH", <<>>, "activate")}
    BY <1>1, <1>2, ShortLists
  <2>2. /\ p = "user_deactivate" => d \in {Desc("PATCH", <<>>, "deactivate")}
        /\ p = "user_changePass" => d \in {Desc("POST", <<>>, "changePass")}
    BY <1>1, <1>2, ShortLists
  <2>3. p = "user_id" =>
          d \in {Desc("GET", <<>>, "getUser"), Desc("PUT", <<>>, "editUser"),
                 Desc("DELETE", <<>>, "deleteUser")}
    <3> DEFINE a == Desc("GET", <<>>, "getUser")
               b == Desc("PUT", <<>>, "editUser")
               c == Desc("DELETE", <<>>, "deleteUser")
    <3>1. R["user_id"] = <<a, b, c>>
      BY <1>1
    <3> HIDE DEF a, b, c
    <3>2. ToSet(R["user_id"]) = {a, b, c}
      BY <3>1, ShortLists
    <3> QED BY <1>2, <3>2 DEF a, b, c
  <2> QED BY <1>1, <1>2, <2>1, <2>2, <2>3
<1>4. PICK m \in {"GET", "PUT", "POST", "DELETE", "PATCH"} :
        \E ep \in Routes \ {"login", "logout", "currentUser"} :
          d = Desc(m, <<>>, ep) /\ <<m, p>> = KeyFor[ep]
  BY <1>3 DEF Routes, ById, KeyFor
<1>5. PICK ep \in Routes \ {"login", "logout", "currentUser"} :
          d = Desc(m, <<>>, ep) /\ <<m, p>> = KeyFor[ep]
  BY <1>4
<1>6. d.method = m /\ d.controllers = <<ep>> /\ d.guards = <<>>
  BY <1>5 DEF Desc
<1> QED BY <1>5, <1>6, UpperFacts

\* The routes of AuthRouter, where each lists its middlewares.
LEMMA AuthRoutes ==
  ASSUME NEW p \in DOMAIN AuthRouter.routes, NEW d \in ToSet(AuthRouter.routes[p])
  PROVE  \E ep \in {"login", "logout", "currentUser"} :
           /\ d.controllers = <<ep>> /\ d.guards = OwnGuards(ep)
           /\ <<Upper(d.method), p>> = KeyFor[ep]
<1> DEFINE R == AuthRouter.routes
<1>1. /\ DOMAIN R = {"login", "logout", "current_user"}
      /\ R["login"] = <<Desc("POST", <<>>, "login")>>
      /\ R["logout"] = <<Desc("POST", <<"auth">>, "logout")>>
      /\ R["current_user"] = <<Desc("GET", <<"auth", "active">>, "currentUser")>>
  BY DEF AuthRouter
<1> HIDE DEF R
<1>2. p \in DOMAIN R /\ d \in ToSet(R[p])
  BY DEF R
<1>3. \/ p = "login" /\ d = Desc("POST", <<>>, "login")
      \/ p = "logout" /\ d = Desc("POST", <<"auth">>, "logout")
      \/ p = "current_user" /\ d = Desc("GET", <<"auth", "active">>, "currentUser")
  BY <1>1, <1>2, ShortLists
<1>4. PICK m \in {"GET", "PUT", "POST", "DELETE", "PATCH"} :
        \E ep \in {"login", "logout", "currentUser"} :
          d = Desc(m, OwnGuards(ep), ep) /\ <<m, p>> = KeyFor[ep]
  BY <1>3 DEF KeyFor, OwnGuards
<1>5. PICK ep \in {"login", "logout", "currentUser"} :
          d = Desc(m, OwnGuards(ep), ep) /\ <<m, p>> = KeyFor[ep]
  BY <1>4
<1>6. d.method = m /\ d.controllers = <<ep>> /\ d.guards = OwnGuards(ep)
  BY <1>5 DEF Desc
<1> QED BY <1>5, <1>6, UpperFacts

\* Every endpoint has its route in one of the two routers.
LEMMA EndpointsDeclared ==
  ASSUME NEW ep \in Routes
  PROVE  \E k \in 1 .. 2 : \E p \in DOMAIN routerConfigs[k].routes :
           \E d \in ToSet(routerConfigs[k].routes[p]) :
             d.controllers = <<ep>> /\ <<Upper(d.method), p>> = KeyFor[ep]
<1> DEFINE U == UserRouter.routes
           A == AuthRouter.routes
<1>1. \E r \in {UserRouter, AuthRouter} : \E p \in DOMAIN r.routes :
        \E d \in ToSet(r.routes[p]) : d.controllers = <<ep>>
  <2>2. CASE ep \in {"getUser", "editUser", "deleteUser"}
    <3>1. "user_id" \in DOMAIN U
          /\ U["user_id"] = <<Desc("GET", <<>>, "getUser"), Desc("PUT", <<>>, "editUser"),
                              Desc("DELETE", <<>>, "deleteUser")>>
      BY DEF UserRouter
    <3> HIDE DEF U
    <3>2. \E m : Desc(m, <<>>, ep) \in ToSet(U["user_id"])
      BY <2>2, <3>1, ShortLists
    <3> QED BY <3>1, <3>2 DEF Desc, U
  <2>3. CASE ep \in {"createUser", "activate", "deactivate", "changePass"}
    <3>1. /\ "user" \in DOMAIN U /\ U["user"] = <<Desc("POST", <<>>, "createUser")>>
          /\ "user_activate" \in DOMAIN U
               /\ U["user_activate"] = <<Desc("PATCH", <<>>, "activate")>>
          /\ "user_deactivate" \in DOMAIN U
               /\ U["user_deactivate"] = <<Desc("PATCH", <<>>, "deactivate")>>
          /\ "user_changePass" \in DOMAIN U
               /\ U["user_changePass"] = <<Desc("POST", <<>>, "changePass")>>
      BY DEF UserRouter
    <3> HIDE DEF U
    <3>2. \E p \in DOMAIN U : \E m : Desc(m, <<>>, ep) \in ToSet(U[p])
      BY <2>3, <3>1, ShortLists
    <3> QED BY <3>1, <3>2 DEF Desc, U
  <2>4. CASE ep \in {"login", "logout", "currentUser"}
    <3>1. /\ "login" \in DOMAIN A /\ A["login"] = <<Desc("POST", <<>>, "login")>>
          /\ "logout" \in DOMAIN A /\ A["logout"] = <<Desc("POST", <<"auth">>, "logout")>>
          /\ "current_user" \in DOMAIN A
          /\ A["current_user"] = <<Desc("GET", <<"auth", "active">>, "currentUser")>>
      BY DEF AuthRouter
    <3> HIDE DEF A
    <3>2. \E p \in DOMAIN A : \E m, g : Desc(m, g, ep) \in ToSet(A[p])
      BY <2>4, <3>1, ShortLists
    <3> QED BY <3>1, <3>2 DEF Desc, A
  <2> QED BY <2>2, <2>3, <2>4 DEF Routes, ById
<1>2. PICK r \in {UserRouter, AuthRouter} : \E p \in DOMAIN r.routes :
        \E d \in ToSet(r.routes[p]) : d.controllers = <<ep>>
  BY <1>1
<1>3. PICK p \in DOMAIN r.routes : \E d \in ToSet(r.routes[p]) : d.controllers = <<ep>>
  BY <1>2
<1>4. PICK d \in ToSet(r.routes[p]) : d.controllers = <<ep>>
  BY <1>3
<1>5. \E f \in Routes : d.controllers = <<f>> /\ <<Upper(d.method), p>> = KeyFor[f]
  <2>1. CASE r = UserRouter
    BY <1>3, <1>4, <2>1, UserRoutes
  <2>2. CASE r = AuthRouter
    BY <1>3, <1>4, <2>2, AuthRoutes DEF Routes
  <2> QED BY <2>1, <2>2
<1>6. <<Upper(d.method), p>> = KeyFor[ep]
  <2>1. \A f : <<f>> = <<ep>> => f = ep
    OBVIOUS
  <2> QED BY <1>4, <1>5, <2>1
<1>7. \E k \in 1 .. 2 : routerConfigs[k] = r
  <2>1. 1 \in 1 .. 2 /\ 2 \in 1 .. 2
    OBVIOUS
  <2> QED BY <2>1, AppFacts
<1> QED BY <1>3, <1>4, <1>6, <1>7

\* What is listed only once is all kept.
LEMMA OnceSame ==
  ASSUME NEW S, NEW s \in Seq(S), \A i, j \in DOMAIN s : s[i] = s[j] => i = j
  PROVE  Firsts(s) = DOMAIN s /\ Once(s) = s
<1>1. \A i \in DOMAIN s : \A j \in 1 .. i - 1 : j \in DOMAIN s /\ j # i
  OBVIOUS
<1>2. Firsts(s) = DOMAIN s
  BY <1>1 DEF Firsts
<1> QED BY <1>2, KeptAll DEF Once

\* The functions of the application.
Names == {"logger", "recovery", "auth", "active"} \cup Routes

\* The lists of the application repeat nothing.
LEMMA AppLists ==
  ASSUME NEW s \in {<<>>, <<"auth">>, <<"auth", "active">>} \cup {<<ep>> : ep \in Routes}
  PROVE  /\ s \in Seq(Names) /\ Firsts(s) = DOMAIN s /\ Once(s) = s /\ Kept(s, DOMAIN s) = s
<1>1. Routes \subseteq Names
  BY DEF Names
<1>2. s \in Seq(Names) /\ \A i, j \in DOMAIN s : s[i] = s[j] => i = j
  <2>1. CASE s = <<>>
    BY <2>1
  <2>2. CASE s = <<"auth">>
    BY <2>2 DEF Names
  <2>3. CASE s = <<"auth", "active">>
    <3>1. DOMAIN s = {1, 2} /\ s[1] = "auth" /\ s[2] = "active"
      BY <2>3
    <3>2. s \in Seq(Names)
      BY <2>3 DEF Names
    <3> QED BY <3>1, <3>2
  <2>4. ASSUME NEW ep \in Routes, s = <<ep>>
        PROVE  s \in Seq(Names) /\ \A i, j \in DOMAIN s : s[i] = s[j] => i = j
    BY <1>1, <2>4
  <2> QED BY <2>1, <2>2, <2>3, <2>4
<1> QED BY <1>2, OnceSame, KeptAll

\* Of the application's table nothing is left to chance: which groups there
\* are, and that a key which is registered has the chain of its endpoint.
AppInv ==
  routers = routerConfigs =>
    /\ root = <<"logger", "recovery">>
    /\ at = 1 => used = root \o <<"auth", "active">> /\ listed = {"auth", "active"}
    /\ at = 2 => used = root /\ listed = {}
    /\ \A key \in DOMAIN table : \E ep \in Routes : key = KeyFor[ep] /\ table[key] = ChainFor(ep)

\* The chain that a route of the application gets.
LEMMA AppChains ==
  ASSUME TableInv, AppInv, routers = routerConfigs, at > 0,
         NEW p \in DOMAIN routers[at].routes, NEW d \in ToSet(routers[at].routes[p])
  PROVE  \E ep \in Routes : <<Upper(d.method), p>> = KeyFor[ep] /\ RouteHandlers(d) = ChainFor(ep)
<1> DEFINE top == <<"logger", "recovery">>
<1>1. at = 1 \/ at = 2
  <2>1. Len(routers) = 2
    BY AppFacts
  <2>2. at \in 0 .. Len(routers)
    BY DEF TableInv
  <2> QED BY <2>1, <2>2
<1>2. <<>> \in Seq(Names) /\ top \in Seq(Names) /\ <<"auth", "active">> \in Seq(Names)
        /\ <<"auth">> \in Seq(Names)
  BY DEF Names
<1>3. \A s \in Seq(Names) : s \o <<>> = s
  OBVIOUS
<1>4. \A a \in Seq(Names), b \in Seq(Names), c \in Seq(Names) : (a \o b) \o c = a \o (b \o c)
  BY ConcatAssociative
<1>5. CASE at = 1
  <2>1. PICK ep \in Routes \ {"login", "logout", "currentUser"} :
           d.controllers = <<ep>> /\ d.guards = <<>> /\ <<Upper(d.method), p>> = KeyFor[ep]
    BY <1>5, UserRoutes, AppFacts
  <2>2. Once(d.controllers) = <<ep>>
    BY <2>1, AppLists
  <2>3. Kept(d.guards, Fresh(d)) = <<>>
    <3>1. Firsts(d.guards) = DOMAIN d.guards /\ Kept(d.guards, DOMAIN d.guards) = <<>>
      BY <2>1, AppLists
    <3>2. DOMAIN d.guards = {}
      BY <2>1
    <3>3. Fresh(d) = DOMAIN d.guards
      BY <3>1, <3>2 DEF Fresh
    <3> QED BY <3>1, <3>3
  <2>4. used = top \o <<"auth", "active">>
    BY <1>5 DEF AppInv
  <2>5. RouteHandlers(d) = ((top \o <<"auth", "active">>) \o <<>>) \o <<ep>>
    <3>1. RouteHandlers(d) = used \o (<<>> \o <<ep>>)
      BY <2>2, <2>3 DEF RouteHandlers
    <3>2. <<ep>> \in Seq(Names) /\ used \in Seq(Names)
      <4>1. ep \in Names
        BY <2>1 DEF Names
      <4>2. <<ep>> \in Seq(Names)
        BY <4>1
      <4>3. used \in Seq(Names)
        BY <1>2, <2>4, ConcatProperties
      <4> QED BY <4>2, <4>3
    <3> QED BY <1>2, <1>4, <2>4, <3>1, <3>2
  <2>6. ChainFor(ep) = ((top \o <<"auth">>) \o <<"active">>) \o <<ep>>
    <3>1. NeedsAuth(ep) /\ NeedsActive(ep)
      BY <2>1 DEF NeedsAuth, NeedsActive
    <3>2. <<"active">> \in Seq(Names) /\ <<ep>> \in Seq(Names)
      <4>1. ep \in Names
        BY <2>1 DEF Names
      <4> QED BY <4>1 DEF Names
    <3> QED BY <1>2, <1>4, <3>1, <3>2 DEF ChainFor
  <2> QED BY <2>1, <2>5, <2>6
<1>6. CASE at = 2
  <2>1. PICK ep \in {"login", "logout", "currentUser"} :
           d.controllers = <<ep>> /\ d.guards = OwnGuards(ep) /\ <<Upper(d.method), p>> = KeyFor[ep]
    BY <1>6, AuthRoutes, AppFacts
  <2>2. ep \in Routes /\ Once(d.controllers) = <<ep>>
    BY <2>1, AppLists DEF Routes
  <2>3. Kept(d.guards, Fresh(d)) = d.guards
    <3>1. Firsts(d.guards) = DOMAIN d.guards /\ Kept(d.guards, DOMAIN d.guards) = d.guards
      BY <2>1, AppLists DEF OwnGuards
    <3>2. Fresh(d) = DOMAIN d.guards
      BY <1>6, <3>1 DEF Fresh, AppInv
    <3> QED BY <3>1, <3>2
  <2>4. used = top
    BY <1>6 DEF AppInv
  <2>5. RouteHandlers(d) = top \o (OwnGuards(ep) \o <<ep>>)
    <3>1. <<ep>> \in Seq(Names) /\ OwnGuards(ep) \in Seq(Names)
      <4>1. ep \in Names
        BY <2>2 DEF Names
      <4> QED BY <1>2, <4>1 DEF OwnGuards
    <3>2. RouteHandlers(d) = (top \o OwnGuards(ep)) \o <<ep>>
      BY <2>1, <2>2, <2>3, <2>4 DEF RouteHandlers
    <3> QED BY <1>2, <1>4, <3>1, <3>2
  <2>6. ChainFor(ep) = top \o (OwnGuards(ep) \o <<ep>>)
    <3>1. <<ep>> \in Seq(Names) /\ <<"active">> \in Seq(Names)
      <4>1. ep \in Names
        BY <2>2 DEF Names
      <4> QED BY <4>1 DEF Names
    <3>2. CASE ep = "login"
      BY <1>2, <1>3, <3>1, <3>2 DEF ChainFor, OwnGuards, NeedsAuth, NeedsActive
    <3>3. CASE ep = "logout"
      BY <1>2, <1>3, <3>1, <3>3 DEF ChainFor, OwnGuards, NeedsAuth, NeedsActive
    <3>4. CASE ep = "currentUser"
      BY <1>2, <1>3, <3>1, <3>4 DEF ChainFor, OwnGuards, NeedsAuth, NeedsActive
    <3> QED BY <2>1, <3>2, <3>3, <3>4
  <2> QED BY <2>1, <2>2, <2>5, <2>6
<1> QED BY <1>1, <1>5, <1>6

\* CombineRouters keeps to what AppInv says.
LEMMA NextAppInv ==
  ASSUME TableInv, AppInv, [TableNext]_tableVars
  PROVE  AppInv'
<1>1. CASE UNCHANGED tableVars \/ Listen
  BY <1>1 DEF tableVars, Listen, AppInv
<1>2. CASE HandleGroup
  <2> SUFFICES ASSUME routers' = routerConfigs
               PROVE  /\ root' = <<"logger", "recovery">>
                      /\ at' = 1 => used' = root' \o <<"auth", "active">>
                           /\ listed' = {"auth", "active"}
                      /\ at' = 2 => used' = root' /\ listed' = {}
                      /\ \A key \in DOMAIN table' :
                           \E ep \in Routes : key = KeyFor[ep] /\ table'[key] = ChainFor(ep)
    BY DEF AppInv
  <2>1. routers = routerConfigs /\ UNCHANGED table /\ root = <<"logger", "recovery">> /\ at \in Nat
    BY <1>2, RoutersFacts DEF HandleGroup, AppInv
  <2>2. \A key \in DOMAIN table' :
          \E ep \in Routes : key = KeyFor[ep] /\ table'[key] = ChainFor(ep)
    BY <2>1 DEF AppInv
  <2>3. CASE UNCHANGED <<at, root, used, listed, todo>>
    BY <2>1, <2>2, <2>3 DEF AppInv
  <2> DEFINE r == routers[at + 1]
  <2>4. CASE /\ at' = at + 1 /\ used' = root \o Once(r.guards)
             /\ root' = RootAfter(r, used') /\ listed' = Flags(r)
    <3>1. at < Len(routers) /\ Len(routers) = 2
      BY <1>2, <2>1, AppFacts DEF HandleGroup
    <3>2. at = 0 \/ at = 1
      BY <2>1, <3>1
    <3>3. CASE at = 0
      <4>1. r.group = "/user" /\ r.guards = <<"auth", "active">>
        <5>1. r = routerConfigs[1]
          BY <2>1, <3>3
        <5> QED BY <5>1, AppFacts
      <4>2. Once(r.guards) = <<"auth", "active">>
        BY <4>1, AppLists
      <4>3. Flags(r) = {"auth", "active"}
        <5>1. ToSet(<<"auth", "active">>) = {"auth", "active"}
          <6> DEFINE s == <<"auth", "active">>
          <6>1. DOMAIN s = {1, 2} /\ s[1] = "auth" /\ s[2] = "active"
            OBVIOUS
          <6> HIDE DEF s
          <6>2. ToSet(s) = {"auth", "active"}
            BY <6>1 DEF ToSet
          <6> QED BY <6>2 DEF s
        <5> QED BY <4>1, <5>1 DEF Flags
      <4>4. root' = root
        BY <2>4, <4>1 DEF RootAfter, IsBlank
      <4>5. at' = 1 /\ listed' = {"auth", "active"}
        BY <2>4, <3>3, <4>3
      <4>6. used' = root' \o <<"auth", "active">>
        BY <2>4, <4>2, <4>4
      <4>7. root' = <<"logger", "recovery">>
        BY <2>1, <4>4
      <4> QED BY <2>2, <4>5, <4>6, <4>7
    <3>4. CASE at = 1
      <4>1. r.group = "" /\ r.guards = <<>>
        <5>1. r = routerConfigs[2]
          BY <2>1, <3>4
        <5> QED BY <5>1, AppFacts
      <4>2. Once(r.guards) = <<>> /\ Flags(r) = {}
        <5>1. \A t : t = <<>> => ToSet(t) = {}
          BY DEF ToSet
        <5>2. Once(r.guards) = <<>>
          BY <4>1, AppLists
        <5> QED BY <4>1, <5>1, <5>2 DEF Flags
      <4>3. used' = root
        BY <2>1, <2>4, <4>2
      <4>4. root' = root
        BY <2>4, <4>3 DEF RootAfter
      <4> QED BY <2>1, <2>2, <2>4, <3>4, <4>2, <4>3, <4>4
    <3> QED BY <3>2, <3>3, <3>4
  <2> QED BY <1>2, <2>3, <2>4 DEF HandleGroup
<1>3. CASE HandlePath
  <2> SUFFICES ASSUME routers' = routerConfigs
               PROVE  /\ root' = <<"logger", "recovery">>
                      /\ at' = 1 => used' = root' \o <<"auth", "active">>
                           /\ listed' = {"auth", "active"}
                      /\ at' = 2 => used' = root' /\ listed' = {}
                      /\ \A key \in DOMAIN table' :
                           \E ep \in Routes : key = KeyFor[ep] /\ table'[key] = ChainFor(ep)
    BY DEF AppInv
  <2>1. UNCHANGED <<routers, at, root, used, listed>> /\ routers = routerConfigs
    BY <1>3, PathSteps
  <2>2. \A key \in DOMAIN table :
          \E ep \in Routes : key = KeyFor[ep] /\ table[key] = ChainFor(ep)
    BY <2>1 DEF AppInv
  <2>3. CASE UNCHANGED table
    BY <2>1, <2>2, <2>3 DEF AppInv
  <2>4. CASE \E p \in todo :
               /\ at > 0 /\ p \in DOMAIN routers[at].routes
               /\ \A key \in DOMAIN table : key \in DOMAIN table' /\ table'[key] = table[key]
               /\ \A d \in ToSet(routers[at].routes[p]) :
                    table'[<<Upper(d.method), p>>] = RouteHandlers(d)
               /\ \A key \in DOMAIN table' : key \notin DOMAIN table =>
                    \E d \in ToSet(routers[at].routes[p]) : key = <<Upper(d.method), p>>
    <3>1. PICK p \in todo :
            /\ at > 0 /\ p \in DOMAIN routers[at].routes
            /\ \A key \in DOMAIN table : key \in DOMAIN table' /\ table'[key] = table[key]
            /\ \A d \in ToSet(routers[at].routes[p]) :
                 table'[<<Upper(d.method), p>>] = RouteHandlers(d)
            /\ \A key \in DOMAIN table' : key \notin DOMAIN table =>
                 \E d \in ToSet(routers[at].routes[p]) : key = <<Upper(d.method), p>>
      BY <2>4
    <3>2. ASSUME NEW key \in DOMAIN table'
          PROVE  \E ep \in Routes : key = KeyFor[ep] /\ table'[key] = ChainFor(ep)
      <4>1. CASE key \in DOMAIN table
        BY <2>2, <3>1, <4>1
      <4>2. CASE key \notin DOMAIN table
        <5>1. PICK d \in ToSet(routers[at].routes[p]) : key = <<Upper(d.method), p>>
          BY <3>1, <4>2
        <5>2. table'[key] = RouteHandlers(d)
          BY <3>1, <5>1
        <5>3. \E ep \in Routes :
                <<Upper(d.method), p>> = KeyFor[ep] /\ RouteHandlers(d) = ChainFor(ep)
          BY <2>1, <3>1, AppChains
        <5> QED BY <5>1, <5>2, <5>3
      <4> QED BY <4>1, <4>2
    <3> QED BY <2>1, <3>2 DEF AppInv
  <2> QED BY <1>3, <2>3, <2>4, PathSteps
<1> QED BY <1>1, <1>2, <1>3 DEF TableNext

\* Two endpoints do not share a key.
LEMMA KeysDiffer ==
  \A e, f \in Routes : KeyFor[e] = KeyFor[f] => e = f
BY DEF KeyFor, Routes, ById

\* There are only so many endpoints.
LEMMA RoutesFinite == IsFiniteSet(Routes)
<1>1. \A A, B : IsFiniteSet(A) /\ IsFiniteSet(B) => IsFiniteSet(A \cup B)
  BY FS_Union
<1>2. \A a, b : IsFiniteSet({a, b})
  <2> TAKE a, b
  <2>1. IsFiniteSet({a}) /\ IsFiniteSet({b})
    BY FS_Singleton
  <2>2. IsFiniteSet({a} \cup {b})
    BY <1>1, <2>1
  <2>3. {a, b} = {a} \cup {b}
    OBVIOUS
  <2> QED BY <2>2, <2>3
<1> DEFINE A == {"login", "logout"} \cup {"currentUser", "createUser"}
           B == {"getUser", "editUser"} \cup {"deleteUser", "activate"}
           C == {"deactivate", "changePass"}
<1>3. IsFiniteSet(A) /\ IsFiniteSet(B) /\ IsFiniteSet(C)
  BY <1>1, <1>2
<1>4. Routes = A \cup (B \cup C)
  BY DEF Routes, ById
<1> HIDE DEF A, B, C
<1>5. IsFiniteSet(B \cup C)
  BY <1>1, <1>3
<1>6. IsFiniteSet(A \cup (B \cup C))
  BY <1>1, <1>3, <1>5
<1> QED BY <1>4, <1>6

\* When the server listens, the table has the endpoints and nothing else.
LEMMA EndpointsServed ==
  ASSUME TableInv, AppInv, routers = routerConfigs, phase = "listening"
  PROVE  /\ Cardinality(DOMAIN table) = Cardinality(Routes)
         /\ \A ep \in Routes : KeyFor[ep] \in DOMAIN table /\ table[KeyFor[ep]] = ChainFor(ep)
<1>1. ASSUME NEW ep \in Routes
      PROVE  KeyFor[ep] \in DOMAIN table /\ table[KeyFor[ep]] = ChainFor(ep)
  <2>1. PICK k \in 1 .. 2 : \E p \in DOMAIN routerConfigs[k].routes :
           \E d \in ToSet(routerConfigs[k].routes[p]) :
             d.controllers = <<ep>> /\ <<Upper(d.method), p>> = KeyFor[ep]
    BY EndpointsDeclared
  <2>2. PICK p \in DOMAIN routerConfigs[k].routes :
           \E d \in ToSet(routerConfigs[k].routes[p]) :
             d.controllers = <<ep>> /\ <<Upper(d.method), p>> = KeyFor[ep]
    BY <2>1
  <2>3. PICK d \in ToSet(routerConfigs[k].routes[p]) : <<Upper(d.method), p>> = KeyFor[ep]
    BY <2>2
  <2>4. at = Len(routers) /\ todo = {} /\ Len(routers) = 2
    BY AppFacts DEF TableInv
  <2>5. KeyFor[ep] \in DOMAIN table
    <3>1. k \in 1 .. at /\ p \in DOMAIN routers[k].routes /\ d \in ToSet(routers[k].routes[p])
      BY <2>4
    <3> QED BY <2>3, <2>4, <3>1 DEF TableInv, Registered
  <2>6. PICK f \in Routes : KeyFor[ep] = KeyFor[f] /\ table[KeyFor[ep]] = ChainFor(f)
    BY <2>5 DEF AppInv
  <2>7. f = ep
    BY <2>6, KeysDiffer
  <2> QED BY <2>5, <2>6, <2>7
<1>2. Cardinality(DOMAIN table) = Cardinality(Routes)
  <2> DEFINE f == [ep \in Routes |-> KeyFor[ep]]
             T == DOMAIN table
  <2>1. f \in [Routes -> T]
    BY <1>1
  <2>2. \A key \in T : \E ep \in Routes : f[ep] = key
    BY DEF AppInv
  <2>3. \A e, g \in Routes : f[e] = f[g] => e = g
    BY KeysDiffer
  <2> HIDE DEF f, T
  <2>4. f \in Injection(Routes, T) /\ f \in Surjection(Routes, T)
    BY <2>1, <2>2, <2>3 DEF Injection, IsInjective, Surjection
  <2>5. f \in Bijection(Routes, T)
    BY <2>4 DEF Bijection
  <2>6. Cardinality(Routes) = Cardinality(T)
    <3>1. \A S : IsFiniteSet(S) /\ ExistsBijection(S, T) => Cardinality(S) = Cardinality(T)
      BY FS_Bijection
    <3>2. ExistsBijection(Routes, T)
      BY <2>5 DEF ExistsBijection
    <3> QED BY <3>1, <3>2, RoutesFinite
  <2> QED BY <2>6 DEF T
<1> QED BY <1>1, <1>2

-----------------------------------------------------------------------------
(* Theorems *)

\* ServerInv holds throughout.
LEMMA ServerInvariant == ServerSpec => []ServerInv
<1>1. ServerInit => ServerInv
  BY InitServerInv
<1>2. ServerInv /\ [ServerNext]_serverVars => ServerInv'
  BY NextServerInv
<1> QED BY <1>1, <1>2, PTL DEF ServerSpec

\* The requests of a server are behaviours of HandlerChain: CombineRouters
\* never gives gin a chain that is not well formed, so that all that is proved
\* of HandlerChain holds of the server (ServeRoute).
THEOREM ChainsServed == ServerSpec => ServesChains
<1>1. ServerInit => Init
  BY DEF ServerInit
<1>2. ServerInv /\ [ServerNext]_serverVars => [Next]_vars
  BY ServerSteps
<1> QED BY <1>1, <1>2, ServerInvariant, PTL DEF ServerSpec, ServesChains, Spec

\* In a server that listens each route has its chain, with its controllers
\* behind every middleware that its router and the route itself list, whatever
\* the routers are and in whatever order Go takes the paths (CombineRouters,
\* handleGroupConfigs).
THEOREM RoutesStandGuarded == ServerSpec => []RoutesGuarded
<1>1. ServerInv => RoutesGuarded
  <2> SUFFICES ASSUME ServerInv, phase = "listening",
                      NEW k \in DOMAIN routers, NEW p \in DOMAIN routers[k].routes,
                      NEW d \in ToSet(routers[k].routes[p])
               PROVE  LET ch == table[<<Upper(d.method), p>>] IN
                      /\ WellFormed(ch)
                      /\ ToSet(ch) \cap Controllers = ToSet(d.controllers)
                      /\ Guards(k, d) \subseteq ToSet(ch)
                      /\ \A g \in ToSet(routers[k].guards),
                           h \in ToSet(d.guards) \ ToSet(routers[k].guards) :
                           \E i, j \in DOMAIN ch : i < j /\ ch[i] = g /\ ch[j] = h
    BY DEF RoutesGuarded, OfRoutes
  <2>1. Fulfils(routers, k, d, table[<<Upper(d.method), p>>])
    BY RoutesFulfilled DEF ServerInv
  <2> QED BY <2>1 DEF Fulfils, Listed, Guards
<1> QED BY <1>1, ServerInvariant, PTL

\* No chain has a middleware that neither its router nor its route lists, save
\* for those that an earlier router with a blank name put on the engine
\* (handleGroupName).
THEOREM GuardsStayHome == ServerSpec => []NoForeignGuards
<1>1. ServerInv => NoForeignGuards
  <2> SUFFICES ASSUME ServerInv, phase = "listening",
                      NEW k \in DOMAIN routers, NEW p \in DOMAIN routers[k].routes,
                      NEW d \in ToSet(routers[k].routes[p])
               PROVE  ToSet(table[<<Upper(d.method), p>>]) \cap Middlewares
                        \subseteq Guards(k, d) \cup Inherited(k)
    BY DEF NoForeignGuards, OfRoutes
  <2>1. Fulfils(routers, k, d, table[<<Upper(d.method), p>>])
    BY RoutesFulfilled DEF ServerInv
  <2> QED BY <2>1 DEF Fulfils, Listed, Guards, Lent, Inherited
<1> QED BY <1>1, ServerInvariant, PTL

\* Whatever middlewares a router and a route list, each has let the request
\* through before a controller runs, unless a panic was not aborted
\* (CombineRouters, MiddlewareHandler).
THEOREM RequestsRunGuarded == ServerSpec => []RequestGuarded
<1>1. ServerInv => RequestGuarded
  <2> SUFFICES ASSUME ServerInv, NEW n \in DOMAIN trace, trace[n].mark = "request",
                      ~Happened("other"), NEW kd \in DeclaredAs(route),
                      NEW m \in Guards(kd[1], kd[2])
               PROVE  \E i \in Did(m, {"passed", "waived"}) : i < n
    BY DEF RequestGuarded
  <2>1. trace # <<>> /\ ControllerGuarded
    BY DEF ServerInv, ChainInv, IndInv
  <2>2. Fulfils(routers, kd[1], kd[2], chain) /\ kd[1] \in DOMAIN routers /\ kd[2] \in Descs
    BY <2>1, DeclaredFulfilled
  <2>3. m \in ToSet(chain)
    BY <2>2 DEF Fulfils, Listed, Guards
  <2>4. m \in Middlewares
    <3>1. routers[kd[1]].guards \in Seq(Middlewares) /\ kd[2].guards \in Seq(Middlewares)
      BY <2>2, RoutersFacts DEF ServerInv, Descs
    <3> QED BY <3>1 DEF Guards, ToSet
  <2> QED BY <2>1, <2>3, <2>4 DEF ControllerGuarded
<1> QED BY <1>1, ServerInvariant, PTL

\* No function handles a request twice because it is listed twice in a router
\* or its route (handleGroupMiddleware, handleGroupConfigs).
THEOREM HandlersRunOnce == ServerSpec => []HandledOnce
<1>1. ServerInv => HandledOnce
  <2> SUFFICES ASSUME ServerInv, stack # <<>>, NEW h \in Handlers, NEW kd \in DeclaredAs(route)
               PROVE  Cardinality(Did(h, Handled)) <= 1 + Cardinality(Blanks(routers, kd[1], h))
    BY DEF HandledOnce, Handled, Blanks
  <2>1. Fulfils(routers, kd[1], kd[2], chain) /\ kd[1] \in DOMAIN routers
    BY DeclaredFulfilled
  <2>2. Times(chain, h) <= 1 + Cardinality(Blanks(routers, kd[1], h))
    BY <2>1 DEF Fulfils
  <2>3. /\ Cardinality(Did(h, Handled)) <= Times(chain, h)
        /\ Cardinality(Did(h, Handled)) \in Nat /\ Times(chain, h) \in Nat
    BY HandledTimes DEF ServerInv
  <2>4. Cardinality(Blanks(routers, kd[1], h)) \in Nat
    <3>1. kd[1] \in 0 .. Len(routers) + 1
      BY <2>1, RoutersFacts DEF ServerInv
    <3> QED BY <3>1, BlanksFinite DEF ServerInv
  <2> QED BY <2>2, <2>3, <2>4
<1> QED BY <1>1, ServerInvariant, PTL

\* A client that stays gets an answer from every chain with a controller, and
\* no second one except where AnsweredOnce says so (MiddlewareHandler,
\* RecoveryWithLogger).
THEOREM ClientsAnsweredOnce == ServerSpec => []AnsweredOnce
<1>1. ServerInv => AnsweredOnce
  <2>1. ServerInv => \A c \in Controllers : Cardinality({i \in DOMAIN chain : chain[i] = c}) <= 1
    BY ControllersOnce DEF Times
  <2> QED BY <2>1, AnswerEnds DEF ServerInv
<1> QED BY <1>1, ServerInvariant, PTL

\* Whatever order Go takes the paths in, the application serves exactly its
\* endpoints, each behind the middlewares that Accounts supposes (UserRouter,
\* AuthRouter).
THEOREM EndpointsStandGuarded == ServerSpec => []EndpointsGuarded
<1>1. ServerInit => TableInv /\ AppInv
  <2> SUFFICES ASSUME ServerInit PROVE TableInv /\ AppInv
    OBVIOUS
  <2>1. root = <<"logger", "recovery">> /\ at = 0 /\ DOMAIN table = {}
    BY DEF ServerInit, TableInit
  <2> QED BY <2>1, TableInitInv DEF ServerInit, AppInv
<1>2. TableInv /\ AppInv /\ [ServerNext]_serverVars => (TableInv /\ AppInv)'
  <2> SUFFICES ASSUME TableInv, AppInv, [ServerNext]_serverVars PROVE (TableInv /\ AppInv)'
    OBVIOUS
  <2>1. [TableNext]_tableVars
    BY DEF ServerNext, ServeRoute, Down, serverVars
  <2> QED BY <2>1, NextTableInv, NextAppInv
<1>3. TableInv /\ AppInv => EndpointsGuarded
  <2> SUFFICES ASSUME TableInv, AppInv, routers = routerConfigs, phase = "listening"
               PROVE  /\ Cardinality(DOMAIN table) = Cardinality(Routes)
                      /\ \A ep \in Routes : \E key \in DOMAIN table : table[key] = ChainFor(ep)
    BY DEF EndpointsGuarded, ChainFor
  <2> QED BY EndpointsServed
<1> QED BY <1>1, <1>2, <1>3, PTL DEF ServerSpec
=============================================================================
