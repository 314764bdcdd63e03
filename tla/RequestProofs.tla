--------------------------- MODULE RequestProofs ----------------------------
(***************************************************************************)
(* More about requests, for chains of any handlers and any length: what    *)
(* the middlewares do after Next mirrors what they did before it, no       *)
(* function is handled more often than it stands in the chain, every       *)
(* request is answered, by one body, unless it panics, and comes nearer to *)
(* its end with every step.                                                *)
(*                                                                         *)
(* First what Kept makes of a list, which traces and chains are cut with;  *)
(* then one part of the inductive invariant ChainInv per section, and the  *)
(* measure that every step decreases.                                      *)
(***************************************************************************)
EXTENDS HandlerChainProofs, FiniteSetTheorems, SequenceTheorems

-----------------------------------------------------------------------------
(* What is kept of a list *)

Rank(I, i) == Cardinality({j \in I : j <= i})

\* Ranks are different, and go from 1 to the number of places.
LEMMA RankFacts ==
  ASSUME NEW L \in Nat, NEW I \in SUBSET (1 .. L)
  PROVE  /\ IsFiniteSet(I) /\ Cardinality(I) \in Nat
         /\ \A i \in I : Rank(I, i) \in 1 .. Cardinality(I)
         /\ \A i, j \in I : i < j => Rank(I, i) < Rank(I, j)
         /\ \A n \in 1 .. Cardinality(I) : \E i \in I : Rank(I, i) = n
<1>0. \A i \in I : i \in Nat
  OBVIOUS
<1>1. IsFiniteSet(I) /\ Cardinality(I) \in Nat
  <2>1. IsFiniteSet(1 .. L)
    BY FS_Interval
  <2>2. IsFiniteSet(I)
    BY <2>1, FS_Subset
  <2> QED BY <2>2, FS_CardinalityType
<1>2. ASSUME NEW i \in I
      PROVE  /\ IsFiniteSet({j \in I : j <= i})
             /\ Rank(I, i) \in 1 .. Cardinality(I)
  <2> DEFINE J == {j \in I : j <= i}
  <2>1. J \in SUBSET I /\ i \in J
    OBVIOUS
  <2> HIDE DEF J
  <2>2. IsFiniteSet(J) /\ Cardinality(J) <= Cardinality(I)
    BY <1>1, <2>1, FS_Subset
  <2>3. Cardinality(J) \in Nat /\ Cardinality(J) # 0
    BY <2>1, <2>2, FS_EmptySet, FS_CardinalityType
  <2> QED BY <1>1, <2>2, <2>3 DEF J, Rank
<1>3. ASSUME NEW i \in I, NEW j \in I, i < j
      PROVE  Rank(I, i) < Rank(I, j)
  <2> DEFINE A == {k \in I : k <= i}
             B == {k \in I : k <= j}
  <2>1. A \in SUBSET B /\ j \in B /\ j \notin A
    <3>1. \A k \in Nat : k <= i => k <= j
      BY <1>0, <1>3
    <3>2. j <= j /\ ~(j <= i)
      BY <1>0, <1>3
    <3> QED BY <1>0, <3>1, <3>2
  <2>2. IsFiniteSet(A) /\ IsFiniteSet(B)
    BY <1>2
  <2> HIDE DEF A, B
  <2>3. Cardinality(A) <= Cardinality(B) /\ Cardinality(A) # Cardinality(B)
    BY <2>1, <2>2, FS_Subset
  <2>4. Cardinality(A) \in Nat /\ Cardinality(B) \in Nat
    BY <2>2, FS_CardinalityType
  <2> QED BY <2>3, <2>4 DEF A, B, Rank
<1>4. \A n \in 1 .. Cardinality(I) : \E i \in I : Rank(I, i) = n
  <2> DEFINE f == [i \in I |-> Rank(I, i)]
             T == 1 .. Cardinality(I)
  <2>1. f \in Injection(I, T)
    <3>1. f \in [I -> T]
      BY <1>2
    <3>2. \A i, j \in I : i = j \/ i < j \/ j < i
      OBVIOUS
    <3>3. \A i, j \in I : f[i] = f[j] => i = j
      <4>1. \A n \in 1 .. Cardinality(I) : n \in Nat
        BY <1>1
      <4>2. \A i \in I : Rank(I, i) \in Nat
        BY <1>2, <4>1
      <4> QED BY <1>3, <3>2, <4>2
    <3> QED BY <3>1, <3>3 DEF Injection, IsInjective
  <2>2. IsFiniteSet(T) /\ Cardinality(T) = Cardinality(I)
    BY <1>1, FS_Interval
  <2> HIDE DEF f, T
  <2>3. f \in Surjection(I, T)
    BY <2>1, <2>2, FS_Injection
  <2>4. \A n \in T : \E i \in I : f[i] = n
    BY <2>3 DEF Surjection
  <2> QED BY <2>4 DEF f, T
<1> QED BY <1>1, <1>2, <1>3, <1>4

\* Place(I, n) is the n-th place of I from below.
LEMMA PlaceFacts ==
  ASSUME NEW L \in Nat, NEW I \in SUBSET (1 .. L)
  PROVE  /\ Cardinality(I) \in Nat
         /\ \A n \in 1 .. Cardinality(I) : Place(I, n) \in I /\ Rank(I, Place(I, n)) = n
         /\ \A i \in I : \E n \in 1 .. Cardinality(I) : Place(I, n) = i
         /\ \A n, m \in 1 .. Cardinality(I) : n < m => Place(I, n) < Place(I, m)
<1>0. /\ Cardinality(I) \in Nat
      /\ \A i \in I : Rank(I, i) \in 1 .. Cardinality(I)
      /\ \A i, j \in I : i < j => Rank(I, i) < Rank(I, j)
  BY RankFacts
<1>1. \A n \in 1 .. Cardinality(I) : Place(I, n) \in I /\ Rank(I, Place(I, n)) = n
  <2> TAKE n \in 1 .. Cardinality(I)
  <2>1. \E i \in I : Rank(I, i) = n
    BY RankFacts
  <2> QED BY <2>1 DEF Place, Rank
<1>2. \A i, j \in I : i = j \/ i < j \/ j < i
  OBVIOUS
<1>3. \A i \in I : \E n \in 1 .. Cardinality(I) : Place(I, n) = i
  <2> SUFFICES ASSUME NEW i \in I PROVE Place(I, Rank(I, i)) = i
    BY RankFacts
  <2> DEFINE j == Place(I, Rank(I, i))
  <2>1. Rank(I, i) \in 1 .. Cardinality(I)
    BY RankFacts
  <2>2. j \in I /\ Rank(I, j) = Rank(I, i)
    BY <1>1, <2>1
  <2> HIDE DEF j
  <2>3. Rank(I, i) \in Nat /\ (i < j => Rank(I, i) < Rank(I, j))
          /\ (j < i => Rank(I, j) < Rank(I, i))
    BY <1>0, <2>1, <2>2
  <2>4. i = j
    BY <1>2, <2>2, <2>3
  <2> QED BY <2>4 DEF j
<1>4. ASSUME NEW n \in 1 .. Cardinality(I), NEW m \in 1 .. Cardinality(I), n < m
      PROVE  Place(I, n) < Place(I, m)
  <2> DEFINE i == Place(I, n)
             j == Place(I, m)
  <2>1. i \in I /\ j \in I /\ Rank(I, i) = n /\ Rank(I, j) = m
    BY <1>1
  <2> HIDE DEF i, j
  <2>2. i # j /\ ~(j < i)
    BY <1>0, <1>4, <2>1
  <2>3. i < j
    BY <1>2, <2>1, <2>2
  <2> QED BY <2>3 DEF i, j
<1> QED BY <1>1, <1>3, <1>4, RankFacts

\* What is kept of a sequence are its elements at the places, in their order.
LEMMA KeptFacts ==
  ASSUME NEW S, NEW s \in Seq(S), NEW I \in SUBSET DOMAIN s
  PROVE  /\ Kept(s, I) \in Seq(S) /\ Len(Kept(s, I)) = Cardinality(I) /\ Cardinality(I) \in Nat
         /\ \A n \in 1 .. Cardinality(I) : Place(I, n) \in I /\ Kept(s, I)[n] = s[Place(I, n)]
         /\ \A n, m \in 1 .. Cardinality(I) : n < m => Place(I, n) < Place(I, m)
         /\ \A i \in I : \E n \in 1 .. Cardinality(I) : Kept(s, I)[n] = s[i]
<1>1. Len(s) \in Nat /\ I \in SUBSET (1 .. Len(s)) /\ \A i \in I : s[i] \in S
  OBVIOUS
<1> DEFINE c == Cardinality(I)
           f == [n \in 1 .. c |-> s[Place(I, n)]]
<1>2. /\ c \in Nat
      /\ \A n \in 1 .. c : Place(I, n) \in I
      /\ \A i \in I : \E n \in 1 .. c : Place(I, n) = i
      /\ \A n, m \in 1 .. c : n < m => Place(I, n) < Place(I, m)
  BY <1>1, PlaceFacts
<1> HIDE DEF c
<1>3. f \in [1 .. c -> S]
  BY <1>1, <1>2
<1>4. f \in Seq(S) /\ Len(f) = c
  BY <1>2, <1>3
<1>5. f = Kept(s, I)
  BY DEF Kept, c
<1>6. /\ \A n \in 1 .. c : f[n] = s[Place(I, n)]
      /\ \A i \in I : \E n \in 1 .. c : f[n] = s[i]
  BY <1>2
<1> QED BY <1>2, <1>4, <1>5, <1>6 DEF c

\* To keep one place more, behind the others, appends its element.
LEMMA KeptAppend ==
  ASSUME NEW S, NEW s \in Seq(S), NEW I \in SUBSET DOMAIN s, NEW e \in S
  PROVE  /\ Kept(Append(s, e), I) = Kept(s, I)
         /\ Kept(Append(s, e), I \cup {Len(s) + 1}) = Append(Kept(s, I), e)
<1> DEFINE m == Len(s) + 1
           t == Append(s, e)
           J == I \cup {m}
           c == Cardinality(I)
<1>1. /\ Len(s) \in Nat /\ m \in Nat /\ I \in SUBSET (1 .. Len(s)) /\ I \in SUBSET (1 .. m)
      /\ J \in SUBSET (1 .. m) /\ m \notin I /\ \A i \in I : i < m /\ ~(m <= i)
      /\ DOMAIN t = 1 .. m /\ t \in Seq(S)
      /\ t[m] = e /\ \A i \in I : t[i] = s[i]
  OBVIOUS
<1>2. /\ c \in Nat /\ IsFiniteSet(I)
      /\ \A n \in 1 .. c : Place(I, n) \in I /\ Rank(I, Place(I, n)) = n
  BY <1>1, PlaceFacts, RankFacts
<1>3. Cardinality(J) = c + 1
  BY <1>1, <1>2, FS_AddElement
<1>4. \A i \in I : Rank(J, i) = Rank(I, i)
  <2> TAKE i \in I
  <2>1. {j \in J : j <= i} = {j \in I : j <= i}
    BY <1>1
  <2> QED BY <2>1 DEF Rank
<1>5. Rank(J, m) = c + 1
  <2>1. {j \in J : j <= m} = J
    BY <1>1
  <2> QED BY <1>3, <2>1 DEF Rank
<1>6. /\ \A n \in 1 .. c + 1 : Place(J, n) \in J /\ Rank(J, Place(J, n)) = n
      /\ \A i, j \in J : i < j => Rank(J, i) < Rank(J, j)
      /\ \A i \in J : Rank(J, i) \in Nat
  <2> HIDE DEF m, J
  <2>1. /\ Cardinality(J) \in Nat
        /\ \A i \in J : Rank(J, i) \in 1 .. Cardinality(J)
        /\ \A i, j \in J : i < j => Rank(J, i) < Rank(J, j)
    BY <1>1, RankFacts
  <2>2. \A n \in 1 .. Cardinality(J) : Place(J, n) \in J /\ Rank(J, Place(J, n)) = n
    BY <1>1, PlaceFacts
  <2> QED BY <1>3, <2>1, <2>2
<1> HIDE DEF m, t, J, c
<1>7. \A i, j \in J : Rank(J, i) = Rank(J, j) => i = j
  <2>1. \A i, j \in J : i = j \/ i < j \/ j < i
    BY <1>1
  <2> QED BY <1>6, <2>1
<1>8. \A n \in 1 .. c : Place(J, n) = Place(I, n)
  <2> TAKE n \in 1 .. c
  <2>1. Place(I, n) \in J /\ Rank(J, Place(I, n)) = n
    BY <1>2, <1>4 DEF J
  <2>2. n \in 1 .. c + 1
    BY <1>2
  <2> QED BY <1>6, <1>7, <2>1, <2>2
<1>9. Place(J, c + 1) = m
  <2>1. c + 1 \in 1 .. c + 1 /\ m \in J
    BY <1>2 DEF J
  <2> QED BY <1>5, <1>6, <1>7, <2>1
<1>10. Kept(s, I) \in Seq(S) /\ Len(Kept(s, I)) = c
  BY KeptFacts DEF c
<1>11. Kept(t, I) = Kept(s, I)
  <2>1. \A n \in 1 .. c : t[Place(I, n)] = s[Place(I, n)]
    BY <1>1, <1>2
  <2> QED BY <2>1 DEF Kept, c
<1>12. Kept(t, J) = Append(Kept(s, I), e)
  <2> DEFINE k == Kept(s, I)
             l == Kept(t, J)
  <2>1. l = [n \in 1 .. c + 1 |-> t[Place(J, n)]] /\ k = [n \in 1 .. c |-> s[Place(I, n)]]
    BY <1>3 DEF Kept, c
  <2>2. k \in Seq(S) /\ Len(k) = c
    BY <1>10
  <2> HIDE DEF k, l
  <2>3. \A n \in 1 .. c : l[n] = k[n]
    <3> TAKE n \in 1 .. c
    <3>1. n \in 1 .. c + 1
      BY <1>2
    <3> QED BY <1>1, <1>2, <1>8, <2>1, <3>1
  <2>4. l[c + 1] = e
    BY <1>1, <1>2, <1>9, <2>1
  <2>5. \A n \in 1 .. c + 1 : n \in 1 .. c \/ n = c + 1
    BY <1>2
  <2>6. l \in Seq(S) /\ Len(l) = c + 1
    <3>1. J \in SUBSET DOMAIN t /\ t \in Seq(S)
      BY <1>1
    <3> QED BY <1>3, <3>1, KeptFacts DEF l
  <2> DEFINE a == Append(k, e)
  <2>8. /\ a \in Seq(S) /\ Len(a) = c + 1 /\ a[c + 1] = e
        /\ \A n \in 1 .. c : a[n] = k[n]
    BY <1>2, <2>2
  <2> HIDE DEF a
  <2>9. l = a
    <3>1. \A n \in 1 .. Len(l) : l[n] = a[n]
      BY <2>3, <2>4, <2>5, <2>6, <2>8
    <3> QED BY <2>6, <2>8, <3>1, SeqEqual
  <2> QED BY <2>9 DEF a, k, l
<1> QED BY <1>11, <1>12 DEF m, t, J

\* Who keeps all places keeps the list.
LEMMA KeptAll ==
  ASSUME NEW S, NEW s \in Seq(S)
  PROVE  Kept(s, DOMAIN s) = s
<1> DEFINE L == Len(s)
           I == 1 .. L
<1>1. L \in Nat /\ I \in SUBSET (1 .. L) /\ DOMAIN s = I
  OBVIOUS
<1>2. Cardinality(I) = L
  <2>1. Cardinality(1 .. L) = IF 1 > L THEN 0 ELSE L - 1 + 1
    BY <1>1, FS_Interval
  <2> QED BY <1>1, <2>1
<1>3. \A n \in 1 .. L : Place(I, n) \in I /\ Rank(I, Place(I, n)) = n
  BY <1>1, <1>2, PlaceFacts
<1>4. \A i \in I : Rank(I, i) = i
  <2> TAKE i \in I
  <2>1. {j \in I : j <= i} = 1 .. i
    BY <1>1
  <2>2. Cardinality(1 .. i) = IF 1 > i THEN 0 ELSE i - 1 + 1
    BY <1>1, FS_Interval
  <2>3. Cardinality(1 .. i) = i
    BY <1>1, <2>2
  <2>4. Rank(I, i) = Cardinality({j \in I : j <= i})
    BY DEF Rank
  <2> QED BY <2>1, <2>3, <2>4
<1>5. \A n \in 1 .. L : Place(I, n) = n
  BY <1>3, <1>4
<1>6. Kept(s, I) = [n \in 1 .. L |-> s[n]]
  BY <1>2, <1>5 DEF Kept
<1>7. s = [n \in 1 .. L |-> s[n]]
  OBVIOUS
<1> QED BY <1>1, <1>6, <1>7

-----------------------------------------------------------------------------
(* The way back mirrors the way in *)

Marked(marks) == {i \in DOMAIN trace : trace[i].mark \in marks}

NoPanic == \A v \in {"error", "string", "other", "pipe"} : ~Happened(v)

\* The frames of a stack that are in Next, or past it.
Waits(st) ==
  IF st = <<>> THEN 0
  ELSE IF st[Len(st)].stage \in {"before", "request"} THEN Len(st) - 1
  ELSE Len(st)

\* The middlewares among n of them: the first frames are those of the engine, of
\* the logger and of Recovery.
Opens(n) == IF n > 3 THEN n - 3 ELSE 0

Entered == Whos({"passed", "waived"})
Left == Whos({"after", "failed"})

\* The stack holds the chain in its order, ...
FramesInOrder ==
  \A i \in 1 .. Waits(stack) :
    stack[i].at = i - 1 /\ (i > 1 => chain[i - 1] \notin Controllers)

\* ... nothing has been left on the way in, ...
WayIn ==
  stack # <<>> /\ index <= Len(chain) =>
    Left = <<>> /\ (chain[index] \notin Controllers => index = Waits(stack))

\* ... and what was entered is what has been left and what is still open.
WayOut ==
  /\ Len(Entered) = Len(Left) + Opens(Waits(stack))
  /\ \A j \in 1 .. Len(Entered) : j + 2 <= Len(chain) /\ Entered[j] = chain[j + 2]
  /\ \A j \in 1 .. Len(Left) : Left[j] = Entered[Len(Entered) + 1 - j]

\* While nothing panics, the middlewares that are open are those that Before has
\* let through and After has still to come to.
MirrorInv == NoPanic => panic = Nil /\ FramesInOrder /\ WayIn /\ WayOut

-----------------------------------------------------------------------------

\* What Whos cuts out of a trace.
LEMMA WhosType ==
  ASSUME TypeOK, NEW M
  PROVE  /\ Whos(M) \in Seq(Handlers)
         /\ \A i \in 1 .. Len(Whos(M)) : Whos(M)[i] = Kept(trace, Marked(M))[i].who
         /\ Len(Whos(M)) = Cardinality(Marked(M))
<1> DEFINE k == Kept(trace, Marked(M))
<1>1. trace \in Seq(Events)
  BY DEF TypeOK, Events
<1>2. k \in Seq(Events) /\ Len(k) = Cardinality(Marked(M))
  <2>1. Marked(M) \in SUBSET DOMAIN trace
    BY DEF Marked
  <2> QED BY <1>1, <2>1, KeptFacts
<1>3. Whos(M) = [i \in DOMAIN k |-> k[i].who]
  BY DEF Whos, Marked
<1> HIDE DEF k
<1>4. DOMAIN k = 1 .. Len(k) /\ Len(k) \in Nat /\ \A i \in 1 .. Len(k) : k[i] \in Events
  BY <1>2
<1>5. \A i \in 1 .. Len(k) : k[i].who \in Handlers
  BY <1>4 DEF Events
<1> DEFINE w == [i \in 1 .. Len(k) |-> k[i].who]
<1>6. w \in Seq(Handlers) /\ Len(w) = Len(k) /\ \A i \in 1 .. Len(k) : w[i] = k[i].who
  <2>1. w \in [1 .. Len(k) -> Handlers]
    BY <1>5
  <2> HIDE DEF w
  <2>2. w \in Seq(Handlers) /\ Len(w) = Len(k)
    BY <1>4, <2>1
  <2> QED BY <2>2 DEF w
<1>7. Whos(M) = w
  BY <1>3, <1>4
<1> HIDE DEF w
<1> QED BY <1>2, <1>6, <1>7 DEF k

\* What a step that notes something makes of what was noted before.
LEMMA NotedSets ==
  ASSUME TypeOK, NEW mark \in Marks, NEW who \in Handlers,
         trace' = Append(trace, [mark |-> mark, who |-> who])
  PROVE  /\ Len(trace) \in Nat /\ DOMAIN trace = 1 .. Len(trace)
         /\ Len(trace)' = Len(trace) + 1
         /\ trace'[Len(trace) + 1].mark = mark /\ trace'[Len(trace) + 1].who = who
         /\ \A i \in 1 .. Len(trace) : trace'[i] = trace[i]
         /\ \A M : Marked(M)' = IF mark \in M THEN Marked(M) \cup {Len(trace) + 1} ELSE Marked(M)
         /\ \A M : \A h :
              Did(h, M)' = IF h = who /\ mark \in M THEN Did(h, M) \cup {Len(trace) + 1}
                ELSE Did(h, M)
         /\ \A M : Whos(M)' = IF mark \in M THEN Append(Whos(M), who) ELSE Whos(M)
<1> DEFINE e == [mark |-> mark, who |-> who]
           n == Len(trace) + 1
<1>1. trace \in Seq(Events) /\ Len(trace) \in Nat /\ DOMAIN trace = 1 .. Len(trace)
  <2>1. trace \in Seq(Events)
    BY DEF TypeOK, Events
  <2> QED BY <2>1
<1>2. e \in Events /\ e.mark = mark /\ e.who = who
  BY DEF Events
<1> HIDE DEF e
<1>3. trace' = Append(trace, e)
  BY DEF e
<1>4. /\ trace' \in Seq(Events) /\ Len(trace') = n /\ DOMAIN trace' = 1 .. n
      /\ trace'[n] = e
      /\ \A i \in 1 .. Len(trace) : trace'[i] = trace[i]
  BY <1>1, <1>2, <1>3
<1>5. \A i : i \in DOMAIN trace' <=> i \in DOMAIN trace \/ i = n
  BY <1>1, <1>4
<1>6. n \notin DOMAIN trace
  BY <1>1
<1> HIDE DEF n
<1>7. ASSUME NEW M
      PROVE  Marked(M)' = IF mark \in M THEN Marked(M) \cup {n} ELSE Marked(M)
  <2>1. \A i : i \in Marked(M)' <=> i \in DOMAIN trace' /\ trace'[i].mark \in M
    BY DEF Marked
  <2>2. \A i : i \in Marked(M) <=> i \in DOMAIN trace /\ trace[i].mark \in M
    BY DEF Marked
  <2>3. \A i : i \in Marked(M)' <=> i \in Marked(M) \/ (i = n /\ mark \in M)
    BY <1>1, <1>2, <1>4, <1>5, <1>6, <2>1, <2>2
  <2> QED BY <2>3
<1>8. ASSUME NEW M, NEW h
      PROVE  Did(h, M)' = IF h = who /\ mark \in M THEN Did(h, M) \cup {n} ELSE Did(h, M)
  <2>1. \A i : i \in Did(h, M)' <=> i \in DOMAIN trace' /\ trace'[i].who = h /\ trace'[i].mark \in M
    BY DEF Did
  <2>2. \A i : i \in Did(h, M) <=> i \in DOMAIN trace /\ trace[i].who = h /\ trace[i].mark \in M
    BY DEF Did
  <2>3. \A i : i \in Did(h, M)' <=> i \in Did(h, M) \/ (i = n /\ h = who /\ mark \in M)
    BY <1>1, <1>2, <1>4, <1>5, <1>6, <2>1, <2>2
  <2> QED BY <2>3
<1>9. ASSUME NEW M
      PROVE  Whos(M)' = IF mark \in M THEN Append(Whos(M), who) ELSE Whos(M)
  <2> DEFINE k == Kept(trace, Marked(M))
             l == Kept(trace', Marked(M)')
  <2>1. Marked(M) \in SUBSET DOMAIN trace
    BY DEF Marked
  <2>2. k \in Seq(Events)
    BY <1>1, <2>1, KeptFacts
  <2>3. l = IF mark \in M THEN Append(k, e) ELSE k
    <3>1. /\ Kept(Append(trace, e), Marked(M)) = Kept(trace, Marked(M))
          /\ Kept(Append(trace, e), Marked(M) \cup {Len(trace) + 1}) =
               Append(Kept(trace, Marked(M)), e)
      <4> DEFINE I == Marked(M)
      <4>1. trace \in Seq(Events) /\ e \in Events /\ I \in SUBSET DOMAIN trace
        BY <1>1, <1>2, <2>1
      <4> HIDE DEF I
      <4>2. /\ Kept(Append(trace, e), I) = Kept(trace, I)
            /\ Kept(Append(trace, e), I \cup {Len(trace) + 1}) = Append(Kept(trace, I), e)
        <5>1. \A s \in Seq(Events) : \A J \in SUBSET DOMAIN s : \A x \in Events :
                 /\ Kept(Append(s, x), J) = Kept(s, J)
                 /\ Kept(Append(s, x), J \cup {Len(s) + 1}) = Append(Kept(s, J), x)
          BY KeptAppend
        <5> QED BY <4>1, <5>1
      <4> QED BY <4>2 DEF I
    <3> QED BY <1>3, <1>7, <3>1 DEF n
  <2>4. Whos(M) = [i \in DOMAIN k |-> k[i].who]
    BY DEF Whos, Marked
  <2>5. Whos(M)' = [i \in DOMAIN l |-> l[i].who]
    BY DEF Whos, Marked
  <2> HIDE DEF k, l
  <2>6. CASE mark \notin M
    BY <2>3, <2>4, <2>5, <2>6
  <2>7. CASE mark \in M
    <3> DEFINE u == [i \in DOMAIN k |-> k[i].who]
               v == [i \in DOMAIN l |-> l[i].who]
               w == Append(u, who)
    <3>1. /\ Len(k) \in Nat /\ l \in Seq(Events) /\ Len(l) = Len(k) + 1
          /\ DOMAIN k = 1 .. Len(k) /\ DOMAIN l = 1 .. Len(k) + 1
          /\ l[Len(k) + 1] = e /\ \A i \in 1 .. Len(k) : l[i] = k[i]
      BY <1>2, <2>2, <2>3, <2>7
    <3>2. /\ \A i \in 1 .. Len(k) : k[i].who \in Handlers
          /\ \A i \in 1 .. Len(k) + 1 : l[i].who \in Handlers
      <4>1. (\A i \in 1 .. Len(k) : k[i] \in Events) /\ (\A i \in 1 .. Len(k) + 1 : l[i] \in Events)
        BY <2>2, <3>1
      <4> QED BY <4>1 DEF Events
    <3>3. u \in [1 .. Len(k) -> Handlers] /\ v \in [1 .. Len(k) + 1 -> Handlers]
      BY <3>1, <3>2
    <3>4. /\ \A i \in 1 .. Len(k) : u[i] = k[i].who
          /\ \A i \in 1 .. Len(k) + 1 : v[i] = l[i].who
      BY <3>1
    <3> HIDE DEF u, v
    <3>5. u \in Seq(Handlers) /\ v \in Seq(Handlers) /\ Len(u) = Len(k) /\ Len(v) = Len(k) + 1
      <4>1. \A m \in Nat : \A f \in [1 .. m -> Handlers] : f \in Seq(Handlers) /\ Len(f) = m
        OBVIOUS
      <4>2. Len(k) + 1 \in Nat
        BY <3>1
      <4> QED BY <3>1, <3>3, <4>1, <4>2
    <3>6. /\ w \in Seq(Handlers) /\ Len(w) = Len(k) + 1 /\ w[Len(k) + 1] = who
          /\ \A i \in 1 .. Len(k) : w[i] = u[i]
      BY <3>1, <3>5
    <3> HIDE DEF w
    <3>7. \A i \in 1 .. Len(k) + 1 : v[i] = w[i]
      <4>1. \A i \in 1 .. Len(k) + 1 : i = Len(k) + 1 \/ i \in 1 .. Len(k)
        BY <3>1
      <4>2. \A i \in 1 .. Len(k) : v[i] = w[i]
        <5>1. \A i \in 1 .. Len(k) : i \in 1 .. Len(k) + 1
          BY <3>1
        <5> QED BY <3>1, <3>4, <3>6, <5>1
      <4>3. v[Len(k) + 1] = w[Len(k) + 1]
        <5>1. Len(k) + 1 \in 1 .. Len(k) + 1
          BY <3>1
        <5> QED BY <1>2, <3>1, <3>4, <3>6, <5>1
      <4> QED BY <4>1, <4>2, <4>3
    <3>8. v = w
      BY <3>5, <3>6, <3>7, SeqEqual
    <3> QED BY <2>4, <2>5, <2>7, <3>8 DEF u, v, w
  <2> QED BY <2>6, <2>7
<1> QED BY <1>1, <1>2, <1>4, <1>7, <1>8, <1>9 DEF n

\* How many frames are in Next.
LEMMA WaitsFacts ==
  ASSUME NEW S, NEW st \in Seq(S)
  PROVE  /\ Waits(st) \in Nat /\ Waits(st) <= Len(st) /\ Opens(Waits(st)) \in Nat
         /\ st = <<>> <=> Len(st) = 0
         /\ Len(st) = 0 => Waits(st) = 0
         /\ Len(st) > 0 /\ st[Len(st)].stage \in {"before", "request"} => Waits(st) = Len(st) - 1
         /\ Len(st) > 0 /\ st[Len(st)].stage \notin {"before", "request"} => Waits(st) = Len(st)
<1>1. Len(st) \in Nat /\ (st = <<>> <=> Len(st) = 0)
  OBVIOUS
<1>2. Waits(st) = IF Len(st) = 0 THEN 0
                  ELSE IF st[Len(st)].stage \in {"before", "request"} THEN Len(st) - 1
                  ELSE Len(st)
  BY <1>1 DEF Waits
<1>3. Waits(st) \in Nat
  BY <1>1, <1>2
<1> QED BY <1>1, <1>2, <1>3 DEF Opens

\* What is known of a stack that is not empty before the step.
LEMMA MirrorFacts ==
  ASSUME IndInv, stack # <<>>
  PROVE  /\ Frame = stack[Len(stack)] /\ Len(stack) \in Nat /\ Len(stack) >= 1
         /\ Len(chain) \in Nat /\ index \in Nat /\ WellFormed(chain) /\ AbortIndex + 1 > Len(chain)
         /\ Waits(stack) \in Nat
         /\ Frame.stage \in {"before", "request"} => Waits(stack) = Len(stack) - 1
         /\ Frame.stage \in {"loop", "after"} => Waits(stack) = Len(stack)
         /\ Frame.at \in 0 .. Len(chain)
         /\ Entered \in Seq(Handlers) /\ Left \in Seq(Handlers)
<1>1. TypeOK /\ StackInv /\ stack \in Seq(Frames)
  BY DEF IndInv, TypeOK, Frames
<1>2. /\ Len(stack) \in Nat /\ Len(stack) >= 1 /\ Len(chain) \in Nat /\ index \in Nat
      /\ WellFormed(chain) /\ AbortIndex \in Nat /\ stack[Len(stack)].at \in 0 .. Len(chain)
  BY <1>1, Sizes
<1>3. AbortIndex + 1 > Len(chain)
  BY <1>2, ChainFacts
<1>4. /\ Waits(stack) \in Nat
      /\ Frame.stage \in {"before", "request"} => Waits(stack) = Len(stack) - 1
      /\ Frame.stage \in {"loop", "after"} => Waits(stack) = Len(stack)
  BY <1>1, <1>2, WaitsFacts DEF Frame, Last
<1>5. Entered \in Seq(Handlers) /\ Left \in Seq(Handlers)
  BY <1>1, WhosType DEF Entered, Left
<1> QED BY <1>2, <1>3, <1>4, <1>5 DEF Frame, Last

\* A return keeps the frames below, which are in Next.
LEMMA FrontFacts ==
  ASSUME IndInv, stack # <<>>, stack' = Front(stack)
  PROVE  /\ stack' \in Seq(Frames) /\ Len(stack') = Len(stack) - 1
         /\ \A i \in 1 .. Len(stack) - 1 : stack'[i] = stack[i]
         /\ Waits(stack') = Len(stack) - 1
<1>1. /\ stack \in Seq(Frames) /\ Len(stack) \in Nat /\ Len(stack) >= 1
      /\ \A i, j \in 1 .. Len(stack) : i < j => stack[i].stage = "loop"
  BY MirrorFacts DEF IndInv, TypeOK, StackInv, Frames
<1>2. /\ stack' \in Seq(Frames) /\ Len(stack') = Len(stack) - 1
      /\ \A i \in 1 .. Len(stack) - 1 : stack'[i] = stack[i]
  <2>1. PICK k \in 1 .. Len(stack) : k = Len(stack) /\ stack' = SubSeq(stack, 1, k - 1)
    BY <1>1 DEF Front
  <2>2. /\ stack' \in Seq(Frames) /\ Len(stack') = k - 1
        /\ \A i \in 1 .. k - 1 : stack'[i] = stack[i]
    BY <1>1, <2>1
  <2> QED BY <2>1, <2>2
<1>3. Len(stack) > 1 => stack'[Len(stack) - 1].stage = "loop"
  <2> SUFFICES ASSUME Len(stack) > 1 PROVE stack'[Len(stack) - 1].stage = "loop"
    OBVIOUS
  <2>1. Len(stack) - 1 \in 1 .. Len(stack) - 1 /\ Len(stack) - 1 \in 1 .. Len(stack)
          /\ Len(stack) \in 1 .. Len(stack)
    BY <1>1
  <2> QED BY <1>1, <1>2, <2>1
<1>4. Len(stack') \in Nat /\ (Len(stack') = 0 \/ Len(stack') > 0)
        /\ (Len(stack') > 0 => Len(stack) > 1)
  BY <1>1, <1>2
<1>5. Waits(stack') = Len(stack')
  BY <1>2, <1>3, <1>4, WaitsFacts
<1> QED BY <1>2, <1>5

\* A step that notes nothing, or nothing that enters or leaves.
LEMMA MirrorSame ==
  ASSUME chain' = chain, panic' = panic, NoPanic, MirrorInv,
         Entered' = Entered, Left' = Left,
         Opens(Waits(stack')) = Opens(Waits(stack)),
         FramesInOrder', WayIn'
  PROVE  MirrorInv'
BY DEF MirrorInv, WayOut

\* Where nothing is noted, nothing that is read off the trace changes.
LEMMA Unnoted ==
  ASSUME trace' = trace
  PROVE  /\ NoPanic' <=> NoPanic
         /\ Entered' = Entered /\ Left' = Left
         /\ \A v : Happened(v)' <=> Happened(v)
         /\ \A h, M : Did(h, M)' = Did(h, M)
BY DEF NoPanic, Happened, Entered, Left, Whos, Did

\* The loop calls the handler at the index.
LEMMA InvokeFacts ==
  ASSUME IndInv, Invoke
  PROVE  /\ stack # <<>> /\ panic = Nil /\ Frame.stage = "loop" /\ Frame.at < index
         /\ index \in 1 .. Len(chain) /\ UNCHANGED <<chain, panic, answers, gone, dropped, trace>>
         /\ \E s \in {"loop", "before", "request"} :
              /\ stack' \in Seq(Frames) /\ Len(stack') = Len(stack) + 1
              /\ \A i \in 1 .. Len(stack) : stack'[i] = stack[i]
              /\ stack'[Len(stack) + 1].at = index /\ stack'[Len(stack) + 1].stage = s
              /\ s = "loop" =>
                   index \in {1, 2} /\ chain[index] \notin Controllers /\ index' = index + 1
              /\ s # "loop" => index > 2 /\ index' = index
<1> DEFINE h == chain[index]
           m == Len(stack)
<1>1. /\ At("loop") /\ index <= Len(chain)
           /\ UNCHANGED <<chain, panic, answers, gone, dropped, trace>>
      /\ \/ h \in {"logger", "recovery"} /\ index' = index + 1
            /\ stack' = Append(stack, [at |-> index, stage |-> "loop"])
         \/ h \notin {"logger", "recovery"} /\ index' = index
            /\ stack' = Append(stack, [at |-> index, stage |-> "before"])
         \/ h \notin {"logger", "recovery"} /\ index' = index
            /\ stack' = Append(stack, [at |-> index, stage |-> "request"])
  BY DEF Invoke
<1>2. stack # <<>> /\ Frame.stage = "loop" /\ panic = Nil
  BY <1>1 DEF At, Busy
<1>3. m \in Nat /\ m >= 1 /\ Len(chain) \in Nat /\ index \in Nat /\ WellFormed(chain)
      /\ Frame = stack[m]
  BY <1>2, MirrorFacts
<1>4. index \in 1 .. Len(chain)
  <2>1. index >= 1
    BY DEF IndInv, TypeOK
  <2> QED BY <1>1, <1>3, <2>1
<1>5. /\ h \in {"logger", "recovery"} <=> index \in {1, 2}
      /\ h \in {"logger", "recovery"} => h \notin Controllers
      /\ index \in {1, 2} \/ index > 2
  <2>1. (h = "logger" <=> index = 1) /\ (h = "recovery" <=> index = 2)
    BY <1>3, <1>4, ChainFacts
  <2>2. h \in {"logger", "recovery"} => h \notin Controllers
    BY HandlersAssumption
  <2>3. index \in {1, 2} \/ index > 2
    BY <1>3, <1>4
  <2> QED BY <2>1, <2>2, <2>3
<1>6. PICK s \in {"loop", "before", "request"} :
        /\ stack' = Append(stack, [at |-> index, stage |-> s])
        /\ s = "loop" => index \in {1, 2} /\ h \notin Controllers /\ index' = index + 1
        /\ s # "loop" => index > 2 /\ index' = index
  BY <1>1, <1>5
<1>7. /\ stack' \in Seq(Frames) /\ Len(stack') = m + 1
      /\ \A i \in 1 .. m : stack'[i] = stack[i]
      /\ stack'[m + 1].at = index /\ stack'[m + 1].stage = s
  <2> DEFINE f == [at |-> index, stage |-> s]
  <2>1. f \in Frames /\ f.at = index /\ f.stage = s
    BY <1>3, <1>4 DEF Frames
  <2>2. stack \in Seq(Frames) /\ stack' = Append(stack, f)
    BY <1>6 DEF IndInv, TypeOK, Frames
  <2> HIDE DEF f
  <2>3. /\ stack' \in Seq(Frames) /\ Len(stack') = m + 1
        /\ \A i \in 1 .. m : stack'[i] = stack[i]
        /\ stack'[m + 1] = f
    BY <2>1, <2>2
  <2> QED BY <2>1, <2>3
<1>8. Frame.at < index
  BY <1>2, <1>3 DEF IndInv, StackInv
<1> QED BY <1>1, <1>2, <1>4, <1>6, <1>7, <1>8

\* A call opens nothing before its middleware has let the request through.
LEMMA InvokeMirror ==
  ASSUME IndInv, MirrorInv, Invoke
  PROVE  MirrorInv'
<1> SUFFICES ASSUME NoPanic' PROVE MirrorInv'
  BY DEF MirrorInv
<1> DEFINE m == Len(stack)
<1>1. /\ stack # <<>> /\ panic = Nil /\ Frame.stage = "loop"
      /\ index \in 1 .. Len(chain) /\ UNCHANGED <<chain, panic, trace>>
  BY InvokeFacts
<1>2. PICK s \in {"loop", "before", "request"} :
        /\ stack' \in Seq(Frames) /\ Len(stack') = m + 1
        /\ \A i \in 1 .. m : stack'[i] = stack[i]
        /\ stack'[m + 1].at = index /\ stack'[m + 1].stage = s
        /\ s = "loop" =>
             index \in {1, 2} /\ chain[index] \notin Controllers /\ index' = index + 1
        /\ s # "loop" => index > 2 /\ index' = index
  BY InvokeFacts
<1>3. /\ m \in Nat /\ m >= 1 /\ Len(chain) \in Nat /\ index \in Nat /\ Waits(stack) = m
  BY <1>1, MirrorFacts
<1>4. NoPanic /\ Entered' = Entered /\ Left' = Left
  BY <1>1, Unnoted
<1>5. FramesInOrder /\ Left = <<>> /\ (chain[index] \notin Controllers => index = m)
  <2>1. index <= Len(chain)
    BY <1>1
  <2> QED BY <1>1, <1>3, <1>4, <2>1 DEF MirrorInv, WayIn
<1>6. m + 1 > 0 /\ m + 1 \in Nat
  BY <1>3
<1>7. CASE s = "loop"
  <2>1. index = m /\ m <= 2 /\ index' = m + 1 /\ chain[m] \notin Controllers
    BY <1>2, <1>3, <1>5, <1>7
  <2>2. Waits(stack') = m + 1
    BY <1>2, <1>6, <1>7, WaitsFacts
  <2>3. FramesInOrder'
    <3>1. \A i \in 1 .. m + 1 : i \in 1 .. m \/ i = m + 1
      BY <1>3
    <3>2. \A i \in 1 .. m : stack'[i].at = i - 1 /\ (i > 1 => chain[i - 1] \notin Controllers)
      BY <1>2, <1>3, <1>5 DEF FramesInOrder
    <3>3. stack'[m + 1].at = (m + 1) - 1 /\ chain[(m + 1) - 1] \notin Controllers
      BY <1>2, <1>3, <2>1
    <3> QED BY <1>1, <2>2, <3>1, <3>2, <3>3 DEF FramesInOrder
  <2>4. WayIn'
    BY <1>1, <1>4, <1>5, <2>1, <2>2 DEF WayIn
  <2>5. Opens(Waits(stack')) = Opens(Waits(stack))
    BY <1>3, <2>1, <2>2 DEF Opens
  <2> QED BY <1>1, <1>4, <2>3, <2>4, <2>5, MirrorSame
<1>8. CASE s # "loop"
  <2>1. index' = index
    BY <1>2, <1>8
  <2>2. Waits(stack') = m
    <3>1. stack'[Len(stack')].stage \in {"before", "request"} /\ Len(stack') > 0
      BY <1>2, <1>6, <1>8
    <3>2. Waits(stack') = (m + 1) - 1
      BY <1>2, <3>1, WaitsFacts
    <3> QED BY <1>3, <3>2
  <2>3. FramesInOrder'
    BY <1>1, <1>2, <1>3, <1>5, <2>2 DEF FramesInOrder
  <2>4. WayIn'
    BY <1>1, <1>4, <1>5, <2>1, <2>2 DEF WayIn
  <2> QED BY <1>1, <1>3, <1>4, <2>2, <2>3, <2>4, MirrorSame
<1> QED BY <1>7, <1>8

\* A loop that ends goes back to the middleware that called Next.
LEMMA LoopEndMirror ==
  ASSUME IndInv, MirrorInv, LoopEnd
  PROVE  MirrorInv'
<1> SUFFICES ASSUME NoPanic' PROVE MirrorInv'
  BY DEF MirrorInv
<1> DEFINE m == Len(stack)
<1>1. At("loop") /\ index > Len(chain) /\ UNCHANGED <<chain, panic, trace>>
  BY DEF LoopEnd
<1>2. stack # <<>> /\ Frame.stage = "loop" /\ panic = Nil
  BY <1>1 DEF At, Busy
<1>3. /\ m \in Nat /\ m >= 1 /\ Len(chain) \in Nat /\ index \in Nat
      /\ Waits(stack) = m /\ WellFormed(chain) /\ Frame = stack[m] /\ Frame.at \in 0 .. Len(chain)
  BY <1>2, MirrorFacts
<1>4. NoPanic /\ Entered' = Entered /\ Left' = Left
  BY <1>1, Unnoted
<1>5. /\ FramesInOrder /\ Frame.at = m - 1 /\ (m > 1 => chain[m - 1] \notin Controllers)
  BY <1>3, <1>4 DEF MirrorInv, FramesInOrder
<1>6. \/ Frame.at = 0 /\ stack' = <<>> /\ UNCHANGED index
      \/ Stage("after") /\ UNCHANGED index
      \/ Frame.at # 0 /\ chain[Frame.at] \notin Middlewares /\ Return
  BY DEF LoopEnd, Handler
<1>7. CASE Frame.at = 0 /\ stack' = <<>>
  <2>1. m = 1 /\ Waits(stack') = 0
    <3>1. m = 1
      BY <1>3, <1>5, <1>7
    <3> QED BY <1>7, <3>1 DEF Waits
  <2>2. FramesInOrder' /\ WayIn' /\ Opens(Waits(stack')) = Opens(Waits(stack))
    BY <1>3, <1>7, <2>1 DEF FramesInOrder, WayIn, Opens
  <2> QED BY <1>1, <1>4, <2>2, MirrorSame
<1>8. CASE Stage("after") /\ UNCHANGED index
  <2>1. /\ stack' \in Seq(Frames) /\ stack' # <<>> /\ Len(stack') = m
        /\ \A i \in 1 .. m - 1 : stack'[i] = stack[i]
        /\ stack'[m].at = stack[m].at /\ stack'[m].stage = "after"
    BY <1>1, <1>2, <1>8, StageFacts DEF IndInv
  <2>2. Waits(stack') = m
    BY <1>3, <2>1, WaitsFacts
  <2>3. \A i \in 1 .. m : stack'[i].at = stack[i].at
    <3>1. \A i \in 1 .. m : i \in 1 .. m - 1 \/ i = m
      BY <1>3
    <3> QED BY <2>1, <3>1
  <2>4. FramesInOrder'
    BY <1>1, <1>3, <1>5, <2>2, <2>3 DEF FramesInOrder
  <2>5. WayIn'
    BY <1>1, <1>3, <1>8 DEF WayIn
  <2> QED BY <1>1, <1>3, <1>4, <2>2, <2>4, <2>5, MirrorSame
<1>9. CASE Frame.at # 0 /\ chain[Frame.at] \notin Middlewares /\ Return
  <2>1. m > 1 /\ m - 1 \in 1 .. Len(chain) /\ m - 1 <= 2
    <3>1. m > 1 /\ m - 1 \in 1 .. Len(chain)
      BY <1>3, <1>5, <1>9
    <3>2. chain[m - 1] \notin Middlewares \cup Controllers
      BY <1>5, <1>9, <3>1
    <3> QED BY <1>3, <3>1, <3>2, ChainFacts
  <2>2. /\ stack' \in Seq(Frames) /\ Len(stack') = m - 1
        /\ \A i \in 1 .. m - 1 : stack'[i] = stack[i]
        /\ Waits(stack') = m - 1
    BY <1>2, <1>9, FrontFacts DEF Return
  <2>3. FramesInOrder'
    BY <1>1, <1>3, <1>5, <2>2 DEF FramesInOrder
  <2>4. WayIn'
    BY <1>1, <1>3, <1>9 DEF WayIn, Return
  <2>5. Opens(Waits(stack')) = Opens(Waits(stack))
    BY <1>3, <2>1, <2>2 DEF Opens
  <2> QED BY <1>1, <1>4, <2>3, <2>4, <2>5, MirrorSame
<1> QED BY <1>6, <1>7, <1>8, <1>9

\* A middleware that lets the request through is the next that is open.
LEMMA BeforeMirror ==
  ASSUME IndInv, MirrorInv, Before
  PROVE  MirrorInv'
<1> SUFFICES ASSUME NoPanic' PROVE MirrorInv'
  BY DEF MirrorInv
<1> DEFINE m == Len(stack)
<1>1. At("before") /\ TypeOK
  BY DEF Before, IndInv
<1>2. stack # <<>> /\ Frame.stage = "before" /\ panic = Nil /\ Busy
  BY <1>1 DEF At, Busy
<1>3. /\ m \in Nat /\ m >= 1 /\ Len(chain) \in Nat /\ index \in Nat
      /\ Waits(stack) = m - 1 /\ WellFormed(chain) /\ Frame = stack[m]
      /\ AbortIndex + 1 > Len(chain) /\ Entered \in Seq(Handlers) /\ Left \in Seq(Handlers)
  BY <1>2, MirrorFacts
<1>4. /\ Frame.at = index /\ index \in 3 .. Len(chain)
      /\ Handler \in Middlewares /\ Handler \in Handlers /\ Handler = chain[index]
  BY <1>2, AtWork DEF Handler
<1>5. \/ Note("passed") /\ CallNext /\ UNCHANGED <<chain, panic>>
      \/ Note("waived") /\ CallNext /\ UNCHANGED <<chain, panic>>
      \/ Note("refused") /\ AbortAndReturn /\ UNCHANGED <<chain, panic>>
      \/ \E v \in PanicValues \cup {"pipe"} : Note(v)
  BY DEF Before, Renders, Panics
<1>6. /\ Handler \notin Controllers /\ FramesInOrder /\ index = m - 1 /\ Left = <<>> /\ WayOut
      /\ NoPanic
  <2>1. NoPanic
    <3>1. \A mark \in Marks : Note(mark) => \A v : Happened(v) => Happened(v)'
      BY <1>1, <1>4, Noted DEF Note
    <3>2. PICK mark \in Marks : Note(mark)
      BY <1>5, ChainAssumption DEF Marks
    <3> QED BY <3>1, <3>2 DEF NoPanic
  <2>2. Handler \notin Controllers
    BY <1>4, HandlersAssumption
  <2> QED BY <1>2, <1>3, <1>4, <2>1, <2>2 DEF MirrorInv, WayIn
<1>7. CASE CallNext /\ UNCHANGED <<chain, panic>> /\ (Note("passed") \/ Note("waived"))
  <2>1. Entered' = Append(Entered, Handler) /\ Left' = Left
    <3>1. CASE Note("passed")
      <4>1. \A M : Whos(M)' = IF "passed" \in M THEN Append(Whos(M), Handler) ELSE Whos(M)
        BY <1>1, <1>4, <3>1, NotedSets DEF Note, Marks
      <4> QED BY <4>1 DEF Entered, Left
    <3>2. CASE Note("waived")
      <4>1. \A M : Whos(M)' = IF "waived" \in M THEN Append(Whos(M), Handler) ELSE Whos(M)
        BY <1>1, <1>4, <3>2, NotedSets DEF Note, Marks
      <4> QED BY <4>1 DEF Entered, Left
    <3> QED BY <1>7, <3>1, <3>2
  <2>2. /\ stack' \in Seq(Frames) /\ stack' # <<>> /\ Len(stack') = m
        /\ \A i \in 1 .. m - 1 : stack'[i] = stack[i]
        /\ stack'[m].at = stack[m].at /\ stack'[m].stage = "loop"
        /\ index' = index + 1
    BY <1>1, <1>2, <1>7, StageFacts DEF CallNext
  <2>3. Waits(stack') = m
    BY <1>3, <2>2, WaitsFacts, SMTT(30)
  <2>4. FramesInOrder'
    <3>1. \A i \in 1 .. m : i \in 1 .. m - 1 \/ i = m
      BY <1>3
    <3>2. \A i \in 1 .. m - 1 : stack'[i].at = i - 1 /\ (i > 1 => chain[i - 1] \notin Controllers)
      BY <1>3, <1>6, <2>2 DEF FramesInOrder
    <3>3. stack'[m].at = m - 1 /\ chain[m - 1] \notin Controllers
      BY <1>3, <1>4, <1>6, <2>2
    <3> QED BY <1>7, <2>3, <3>1, <3>2, <3>3 DEF FramesInOrder
  <2>5. WayIn'
    BY <1>3, <1>6, <2>1, <2>2, <2>3 DEF WayIn
  <2>6. Len(Left) = 0 /\ Len(Entered) = index - 3 /\ Opens(Waits(stack')) = index - 2
    <3>1. Len(Left) = 0
      BY <1>6
    <3>2. Opens(Waits(stack)) = index - 3 /\ Opens(Waits(stack')) = index - 2
      BY <1>3, <1>4, <1>6, <2>3 DEF Opens
    <3>3. Len(Entered) = Len(Left) + Opens(Waits(stack))
      BY <1>6 DEF WayOut
    <3> QED BY <1>3, <1>4, <3>1, <3>2, <3>3
  <2>7. WayOut'
    <3> DEFINE n == Len(Entered)
    <3>1. /\ n \in Nat /\ Len(Entered') = n + 1 /\ Entered'[n + 1] = Handler
          /\ \A j \in 1 .. n : Entered'[j] = Entered[j]
      BY <1>3, <1>4, <2>1
    <3>2. Len(Entered)' = Len(Left)' + Opens(Waits(stack))'
      BY <1>3, <1>4, <2>1, <2>6, <3>1
    <3>3. \A j \in 1 .. n + 1 : j + 2 <= Len(chain) /\ Entered'[j] = chain[j + 2]
      <4>1. \A j \in 1 .. n + 1 : j \in 1 .. n \/ j = n + 1
        BY <3>1
      <4>2. \A j \in 1 .. n : j + 2 <= Len(chain) /\ Entered'[j] = chain[j + 2]
        BY <1>6, <3>1 DEF WayOut
      <4>3. (n + 1) + 2 = index
        BY <1>4, <2>6
      <4>4. (n + 1) + 2 <= Len(chain) /\ Entered'[n + 1] = chain[(n + 1) + 2]
        BY <1>3, <1>4, <3>1, <4>3
      <4> QED BY <4>1, <4>2, <4>4
    <3>4. \A j \in 1 .. Len(Left') : FALSE
      BY <2>1, <2>6
    <3> QED BY <1>7, <3>1, <3>2, <3>3, <3>4 DEF WayOut
  <2> QED BY <1>2, <1>7, <2>4, <2>5, <2>7 DEF MirrorInv
<1>8. CASE Note("refused") /\ AbortAndReturn /\ UNCHANGED <<chain, panic>>
  <2>1. Entered' = Entered /\ Left' = Left
    <3>1. \A M : Whos(M)' = IF "refused" \in M THEN Append(Whos(M), Handler) ELSE Whos(M)
      BY <1>1, <1>4, <1>8, NotedSets DEF Note, Marks
    <3> QED BY <3>1 DEF Entered, Left
  <2>2. /\ stack' \in Seq(Frames) /\ Len(stack') = m - 1
        /\ \A i \in 1 .. m - 1 : stack'[i] = stack[i]
        /\ Waits(stack') = m - 1 /\ index' = AbortIndex + 1
    BY <1>2, <1>8, FrontFacts DEF AbortAndReturn
  <2>3. FramesInOrder'
    BY <1>3, <1>6, <1>8, <2>2 DEF FramesInOrder
  <2>4. WayIn'
    <3>1. ~(index' <= Len(chain))
      BY <1>3, <2>2, HandlersAssumption
    <3> QED BY <1>8, <3>1 DEF WayIn
  <2> QED BY <1>3, <1>6, <1>8, <2>1, <2>2, <2>3, <2>4, MirrorSame
<1>9. \A v \in PanicValues \cup {"pipe"} : ~Note(v)
  <2> SUFFICES ASSUME NEW v \in PanicValues \cup {"pipe"}, Note(v)
               PROVE  Happened(v)' /\ v \in {"error", "string", "other", "pipe"}
    BY DEF NoPanic
  <2>1. v \in {"error", "string", "other", "pipe"} /\ v \in Marks
    BY ChainAssumption DEF Marks
  <2> QED BY <1>1, <1>4, <2>1, Noted DEF Note
<1> QED BY <1>5, <1>7, <1>8, <1>9

\* What comes back from Next is the innermost of those that are open.
LEMMA AfterMirror ==
  ASSUME IndInv, MirrorInv, After
  PROVE  MirrorInv'
<1> SUFFICES ASSUME NoPanic' PROVE MirrorInv'
  BY DEF MirrorInv
<1> DEFINE m == Len(stack)
<1>1. At("after") /\ TypeOK
  BY DEF After, IndInv
<1>2. stack # <<>> /\ Frame.stage = "after" /\ panic = Nil /\ Busy
  BY <1>1 DEF At, Busy
<1>3. /\ m \in Nat /\ m >= 1 /\ Len(chain) \in Nat /\ index \in Nat
      /\ Waits(stack) = m /\ WellFormed(chain) /\ Frame = stack[m]
      /\ AbortIndex + 1 > Len(chain) /\ Entered \in Seq(Handlers) /\ Left \in Seq(Handlers)
  BY <1>2, MirrorFacts
<1>4. /\ index > Len(chain) /\ Frame.at \in 3 .. Len(chain)
      /\ Handler \in Handlers /\ Handler = chain[Frame.at]
  BY <1>2, AtWork DEF Handler
<1>5. \/ Note("after") /\ Return /\ UNCHANGED <<chain, panic>>
      \/ Note("failed") /\ AbortAndReturn /\ UNCHANGED <<chain, panic>>
      \/ \E v \in PanicValues \cup {"pipe"} : Note(v)
  BY DEF After, Renders, Panics
<1>6. NoPanic /\ FramesInOrder /\ WayOut
  <2>1. \A mark \in Marks : Note(mark) => \A v : Happened(v) => Happened(v)'
    BY <1>1, <1>4, Noted DEF Note
  <2>2. PICK mark \in Marks : Note(mark)
    BY <1>5, ChainAssumption DEF Marks
  <2> QED BY <2>1, <2>2 DEF NoPanic, MirrorInv
<1>7. Frame.at = m - 1 /\ m >= 4
  BY <1>3, <1>4, <1>6 DEF FramesInOrder
<1>8. ASSUME UNCHANGED <<chain, panic>>, NEW mark \in {"after", "failed"}, Note(mark),
             stack' = Front(stack), index' \in Nat, index' > Len(chain)
      PROVE  MirrorInv'
  <2>1. Left' = Append(Left, Handler) /\ Entered' = Entered
    <3>1. \A M : Whos(M)' = IF mark \in M THEN Append(Whos(M), Handler) ELSE Whos(M)
      BY <1>1, <1>4, <1>8, NotedSets DEF Note, Marks
    <3> QED BY <3>1 DEF Entered, Left
  <2>2. /\ stack' \in Seq(Frames) /\ Len(stack') = m - 1
        /\ \A i \in 1 .. m - 1 : stack'[i] = stack[i]
        /\ Waits(stack') = m - 1
    BY <1>2, <1>8, FrontFacts
  <2>3. FramesInOrder'
    BY <1>3, <1>6, <1>8, <2>2 DEF FramesInOrder
  <2>4. WayIn'
    <3>1. ~(index' <= Len(chain))
      BY <1>3, <1>8
    <3> QED BY <1>8, <3>1 DEF WayIn
  <2>5. WayOut'
    <3> DEFINE n == Len(Left)
               b == Len(Entered)
    <3>1. /\ n \in Nat /\ b \in Nat /\ Len(Left') = n + 1 /\ Left'[n + 1] = Handler
          /\ \A j \in 1 .. n : Left'[j] = Left[j]
      BY <1>3, <1>4, <2>1
    <3>2. Opens(Waits(stack)) = m - 3 /\ Opens(Waits(stack')) = m - 4
      BY <1>3, <1>7, <2>2 DEF Opens
    <3>3. b = n + (m - 3)
      BY <1>6, <3>2 DEF WayOut
    <3>4. Len(Entered)' = Len(Left)' + Opens(Waits(stack))'
      BY <1>3, <2>1, <3>1, <3>2, <3>3
    <3>5. \A j \in 1 .. n + 1 : Left'[j] = Entered[b + 1 - j]
      <4>1. \A j \in 1 .. n + 1 : j \in 1 .. n \/ j = n + 1
        BY <3>1
      <4>2. \A j \in 1 .. n : Left'[j] = Entered[b + 1 - j]
        BY <1>6, <3>1 DEF WayOut
      <4>3. b + 1 - (n + 1) = m - 3 /\ m - 3 \in 1 .. b
        BY <1>3, <1>7, <3>1, <3>3
      <4>4. Entered[m - 3] = chain[(m - 3) + 2]
        BY <1>6, <4>3 DEF WayOut
      <4>5. (m - 3) + 2 = Frame.at
        BY <1>3, <1>7
      <4>6. Left'[n + 1] = Entered[b + 1 - (n + 1)]
        BY <1>4, <3>1, <4>3, <4>4, <4>5
      <4> QED BY <4>1, <4>2, <4>6
    <3>6. \A j \in 1 .. b : j + 2 <= Len(chain) /\ Entered[j] = chain[j + 2]
      BY <1>6 DEF WayOut
    <3> QED BY <1>8, <2>1, <3>1, <3>4, <3>5, <3>6 DEF WayOut
  <2> QED BY <1>2, <1>8, <2>3, <2>4, <2>5 DEF MirrorInv
<1>9. CASE Note("after") /\ Return /\ UNCHANGED <<chain, panic>>
  <2>1. index' \in Nat /\ index' > Len(chain)
    BY <1>3, <1>4, <1>9 DEF Return
  <2> QED BY <1>8, <1>9, <2>1 DEF Return
<1>10. CASE Note("failed") /\ AbortAndReturn /\ UNCHANGED <<chain, panic>>
  <2>1. index' \in Nat /\ index' > Len(chain)
    BY <1>3, <1>10, HandlersAssumption DEF AbortAndReturn
  <2> QED BY <1>8, <1>10, <2>1 DEF AbortAndReturn
<1>11. \A v \in PanicValues \cup {"pipe"} : ~Note(v)
  <2> SUFFICES ASSUME NEW v \in PanicValues \cup {"pipe"}, Note(v)
               PROVE  Happened(v)' /\ v \in {"error", "string", "other", "pipe"}
    BY DEF NoPanic
  <2>1. v \in {"error", "string", "other", "pipe"} /\ v \in Marks
    BY ChainAssumption DEF Marks
  <2> QED BY <1>1, <1>4, <2>1, Noted DEF Note
<1> QED BY <1>5, <1>9, <1>10, <1>11

\* A controller opens nothing.
LEMMA RequestMirror ==
  ASSUME IndInv, MirrorInv, Request
  PROVE  MirrorInv'
<1> SUFFICES ASSUME NoPanic' PROVE MirrorInv'
  BY DEF MirrorInv
<1> DEFINE m == Len(stack)
<1>1. At("request") /\ TypeOK
  BY DEF Request, IndInv
<1>2. stack # <<>> /\ Frame.stage = "request" /\ panic = Nil /\ Busy
  BY <1>1 DEF At, Busy
<1>3. /\ m \in Nat /\ m >= 1 /\ Len(chain) \in Nat /\ index \in Nat
      /\ Waits(stack) = m - 1 /\ WellFormed(chain)
  BY <1>2, MirrorFacts
<1>4. /\ index \in 3 .. Len(chain) /\ Handler \in Handlers
      /\ Handler = chain[index] /\ Handler \in Controllers
  BY <1>2, AtWork DEF Handler
<1>5. \/ Note("request") /\ Return /\ UNCHANGED <<chain, panic>>
      \/ \E v \in PanicValues \cup {"pipe"} : Note(v)
  BY DEF Request, Renders, Panics
<1>6. CASE Note("request") /\ Return /\ UNCHANGED <<chain, panic>>
  <2>1. NoPanic /\ Entered' = Entered /\ Left' = Left
    <3>1. \A M : Whos(M)' = IF "request" \in M THEN Append(Whos(M), Handler) ELSE Whos(M)
      BY <1>1, <1>4, <1>6, NotedSets DEF Note, Marks
    <3>2. \A v : Happened(v) => Happened(v)'
      BY <1>1, <1>4, <1>6, Noted DEF Note, Marks
    <3> QED BY <3>1, <3>2 DEF Entered, Left, NoPanic
  <2>2. FramesInOrder /\ Left = <<>>
    BY <1>2, <1>4, <2>1 DEF MirrorInv, WayIn
  <2>3. /\ stack' \in Seq(Frames) /\ Len(stack') = m - 1
        /\ \A i \in 1 .. m - 1 : stack'[i] = stack[i]
        /\ Waits(stack') = m - 1 /\ index' = index + 1
    BY <1>2, <1>6, FrontFacts DEF Return
  <2>4. FramesInOrder'
    BY <1>3, <1>6, <2>2, <2>3 DEF FramesInOrder
  <2>5. WayIn'
    <3>1. index' <= Len(chain) => chain[index'] \in Controllers
      <4> SUFFICES ASSUME index + 1 <= Len(chain) PROVE chain[index + 1] \in Controllers
        BY <2>3
      <4>1. index \in 1 .. Len(chain) /\ index + 1 \in 1 .. Len(chain) /\ index < index + 1
        BY <1>3, <1>4
      <4> QED BY <1>3, <1>4, <4>1, ChainFacts
    <3> QED BY <1>6, <2>1, <2>2, <3>1 DEF WayIn
  <2> QED BY <1>3, <1>6, <2>1, <2>3, <2>4, <2>5, MirrorSame
<1>7. \A v \in PanicValues \cup {"pipe"} : ~Note(v)
  <2> SUFFICES ASSUME NEW v \in PanicValues \cup {"pipe"}, Note(v)
               PROVE  Happened(v)' /\ v \in {"error", "string", "other", "pipe"}
    BY DEF NoPanic
  <2>1. v \in {"error", "string", "other", "pipe"} /\ v \in Marks
    BY ChainAssumption DEF Marks
  <2> QED BY <1>1, <1>4, <2>1, Noted DEF Note
<1> QED BY <1>5, <1>6, <1>7

\* A new request starts with nothing open.
LEMMA ServeMirror ==
  ASSUME IndInv, Serve
  PROVE  MirrorInv'
<1>1. /\ index' = 1 /\ stack' = <<[at |-> 0, stage |-> "loop"]>> /\ panic' = Nil /\ trace' = <<>>
      /\ IndInv'
  BY ServeInv DEF Serve, Start, IndInv, StackInv
<1>2. Waits(stack') = 1
  BY <1>1 DEF Waits
<1>3. \A M : Whos(M)' = <<>>
  <2> TAKE M
  <2>1. /\ Cardinality(Marked(M)') = 0 /\ TypeOK'
    <3>1. Marked(M)' = {}
      BY <1>1 DEF Marked
    <3> QED BY <1>1, <3>1, FS_EmptySet DEF IndInv
  <2> DEFINE k == Kept(trace', Marked(M)')
  <2>2. k = <<>>
    <3>1. trace' \in Seq(Events) /\ Marked(M)' \in SUBSET DOMAIN trace'
      BY <1>1 DEF Marked
    <3>2. k \in Seq(Events) /\ Len(k) = Cardinality(Marked(M)')
      BY <3>1, KeptFacts
    <3> QED BY <2>1, <3>2
  <2>3. Whos(M)' = [i \in DOMAIN k |-> k[i].who]
    BY DEF Whos, Marked
  <2> QED BY <2>2, <2>3
<1>4. Entered' = <<>> /\ Left' = <<>>
  BY <1>3 DEF Entered, Left
<1> QED BY <1>1, <1>2, <1>4 DEF MirrorInv, FramesInOrder, WayIn, WayOut, Opens

\* All steps keep MirrorInv.
LEMMA NextMirror ==
  ASSUME IndInv, MirrorInv, [Next]_vars
  PROVE  MirrorInv'
<1>1. CASE Recover \/ Drop
  <2>1. panic # Nil /\ trace' = trace
    BY <1>1 DEF Recover, Drop
  <2> QED BY <2>1, Unnoted DEF MirrorInv
<1>2. CASE UNCHANGED vars
  BY <1>2, Unnoted DEF vars, MirrorInv, FramesInOrder, WayIn, WayOut
<1> QED BY <1>1, <1>2, ServeMirror, InvokeMirror, LoopEndMirror, BeforeMirror, AfterMirror,
           RequestMirror DEF Next, Handle

\* MirrorInv holds before the first request.
LEMMA InitMirror ==
  ASSUME Init
  PROVE  MirrorInv
<1>1. stack = <<>> /\ panic = Nil /\ trace = <<>>
  BY DEF Init
<1>2. Waits(stack) = 0
  BY <1>1 DEF Waits
<1>3. \A M : Whos(M) = <<>>
  <2> TAKE M
  <2>1. /\ Cardinality(Marked(M)) = 0
    <3>1. Marked(M) = {}
      BY <1>1 DEF Marked
    <3> QED BY <3>1, FS_EmptySet
  <2> DEFINE k == Kept(trace, Marked(M))
  <2>2. k = <<>>
    <3>1. trace \in Seq(Events) /\ Marked(M) \in SUBSET DOMAIN trace
      BY <1>1 DEF Marked
    <3>2. k \in Seq(Events) /\ Len(k) = Cardinality(Marked(M))
      BY <3>1, KeptFacts
    <3> QED BY <2>1, <3>2
  <2>3. Whos(M) = [i \in DOMAIN k |-> k[i].who]
    BY DEF Whos, Marked
  <2> QED BY <2>2, <2>3
<1>4. Entered = <<>> /\ Left = <<>>
  BY <1>3 DEF Entered, Left
<1> QED BY <1>1, <1>2, <1>4 DEF MirrorInv, FramesInOrder, WayIn, WayOut, Opens

\* At the end nothing is open, so that what was left is what was entered.
LEMMA MirrorEnds ==
  ASSUME IndInv, MirrorInv
  PROVE  AfterMirrorsBefore
<1> SUFFICES ASSUME stack = <<>>, NoPanic PROVE Left = Reverse(Entered)
  BY DEF AfterMirrorsBefore, NoPanic, Left, Entered
<1>1. Entered \in Seq(Handlers) /\ Left \in Seq(Handlers)
  BY WhosType DEF Entered, Left, IndInv
<1>2. WayOut /\ Opens(Waits(stack)) = 0
  BY DEF MirrorInv, Waits, Opens
<1>3. /\ Len(Entered) \in Nat /\ Len(Left) = Len(Entered)
      /\ \A j \in 1 .. Len(Left) : Left[j] = Entered[Len(Entered) + 1 - j]
  BY <1>1, <1>2 DEF WayOut
<1> DEFINE r == [j \in 1 .. Len(Entered) |-> Entered[(Len(Entered) - j) + 1]]
<1>4. Reverse(Entered) = r
  BY DEF Reverse
<1>5. r \in Seq(Handlers) /\ Len(r) = Len(Entered) /\ \A j \in 1 .. Len(Entered) : r[j] = Left[j]
  <2>1. \A j \in 1 .. Len(Entered) : (Len(Entered) - j) + 1 \in 1 .. Len(Entered)
          /\ (Len(Entered) - j) + 1 = Len(Entered) + 1 - j
    BY <1>3
  <2>2. r \in [1 .. Len(Entered) -> Handlers]
    BY <1>1, <2>1
  <2>3. \A n \in Nat : \A f \in [1 .. n -> Handlers] : f \in Seq(Handlers) /\ Len(f) = n
    OBVIOUS
  <2>4. \A j \in 1 .. Len(Entered) : r[j] = Left[j]
    BY <1>3, <2>1
  <2> QED BY <1>3, <2>2, <2>3, <2>4
<1> HIDE DEF r
<1>6. Left = r
  BY <1>1, <1>3, <1>5, SeqEqual
<1> QED BY <1>4, <1>6

\* Unless a handler panics, the middlewares that were entered are left once
\* each and in the opposite order, however chains are built and wherever a
\* middleware refuses (MiddlewareHandler).
THEOREM AftersMirrored == Spec => []AfterMirrorsBefore
<1>1. Init => IndInv /\ MirrorInv
  BY InitInv, InitMirror
<1>2. IndInv /\ MirrorInv /\ [Next]_vars => (IndInv /\ MirrorInv)'
  BY NextInv, NextMirror
<1>3. IndInv /\ MirrorInv => AfterMirrorsBefore
  BY MirrorEnds
<1> QED BY <1>1, <1>2, <1>3, PTL DEF Spec

-----------------------------------------------------------------------------
(* Every request comes nearer to its end *)

\* What a frame's stage counts.
LEMMA CreditFacts ==
  /\ Credit \in {0, 1, 4} /\ Credit' \in {0, 1, 4}
  /\ Frame.stage = "loop" => Credit = 0
  /\ Frame.stage = "after" => Credit = 1
  /\ Frame.stage \in {"before", "request"} => Credit = 4
  /\ Frame'.stage = "loop" => Credit' = 0
  /\ Frame'.stage = "after" => Credit' = 1
  /\ Frame'.stage \in {"before", "request"} => Credit' = 4
BY DEF Credit

\* What the parts of StepsLeft are.
LEMMA WorkFacts ==
  ASSUME IndInv, stack # <<>>
  PROVE  /\ Ahead \in Nat /\ Len(stack) \in Nat /\ Len(stack) >= 1 /\ Frame = stack[Len(stack)]
         /\ Credit \in {0, 1, 4} /\ (Credit # 0 => Len(stack) >= 2)
         /\ Work = 5 * Ahead + 3 * Len(stack) - Credit
         /\ Work \in Nat /\ Work >= 1
         /\ StepsLeft = 2 * Work + (IF panic = Nil THEN 1 ELSE 0)
         /\ Len(chain) \in Nat /\ index \in Nat
<1>1. /\ Frame = stack[Len(stack)] /\ Len(stack) \in Nat /\ Len(stack) >= 1
      /\ Len(chain) \in Nat /\ index \in Nat
  BY MirrorFacts
<1>2. Ahead \in Nat
  BY <1>1 DEF Ahead
<1>3. Credit \in {0, 1, 4} /\ (Frame.stage = "loop" => Credit = 0)
  BY CreditFacts
<1>4. Credit # 0 => Len(stack) >= 2
  <2> SUFFICES ASSUME Credit # 0, Len(stack) = 1 PROVE FALSE
    <3>1. \A n \in Nat : n >= 1 /\ n # 1 => n >= 2
      OBVIOUS
    <3> QED BY <1>1, <3>1
  <2>1. StackInv
    BY DEF IndInv
  <2>2. Frame.at = 0 /\ ~(0 > 2)
    BY <1>1, <2>1 DEF StackInv
  <2> QED BY <1>1, <1>3, <2>1, <2>2 DEF StackInv
<1>5. Work = 5 * Ahead + 3 * Len(stack) - Credit
  BY DEF Work
<1>6. Work \in Nat /\ Work >= 1
  BY <1>1, <1>2, <1>3, <1>4, <1>5
<1> QED BY <1>1, <1>2, <1>3, <1>4, <1>5, <1>6 DEF StepsLeft

\* A step after which less is to do.
LEMMA FewerSteps ==
  ASSUME IndInv, stack # <<>>, Ahead' \in Nat, stack' # <<>>,
         Len(stack)' \in Nat, Len(stack)' >= 1, Credit' # 0 => Len(stack)' >= 2,
         5 * Ahead' + 3 * Len(stack)' - Credit' < Work
  PROVE  StepsLeft' \in 0 .. StepsLeft - 1
<1>1. Work \in Nat /\ StepsLeft = 2 * Work + (IF panic = Nil THEN 1 ELSE 0)
  BY WorkFacts
<1>2. StepsLeft' = 2 * Work' + (IF panic' = Nil THEN 1 ELSE 0)
  BY DEF StepsLeft
<1>3. Credit' \in {0, 1, 4}
  BY CreditFacts
<1> DEFINE w == Work
           u == Work'
           a == Ahead'
           n == Len(stack)'
           c == Credit'
<1>4. u = 5 * a + 3 * n - c
  BY DEF Work
<1>5. w \in Nat /\ a \in Nat /\ n \in Nat /\ n >= 1 /\ (c # 0 => n >= 2) /\ c \in {0, 1, 4}
  BY <1>1, <1>3
<1>6. 5 * a + 3 * n - c < w
  OBVIOUS
<1>7. StepsLeft = 2 * w + (IF panic = Nil THEN 1 ELSE 0)
      /\ StepsLeft' = 2 * u + (IF panic' = Nil THEN 1 ELSE 0)
  BY <1>1, <1>2
<1> HIDE DEF w, u, a, n, c
<1>8. u \in Nat /\ u < w
  BY <1>4, <1>5, <1>6
<1> QED BY <1>5, <1>7, <1>8

\* How the index takes off what is ahead.
LEMMA AheadFacts ==
  ASSUME IndInv, stack # <<>>, UNCHANGED chain,
         index' \in Nat, index' >= index \/ index' > Len(chain)
  PROVE  /\ Ahead \in Nat /\ Ahead' \in Nat /\ Ahead' <= Ahead
         /\ index <= Len(chain) /\ index' # index => Ahead' <= Ahead - 1
         /\ index > Len(chain) => Ahead = 0 /\ Ahead' = 0
<1>1. Len(chain) \in Nat /\ index \in Nat
  BY MirrorFacts
<1> QED BY <1>1 DEF Ahead

\* To take frames away leaves one at "loop" behind.
LEMMA CutDown ==
  ASSUME IndInv, stack # <<>>, UNCHANGED chain,
         index' \in Nat, index' >= index \/ index' > Len(chain),
         NEW k \in 2 .. Len(stack), stack' \in Seq(Frames), Len(stack') = k - 1,
         \A i \in 1 .. k - 1 : stack'[i] = stack[i],
         k = Len(stack) /\ Credit = 4 => Ahead' <= Ahead - 1
  PROVE  StepsLeft' \in 0 .. StepsLeft - 1
<1>1. /\ Ahead \in Nat /\ Len(stack) \in Nat /\ Credit \in {0, 1, 4}
      /\ Work = 5 * Ahead + 3 * Len(stack) - Credit
  BY WorkFacts
<1>2. Ahead' \in Nat /\ Ahead' <= Ahead
  BY AheadFacts
<1> DEFINE n == k - 1
           d == Len(stack)
<1>3. n \in Nat /\ n >= 1 /\ n < Len(stack) /\ Len(stack') = n /\ k \in Nat /\ k <= Len(stack)
  BY <1>1
<1>4. Credit' = 0
  <2>1. Frame' = stack[n]
    BY <1>3 DEF Frame, Last
  <2>2. stack[n].stage = "loop"
    BY <1>1, <1>3 DEF IndInv, StackInv
  <2> QED BY <2>1, <2>2, CreditFacts
<1>5. 5 * Ahead' + 3 * Len(stack)' - Credit' < Work
  <2> DEFINE a == Ahead
             b == Ahead'
             c == Credit
  <2>1. /\ a \in Nat /\ b \in Nat /\ b <= a /\ c \in {0, 1, 4} /\ d \in Nat
        /\ k \in Nat /\ k <= d /\ (k = d /\ c = 4 => b <= a - 1)
    BY <1>1, <1>2, <1>3
  <2>2. Work = 5 * a + 3 * d - c /\ Len(stack)' = k - 1 /\ Credit' = 0
    BY <1>1, <1>4
  <2> HIDE DEF a, b, c, d, n
  <2>3. 5 * b + 3 * (k - 1) - 0 < 5 * a + 3 * d - c
    <3>1. CASE k = d
      BY <2>1, <3>1
    <3>2. CASE k < d
      BY <2>1, <3>2
    <3> QED BY <2>1, <3>1, <3>2
  <2> QED BY <2>2, <2>3 DEF b
<1>6. Len(stack)' \in Nat /\ Len(stack)' >= 1 /\ stack' # <<>>
  BY <1>3
<1> QED BY <1>2, <1>4, <1>5, <1>6, FewerSteps

\* A frame that returns.
LEMMA ReturnDown ==
  ASSUME IndInv, Busy, UNCHANGED chain, stack' = Front(stack), Frame.at # 0,
         index' = index + 1 \/ index' = AbortIndex + 1
  PROVE  StepsLeft' \in 0 .. StepsLeft - 1
<1>1. /\ Len(stack) \in Nat /\ Len(stack) >= 1 /\ Len(chain) \in Nat /\ index \in Nat
      /\ Frame = stack[Len(stack)] /\ stack # <<>> /\ AbortIndex + 1 > Len(chain)
  BY MirrorFacts DEF Busy
<1>2. TypeOK /\ StackInv
  BY DEF IndInv
<1>3. Len(stack) >= 2
  <2>1. Len(stack) # 1
    BY <1>1, <1>2 DEF StackInv
  <2>2. \A n \in Nat : n >= 1 /\ n # 1 => n >= 2
    OBVIOUS
  <2> QED BY <1>1, <2>1, <2>2
<1>4. /\ stack' \in Seq(Frames) /\ Len(stack') = Len(stack) - 1
      /\ \A i \in 1 .. Len(stack) - 1 : stack'[i] = stack[i]
  BY <1>1, FrontFacts
<1>5. index' \in Nat /\ (index' >= index \/ index' > Len(chain))
  BY <1>1, HandlersAssumption
<1>6. Credit = 4 => Ahead' <= Ahead - 1
  <2> SUFFICES ASSUME Credit = 4 PROVE Ahead' <= Ahead - 1
    OBVIOUS
  <2>1. Frame.stage \in {"before", "request"}
    <3>1. Frame \in Frames
      BY <1>1, <1>2, Sizes
    <3> QED BY <3>1, CreditFacts DEF Frames
  <2>2. index = Frame.at /\ Frame.at \in 3 .. Len(chain)
    BY <2>1, AtWork
  <2>3. index <= Len(chain) /\ index' # index
    BY <1>1, <2>2, HandlersAssumption
  <2> QED BY <1>1, <1>5, <2>3, AheadFacts
<1>7. Len(stack) \in 2 .. Len(stack)
  BY <1>1, <1>3
<1> QED BY <1>1, <1>4, <1>5, <1>6, <1>7, CutDown

\* A frame that stays, at another stage.
LEMMA StageDown ==
  ASSUME IndInv, Busy, UNCHANGED chain, NEW s \in {"loop", "after"}, Stage(s),
         \/ s = "loop" /\ Frame.stage = "before" /\ index' = index + 1
         \/ s = "after" /\ Frame.stage = "loop" /\ UNCHANGED index /\ Frame.at # 0
  PROVE  StepsLeft' \in 0 .. StepsLeft - 1
<1>1. stack # <<>> /\ TypeOK /\ StackInv
  BY DEF Busy, IndInv
<1>2. /\ Ahead \in Nat /\ Len(stack) \in Nat /\ Len(stack) >= 1 /\ Frame = stack[Len(stack)]
      /\ Work = 5 * Ahead + 3 * Len(stack) - Credit
      /\ Len(chain) \in Nat /\ index \in Nat
  BY <1>1, WorkFacts
<1>3. Len(stack') = Len(stack) /\ stack'[Len(stack)].stage = s
  BY <1>1, StageFacts
<1>4. Credit' = IF s = "loop" THEN 0 ELSE 1
  <2>1. Frame' = stack'[Len(stack)]
    BY <1>3 DEF Frame, Last
  <2> QED BY <1>3, <2>1, CreditFacts
<1>5. Len(stack) # 1
  <2>1. Frame.at # 0
    BY AtWork, <1>1
  <2> QED BY <1>1, <1>2, <2>1 DEF StackInv
<1>6. Ahead' \in Nat /\ 5 * Ahead' - (IF s = "loop" THEN 0 ELSE 1) < 5 * Ahead - Credit
  <2>1. CASE s = "loop" /\ Frame.stage = "before" /\ index' = index + 1
    <3>1. index = Frame.at /\ Frame.at \in 3 .. Len(chain)
      BY <2>1, AtWork
    <3>2. Ahead' \in Nat /\ Ahead' <= Ahead - 1
      BY <1>1, <1>2, <2>1, <3>1, AheadFacts
    <3>3. Credit = 4
      BY <2>1, CreditFacts
    <3>4. \A a, b \in Nat : b <= a - 1 => 5 * b - 0 < 5 * a - 4
      OBVIOUS
    <3>5. 5 * Ahead' - 0 < 5 * Ahead - Credit
      BY <1>2, <3>2, <3>3, <3>4
    <3> QED BY <2>1, <3>2, <3>5
  <2>2. CASE s = "after" /\ Frame.stage = "loop" /\ UNCHANGED index
    <3>1. Ahead' \in Nat /\ Ahead' <= Ahead
      BY <1>1, <1>2, <2>2, AheadFacts
    <3>2. Credit = 0
      BY <2>2, CreditFacts
    <3>3. \A a, b \in Nat : b <= a => 5 * b - 1 < 5 * a - 0
      OBVIOUS
    <3>4. 5 * Ahead' - 1 < 5 * Ahead - Credit
      BY <1>2, <3>1, <3>2, <3>3
    <3> QED BY <2>2, <3>1, <3>4
  <2> QED BY <2>1, <2>2
<1>7. 5 * Ahead' + 3 * Len(stack)' - Credit' < Work
  <2> DEFINE a == Ahead
             b == Ahead'
             c == Credit
             e == Credit'
             d == Len(stack)
  <2>1. /\ a \in Nat /\ b \in Nat /\ c \in {0, 1, 4} /\ e \in {0, 1} /\ d \in Nat
        /\ 5 * b - e < 5 * a - c
    BY <1>2, <1>4, <1>6, CreditFacts
  <2>2. Work = 5 * a + 3 * d - c /\ Len(stack)' = d
    BY <1>2, <1>3
  <2> HIDE DEF a, b, c, d, e
  <2>3. 5 * b + 3 * d - e < 5 * a + 3 * d - c
    BY <2>1
  <2> QED BY <2>2, <2>3 DEF b, e
<1>8. Len(stack)' \in Nat /\ Len(stack)' >= 2 /\ stack' # <<>>
  <2>1. \A n \in Nat : n >= 1 /\ n # 1 => n >= 2
    OBVIOUS
  <2>2. Len(stack) >= 2
    BY <1>2, <1>5, <2>1
  <2> QED BY <1>1, <1>2, <1>3, <2>2, StageFacts
<1> QED BY <1>1, <1>6, <1>7, <1>8, FewerSteps

\* A panic.
LEMMA PanicsDown ==
  ASSUME IndInv, Busy, NEW v \in PanicValues \cup {"pipe"}, Panics(v)
  PROVE  StepsLeft' \in 0 .. StepsLeft - 1
<1>1. stack # <<>> /\ panic = Nil /\ panic' # Nil /\ UNCHANGED <<chain, index, stack>>
  BY ChainAssumption DEF Busy, Panics
<1>2. /\ Work \in Nat
      /\ StepsLeft = 2 * Work + 1
  BY <1>1, WorkFacts
<1>3. Work' = Work
  BY <1>1 DEF Work, Ahead, Credit, Frame
<1>4. StepsLeft' = 2 * Work
  <2>1. StepsLeft' = 2 * Work' + (IF panic' = Nil THEN 1 ELSE 0)
    BY <1>1 DEF StepsLeft
  <2> HIDE DEF Work
  <2> QED BY <1>1, <1>2, <1>3, <2>1
<1> QED BY <1>2, <1>4

\* The engine's Next is over, or net/http has the panic.
LEMMA EndDown ==
  ASSUME IndInv, stack # <<>>, stack' = <<>>
  PROVE  StepsLeft' \in 0 .. StepsLeft - 1
<1>1. /\ Work \in Nat /\ Work >= 1
      /\ StepsLeft = 2 * Work + (IF panic = Nil THEN 1 ELSE 0)
  BY WorkFacts
<1>2. StepsLeft' = 0
  BY DEF StepsLeft
<1>3. StepsLeft >= 1 /\ StepsLeft \in Nat
  BY <1>1
<1> QED BY <1>2, <1>3

\* A handler begins.
LEMMA InvokeDown ==
  ASSUME IndInv, Invoke
  PROVE  StepsLeft' \in 0 .. StepsLeft - 1
<1>1. /\ stack # <<>> /\ Frame.stage = "loop" /\ index \in 1 .. Len(chain) /\ UNCHANGED chain
  BY InvokeFacts
<1>2. PICK s \in {"loop", "before", "request"} :
        /\ Len(stack') = Len(stack) + 1 /\ stack'[Len(stack) + 1].stage = s
        /\ s = "loop" => index' = index + 1
        /\ s # "loop" => index' = index
  BY InvokeFacts
<1>3. /\ Ahead \in Nat /\ Len(stack) \in Nat /\ Len(stack) >= 1
      /\ Work = 5 * Ahead + 3 * Len(stack)
      /\ Len(chain) \in Nat /\ index \in Nat
  BY <1>1, WorkFacts, CreditFacts
<1>4. Len(stack)' \in Nat /\ Len(stack)' >= 2 /\ stack' # <<>>
  BY <1>2, <1>3
<1>5. Credit' = IF s = "loop" THEN 0 ELSE 4
  <2>1. Frame' = stack'[Len(stack) + 1]
    BY <1>2 DEF Frame, Last
  <2> QED BY <1>2, <2>1, CreditFacts
<1>6. Ahead' \in Nat /\ 5 * Ahead' + 3 - Credit' < 5 * Ahead
  <2>1. CASE s = "loop"
    <3>1. Ahead' \in Nat /\ Ahead' <= Ahead - 1
      BY <1>1, <1>2, <1>3, <2>1, AheadFacts
    <3>2. Credit' = 0
      BY <1>5, <2>1
    <3>3. \A a, b \in Nat : b <= a - 1 => 5 * b + 3 - 0 < 5 * a
      OBVIOUS
    <3> QED BY <1>3, <3>1, <3>2, <3>3
  <2>2. CASE s # "loop"
    <3>1. Ahead' \in Nat /\ Ahead' <= Ahead
      BY <1>1, <1>2, <1>3, <2>2, AheadFacts
    <3>2. Credit' = 4
      BY <1>5, <2>2
    <3>3. \A a, b \in Nat : b <= a => 5 * b + 3 - 4 < 5 * a
      OBVIOUS
    <3> QED BY <1>3, <3>1, <3>2, <3>3
  <2> QED BY <2>1, <2>2
<1>7. 5 * Ahead' + 3 * Len(stack)' - Credit' < Work
  <2> DEFINE a == Ahead
             b == Ahead'
             c == Credit'
             d == Len(stack)
  <2>1. a \in Nat /\ b \in Nat /\ c \in {0, 1, 4} /\ d \in Nat /\ 5 * b + 3 - c < 5 * a
    BY <1>3, <1>6, CreditFacts
  <2>2. Work = 5 * a + 3 * d /\ Len(stack)' = d + 1
    BY <1>2, <1>3
  <2> HIDE DEF a, b, c, d
  <2>3. 5 * b + 3 * (d + 1) - c < 5 * a + 3 * d
    BY <2>1
  <2> QED BY <2>2, <2>3 DEF b, c
<1> QED BY <1>1, <1>4, <1>6, <1>7, FewerSteps

\* Recovery takes its own frame away, whether it can answer or not.
LEMMA RecoverDown ==
  ASSUME IndInv, Recover
  PROVE  StepsLeft' \in 0 .. StepsLeft - 1
<1>1. panic # Nil /\ stack # <<>> /\ UNCHANGED chain /\ TypeOK /\ StackInv
  BY DEF Recover, IndInv, StackInv
<1>2. PICK k \in Depth :
        /\ stack' = SubSeq(stack, 1, k - 1)
        /\ index' = index + 1 \/ index' = AbortIndex + 1 \/ index' = index
  BY DEF Recover
<1>3. /\ Len(stack) \in Nat /\ Len(chain) \in Nat /\ WellFormed(chain) /\ index \in Nat
      /\ AbortIndex \in Nat /\ AbortIndex + 1 > Len(chain)
      /\ Frame = stack[Len(stack)] /\ stack \in Seq(Frames)
  BY <1>1, MirrorFacts, HandlersAssumption DEF TypeOK, Frames
<1>4. k \in 1 .. Len(stack) /\ stack[k].at # 0 /\ chain[stack[k].at] = "recovery"
  BY <1>3 DEF Depth
<1>5. k \in 2 .. Len(stack)
  <2>1. k # 1
    BY <1>1, <1>4 DEF StackInv
  <2> QED BY <1>3, <1>4, <2>1
<1>6. stack[k].at = 2
  <2>1. stack[k].at \in 1 .. Len(chain)
    BY <1>1, <1>3, <1>4, Sizes
  <2> QED BY <1>3, <1>4, <2>1, ChainFacts
<1>7. k = Len(stack) => Frame.stage = "loop"
  <2>1. Frame.stage # "loop" => Frame.at > 2
    BY <1>1, <1>3 DEF StackInv
  <2> QED BY <1>3, <1>6, <2>1
<1>8. index' \in Nat /\ (index' >= index \/ index' > Len(chain))
  BY <1>2, <1>3
<1>9. /\ stack' \in Seq(Frames) /\ Len(stack') = k - 1
      /\ \A i \in 1 .. k - 1 : stack'[i] = stack[i]
  BY <1>2, <1>3, <1>5
<1>10. k = Len(stack) => Credit # 4
  BY <1>7, CreditFacts
<1> QED BY <1>1, <1>5, <1>8, <1>9, <1>10, CutDown

\* Every step of a request comes nearer to its end.
LEMMA HandleDown ==
  ASSUME IndInv, Handle
  PROVE  StepsLeft' \in 0 .. StepsLeft - 1
<1>1. CASE LoopEnd
  <2>1. Busy /\ stack # <<>> /\ UNCHANGED chain /\ Frame.stage = "loop"
    BY <1>1 DEF LoopEnd, At, Busy
  <2>2. CASE Frame.at = 0
    BY <1>1, <2>1, <2>2, EndDown DEF LoopEnd
  <2>3. CASE Frame.at # 0 /\ Stage("after") /\ UNCHANGED index
    BY <2>1, <2>3, StageDown
  <2>4. CASE Frame.at # 0 /\ Return
    BY <2>1, <2>4, ReturnDown DEF Return
  <2> QED BY <1>1, <2>2, <2>3, <2>4 DEF LoopEnd
<1>2. ASSUME Busy, Frame.stage \in {"before", "after", "request"}, UNCHANGED chain,
             Return \/ AbortAndReturn
      PROVE  StepsLeft' \in 0 .. StepsLeft - 1
  <2>1. Frame.at # 0
    BY <1>2, AtWork
  <2> QED BY <1>2, <2>1, ReturnDown DEF Return, AbortAndReturn
<1>3. CASE Before
  <2>1. Busy /\ Frame.stage = "before"
    BY <1>3 DEF Before, At
  <2>2. \/ CallNext /\ UNCHANGED chain
        \/ AbortAndReturn /\ UNCHANGED chain
        \/ \E v \in PanicValues \cup {"pipe"} : Panics(v)
    BY <1>3 DEF Before, Renders
  <2>3. CASE CallNext /\ UNCHANGED chain
    BY <2>1, <2>3, StageDown DEF CallNext
  <2> QED BY <1>2, <2>1, <2>2, <2>3, PanicsDown
<1>4. CASE After
  <2>1. Busy /\ Frame.stage = "after"
    BY <1>4 DEF After, At
  <2>2. \/ (Return \/ AbortAndReturn) /\ UNCHANGED chain
        \/ \E v \in PanicValues \cup {"pipe"} : Panics(v)
    BY <1>4 DEF After, Renders
  <2> QED BY <1>2, <2>1, <2>2, PanicsDown
<1>5. CASE Request
  <2>1. Busy /\ Frame.stage = "request"
    BY <1>5 DEF Request, At
  <2>2. \/ Return /\ UNCHANGED chain
        \/ \E v \in PanicValues \cup {"pipe"} : Panics(v)
    BY <1>5 DEF Request, Renders
  <2> QED BY <1>2, <2>1, <2>2, PanicsDown
<1>6. CASE Drop
  <2>1. stack # <<>> /\ stack' = <<>>
    BY <1>6 DEF Drop, IndInv, StackInv
  <2> QED BY <2>1, EndDown
<1> QED BY <1>1, <1>3, <1>4, <1>5, <1>6, InvokeDown, RecoverDown DEF Handle

\* However its handlers refuse, fail and panic, and however long its chain is, a
\* request has a bounded number of steps (MiddlewareHandler, RecoveryWithLogger).
THEOREM RequestsRunDown == Spec => RunsDown
<1>1. IndInv /\ [Next]_vars => [stack # <<>> => StepsLeft' \in 0 .. StepsLeft - 1]_vars
  <2> SUFFICES ASSUME IndInv, Next, stack # <<>> PROVE StepsLeft' \in 0 .. StepsLeft - 1
    OBVIOUS
  <2>1. ~Serve
    BY DEF Serve, Start
  <2> QED BY <2>1, HandleDown DEF Next
<1>2. IndInv /\ [Next]_vars => IndInv'
  BY NextInv
<1> QED BY <1>1, <1>2, InitInv, PTL DEF Spec, RunsDown

-----------------------------------------------------------------------------
(* Each place is handled once, and the client has an answer *)

\* What a handler does at its place of the chain and not on the way back.
Handled == {"passed", "waived", "refused", "request"}

\* The places of h behind the index.
Past(h) == {i \in DOMAIN chain : i < index /\ chain[i] = h}

OnceInv == \A h \in Handlers : Cardinality(Did(h, Handled)) <= Cardinality(Past(h))

-----------------------------------------------------------------------------

\* All that is counted is finite.
LEMMA SetSizes ==
  ASSUME IndInv, NEW h
  PROVE  /\ \A M : IsFiniteSet(Did(h, M)) /\ Cardinality(Did(h, M)) \in Nat
         /\ \A M : IsFiniteSet(Marked(M)) /\ Cardinality(Marked(M)) \in Nat
         /\ IsFiniteSet(Past(h)) /\ Cardinality(Past(h)) \in Nat
         /\ Len(trace) \in Nat /\ DOMAIN trace = 1 .. Len(trace)
         /\ Len(chain) \in Nat /\ DOMAIN chain = 1 .. Len(chain) /\ index \in Nat
<1>1. trace \in Seq(Events) /\ Len(trace) \in Nat /\ DOMAIN trace = 1 .. Len(trace)
  <2>1. trace \in Seq(Events)
    BY DEF IndInv, TypeOK, Events
  <2> QED BY <2>1
<1>2. Len(chain) \in Nat /\ DOMAIN chain = 1 .. Len(chain) /\ index \in Nat
  <2>1. chain = <<>> \/ chain \in Seq(Handlers)
    BY DEF IndInv, TypeOK, WellFormed
  <2>2. index \in Nat
    BY Sizes DEF IndInv
  <2> QED BY <2>1, <2>2
<1>3. \A m, n \in Nat : IsFiniteSet(m .. n)
  <2>1. \A m, n \in Nat : m \in Int /\ n \in Int
    OBVIOUS
  <2> QED BY <2>1, FS_Interval
<1>4. IsFiniteSet(1 .. Len(trace)) /\ IsFiniteSet(1 .. Len(chain))
  BY <1>1, <1>2, <1>3
<1>5. \A M : Did(h, M) \in SUBSET (1 .. Len(trace)) /\ Marked(M) \in SUBSET (1 .. Len(trace))
  BY <1>1 DEF Did, Marked
<1>6. Past(h) \in SUBSET (1 .. Len(chain))
  BY <1>2 DEF Past
<1>7. \A M : IsFiniteSet(Did(h, M)) /\ IsFiniteSet(Marked(M))
  BY <1>4, <1>5, FS_Subset
<1>8. IsFiniteSet(Past(h))
  BY <1>4, <1>6, FS_Subset
<1> QED BY <1>1, <1>2, <1>7, <1>8, FS_CardinalityType

\* What has moved is behind the index, and each place is handled as it gets there.
LEMMA OnceStep ==
  ASSUME IndInv, OnceInv, IndInv', chain' = chain, index' \in Nat,
         index' >= index \/ index' > Len(chain),
         \/ trace' = trace
         \/ \E mark \in Marks : \E who \in Handlers :
              /\ trace' = Append(trace, [mark |-> mark, who |-> who])
              /\ mark \in Handled =>
                   /\ index \in 1 .. Len(chain) /\ chain[index] = who
                   /\ index' > index
  PROVE  OnceInv'
<1> SUFFICES ASSUME NEW h \in Handlers
             PROVE  Cardinality(Did(h, Handled)') <= Cardinality(Past(h)')
  BY DEF OnceInv
<1>1. /\ IsFiniteSet(Did(h, Handled)) /\ Cardinality(Did(h, Handled)) \in Nat
      /\ IsFiniteSet(Past(h)) /\ Cardinality(Past(h)) \in Nat
      /\ Len(trace) \in Nat /\ DOMAIN trace = 1 .. Len(trace)
      /\ Len(chain) \in Nat /\ DOMAIN chain = 1 .. Len(chain) /\ index \in Nat
      /\ Cardinality(Did(h, Handled)) <= Cardinality(Past(h))
  BY SetSizes DEF OnceInv
<1>2. \A i : i \in Past(h)' <=> i \in 1 .. Len(chain) /\ i < index' /\ chain[i] = h
  BY <1>1 DEF Past
<1>3. \A i : i \in Past(h) <=> i \in 1 .. Len(chain) /\ i < index /\ chain[i] = h
  BY <1>1 DEF Past
<1>4. IsFiniteSet(Past(h)') /\ Cardinality(Past(h)') \in Nat
  <2>1. Past(h)' \in SUBSET (1 .. Len(chain)) /\ IsFiniteSet(1 .. Len(chain))
    <3>1. 1 \in Int /\ Len(chain) \in Int
      BY <1>1
    <3> QED BY <1>2, <3>1, FS_Interval
  <2>2. IsFiniteSet(Past(h)')
    BY <2>1, FS_Subset
  <2> QED BY <2>2, FS_CardinalityType
<1>5. Past(h) \in SUBSET Past(h)'
  BY <1>1, <1>2, <1>3
<1>6. Cardinality(Past(h)) <= Cardinality(Past(h)')
  BY <1>4, <1>5, FS_Subset
<1>7. CASE Did(h, Handled)' = Did(h, Handled)
  BY <1>1, <1>4, <1>6, <1>7
<1>8. CASE Did(h, Handled)' # Did(h, Handled)
  <2>1. trace' # trace
    BY <1>8 DEF Did
  <2>2. PICK mark \in Marks : \E who \in Handlers :
              /\ trace' = Append(trace, [mark |-> mark, who |-> who])
              /\ mark \in Handled =>
                   /\ index \in 1 .. Len(chain) /\ chain[index] = who
                   /\ index' > index
    BY <2>1
  <2>3. PICK who \in Handlers :
              /\ trace' = Append(trace, [mark |-> mark, who |-> who])
              /\ mark \in Handled =>
                   /\ index \in 1 .. Len(chain) /\ chain[index] = who
                   /\ index' > index
    BY <2>2
  <2>4. Did(h, Handled)' = IF h = who /\ mark \in Handled
          THEN Did(h, Handled) \cup {Len(trace) + 1} ELSE Did(h, Handled)
    BY <2>3, NotedSets DEF IndInv
  <2>5. h = who /\ mark \in Handled /\ Did(h, Handled)' = Did(h, Handled) \cup {Len(trace) + 1}
    BY <1>8, <2>4
  <2>6. index \in Past(h)' /\ index \notin Past(h)
    <3>1. index \in 1 .. Len(chain) /\ chain[index] = h /\ index < index'
      BY <1>1, <2>3, <2>5
    <3>2. ~(index < index)
      BY <1>1
    <3> QED BY <1>2, <1>3, <3>1, <3>2
  <2>7. Cardinality(Past(h) \cup {index}) = Cardinality(Past(h)) + 1
    BY <1>1, <2>6, FS_AddElement
  <2>8. Cardinality(Past(h) \cup {index}) <= Cardinality(Past(h)')
    <3>1. Past(h) \cup {index} \in SUBSET Past(h)'
      BY <1>5, <2>6
    <3> QED BY <1>4, <3>1, FS_Subset
  <2>9. Cardinality(Did(h, Handled) \cup {Len(trace) + 1}) <= Cardinality(Did(h, Handled)) + 1
    <3> DEFINE D == Did(h, Handled)
               n == Len(trace) + 1
    <3>1. IsFiniteSet(D) /\ Cardinality(D) \in Nat
      BY <1>1
    <3> HIDE DEF D, n
    <3>2. Cardinality(D \cup {n}) = Cardinality(D) \/ Cardinality(D \cup {n}) = Cardinality(D) + 1
      BY <3>1, FS_AddElement
    <3>3. Cardinality(D \cup {n}) <= Cardinality(D) + 1
      BY <3>1, <3>2
    <3> QED BY <3>3 DEF D, n
  <2>10. Cardinality(Did(h, Handled) \cup {Len(trace) + 1}) \in Nat
    BY <1>1, FS_AddElement, FS_CardinalityType
  <2>11. \A a, b, c, d \in Nat : a <= b /\ b + 1 <= c /\ d <= a + 1 => d <= c
    OBVIOUS
  <2> QED BY <1>1, <1>4, <2>5, <2>7, <2>8, <2>9, <2>10, <2>11
<1> QED BY <1>7, <1>8

\* What the steps of the handlers do to the index and to the trace.
LEMMA HandlerSteps ==
  ASSUME IndInv, Before \/ After \/ Request
  PROVE  /\ chain' = chain /\ index' \in Nat
         /\ index' >= index \/ index' > Len(chain)
         /\ \E mark \in Marks : \E who \in Handlers :
              /\ trace' = Append(trace, [mark |-> mark, who |-> who])
              /\ mark \in Handled =>
                   /\ index \in 1 .. Len(chain) /\ chain[index] = who
                   /\ index' > index
<1>1. /\ Busy /\ Frame.stage \in {"before", "after", "request"} /\ stack # <<>>
  BY DEF Before, After, Request, At, Busy
<1>2. /\ Handler \in Handlers /\ Frame.at \in 3 .. Len(chain) /\ Handler = chain[Frame.at]
      /\ Frame.stage \in {"before", "request"} => index = Frame.at
  BY <1>1, AtWork DEF Handler
<1>3. Len(chain) \in Nat /\ index \in Nat /\ AbortIndex + 1 > Len(chain) /\ AbortIndex \in Nat
  BY <1>1, MirrorFacts, HandlersAssumption
<1>4. /\ \E mark \in Marks :
           /\ Note(mark) /\ (Frame.stage = "after" => mark \notin Handled)
           /\ mark \in Handled => index' = index + 1 \/ index' = AbortIndex + 1
      /\ index' = index \/ index' = index + 1 \/ index' = AbortIndex + 1
      /\ chain' = chain
  <2>1. CASE Before
    <3>1. Frame.stage = "before"
      BY <2>1 DEF Before, At
    <3>2. PICK mark \in {"passed", "waived", "refused", "error", "string", "other", "pipe"} :
            /\ Note(mark) /\ chain' = chain
            /\ mark \in Handled => index' = index + 1 \/ index' = AbortIndex + 1
            /\ index' = index \/ index' = index + 1 \/ index' = AbortIndex + 1
      BY <2>1, ChainAssumption DEF Before, Renders, Panics, CallNext, AbortAndReturn, Handled
    <3> QED BY <3>1, <3>2 DEF Marks
  <2>2. CASE After
    <3>2. PICK mark \in {"after", "failed", "error", "string", "other", "pipe"} :
            /\ Note(mark) /\ chain' = chain
            /\ index' = index \/ index' = index + 1 \/ index' = AbortIndex + 1
      BY <2>2, ChainAssumption DEF After, Renders, Panics, Return, AbortAndReturn
    <3>3. mark \in Marks /\ mark \notin Handled
      BY DEF Marks, Handled
    <3> QED BY <3>2, <3>3
  <2>3. CASE Request
    <3>1. Frame.stage = "request"
      BY <2>3 DEF Request, At
    <3>2. PICK mark \in {"request", "error", "string", "other", "pipe"} :
            /\ Note(mark) /\ chain' = chain
            /\ mark \in Handled => index' = index + 1
            /\ index' = index \/ index' = index + 1
      BY <2>3, ChainAssumption DEF Request, Renders, Panics, Return, Handled
    <3> QED BY <3>1, <3>2 DEF Marks
  <2> QED BY <2>1, <2>2, <2>3
<1>5. PICK mark \in Marks :
        /\ Note(mark) /\ (Frame.stage = "after" => mark \notin Handled)
        /\ mark \in Handled => index' = index + 1 \/ index' = AbortIndex + 1
  BY <1>4
<1>6. index' \in Nat /\ (index' >= index \/ index' > Len(chain))
  BY <1>3, <1>4
<1>7. mark \in Handled => index \in 1 .. Len(chain) /\ chain[index] = Handler /\ index' > index
  BY <1>1, <1>2, <1>3, <1>5
<1>8. trace' = Append(trace, [mark |-> mark, who |-> Handler])
  BY <1>5 DEF Note
<1> QED BY <1>2, <1>4, <1>6, <1>7, <1>8

\* All steps keep OnceInv.
LEMMA NextOnce ==
  ASSUME IndInv, OnceInv, [Next]_vars
  PROVE  OnceInv'
<1>1. IndInv' /\ Len(chain) \in Nat /\ index \in Nat /\ AbortIndex \in Nat
  BY NextInv, HandlersAssumption, Sizes DEF IndInv
<1>2. CASE Serve
  <2>1. trace' = <<>>
    BY <1>2 DEF Serve, Start
  <2>2. \A h : Did(h, Handled)' = {}
    BY <2>1 DEF Did
  <2>3. ASSUME NEW h \in Handlers PROVE Cardinality(Past(h)') \in Nat
    <3>1. PICK c : c = chain'
      OBVIOUS
    <3>2. c \in Seq(Handlers) /\ Len(c) \in Nat /\ DOMAIN c = 1 .. Len(c)
      BY <1>2, <3>1 DEF Serve, WellFormed
    <3>3. Past(h)' \in SUBSET (1 .. Len(c)) /\ IsFiniteSet(1 .. Len(c))
      <4>1. 1 \in Int /\ Len(c) \in Int
        BY <3>2
      <4> QED BY <3>1, <3>2, <4>1, FS_Interval DEF Past
    <3>4. IsFiniteSet(Past(h)')
      BY <3>3, FS_Subset
    <3> QED BY <3>4, FS_CardinalityType
  <2> QED BY <2>2, <2>3, FS_EmptySet DEF OnceInv
<1>3. CASE Before \/ After \/ Request
  BY <1>1, <1>3, HandlerSteps, OnceStep
<1>4. CASE Invoke \/ LoopEnd \/ Recover \/ Drop \/ UNCHANGED vars
  <2>1. chain' = chain /\ trace' = trace
    BY <1>4 DEF Invoke, LoopEnd, Recover, Drop, vars
  <2>2. index' = index \/ index' = index + 1 \/ index' = AbortIndex + 1
    BY <1>4 DEF Invoke, LoopEnd, Return, Recover, Drop, vars
  <2>3. AbortIndex + 1 > Len(chain)
    <3>1. chain = <<>> \/ WellFormed(chain)
      BY DEF IndInv, TypeOK
    <3> QED BY <1>1, <3>1, ChainFacts
  <2>4. index' \in Nat /\ (index' >= index \/ index' > Len(chain))
    BY <1>1, <2>2, <2>3
  <2> QED BY <1>1, <2>1, <2>4, OnceStep
<1> QED BY <1>2, <1>3, <1>4 DEF Next, Handle

-----------------------------------------------------------------------------

HasController == ToSet(chain) \cap Controllers # {}

\* As long as there is no answer, the request is on its way to a controller,
\* inside of Recovery.
UnansweredInv ==
  answers = 0 /\ ~gone /\ HasController =>
    /\ stack # <<>> /\ panic # "pipe"
    /\ \A i \in 1 .. Len(chain) : i < index => chain[i] \notin Controllers
    /\ Len(stack) = 1 => index = 1
    /\ Len(stack) = 2 => index = 2
    /\ Len(stack) >= 2 => stack[2].at = 1
    /\ Len(stack) >= 3 => stack[3].at = 2
    /\ panic # Nil => Len(stack) >= 3

\* Without an answer the request is still inside of Recovery, unless that has
\* yet to be called.
LEMMA UnansweredFacts ==
  ASSUME IndInv, UnansweredInv, answers = 0, ~gone, HasController
  PROVE  /\ stack # <<>> /\ Len(stack) \in Nat /\ Len(stack) >= 1 /\ WellFormed(chain)
         /\ Len(chain) \in Nat /\ index \in 1 .. Len(chain)
         /\ index > 2 => Len(stack) >= 3
<1>1. stack # <<>> /\ \A i \in 1 .. Len(chain) : i < index => chain[i] \notin Controllers
  BY DEF UnansweredInv
<1>2. /\ Len(stack) \in Nat /\ Len(stack) >= 1 /\ WellFormed(chain) /\ Len(chain) \in Nat
      /\ index \in Nat /\ index >= 1
  BY <1>1, MirrorFacts DEF IndInv, TypeOK
<1>3. PICK i \in 1 .. Len(chain) : chain[i] \in Controllers
  <2>1. DOMAIN chain = 1 .. Len(chain)
    BY <1>2 DEF WellFormed
  <2> QED BY <2>1 DEF HasController, ToSet
<1>4. index \in 1 .. Len(chain)
  BY <1>1, <1>2, <1>3
<1>5. index > 2 => Len(stack) >= 3
  <2>1. \A n \in Nat : n >= 1 => n = 1 \/ n = 2 \/ n >= 3
    OBVIOUS
  <2>2. (Len(stack) = 1 => index = 1) /\ (Len(stack) = 2 => index = 2)
    BY DEF UnansweredInv
  <2>3. Len(stack) = 1 \/ Len(stack) = 2 \/ Len(stack) >= 3
    BY <1>2, <2>1
  <2>4. index > 2 => index # 1 /\ index # 2
    BY <1>2
  <2> QED BY <2>2, <2>3, <2>4
<1> QED BY <1>1, <1>2, <1>4, <1>5

\* All steps keep UnansweredInv.
LEMMA NextUnanswered ==
  ASSUME IndInv, UnansweredInv, [Next]_vars
  PROVE  UnansweredInv'
<1> DEFINE m == Len(stack)
<1>1. CASE Serve
  <2>1. stack' = <<[at |-> 0, stage |-> "loop"]>> /\ index' = 1 /\ panic' = Nil
          /\ WellFormed(chain')
    BY <1>1 DEF Serve, Start, IndInv, StackInv
  <2>2. stack' # <<>> /\ Len(stack') = 1
    BY <2>1
  <2> QED BY <2>1, <2>2, ChainAssumption DEF UnansweredInv
<1> SUFFICES ASSUME [Handle]_vars, chain' = chain, answers' = 0, ~gone', HasController
             PROVE  UnansweredInv'
  <2>1. chain' = chain \/ Serve
    BY DEF Next, Handle, Invoke, LoopEnd, Before, After, Request, Recover, Drop, Renders,
      Panics, vars
  <2>2. chain' = chain => HasController' = HasController
    BY DEF HasController
  <2> QED BY <1>1, <2>1, <2>2 DEF Next, UnansweredInv
<1>2. answers = 0 /\ ~gone
  <2>1. answers' = answers \/ answers' = answers + 1
    BY DEF Handle, Invoke, LoopEnd, Before, After, Request, Recover, Drop, Renders, Panics, vars
  <2>2. answers \in Nat
    BY DEF IndInv, TypeOK
  <2>3. gone => gone'
    BY DEF Handle, Invoke, LoopEnd, Before, After, Request, Recover, Drop, Renders, Panics, vars
  <2> QED BY <2>1, <2>2, <2>3
<1>3. /\ stack # <<>> /\ panic # "pipe"
      /\ \A i \in 1 .. Len(chain) : i < index => chain[i] \notin Controllers
      /\ m = 1 => index = 1
      /\ m = 2 => index = 2
      /\ m >= 2 => stack[2].at = 1
      /\ m >= 3 => stack[3].at = 2
      /\ panic # Nil => m >= 3
  BY <1>2 DEF UnansweredInv
<1>4. /\ m \in Nat /\ m >= 1 /\ WellFormed(chain) /\ Len(chain) \in Nat
      /\ index \in 1 .. Len(chain) /\ index \in Nat /\ (index > 2 => m >= 3)
  BY <1>2, UnansweredFacts
<1>5. Nil # "pipe"
  BY ChainAssumption
<1>6. CASE Invoke
  <2>1. UNCHANGED <<chain, panic>> /\ panic = Nil /\ Frame.at < index
    BY <1>6, InvokeFacts
  <2>2. PICK s \in {"loop", "before", "request"} :
          /\ stack' \in Seq(Frames) /\ Len(stack') = m + 1
          /\ \A i \in 1 .. m : stack'[i] = stack[i]
          /\ stack'[m + 1].at = index /\ stack'[m + 1].stage = s
          /\ s = "loop" =>
               index \in {1, 2} /\ chain[index] \notin Controllers /\ index' = index + 1
          /\ s # "loop" => index > 2 /\ index' = index
    BY <1>6, InvokeFacts
  <2>3. stack' # <<>>
    BY <1>4, <2>2
  <2>4. CASE s = "loop"
    <3>1. m - 1 <= Frame.at /\ Frame.at \in Nat
      <4>1. Frame = stack[m] /\ m \in 1 .. m /\ Frame.at \in 0 .. Len(chain)
        BY <1>3, <1>4, MirrorFacts
      <4> QED BY <1>4, <4>1 DEF IndInv, StackInv
    <3>2. m = index
      <4>1. index = 1 \/ index = 2
        BY <2>2, <2>4
      <4>2. m <= index /\ (m = 1 \/ m = 2)
        <5>1. \A a, k, n \in Nat :
                k >= 1 /\ k - 1 <= a /\ a < n /\ (n = 1 \/ n = 2) => k <= n /\ (k = 1 \/ k = 2)
          OBVIOUS
        <5> QED BY <1>4, <2>1, <3>1, <4>1, <5>1
      <4> QED BY <1>3, <4>1, <4>2
    <3>3. \A i \in 1 .. Len(chain) : i < index + 1 => i < index \/ i = index
      BY <1>4
    <3>4. \A i \in 1 .. Len(chain) : i < index' => chain[i] \notin Controllers
      BY <1>3, <2>2, <2>4, <3>3
    <3>5. CASE index = 1
      <4>1. Len(stack') = 2 /\ index' = 2 /\ stack'[2].at = 1
        BY <2>2, <2>4, <3>2, <3>5
      <4> QED BY <1>5, <2>1, <2>3, <3>4, <4>1 DEF UnansweredInv
    <3>6. CASE index = 2
      <4>1. Len(stack') = 3 /\ stack'[3].at = 2 /\ stack'[2] = stack[2] /\ stack[2].at = 1
        BY <1>3, <2>2, <2>4, <3>2, <3>6
      <4> QED BY <1>5, <2>1, <2>3, <3>4, <4>1 DEF UnansweredInv
    <3> QED BY <2>2, <2>4, <3>5, <3>6
  <2>5. CASE s # "loop"
    <3>1. m >= 3 /\ index' = index /\ Len(stack') = m + 1
      BY <1>4, <2>2, <2>5
    <3>2. stack'[2].at = 1 /\ stack'[3].at = 2
      <4>1. 2 \in 1 .. m /\ 3 \in 1 .. m
        BY <1>4, <3>1
      <4> QED BY <1>3, <1>4, <2>2, <3>1, <4>1
    <3>3. Len(stack') # 1 /\ Len(stack') # 2
      BY <1>4, <3>1
    <3> QED BY <1>3, <1>5, <2>1, <2>3, <3>1, <3>2, <3>3 DEF UnansweredInv
  <2> QED BY <2>4, <2>5
<1>7. CASE LoopEnd
  BY <1>4, <1>7 DEF LoopEnd
<1>8. ASSUME Before \/ After \/ Request PROVE UnansweredInv'
  <2>1. /\ Busy /\ Frame.stage \in {"before", "after", "request"} /\ stack # <<>>
    BY <1>8 DEF Before, After, Request, At, Busy
  <2>2. /\ Frame.at \in 3 .. Len(chain) /\ Handler = chain[Frame.at]
        /\ Frame.stage \in {"before", "request"} => index = Frame.at
        /\ Frame.stage = "before" => Handler \in Middlewares
        /\ Frame.stage = "after" => index > Len(chain)
    BY <2>1, AtWork DEF Handler
  <2>3. index = Frame.at /\ Frame.stage # "after" /\ index > 2 /\ m >= 3
    BY <1>4, <2>1, <2>2
  <2>4. \/ \E v \in PanicValues \cup {"pipe"} : Panics(v)
        \/ Frame.stage = "before" /\ CallNext /\ panic' = panic
    <3>1. answers' # answers + 1
      BY <1>2
    <3>2. ~After
      BY <2>3 DEF After, At
    <3> QED BY <1>8, <3>1, <3>2 DEF Before, Request, Renders, At
  <2>5. CASE \E v \in PanicValues \cup {"pipe"} : Panics(v)
    <3>1. PICK v \in PanicValues \cup {"pipe"} : Panics(v)
      BY <2>5
    <3>2. v # "pipe"
      BY <3>1 DEF Panics
    <3> QED BY <1>3, <2>3, <3>1, <3>2 DEF Panics, UnansweredInv
  <2>6. CASE Frame.stage = "before" /\ CallNext /\ panic' = panic
    <3>1. /\ stack' \in Seq(Frames) /\ stack' # <<>> /\ Len(stack') = m
          /\ \A i \in 1 .. m - 1 : stack'[i] = stack[i]
          /\ stack'[m].at = stack[m].at
          /\ index' = index + 1
      BY <2>1, <2>6, StageFacts DEF CallNext, IndInv
    <3>2. stack'[2].at = 1 /\ stack'[3].at = 2
      <4>1. \A i \in 1 .. m : i \in 1 .. m - 1 \/ i = m
        BY <1>4
      <4>2. 2 \in 1 .. m /\ 3 \in 1 .. m
        BY <1>4, <2>3
      <4> QED BY <1>3, <1>4, <2>3, <3>1, <4>1, <4>2
    <3>3. chain[index] \notin Controllers
      BY <2>2, <2>3, <2>6, HandlersAssumption
    <3>4. \A i \in 1 .. Len(chain) : i < index + 1 => i < index \/ i = index
      BY <1>4
    <3>5. Len(stack') # 1 /\ Len(stack') # 2
      BY <1>4, <2>3, <3>1, SMTT(30)
    <3> QED BY <1>3, <2>3, <2>6, <3>1, <3>2, <3>3, <3>4, <3>5 DEF UnansweredInv
  <2> QED BY <2>4, <2>5, <2>6
<1>9. CASE Recover
  BY <1>2, <1>3, <1>9 DEF Recover
<1>10. CASE Drop
  <2>1. stack \in Seq(Frames) /\ 3 \in DOMAIN stack /\ stack[3].at = 2 /\ chain[2] = "recovery"
    <3>1. m >= 3
      BY <1>3, <1>10 DEF Drop
    <3>2. stack \in Seq(Frames)
      BY DEF IndInv, TypeOK, Frames
    <3> QED BY <1>3, <1>4, <3>1, <3>2 DEF WellFormed
  <2> QED BY <1>10, <2>1 DEF Drop, Depth
<1>11. CASE UNCHANGED vars
  BY <1>11 DEF vars, UnansweredInv, HasController
<1> QED BY <1>6, <1>7, <1>8, <1>9, <1>10, <1>11 DEF Handle

-----------------------------------------------------------------------------

Answering == Marked({"request", "refused"})
Panicking == Marked({"error", "string"})

\* What an answer of a handler leaves: a middleware's ends the request, a
\* controller's comes from its place.
Answered(i) ==
  IF trace[i].mark = "refused" THEN Answering = {i} /\ index > Len(chain)
  ELSE /\ trace[i].who \in Controllers
       /\ \E n \in 1 .. Len(chain) : n < index /\ chain[n] = trace[i].who

\* While the client is there and no After fails, each answer is that of a handler
\* or the one of Recovery, with which the request ends.
SingleInv ==
  ~gone /\ ~Happened("other") /\ ~Happened("failed") =>
    /\ panic # "pipe" /\ panic # "other"
    /\ answers = Cardinality(Answering) + (IF panic = Nil /\ Panicking # {} THEN 1 ELSE 0)
    /\ panic # Nil => Panicking # {}
    /\ Panicking \subseteq {Len(trace)}
    /\ Panicking # {} /\ panic = Nil => index > Len(chain) /\ Len(stack) <= 2
    /\ \A i \in Answering : Answered(i)

\* A step that answers nothing and does not panic.
LEMMA SingleSame ==
  ASSUME IndInv, SingleInv, chain' = chain, answers' = answers, panic' = panic,
         gone' = gone, index' \in Nat, index' >= index \/ index' > Len(chain),
         \/ trace' = trace
         \/ Panicking = {} /\ \E mark \in {"passed", "waived", "after"} : \E who \in Handlers :
              trace' = Append(trace, [mark |-> mark, who |-> who]),
         Panicking # {} /\ panic = Nil => Len(stack') <= 2
  PROVE  SingleInv'
<1>1. /\ \A v : Happened(v) => Happened(v)'
      /\ Answering' = Answering /\ Panicking' = Panicking
      /\ \A i \in Answering : trace'[i] = trace[i]
      /\ Panicking # {} => trace' = trace
  <2>1. CASE trace' = trace
    BY <2>1, Unnoted DEF Answering, Panicking, Marked
  <2>2. CASE Panicking = {} /\ \E mark \in {"passed", "waived", "after"} : \E who \in Handlers :
              trace' = Append(trace, [mark |-> mark, who |-> who])
    <3>1. PICK mark \in {"passed", "waived", "after"} : \E who \in Handlers :
              trace' = Append(trace, [mark |-> mark, who |-> who])
      BY <2>2
    <3>2. PICK who \in Handlers : trace' = Append(trace, [mark |-> mark, who |-> who])
      BY <3>1
    <3>3. TypeOK /\ mark \in Marks
      BY DEF IndInv, Marks
    <3>4. /\ \A i \in 1 .. Len(trace) : trace'[i] = trace[i]
          /\ DOMAIN trace = 1 .. Len(trace)
          /\ \A M : Marked(M)' = IF mark \in M THEN Marked(M) \cup {Len(trace) + 1} ELSE Marked(M)
      BY <3>2, <3>3, NotedSets
    <3>5. \A v : Happened(v) => Happened(v)'
      BY <3>2, <3>3, Noted
    <3>6. Answering' = Answering /\ Panicking' = Panicking
      BY <3>4 DEF Answering, Panicking
    <3>7. \A i \in Answering : trace'[i] = trace[i]
      BY <3>4 DEF Answering, Marked
    <3> QED BY <2>2, <3>5, <3>6, <3>7
  <2> QED BY <2>1, <2>2
<1> SUFFICES ASSUME ~gone, ~Happened("other"), ~Happened("failed") PROVE SingleInv'
  BY <1>1 DEF SingleInv
<1>2. Len(chain) \in Nat /\ index \in Nat /\ DOMAIN trace = 1 .. Len(trace)
  BY SetSizes
<1>3. index > Len(chain) => index' > Len(chain)
  BY <1>2
<1>4. \A n \in 1 .. Len(chain) : n < index => n < index'
  BY <1>2
<1>5. ASSUME NEW i \in Answering PROVE Answered(i)'
  <2>1. Answered(i)
    BY DEF SingleInv
  <2> QED BY <1>1, <1>3, <1>4, <2>1 DEF Answered
<1>6. /\ panic # "pipe" /\ panic # "other"
      /\ answers = Cardinality(Answering) + (IF panic = Nil /\ Panicking # {} THEN 1 ELSE 0)
      /\ panic # Nil => Panicking # {}
      /\ Panicking \subseteq {Len(trace)}
      /\ Panicking # {} /\ panic = Nil => index > Len(chain)
  BY DEF SingleInv
<1>7. Panicking \subseteq {Len(trace')}
  BY <1>1, <1>6
<1> QED BY <1>1, <1>3, <1>5, <1>6, <1>7 DEF SingleInv

\* A panic with a value for which Recovery aborts, where nothing has panicked yet.
LEMMA SinglePanics ==
  ASSUME IndInv, SingleInv, ~gone', ~Happened("other")', ~Happened("failed")',
         Busy, Frame.stage \in {"before", "after", "request"}, Panicking = {},
         NEW v \in PanicValues \cup {"pipe"}, Panics(v)
  PROVE  SingleInv'
<1>1. /\ UNCHANGED <<chain, index, stack, answers, dropped>> /\ panic' = v /\ panic = Nil
      /\ gone' = (gone \/ v = "pipe")
      /\ trace' = Append(trace, [mark |-> v, who |-> Handler])
  BY DEF Panics, Note, Busy
<1>2. v # "pipe" /\ ~gone /\ v \in Marks /\ Handler \in Handlers /\ TypeOK
  BY <1>1, AtWork, ChainAssumption DEF Marks, IndInv
<1>3. /\ v # "other" /\ ~Happened("other") /\ ~Happened("failed")
  BY <1>1, <1>2, Noted
<1>4. v \in {"error", "string"} /\ v # Nil
  BY <1>2, <1>3, ChainAssumption
<1>5. /\ Len(trace) \in Nat /\ DOMAIN trace = 1 .. Len(trace) /\ Len(trace)' = Len(trace) + 1
      /\ \A i \in 1 .. Len(trace) : trace'[i] = trace[i]
      /\ \A M : Marked(M)' = IF v \in M THEN Marked(M) \cup {Len(trace) + 1} ELSE Marked(M)
  BY <1>1, <1>2, NotedSets
<1>6. Answering' = Answering /\ Panicking' = {Len(trace)'}
  BY <1>4, <1>5 DEF Answering, Panicking
<1>7. answers = Cardinality(Answering) /\ \A i \in Answering : Answered(i)
  <2>1. answers = Cardinality(Answering) + 0
    BY <1>2, <1>3 DEF SingleInv
  <2>2. Cardinality(Answering) \in Nat
    BY SetSizes DEF Answering
  <2> QED BY <1>2, <1>3, <2>1, <2>2 DEF SingleInv
<1>8. \A i \in Answering : Answered(i)'
  <2> SUFFICES ASSUME NEW i \in Answering PROVE Answered(i)'
    OBVIOUS
  <2>1. trace'[i] = trace[i]
    BY <1>5 DEF Answering, Marked
  <2> QED BY <1>1, <1>6, <1>7, <2>1 DEF Answered
<1>9. answers' = Cardinality(Answering)' + 0
  <2>1. Cardinality(Answering) \in Nat
    BY SetSizes DEF Answering
  <2> QED BY <1>1, <1>6, <1>7, <2>1
<1> QED BY <1>1, <1>4, <1>6, <1>8, <1>9 DEF SingleInv

\* An answer of the handler at the index, which is the first unless it is a controller's.
LEMMA SingleRenders ==
  ASSUME IndInv, SingleInv, ~gone, Busy, Frame.stage \in {"before", "request"},
         ~Happened("other"), ~Happened("failed"),
         NEW mark \in {"request", "refused"},
         mark = "refused" <=> Frame.stage = "before", Note(mark),
         answers' = answers + 1, index' \in Nat, index' > index,
         mark = "refused" => index' > Len(chain),
         UNCHANGED <<chain, panic, gone, dropped>>
  PROVE  SingleInv'
<1>1. /\ index \in 1 .. Len(chain) /\ Handler = chain[index] /\ Handler \in Handlers
      /\ WellFormed(chain) /\ index \in Nat /\ Len(chain) \in Nat
      /\ mark = "request" => Handler \in Controllers
      /\ mark = "refused" => Handler \in Middlewares
      /\ panic = Nil /\ TypeOK
  <2>1. mark = "refused" \/ mark = "request"
    OBVIOUS
  <2>2. Len(chain) \in Nat /\ TypeOK
    BY SetSizes DEF IndInv
  <2> QED BY <2>1, <2>2, AtWork DEF Handler, Busy
<1>2. Panicking = {} /\ \A i \in Answering : trace[i].mark # "refused"
  <2>1. ~(index > Len(chain))
    BY <1>1
  <2>2. \A i \in Answering : trace[i].mark = "refused" => index > Len(chain)
    BY DEF SingleInv, Answered
  <2>3. Panicking # {} => index > Len(chain)
    BY <1>1 DEF SingleInv
  <2> QED BY <2>1, <2>2, <2>3
<1>3. \A i \in Answering : /\ trace[i].who \in Controllers
                           /\ \E n \in 1 .. Len(chain) : n < index /\ chain[n] = trace[i].who
  BY <1>2 DEF SingleInv, Answered
<1>4. mark = "refused" => Answering = {}
  <2> SUFFICES ASSUME mark = "refused", NEW i \in Answering PROVE FALSE
    OBVIOUS
  <2>1. PICK n \in 1 .. Len(chain) : n < index /\ chain[n] \in Controllers
    BY <1>3
  <2>2. chain[index] \in Controllers
    BY <1>1, <2>1 DEF WellFormed
  <2> QED BY <1>1, <2>2, HandlersAssumption
<1>5. /\ Len(trace) \in Nat /\ DOMAIN trace = 1 .. Len(trace) /\ Len(trace)' = Len(trace) + 1
      /\ \A i \in 1 .. Len(trace) : trace'[i] = trace[i]
      /\ trace'[Len(trace) + 1].mark = mark /\ trace'[Len(trace) + 1].who = Handler
      /\ \A M : Marked(M)' = IF mark \in M THEN Marked(M) \cup {Len(trace) + 1} ELSE Marked(M)
  BY <1>1, NotedSets DEF Note, Marks
<1>6. Answering' = Answering \cup {Len(trace) + 1} /\ Panicking' = {}
  BY <1>2, <1>5 DEF Answering, Panicking
<1>7. /\ IsFiniteSet(Answering) /\ Cardinality(Answering) \in Nat
           /\ Answering \subseteq 1 .. Len(trace)
  BY <1>5, SetSizes DEF Answering, Marked
<1>8. Cardinality(Answering') = Cardinality(Answering) + 1
  <2> DEFINE n == Len(trace) + 1
  <2>1. n \notin Answering
    BY <1>5, <1>7
  <2> HIDE DEF n
  <2>2. Cardinality(Answering \cup {n}) = Cardinality(Answering) + 1
    BY <1>7, <2>1, FS_AddElement
  <2> QED BY <1>6, <2>2 DEF n
<1>9. answers = Cardinality(Answering)
  <2>1. answers = Cardinality(Answering) + 0
    BY <1>1, <1>2 DEF SingleInv
  <2> QED BY <1>7, <2>1
<1>10. ASSUME NEW i \in Answering' PROVE Answered(i)'
  <2>1. CASE i = Len(trace) + 1
    <3>1. CASE mark = "refused"
      BY <1>1, <1>4, <1>5, <1>6, <2>1, <3>1 DEF Answered
    <3>2. CASE mark = "request"
      BY <1>1, <1>5, <2>1, <3>2 DEF Answered
    <3> QED BY <3>1, <3>2
  <2>2. CASE i \in Answering
    <3>1. trace'[i] = trace[i] /\ trace[i].mark # "refused"
      BY <1>2, <1>5, <1>7, <2>2
    <3>2. \A n \in 1 .. Len(chain) : n < index => n < index'
      BY <1>1
    <3> QED BY <1>3, <2>2, <3>1, <3>2 DEF Answered
  <2> QED BY <1>6, <2>1, <2>2
<1>11. answers' = Cardinality(Answering') + 0
  BY <1>7, <1>8, <1>9
<1> QED BY <1>1, <1>6, <1>10, <1>11, ChainAssumption DEF SingleInv

\* What a handler renders, and what it panics with.
LEMMA HandlersSingle ==
  ASSUME IndInv, SingleInv, Before \/ After \/ Request
  PROVE  SingleInv'
<1> SUFFICES ASSUME ~gone', ~Happened("other")', ~Happened("failed")' PROVE SingleInv'
  BY DEF SingleInv
<1>1. /\ Busy /\ Frame.stage \in {"before", "after", "request"} /\ stack # <<>> /\ panic = Nil
  BY DEF Before, After, Request, At, Busy
<1>2. /\ Handler \in Handlers /\ Frame.at \in 3 .. Len(chain)
      /\ Frame.stage \in {"before", "request"} => index = Frame.at
  BY <1>1, AtWork
<1>3. /\ Len(chain) \in Nat /\ index \in Nat /\ AbortIndex + 1 > Len(chain) /\ AbortIndex \in Nat
      /\ Len(stack) \in Nat /\ TypeOK
  BY <1>1, MirrorFacts, HandlersAssumption DEF IndInv
<1>4. \A mark \in Marks : Note(mark) => \A v : Happened(v)' <=> Happened(v) \/ v = mark
  BY <1>2, <1>3, Noted DEF Note
<1>5. ~gone /\ ~Happened("other") /\ ~Happened("failed")
  <2>1. gone => gone'
    BY DEF Before, After, Request, Renders, Panics
  <2>2. \E mark \in Marks : Note(mark)
    BY ChainAssumption DEF Before, After, Request, Renders, Panics, Marks
  <2> QED BY <1>4, <2>1, <2>2
<1>6. Panicking = {}
  <2>1. Len(stack) > 3
    BY <1>1, <1>5, AtWork
  <2>2. Panicking # {} => Len(stack) <= 2
    BY <1>1, <1>5 DEF SingleInv
  <2> QED BY <1>3, <2>1, <2>2
<1>7. \A v \in PanicValues \cup {"pipe"} : Panics(v) => SingleInv'
  BY <1>1, <1>6, SinglePanics
<1>8. ASSUME NEW mark \in {"passed", "waived", "after"}, Note(mark),
             UNCHANGED <<chain, panic, answers, gone>>, index' = index + 1
      PROVE  SingleInv'
  <2>1. /\ index' \in Nat /\ index' >= index
        /\ trace' = Append(trace, [mark |-> mark, who |-> Handler])
    BY <1>3, <1>8 DEF Note
  <2> QED BY <1>2, <1>6, <1>8, <2>1, SingleSame
<1>9. CASE Before
  <2>1. Frame.stage = "before"
    BY <1>9 DEF Before, At
  <2>2. \/ Note("passed") /\ CallNext /\ UNCHANGED <<chain, panic, answers, gone, dropped>>
        \/ Note("waived") /\ CallNext /\ UNCHANGED <<chain, panic, answers, gone, dropped>>
        \/ Note("refused") /\ index' = AbortIndex + 1 /\ answers' = answers + 1
             /\ UNCHANGED <<chain, panic, gone, dropped>>
        \/ \E v \in PanicValues \cup {"pipe"} : Panics(v)
    BY <1>9 DEF Before, Renders, AbortAndReturn
  <2>3. CASE Note("passed") /\ CallNext /\ UNCHANGED <<chain, panic, answers, gone, dropped>>
    BY <1>8, <2>3 DEF CallNext
  <2>4. CASE Note("waived") /\ CallNext /\ UNCHANGED <<chain, panic, answers, gone, dropped>>
    BY <1>8, <2>4 DEF CallNext
  <2>5. CASE Note("refused") /\ index' = AbortIndex + 1 /\ answers' = answers + 1
             /\ UNCHANGED <<chain, panic, gone, dropped>>
    <3>1. index' \in Nat /\ index' > index /\ index' > Len(chain)
      BY <1>2, <1>3, <2>1, <2>5
    <3> QED BY <1>1, <1>5, <2>1, <2>5, <3>1, SingleRenders
  <2> QED BY <1>7, <2>2, <2>3, <2>4, <2>5
<1>10. CASE After
  <2>1. \/ Note("after") /\ Return /\ UNCHANGED <<chain, panic, answers, gone, dropped>>
        \/ Note("failed")
        \/ \E v \in PanicValues \cup {"pipe"} : Panics(v)
    BY <1>10 DEF After, Renders
  <2>2. ~Note("failed")
    BY <1>4 DEF Marks
  <2> QED BY <1>7, <1>8, <2>1, <2>2 DEF Return
<1>11. CASE Request
  <2>1. Frame.stage = "request"
    BY <1>11 DEF Request, At
  <2>2. \/ Note("request") /\ index' = index + 1 /\ answers' = answers + 1
             /\ UNCHANGED <<chain, panic, gone, dropped>>
        \/ \E v \in PanicValues \cup {"pipe"} : Panics(v)
    BY <1>11 DEF Request, Renders, Return
  <2>3. CASE Note("request") /\ index' = index + 1 /\ answers' = answers + 1
             /\ UNCHANGED <<chain, panic, gone, dropped>>
    <3>1. index' \in Nat /\ index' > index
      BY <1>3, <2>3
    <3> QED BY <1>1, <1>5, <2>1, <2>3, <3>1, SingleRenders
  <2> QED BY <1>7, <2>2, <2>3
<1> QED BY <1>9, <1>10, <1>11

\* Recovery answers for a panic once, and ends the request.
LEMMA RecoverSingle ==
  ASSUME IndInv, SingleInv, Recover
  PROVE  SingleInv'
<1> SUFFICES ASSUME ~gone', ~Happened("other")', ~Happened("failed")' PROVE SingleInv'
  BY DEF SingleInv
<1>1. panic # Nil /\ stack # <<>> /\ UNCHANGED <<chain, dropped, trace>> /\ StackInv
  BY DEF Recover, IndInv, StackInv
<1>2. ~gone /\ ~Happened("other") /\ ~Happened("failed")
  <2>1. gone => gone'
    BY DEF Recover
  <2> QED BY <1>1, <2>1, Unnoted
<1>3. /\ panic # "pipe" /\ panic # "other" /\ Panicking # {} /\ Panicking \subseteq {Len(trace)}
      /\ answers = Cardinality(Answering) + 0
      /\ \A i \in Answering : Answered(i)
  BY <1>1, <1>2 DEF SingleInv
<1>4. PICK k \in Depth :
        /\ stack' = SubSeq(stack, 1, k - 1)
        /\ panic' = Nil /\ answers' = answers + 1 /\ index' = AbortIndex + 1
  BY <1>3 DEF Recover
<1>5. /\ Len(stack) \in Nat /\ Len(chain) \in Nat /\ WellFormed(chain) /\ index \in Nat
      /\ AbortIndex \in Nat /\ AbortIndex + 1 > Len(chain)
      /\ \A i \in 1 .. Len(stack) : stack[i].at \in 0 .. Len(chain) /\ i - 1 <= stack[i].at
  BY <1>1, MirrorFacts, Sizes, HandlersAssumption DEF IndInv, StackInv
<1>6. Len(stack') <= 2
  <2>1. stack \in Seq(Frames)
    BY DEF IndInv, TypeOK, Frames
  <2>2. k \in 1 .. Len(stack) /\ stack[k].at # 0 /\ chain[stack[k].at] = "recovery"
    BY <2>1 DEF Depth
  <2>3. stack[k].at \in 1 .. Len(chain)
    BY <1>5, <2>2
  <2>4. stack[k].at = 2
    BY <1>5, <2>2, <2>3, ChainFacts
  <2>5. k <= 3
    BY <1>5, <2>2, <2>4
  <2>6. Len(stack') = k - 1
    BY <1>4, <1>5, <2>1, <2>2
  <2> QED BY <2>2, <2>5, <2>6
<1>7. Answering' = Answering /\ Panicking' = Panicking
  BY <1>1 DEF Answering, Panicking, Marked
<1>8. index' > Len(chain)
  BY <1>4, <1>5
<1>9. ASSUME NEW i \in Answering PROVE Answered(i)'
  <2>1. \A n \in 1 .. Len(chain) : n < index'
    BY <1>4, <1>5
  <2>2. Answered(i)
    BY <1>3
  <2> QED BY <1>1, <1>7, <1>8, <2>1, <2>2 DEF Answered
<1>10. answers' = Cardinality(Answering) + 1
  <2>1. Cardinality(Answering) \in Nat
    BY SetSizes DEF Answering
  <2> QED BY <1>3, <1>4, <2>1
<1> QED BY <1>1, <1>3, <1>4, <1>6, <1>7, <1>8, <1>9, <1>10, ChainAssumption DEF SingleInv

\* All steps keep SingleInv.
LEMMA NextSingle ==
  ASSUME IndInv, SingleInv, [Next]_vars
  PROVE  SingleInv'
<1>1. /\ Len(chain) \in Nat /\ index \in Nat /\ AbortIndex \in Nat /\ Len(stack) \in Nat
  BY Sizes DEF IndInv
<1>2. CASE Serve
  <2>1. answers' = 0 /\ trace' = <<>> /\ panic' = Nil
    BY <1>2 DEF Serve, Start, IndInv, StackInv
  <2>2. Answering' = {} /\ Panicking' = {}
    BY <2>1 DEF Answering, Panicking, Marked
  <2> QED BY <2>1, <2>2, FS_EmptySet, ChainAssumption DEF SingleInv
<1>3. CASE Invoke
  <2>1. /\ UNCHANGED <<chain, panic, answers, gone, trace>> /\ panic = Nil
             /\ index \in 1 .. Len(chain)
        /\ index' = index \/ index' = index + 1
    BY <1>3, InvokeFacts
  <2>2. ASSUME ~gone, ~Happened("other"), ~Happened("failed") PROVE Panicking = {}
    <3>1. ~(index > Len(chain))
      BY <1>1, <2>1
    <3> QED BY <2>1, <2>2, <3>1 DEF SingleInv
  <2>3. CASE Panicking = {}
    BY <1>1, <2>1, <2>3, SingleSame
  <2>4. CASE Panicking # {}
    <3>1. gone' \/ Happened("other")' \/ Happened("failed")'
      BY <2>1, <2>2, <2>4, Unnoted
    <3> QED BY <3>1 DEF SingleInv
  <2> QED BY <2>3, <2>4
<1>4. CASE LoopEnd
  <2>1. /\ UNCHANGED <<chain, panic, answers, gone, trace>> /\ stack # <<>>
        /\ index' = index \/ index' = index + 1
    BY <1>4 DEF LoopEnd, Return, At, Busy
  <2>2. Len(stack') <= Len(stack)
    <3>1. CASE stack' = <<>>
      BY <1>1, <3>1
    <3>2. CASE Stage("after")
      BY <1>1, <2>1, <3>2, StageFacts DEF IndInv
    <3>3. CASE Return
      BY <1>1, <2>1, <3>3, FrontFacts DEF Return
    <3> QED BY <1>4, <3>1, <3>2, <3>3 DEF LoopEnd
  <2>3. CASE ~gone /\ ~Happened("other") /\ ~Happened("failed")
    <3>1. Panicking # {} /\ panic = Nil => Len(stack') <= 2
      <4>1. Panicking # {} /\ panic = Nil => Len(stack) <= 2
        BY <2>3 DEF SingleInv
      <4> QED BY <1>1, <2>2, <4>1
    <3> QED BY <1>1, <2>1, <3>1, SingleSame
  <2>4. CASE gone \/ Happened("other") \/ Happened("failed")
    BY <2>1, <2>4, Unnoted DEF SingleInv
  <2> QED BY <2>3, <2>4
<1>5. CASE Drop
  <2>1. IndInv' /\ dropped'
    BY <1>5, NextInv DEF Drop
  <2> QED BY <2>1 DEF IndInv, PanicContained, SingleInv
<1>6. CASE UNCHANGED vars
  BY <1>6 DEF vars, SingleInv, Answering, Panicking, Marked, Happened, Answered
<1> QED BY <1>2, <1>3, <1>4, <1>5, <1>6, HandlersSingle, RecoverSingle DEF Next, Handle

-----------------------------------------------------------------------------

\* All that is known of a request.
ChainInv == IndInv /\ MirrorInv /\ OnceInv /\ UnansweredInv /\ SingleInv

\* ChainInv holds before the first request.
LEMMA InitChainInv ==
  ASSUME Init
  PROVE  ChainInv
<1>1. /\ chain = <<>> /\ trace = <<>> /\ stack = <<>> /\ panic = Nil /\ answers = 0
  BY DEF Init
<1>2. IndInv /\ MirrorInv
  BY InitInv, InitMirror
<1>3. OnceInv
  <2>1. \A h : Did(h, Handled) = {}
    BY <1>1 DEF Did
  <2>2. \A h : Cardinality(Past(h)) \in Nat
    BY <1>2, SetSizes
  <2> QED BY <2>1, <2>2, FS_EmptySet DEF OnceInv
<1>4. UnansweredInv
  BY <1>1 DEF UnansweredInv, HasController, ToSet
<1>5. SingleInv
  <2>1. Answering = {} /\ Panicking = {}
    BY <1>1 DEF Answering, Panicking, Marked
  <2> QED BY <1>1, <2>1, FS_EmptySet, ChainAssumption DEF SingleInv
<1> QED BY <1>2, <1>3, <1>4, <1>5 DEF ChainInv

\* All steps keep ChainInv.
LEMMA NextChainInv ==
  ASSUME ChainInv, [Next]_vars
  PROVE  ChainInv'
BY NextInv, NextMirror, NextOnce, NextUnanswered, NextSingle DEF ChainInv

\* A chain in which no controller stands twice.
LEMMA AnswerEnds ==
  ASSUME ChainInv,
         \A c \in Controllers : Cardinality({i \in DOMAIN chain : chain[i] = c}) <= 1
  PROVE  AnsweredOnce
<1> SUFFICES ASSUME stack = <<>>, chain # <<>>, ~gone
             PROVE  /\ HasController => answers >= 1
                    /\ answers > 1 =>
                         \/ Cardinality(ToSet(chain) \cap Controllers) > 1
                         \/ Happened("failed") \/ Happened("other")
                         \/ \E i, j \in DOMAIN trace :
                              /\ i < j
                              /\ trace[i].mark \in {"request", "refused"}
                              /\ trace[j].mark \in {"error", "string"}
  BY DEF AnsweredOnce, HasController
<1>1. IndInv /\ OnceInv /\ UnansweredInv /\ SingleInv /\ answers \in Nat /\ panic = Nil
  BY DEF ChainInv, IndInv, TypeOK, StackInv
<1>2. HasController => answers >= 1
  BY <1>1 DEF UnansweredInv
<1>3. ASSUME answers > 1, ~Happened("failed"), ~Happened("other")
      PROVE  \/ Cardinality(ToSet(chain) \cap Controllers) > 1
             \/ \E i, j \in DOMAIN trace :
                  /\ i < j
                  /\ trace[i].mark \in {"request", "refused"}
                  /\ trace[j].mark \in {"error", "string"}
  <2>1. /\ Len(trace) \in Nat /\ DOMAIN trace = 1 .. Len(trace)
        /\ Len(chain) \in Nat /\ DOMAIN chain = 1 .. Len(chain)
        /\ IsFiniteSet(Answering) /\ Cardinality(Answering) \in Nat
    BY <1>1, SetSizes DEF Answering
  <2>2. /\ answers = Cardinality(Answering) + (IF Panicking # {} THEN 1 ELSE 0)
        /\ Panicking \subseteq {Len(trace)} /\ \A i \in Answering : Answered(i)
    BY <1>1, <1>3 DEF SingleInv
  <2>3. Answering # {}
    BY <1>3, <2>1, <2>2, FS_EmptySet
  <2>4. \A i : i \in Answering <=> i \in 1 .. Len(trace) /\ trace[i].mark \in {"request", "refused"}
    BY <2>1 DEF Answering, Marked
  <2>5. CASE Panicking # {}
    <3>1. Len(trace) \in DOMAIN trace /\ trace[Len(trace)].mark \in {"error", "string"}
      BY <2>2, <2>5 DEF Panicking, Marked
    <3>2. PICK i \in Answering : TRUE
      BY <2>3
    <3>3. i # Len(trace) /\ i \in 1 .. Len(trace)
      BY <2>4, <3>1, <3>2
    <3>4. i < Len(trace)
      <4>1. \A n \in Nat : \A k \in 1 .. n : k # n => k < n
        OBVIOUS
      <4> QED BY <2>1, <3>3, <4>1
    <3> QED BY <2>1, <2>4, <3>1, <3>2, <3>4
  <2>6. CASE Panicking = {}
    <3>1. Cardinality(Answering) > 1
      BY <1>3, <2>1, <2>2, <2>6
    <3>2. PICK i \in Answering : \E j \in Answering : i # j
      <4>1. PICK i \in Answering : TRUE
        BY <2>3
      <4>2. Cardinality({i}) = 1
        BY FS_Singleton
      <4>3. Answering # {i}
        BY <3>1, <4>2
      <4> QED BY <4>1, <4>3
    <3>3. PICK j \in Answering : i # j
      BY <3>2
    <3>4. /\ trace[i].mark = "request" /\ trace[i].who \in Controllers
          /\ trace[j].mark = "request" /\ trace[j].who \in Controllers
          /\ \E n \in 1 .. Len(chain) : chain[n] = trace[i].who
          /\ \E n \in 1 .. Len(chain) : chain[n] = trace[j].who
      <4>1. trace[i].mark # "refused" /\ trace[j].mark # "refused"
        BY <2>2, <3>2, <3>3 DEF Answered
      <4> QED BY <2>2, <2>4, <3>2, <3>3, <4>1 DEF Answered
    <3> DEFINE c == trace[i].who
    <3>5. trace[i].who # trace[j].who
      <4> SUFFICES ASSUME trace[j].who = c PROVE FALSE
        OBVIOUS
      <4> HIDE DEF c
      <4>1. c \in Controllers /\ c \in Handlers
        BY <3>4 DEF Handlers, c
      <4>2. /\ IsFiniteSet(Did(c, Handled)) /\ Cardinality(Did(c, Handled)) \in Nat
            /\ IsFiniteSet(Past(c)) /\ Cardinality(Past(c)) \in Nat
        BY <1>1, SetSizes
      <4>3. i \in Did(c, Handled) /\ j \in Did(c, Handled)
        BY <2>1, <2>4, <3>2, <3>3, <3>4 DEF Did, Handled, c
      <4>4. Cardinality(Did(c, Handled)) > 1
        <5>1. Cardinality({i, j}) = 2
          <6>1. IsFiniteSet({i}) /\ Cardinality({i}) = 1
            BY FS_Singleton
          <6>2. j \notin {i}
            BY <3>3
          <6>3. Cardinality({i} \cup {j}) = 1 + 1
            BY <6>1, <6>2, FS_AddElement
          <6>4. {i} \cup {j} = {i, j}
            OBVIOUS
          <6> QED BY <6>3, <6>4
        <5>2. Cardinality({i, j}) <= Cardinality(Did(c, Handled))
          BY <4>2, <4>3, FS_Subset
        <5> QED BY <4>2, <5>1, <5>2
      <4>5. Cardinality(Past(c)) <= 1
        <5> DEFINE P == {n \in DOMAIN chain : chain[n] = c}
        <5>1. IsFiniteSet(P) /\ Past(c) \in SUBSET P
          <6>1. IsFiniteSet(1 .. Len(chain))
            <7>1. 1 \in Int /\ Len(chain) \in Int
              BY <2>1
            <7> QED BY <7>1, FS_Interval
          <6>2. P \in SUBSET (1 .. Len(chain)) /\ Past(c) \in SUBSET P
            BY <2>1 DEF Past
          <6> QED BY <6>1, <6>2, FS_Subset
        <5>2. Cardinality(P) <= 1
          BY <4>1
        <5> HIDE DEF P
        <5>3. Cardinality(Past(c)) <= Cardinality(P) /\ Cardinality(P) \in Nat
          BY <5>1, FS_Subset, FS_CardinalityType
        <5> QED BY <4>2, <5>2, <5>3
      <4>6. Cardinality(Did(c, Handled)) <= Cardinality(Past(c))
        BY <1>1, <4>1 DEF OnceInv
      <4> QED BY <4>2, <4>4, <4>5, <4>6
    <3>6. {trace[i].who, trace[j].who} \in SUBSET (ToSet(chain) \cap Controllers)
      BY <2>1, <3>4 DEF ToSet
    <3>7. IsFiniteSet(ToSet(chain) \cap Controllers)
      <4>1. IsFiniteSet(ToSet(chain))
        <5>1. chain \in Seq(Handlers)
          <6>1. WellFormed(chain)
            BY <1>1 DEF IndInv, TypeOK
          <6> QED BY <6>1 DEF WellFormed
        <5>2. IsFiniteSet(1 .. Len(chain))
          <6>1. 1 \in Int /\ Len(chain) \in Int
            BY <2>1
          <6> QED BY <6>1, FS_Interval
        <5>3. chain \in Surjection(1 .. Len(chain), ToSet(chain))
          <6>1. chain \in [1 .. Len(chain) -> ToSet(chain)]
            BY <2>1, <5>1 DEF ToSet
          <6>2. \A x \in ToSet(chain) : \E n \in 1 .. Len(chain) : chain[n] = x
            BY <2>1 DEF ToSet
          <6> QED BY <6>1, <6>2 DEF Surjection
        <5> QED BY <5>2, <5>3, FS_Surjection
      <4> QED BY <4>1, FS_Subset
    <3>8. Cardinality({trace[i].who, trace[j].who}) = 2
      <4> DEFINE a == trace[i].who
                 b == trace[j].who
      <4>1. a # b
        BY <3>5
      <4> HIDE DEF a, b
      <4>2. IsFiniteSet({a}) /\ Cardinality({a}) = 1
        BY FS_Singleton
      <4>3. Cardinality({a} \cup {b}) = 2
        <5>1. b \notin {a}
          BY <4>1
        <5>2. Cardinality({a} \cup {b}) = Cardinality({a}) + 1
          BY <4>2, <5>1, FS_AddElement
        <5> QED BY <4>2, <5>2
      <4>4. {a} \cup {b} = {a, b}
        OBVIOUS
      <4> QED BY <4>3, <4>4 DEF a, b
    <3>9. /\ Cardinality(ToSet(chain) \cap Controllers) \in Nat
          /\ Cardinality({trace[i].who, trace[j].who}) <= Cardinality(ToSet(chain) \cap Controllers)
      BY <3>6, <3>7, FS_Subset, FS_CardinalityType
    <3> QED BY <3>8, <3>9
  <2> QED BY <2>5, <2>6
<1> QED BY <1>2, <1>3
=============================================================================
