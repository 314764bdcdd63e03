------------------------- MODULE HandlerChainProofs -------------------------
(***************************************************************************)
(* Theorems about requests, for chains of any handlers and any length: no  *)
(* controller runs unguarded, no panic gets past Recovery unless the       *)
(* client has left or an earlier one was not aborted, and gin's index does *)
(* not wrap round.                                                         *)
(***************************************************************************)
EXTENDS HandlerChain, TLAPS

Frames == [at : 0 .. Len(chain), stage : {"loop", "before", "after", "request"}]
Events == [mark : Marks, who : Handlers]

\* The frames from the engine inwards, and where the index is for the last one.
StackInv ==
  /\ stack # <<>> => chain # <<>> /\ stack[1].at = 0
  /\ panic # Nil => stack # <<>>
  /\ \A i \in 1 .. Len(stack) : i - 1 <= stack[i].at /\ stack[i].at <= index
  /\ \A i, j \in 1 .. Len(stack) :
       i < j => stack[i].at < stack[j].at /\ stack[i].stage = "loop"
  /\ stack # <<>> =>
       LET f == stack[Len(stack)] IN
       /\ f.stage = "loop" => f.at < index
       /\ f.stage = "before" => f.at = index /\ chain[f.at] \in Middlewares
       /\ f.stage = "request" => f.at = index /\ chain[f.at] \in Controllers
       /\ f.stage = "after" => index > Len(chain) /\ chain[f.at] \in Middlewares
       /\ f.stage # "loop" => f.at > 2
  /\ index + Len(stack) <= AbortIndex + Len(chain) + 2

\* What is behind the index has let the request through.
PassedInv ==
  /\ panic = "other" => Happened("other")
  /\ stack # <<>> /\ index <= Len(chain) /\ ~Happened("other") =>
       \A i \in 1 .. index - 1 :
         chain[i] \in Middlewares => Did(chain[i], {"passed", "waived"}) # {}

\* Until a panic is not aborted, all that can panic runs inside of Recovery.
InsideInv ==
  stack # <<>> /\ ~gone /\ ~Happened("other") =>
    /\ Len(stack) = 1 => index = 1 \/ index > Len(chain)
    /\ Len(stack) = 2 => index = 2 \/ index > Len(chain)
    /\ Len(stack) >= 2 => stack[2].at = 1
    /\ Len(stack) >= 3 => stack[3].at = 2
    /\ panic # Nil => Len(stack) >= 3

IndInv == TypeOK /\ StackInv /\ PassedInv /\ InsideInv /\ ControllerGuarded /\ PanicContained

-----------------------------------------------------------------------------
(* Lemmas *)

LEMMA ChainFacts ==
  ASSUME NEW ch, WellFormed(ch)
  PROVE  /\ Len(ch) \in Nat /\ Len(ch) < AbortIndex - 1 /\ Len(ch) >= 2
         /\ ch # <<>>
         /\ \A i \in 1 .. Len(ch) :
              /\ ch[i] \in Handlers
              /\ ch[i] \in Middlewares \cup Controllers <=> i > 2
              /\ ch[i] = "recovery" <=> i = 2
              /\ ch[i] = "logger" <=> i = 1
              /\ ch[i] \in Middlewares => ch[i] \notin Controllers
         /\ \A i, j \in 1 .. Len(ch) : i < j /\ ch[i] \in Controllers => ch[j] \in Controllers
<1>1. ch \in Seq(Handlers) /\ Len(ch) \in Nat
  BY DEF WellFormed
<1>2. Len(ch) < AbortIndex - 1 /\ Len(ch) >= 2 /\ ch # <<>>
  BY <1>1 DEF WellFormed, Fits
<1>3. \A i \in 1 .. Len(ch) : ch[i] \in Handlers
  BY <1>1
<1>4. \A i \in 1 .. Len(ch) : i = 1 \/ i = 2 \/ i \in 3 .. Len(ch)
  BY <1>1
<1>5. /\ ch[1] = "logger" /\ ch[2] = "recovery"
      /\ \A i \in 3 .. Len(ch) : ch[i] \in Middlewares \cup Controllers
      /\ \A i, j \in 1 .. Len(ch) : i < j /\ ch[i] \in Controllers => ch[j] \in Controllers
  BY DEF WellFormed
<1>6. \A i \in 1 .. Len(ch) : ch[i] \in Middlewares \cup Controllers <=> i > 2
  BY <1>1, <1>4, <1>5, HandlersAssumption
<1>7. \A i \in 1 .. Len(ch) : (ch[i] = "recovery" <=> i = 2) /\ (ch[i] = "logger" <=> i = 1)
  BY <1>1, <1>4, <1>5, HandlersAssumption
<1>8. \A h \in Middlewares : h \notin Controllers
  BY HandlersAssumption
<1> QED BY <1>1, <1>2, <1>3, <1>5, <1>6, <1>7, <1>8

LEMMA Sizes ==
  ASSUME TypeOK, StackInv
  PROVE  /\ Len(chain) \in Nat /\ Len(stack) \in Nat /\ index \in Nat /\ AbortIndex \in Nat
         /\ stack # <<>> => WellFormed(chain) /\ Len(stack) \in 1 .. Len(chain) + 1
         /\ \A i \in 1 .. Len(stack) : stack[i] \in Frames /\ stack[i].at \in 0 .. Len(chain)
<1>1. AbortIndex \in Nat /\ index \in Nat /\ Len(stack) \in Nat
  BY HandlersAssumption DEF TypeOK
<1>2. Len(chain) \in Nat
  BY ChainFacts DEF TypeOK
<1>3. \A i \in 1 .. Len(stack) : stack[i] \in Frames
  <2>1. stack \in Seq(Frames)
    BY DEF TypeOK, Frames
  <2> QED BY <2>1
<1>4. \A i \in 1 .. Len(stack) : stack[i].at \in 0 .. Len(chain)
  BY <1>3 DEF Frames
<1>5. stack # <<>> => WellFormed(chain) /\ Len(stack) >= 1
  BY DEF TypeOK, StackInv
<1>6. stack # <<>> => Len(stack) <= Len(chain) + 1
  <2> SUFFICES ASSUME stack # <<>> PROVE Len(stack) <= Len(chain) + 1
    OBVIOUS
  <2>1. Len(stack) \in 1 .. Len(stack)
    BY <1>1, <1>5
  <2>2. Len(stack) - 1 <= stack[Len(stack)].at
    BY <2>1 DEF StackInv
  <2> QED BY <1>1, <1>2, <1>4, <2>1, <2>2
<1> QED BY <1>1, <1>2, <1>3, <1>4, <1>5, <1>6

\* To take frames away, as Return, Abort and Recovery do.
LEMMA CutStack ==
  ASSUME TypeOK, StackInv, chain' = chain, NEW k \in 1 .. Len(stack),
         stack' = SubSeq(stack, 1, k - 1),
         index' = index + 1 \/ index' = AbortIndex + 1 \/ index' = index,
         k = 1 => panic' = Nil
  PROVE  /\ StackInv'
         /\ stack' \in Seq(Frames)
         /\ index' \in 1 .. 2 * AbortIndex
         /\ Len(stack') = k - 1
         /\ \A i \in 1 .. k - 1 : stack'[i] = stack[i]
<1>1. /\ Len(chain) \in Nat /\ Len(stack) \in Nat /\ index \in Nat /\ AbortIndex \in Nat
      /\ k \in Nat /\ k >= 1 /\ k <= Len(stack) /\ stack # <<>>
  BY Sizes DEF TypeOK
<1>2. WellFormed(chain) /\ Len(stack) <= Len(chain) + 1
  BY <1>1, Sizes
<1>3. Len(chain) + 1 < AbortIndex
  BY <1>1, <1>2, ChainFacts
<1>4. stack \in Seq(Frames)
  BY DEF TypeOK, Frames
<1>5. /\ stack' \in Seq(Frames) /\ Len(stack') = k - 1
      /\ \A i \in 1 .. k - 1 : stack'[i] = stack[i]
  BY <1>1, <1>4
<1>6. \A i \in 1 .. Len(stack) : stack[i].at \in 0 .. Len(chain)
  BY Sizes
<1>7. index' \in Nat /\ \A i \in 1 .. Len(stack) : stack[i].at <= index'
  BY <1>1, <1>3, <1>6, SMTT(30) DEF StackInv
<1>8. index' + (k - 1) <= AbortIndex + Len(chain) + 2
  BY <1>1, <1>2 DEF StackInv
<1>9. index' \in 1 .. 2 * AbortIndex
  BY <1>1, <1>3, <1>7, <1>8 DEF TypeOK
<1>10. /\ stack' # <<>> => k > 1 /\ chain' # <<>> /\ stack'[1].at = 0
       /\ panic' # Nil => stack' # <<>>
  <2>1. stack' # <<>> <=> k > 1
    BY <1>1, <1>5
  <2>2. k > 1 => stack'[1] = stack[1]
    BY <1>1, <1>5
  <2>3. stack[1].at = 0 /\ chain # <<>>
    BY <1>1 DEF StackInv
  <2>4. k > 1 \/ k = 1
    BY <1>1
  <2> QED BY <2>1, <2>2, <2>3, <2>4
<1>14. /\ \A i \in 1 .. Len(stack') : i - 1 <= stack'[i].at /\ stack'[i].at <= index'
       /\ \A i, j \in 1 .. Len(stack') :
            i < j => stack'[i].at < stack'[j].at /\ stack'[i].stage = "loop"
  <2>1. \A i \in 1 .. Len(stack') : i \in 1 .. Len(stack) /\ stack'[i] = stack[i]
    BY <1>1, <1>5
  <2> QED BY <1>7, <2>1 DEF StackInv
<1>11. ASSUME stack' # <<>>
       PROVE  stack'[Len(stack')].stage = "loop" /\ stack'[Len(stack')].at < index'
  <2>1. k > 1 /\ k - 1 \in 1 .. Len(stack) /\ stack'[Len(stack')] = stack[k - 1]
    BY <1>1, <1>5, <1>11
  <2>2. stack[k - 1].at < stack[k].at /\ stack[k - 1].stage = "loop"
    BY <1>1, <2>1 DEF StackInv
  <2> QED BY <1>1, <1>6, <1>7, <2>1, <2>2
<1>12. index' + Len(stack') <= AbortIndex + Len(chain') + 2
  BY <1>5, <1>8
<1>13. StackInv'
  BY <1>10, <1>11, <1>12, <1>14 DEF StackInv
<1> QED BY <1>5, <1>9, <1>13

LEMMA StageFacts ==
  ASSUME TypeOK, stack # <<>>, chain' = chain,
         NEW s \in {"loop", "before", "after", "request"}, Stage(s)
  PROVE  /\ stack' \in Seq(Frames) /\ stack' # <<>> /\ Len(stack') = Len(stack)
         /\ \A i \in 1 .. Len(stack) - 1 : stack'[i] = stack[i]
         /\ stack'[Len(stack)].at = stack[Len(stack)].at
         /\ stack'[Len(stack)].stage = s
<1> DEFINE f == stack[Len(stack)]
           g == [f EXCEPT !.stage = s]
<1>1. stack \in Seq(Frames) /\ Len(stack) \in Nat /\ Len(stack) \in 1 .. Len(stack)
  <2>1. stack \in Seq(Frames)
    BY DEF TypeOK, Frames
  <2> QED BY <2>1
<1>2. f \in Frames
  BY <1>1
<1>3. g \in Frames /\ g.at = f.at /\ g.stage = s
  BY <1>2 DEF Frames
<1>4. stack' = [stack EXCEPT ![Len(stack)] = g]
  BY DEF Stage
<1> HIDE DEF f, g
<1>5. /\ stack' \in Seq(Frames) /\ Len(stack') = Len(stack) /\ stack'[Len(stack)] = g
      /\ \A i \in 1 .. Len(stack) - 1 : stack'[i] = stack[i]
  BY <1>1, <1>3, <1>4
<1>6. stack' # <<>>
  BY <1>1, <1>5
<1> QED BY <1>3, <1>5, <1>6 DEF f

\* What a step that notes something makes of what happened.
LEMMA Noted ==
  ASSUME TypeOK, NEW mark \in Marks, NEW who \in Handlers,
         trace' = Append(trace, [mark |-> mark, who |-> who])
  PROVE  /\ trace' \in Seq(Events)
         /\ \A v : Happened(v)' <=> Happened(v) \/ v = mark
         /\ \A h, S : Did(h, S) \subseteq Did(h, S)'
         /\ \A S : mark \in S => Did(who, S)' # {}
         /\ \A h, S : Did(h, S) \subseteq 1 .. Len(trace)
         /\ \A i \in DOMAIN trace' :
              \/ i \in DOMAIN trace /\ trace'[i] = trace[i]
              \/ i = Len(trace) + 1 /\ trace'[i].mark = mark
         /\ Len(trace) \in Nat
<1> DEFINE e == [mark |-> mark, who |-> who]
<1>1. trace \in Seq(Events) /\ Len(trace) \in Nat /\ DOMAIN trace = 1 .. Len(trace)
  <2>1. trace \in Seq(Events)
    BY DEF TypeOK, Events
  <2> QED BY <2>1
<1>2. e \in Events /\ e.mark = mark /\ e.who = who
  BY DEF Events
<1> HIDE DEF e
<1>3. trace' = Append(trace, e)
  BY DEF e
<1>4. /\ trace' \in Seq(Events) /\ Len(trace') = Len(trace) + 1
      /\ DOMAIN trace' = 1 .. Len(trace) + 1
      /\ trace'[Len(trace) + 1] = e
      /\ \A i \in 1 .. Len(trace) : trace'[i] = trace[i]
  BY <1>1, <1>2, <1>3
<1>5. \A i \in DOMAIN trace' :
        \/ i \in DOMAIN trace /\ trace'[i] = trace[i]
        \/ i = Len(trace) + 1 /\ trace'[i] = e
  <2>1. \A i \in 1 .. Len(trace) + 1 : i \in 1 .. Len(trace) \/ i = Len(trace) + 1
    BY <1>1
  <2> QED BY <1>1, <1>4, <2>1
<1>6. \A i \in DOMAIN trace : i \in DOMAIN trace' /\ trace'[i] = trace[i]
  BY <1>1, <1>4
<1>7. Len(trace) + 1 \in DOMAIN trace'
  BY <1>1, <1>4
<1>8. \A v : Happened(v)' <=> Happened(v) \/ v = mark
  <2> TAKE v
  <2>1. ASSUME Happened(v)' PROVE Happened(v) \/ v = mark
    <3>1. PICK i \in DOMAIN trace' : trace'[i].mark = v
      BY <2>1 DEF Happened
    <3> QED BY <1>2, <1>5, <3>1 DEF Happened
  <2>2. Happened(v) => Happened(v)'
    BY <1>6 DEF Happened
  <2>3. Happened(mark)'
    BY <1>2, <1>4, <1>7 DEF Happened
  <2> QED BY <2>1, <2>2, <2>3
<1>9. \A h, S : Did(h, S) \subseteq Did(h, S)'
  BY <1>6 DEF Did
<1>10. \A S : mark \in S => Len(trace) + 1 \in Did(who, S)'
  BY <1>2, <1>4, <1>7 DEF Did
<1>11. \A h, S : Did(h, S) \subseteq 1 .. Len(trace)
  BY <1>1 DEF Did
<1> QED BY <1>1, <1>2, <1>4, <1>5, <1>8, <1>9, <1>10, <1>11

\* A controller's request is noted where everything before it has passed.
LEMMA NotedGuarded ==
  ASSUME TypeOK, ControllerGuarded, chain' = chain,
         NEW mark \in Marks, NEW who \in Handlers,
         trace' = Append(trace, [mark |-> mark, who |-> who]),
         mark = "request" /\ ~Happened("other") =>
           \A m \in ToSet(chain) \cap Middlewares : Did(m, {"passed", "waived"}) # {}
  PROVE  ControllerGuarded'
<1> SUFFICES ASSUME NEW n \in DOMAIN trace', trace'[n].mark = "request", ~Happened("other")',
                    NEW m \in ToSet(chain) \cap Middlewares
             PROVE  \E k \in Did(m, {"passed", "waived"})' : k < n
  BY DEF ControllerGuarded
<1>1. ~Happened("other") /\ Did(m, {"passed", "waived"}) \subseteq Did(m, {"passed", "waived"})'
  BY Noted
<1>2. CASE n \in DOMAIN trace /\ trace'[n] = trace[n]
  BY <1>1, <1>2 DEF ControllerGuarded
<1>3. CASE n = Len(trace) + 1 /\ trace'[n].mark = mark
  <2>1. PICK k \in Did(m, {"passed", "waived"}) : TRUE
    BY <1>1, <1>3
  <2>2. k \in 1 .. Len(trace) /\ Len(trace) \in Nat
    BY <2>1, Noted
  <2>3. k < n
    BY <1>3, <2>2
  <2> QED BY <1>1, <2>1, <2>3
<1> QED BY <1>2, <1>3, Noted

\* A handler that is not waiting for Next to return.
LEMMA AtWork ==
  ASSUME IndInv, Busy, Frame.stage \in {"before", "after", "request"}
  PROVE  /\ stack # <<>> /\ Frame = stack[Len(stack)]
         /\ Frame.at \in 3 .. Len(chain) /\ WellFormed(chain)
         /\ Handler \in Middlewares \cup Controllers /\ Handler \in Handlers
         /\ Frame.stage \in {"before", "after"} => Handler \in Middlewares
         /\ Frame.stage = "request" => Handler \in Controllers /\ index = Frame.at
         /\ Frame.stage = "before" => index = Frame.at
         /\ Frame.stage = "after" => index > Len(chain)
         /\ ~gone /\ ~Happened("other") => Len(stack) > 3
<1>1. stack # <<>> /\ Frame = stack[Len(stack)] /\ TypeOK /\ StackInv
  BY DEF Busy, Frame, Last, IndInv
<1>2. WellFormed(chain) /\ Len(stack) \in Nat /\ Len(chain) \in Nat
      /\ Frame \in Frames /\ Frame.at \in 0 .. Len(chain)
  BY <1>1, Sizes
<1>3. /\ Frame.at > 2
      /\ Frame.stage = "before" => Frame.at = index /\ chain[Frame.at] \in Middlewares
      /\ Frame.stage = "request" => Frame.at = index /\ chain[Frame.at] \in Controllers
      /\ Frame.stage = "after" => index > Len(chain) /\ chain[Frame.at] \in Middlewares
  BY <1>1 DEF StackInv
<1>4. Frame.at \in 3 .. Len(chain)
  BY <1>2, <1>3
<1>5. ASSUME ~gone, ~Happened("other") PROVE Len(stack) > 3
  <2>1. /\ Len(stack) >= 2 => stack[2].at = 1
        /\ Len(stack) >= 3 => stack[3].at = 2
        /\ stack[1].at = 0
    BY <1>1, <1>5 DEF InsideInv, StackInv, IndInv
  <2>2. Len(stack) = 1 \/ Len(stack) = 2 \/ Len(stack) = 3 \/ Len(stack) > 3
    <3>1. Len(stack) \in Nat /\ Len(stack) >= 1
      BY <1>1, Sizes
    <3>2. \A n \in Nat : n >= 1 => n = 1 \/ n = 2 \/ n = 3 \/ n > 3
      OBVIOUS
    <3> QED BY <3>1, <3>2
  <2>3. Len(stack) # 1 /\ Len(stack) # 2 /\ Len(stack) # 3
    BY <1>1, <1>3, <2>1
  <2> QED BY <2>2, <2>3
<1> QED BY <1>1, <1>2, <1>3, <1>4, <1>5 DEF Handler, Handlers

-----------------------------------------------------------------------------
(* The steps of the handlers *)

LEMMA PanicsInv ==
  ASSUME IndInv, Busy, Frame.stage \in {"before", "after", "request"},
         NEW v \in PanicValues \cup {"pipe"}, Panics(v)
  PROVE  IndInv'
<1>1. /\ UNCHANGED <<chain, index, stack, answers, dropped>> /\ panic' = v
      /\ gone' = (gone \/ v = "pipe")
      /\ trace' = Append(trace, [mark |-> v, who |-> Handler])
  BY DEF Panics, Note
<1>2. TypeOK /\ v \in Marks /\ v # "request" /\ v # Nil /\ Handler \in Handlers /\ stack # <<>>
  BY AtWork, ChainAssumption DEF Marks, IndInv
<1>3. /\ trace' \in Seq(Events)
      /\ \A u : Happened(u)' <=> Happened(u) \/ u = v
      /\ \A h, S : Did(h, S) \subseteq Did(h, S)'
  BY <1>1, <1>2, Noted
<1>4. TypeOK'
  BY <1>1, <1>2, <1>3 DEF TypeOK, Events
<1>5. StackInv'
  BY <1>1, <1>2 DEF StackInv, IndInv
<1>6. PassedInv'
  BY <1>1, <1>3 DEF PassedInv, IndInv
<1>7. InsideInv'
  <2> SUFFICES ASSUME ~gone, ~Happened("other")
               PROVE  Len(stack) >= 3 /\ stack[2].at = 1 /\ stack[3].at = 2
                      /\ Len(stack) # 1 /\ Len(stack) # 2
    BY <1>1, <1>3 DEF InsideInv
  <2>1. Len(stack) > 3 /\ Len(stack) \in Nat
    BY <1>2, AtWork, Sizes DEF IndInv
  <2> QED BY <1>2, <2>1 DEF InsideInv, IndInv
<1>8. ControllerGuarded'
  BY <1>1, <1>2, NotedGuarded DEF IndInv
<1>9. PanicContained'
  BY <1>1, <1>3 DEF PanicContained, IndInv
<1> QED BY <1>4, <1>5, <1>6, <1>7, <1>8, <1>9 DEF IndInv

\* A handler ends: a middleware after Next, a controller, or one that aborts.
LEMMA EndsInv ==
  ASSUME IndInv, Busy, Frame.stage \in {"before", "after", "request"},
         NEW mark \in {"after", "failed", "refused", "request"}, Note(mark),
         mark = "request" => Frame.stage = "request",
         (Return /\ Frame.stage # "before") \/ AbortAndReturn,
         UNCHANGED <<chain, panic, gone, dropped>>, answers' \in Nat
  PROVE  IndInv'
<1> DEFINE k == Len(stack)
<1>1. /\ TypeOK /\ StackInv /\ PassedInv /\ panic = Nil /\ panic' = Nil
      /\ mark \in Marks /\ mark # "other" /\ Nil # "other"
      /\ trace' = Append(trace, [mark |-> mark, who |-> Handler])
  BY ChainAssumption DEF Marks, IndInv, Busy, Note
<1>2. /\ stack # <<>> /\ Handler \in Handlers /\ WellFormed(chain)
      /\ index \in Nat /\ Len(chain) \in Nat /\ Len(chain) < AbortIndex /\ AbortIndex \in Nat
      /\ k \in Nat /\ k \in 1 .. k
  <2>1. stack # <<>> /\ Handler \in Handlers
    BY AtWork
  <2>2. index \in Nat /\ Len(chain) \in Nat /\ AbortIndex \in Nat /\ WellFormed(chain)
    BY <1>1, <2>1, Sizes
  <2>3. k \in Nat /\ k >= 1
    BY <1>1, <2>1, Sizes
  <2>4. Len(chain) < AbortIndex
    BY <2>2, ChainFacts
  <2> QED BY <2>1, <2>2, <2>3, <2>4
<1>3. /\ stack' = SubSeq(stack, 1, k - 1)
      /\ index' = index + 1 \/ index' = AbortIndex + 1
  BY DEF Return, AbortAndReturn, Front
<1>4. index' <= Len(chain) => Frame.stage = "request" /\ index' = index + 1
  <2>1. index' = AbortIndex + 1 => ~ (index' <= Len(chain))
    BY <1>2
  <2>2. Frame.stage = "after" => index > Len(chain)
    BY AtWork
  <2>3. CASE Return /\ Frame.stage # "before"
    BY <1>2, <2>2, <2>3 DEF Return
  <2>4. CASE AbortAndReturn
    BY <2>1, <2>4 DEF AbortAndReturn
  <2> QED BY <2>3, <2>4
<1> HIDE DEF k
<1>5. /\ trace' \in Seq(Events)
      /\ \A u : Happened(u)' <=> Happened(u) \/ u = mark
      /\ \A h, S : Did(h, S) \subseteq Did(h, S)'
  BY <1>1, <1>2, Noted
<1>6. /\ StackInv' /\ stack' \in Seq(Frames) /\ index' \in 1 .. 2 * AbortIndex
      /\ Len(stack') = k - 1
      /\ \A i \in 1 .. k - 1 : stack'[i] = stack[i]
  BY <1>1, <1>2, <1>3, CutStack DEF k
<1>7. TypeOK'
  BY <1>1, <1>5, <1>6 DEF TypeOK, Events, Frames
<1>8. /\ Frame.stage = "request" => index = Frame.at /\ Handler \in Controllers
      /\ Frame.at \in 1 .. Len(chain) /\ Handler = chain[Frame.at]
  BY AtWork DEF Handler
<1>9. PassedInv'
  <2> SUFFICES ASSUME index' <= Len(chain), ~Happened("other"),
                      NEW i \in 1 .. index' - 1, chain[i] \in Middlewares
               PROVE  Did(chain[i], {"passed", "waived"}) # {}
    BY <1>1, <1>5 DEF PassedInv
  <2>1. index' = index + 1 /\ index \in 1 .. Len(chain) /\ chain[index] \in Controllers
    BY <1>4, <1>8
  <2>2. chain[index] \notin Middlewares
    BY <2>1, <1>2, ChainFacts
  <2>3. i \in 1 .. index - 1 /\ index <= Len(chain)
    BY <2>1, <2>2, <1>2
  <2> QED BY <1>1, <1>2, <2>3 DEF PassedInv
<1>10. InsideInv'
  <2> SUFFICES ASSUME ~gone, ~Happened("other")
               PROVE  Len(stack') >= 3 /\ stack'[2].at = 1 /\ stack'[3].at = 2
    BY <1>1, <1>5, <1>6 DEF InsideInv
  <2>1. k > 3
    BY AtWork DEF k
  <2>2. stack[2].at = 1 /\ stack[3].at = 2
    BY <1>2, <2>1 DEF InsideInv, IndInv, k
  <2> QED BY <1>2, <1>6, <2>1, <2>2
<1>11. ControllerGuarded'
  <2>1. ASSUME mark = "request", ~Happened("other"), NEW m \in ToSet(chain) \cap Middlewares
        PROVE  Did(m, {"passed", "waived"}) # {}
    <3>1. PICK i \in 1 .. Len(chain) : chain[i] = m
      BY <1>2 DEF ToSet, WellFormed
    <3>2. index \in 1 .. Len(chain) /\ chain[index] \in Controllers
      BY <2>1, <1>8
    <3>3. ~ (index < i) /\ index # i
      BY <1>2, <2>1, <3>1, <3>2, ChainFacts
    <3>4. i \in 1 .. index - 1 /\ index <= Len(chain)
      BY <3>1, <3>2, <3>3
    <3> QED BY <1>1, <1>2, <2>1, <3>1, <3>4 DEF PassedInv
  <2> QED BY <1>1, <1>2, <2>1, NotedGuarded DEF IndInv
<1>12. PanicContained'
  BY <1>1, <1>5 DEF PanicContained, IndInv
<1> QED BY <1>6, <1>7, <1>9, <1>10, <1>11, <1>12 DEF IndInv

\* A middleware lets the request through and calls Next.
LEMMA GoesOnInv ==
  ASSUME IndInv, Busy, Frame.stage = "before",
         NEW mark \in {"passed", "waived"}, Note(mark), CallNext,
         UNCHANGED <<chain, panic, answers, gone, dropped>>
  PROVE  IndInv'
<1>1. /\ TypeOK /\ StackInv /\ PassedInv
      /\ mark \in Marks /\ mark # "other" /\ mark # "request"
      /\ trace' = Append(trace, [mark |-> mark, who |-> Handler])
      /\ Stage("loop") /\ index' = index + 1
  BY DEF Marks, IndInv, Note, CallNext
<1>2. /\ stack # <<>> /\ Handler \in Handlers /\ index = Frame.at
      /\ Frame = stack[Len(stack)]
      /\ index \in 3 .. Len(chain) /\ Handler = chain[index]
  BY AtWork DEF Handler
<1>0. PICK w \in Handlers : w = chain[index] /\ trace' = Append(trace, [mark |-> mark, who |-> w])
  BY <1>1, <1>2
<1>3. /\ WellFormed(chain) /\ Len(stack) \in Nat /\ Len(stack) >= 1
      /\ Len(stack) <= Len(chain) + 1
      /\ Len(chain) \in Nat /\ AbortIndex \in Nat /\ index \in Nat
  BY <1>1, <1>2, Sizes
<1>4. Len(chain) + 1 < AbortIndex
  BY <1>3, ChainFacts
<1>5. /\ trace' \in Seq(Events)
      /\ \A u : Happened(u)' <=> Happened(u) \/ u = mark
      /\ \A h, S : Did(h, S) \subseteq Did(h, S)'
      /\ Did(w, {"passed", "waived"})' # {}
  BY <1>0, <1>1, Noted
<1>6. /\ stack' \in Seq(Frames) /\ stack' # <<>> /\ Len(stack') = Len(stack)
      /\ \A i \in 1 .. Len(stack) - 1 : stack'[i] = stack[i]
      /\ stack'[Len(stack)].at = index
      /\ stack'[Len(stack)].stage = "loop"
  BY <1>1, <1>2, StageFacts
<1>7. TypeOK'
  <2>1. index' \in 1 .. 2 * AbortIndex
    BY <1>1, <1>2, <1>3, <1>4
  <2> QED BY <1>1, <1>5, <1>6, <2>1 DEF TypeOK, Events, Frames
<1>8. \A i \in 1 .. Len(stack) : stack'[i].at = stack[i].at
  <2>1. \A i \in 1 .. Len(stack) : i \in 1 .. Len(stack) - 1 \/ i = Len(stack)
    BY <1>3
  <2> QED BY <1>2, <1>6, <2>1
<1>9. StackInv'
  <2>1. \A i \in 1 .. Len(stack') : i - 1 <= stack'[i].at /\ stack'[i].at <= index'
    <3>1. \A i \in 1 .. Len(stack) : stack[i].at \in 0 .. Len(chain)
      BY <1>1, Sizes
    <3>2. \A i \in 1 .. Len(stack) : i - 1 <= stack[i].at /\ stack[i].at <= index
      BY <1>1 DEF StackInv
    <3>3. \A a \in Nat : a <= index => a <= index'
      BY <1>1, <1>3
    <3> QED BY <1>3, <1>6, <1>8, <3>1, <3>2, <3>3
  <2>2. \A i, j \in 1 .. Len(stack') :
          i < j => stack'[i].at < stack'[j].at /\ stack'[i].stage = "loop"
    <3>1. \A i, j \in 1 .. Len(stack) : i < j => i \in 1 .. Len(stack) - 1
      BY <1>3
    <3> QED BY <1>1, <1>6, <1>8, <3>1 DEF StackInv
  <2>3. stack'[1].at = 0
    BY <1>1, <1>2, <1>3, <1>8 DEF StackInv
  <2>4. index' + Len(stack') <= AbortIndex + Len(chain) + 2
    BY <1>1, <1>2, <1>3, <1>4, <1>6
  <2> QED BY <1>1, <1>2, <1>3, <1>6, <2>1, <2>2, <2>3, <2>4, ChainFacts DEF StackInv
<1>10. PassedInv'
  <2> SUFFICES ASSUME ~Happened("other"), NEW i \in 1 .. index' - 1, chain[i] \in Middlewares
               PROVE  Did(chain[i], {"passed", "waived"})' # {}
    BY <1>1, <1>5 DEF PassedInv
  <2>0. index <= Len(chain)
    BY <1>2, <1>3
  <2>1. i \in 1 .. index - 1 \/ i = index
    BY <1>1, <1>3
  <2>2. CASE i \in 1 .. index - 1
    <3>1. PassedInv
      BY DEF IndInv
    <3>2. \A j \in 1 .. index - 1 :
            chain[j] \in Middlewares => Did(chain[j], {"passed", "waived"}) # {}
      BY <1>2, <2>0, <3>1 DEF PassedInv
    <3>3. Did(chain[i], {"passed", "waived"}) # {}
      BY <2>2, <3>2
    <3> QED BY <1>5, <3>3
  <2>3. CASE i = index
    BY <1>0, <1>1, <1>5, <2>3
  <2> QED BY <2>1, <2>2, <2>3
<1>11. InsideInv'
  <2> SUFFICES ASSUME ~gone, ~Happened("other")
               PROVE  Len(stack') >= 3 /\ stack'[2].at = 1 /\ stack'[3].at = 2
                      /\ Len(stack') # 1 /\ Len(stack') # 2
    BY <1>5 DEF InsideInv
  <2>1. Len(stack) > 3
    BY AtWork
  <2>2. stack[2].at = 1 /\ stack[3].at = 2
    BY <1>2, <1>3, <2>1 DEF InsideInv, IndInv
  <2>3. stack'[2].at = stack[2].at /\ stack'[3].at = stack[3].at
    BY <1>3, <1>8, <2>1
  <2> QED BY <1>3, <1>6, <2>1, <2>2, <2>3
<1>12. ControllerGuarded'
  BY <1>1, <1>2, NotedGuarded DEF IndInv
<1>13. PanicContained'
  BY <1>5 DEF PanicContained, IndInv
<1> QED BY <1>7, <1>9, <1>10, <1>11, <1>12, <1>13 DEF IndInv

LEMMA BeforeInv ==
  ASSUME IndInv, Before
  PROVE  IndInv'
<1>1. Busy /\ Frame.stage = "before" /\ answers \in Nat
  BY DEF Before, At, IndInv, TypeOK
<1>2. CASE Note("passed") /\ CallNext /\ UNCHANGED <<chain, panic, answers, gone, dropped>>
  BY <1>1, <1>2, GoesOnInv
<1>3. CASE Note("waived") /\ CallNext /\ UNCHANGED <<chain, panic, answers, gone, dropped>>
  BY <1>1, <1>3, GoesOnInv
<1>4. CASE Renders("refused", AbortAndReturn)
  <2>1. CASE Panics("pipe")
    BY <1>1, <2>1, PanicsInv
  <2>2. CASE ~Panics("pipe")
    BY <1>1, <1>4, <2>2, EndsInv DEF Renders
  <2> QED BY <2>1, <2>2
<1>5. CASE \E v \in PanicValues : Panics(v)
  BY <1>1, <1>5, PanicsInv
<1> QED BY <1>2, <1>3, <1>4, <1>5 DEF Before

LEMMA AfterInv ==
  ASSUME IndInv, After
  PROVE  IndInv'
<1>1. Busy /\ Frame.stage = "after" /\ answers \in Nat
  BY DEF After, At, IndInv, TypeOK
<1>2. CASE Note("after") /\ Return /\ UNCHANGED <<chain, panic, answers, gone, dropped>>
  BY <1>1, <1>2, EndsInv
<1>3. CASE Renders("failed", AbortAndReturn)
  <2>1. CASE Panics("pipe")
    BY <1>1, <2>1, PanicsInv
  <2>2. CASE ~Panics("pipe")
    BY <1>1, <1>3, <2>2, EndsInv DEF Renders
  <2> QED BY <2>1, <2>2
<1>4. CASE \E v \in PanicValues : Panics(v)
  BY <1>1, <1>4, PanicsInv
<1> QED BY <1>2, <1>3, <1>4 DEF After

LEMMA RequestInv ==
  ASSUME IndInv, Request
  PROVE  IndInv'
<1>1. Busy /\ Frame.stage = "request" /\ answers \in Nat
  BY DEF Request, At, IndInv, TypeOK
<1>2. CASE Panics("pipe")
  BY <1>1, <1>2, PanicsInv
<1>3. CASE Renders("request", Return) /\ ~Panics("pipe")
  BY <1>1, <1>3, EndsInv DEF Renders
<1>4. CASE \E v \in PanicValues : Panics(v)
  BY <1>1, <1>4, PanicsInv
<1> QED BY <1>2, <1>3, <1>4 DEF Request

-----------------------------------------------------------------------------
(* The steps of gin, Recovery and net/http *)

LEMMA InvokeInv ==
  ASSUME IndInv, Invoke
  PROVE  IndInv'
<1>1. /\ TypeOK /\ StackInv /\ PassedInv /\ panic = Nil /\ stack # <<>>
      /\ Frame = stack[Len(stack)] /\ Frame.stage = "loop" /\ index <= Len(chain)
      /\ UNCHANGED <<chain, panic, answers, gone, dropped, trace>>
  BY DEF Invoke, At, Busy, Frame, Last, IndInv
<1>2. /\ WellFormed(chain) /\ Len(stack) \in Nat /\ Len(stack) >= 1
      /\ Len(stack) <= Len(chain) + 1
      /\ Len(chain) \in Nat /\ AbortIndex \in Nat /\ index \in 1 .. Len(chain)
      /\ \A i \in 1 .. Len(stack) : stack[i].at \in 0 .. Len(chain)
  BY <1>1, Sizes DEF TypeOK
<1>3. Len(chain) + 1 < AbortIndex
  BY <1>2, ChainFacts
<1>4. /\ index > 2 <=> chain[index] \in Middlewares \cup Controllers
      /\ index = 1 \/ index = 2 <=> chain[index] \in {"logger", "recovery"}
      /\ index = 1 \/ index = 2 \/ index > 2
  BY <1>2, ChainFacts
<1>5. PICK s \in {"loop", "before", "request"} :
        /\ stack' = Append(stack, [at |-> index, stage |-> s])
        /\ s = "loop" => index < 3 /\ index' = index + 1
        /\ s # "loop" => index > 2 /\ index' = index
        /\ s = "before" => chain[index] \in Middlewares
        /\ s = "request" => chain[index] \in Controllers
  <2>1. CASE chain[index] \in {"logger", "recovery"}
    BY <1>4, <2>1 DEF Invoke
  <2>2. CASE chain[index] \in Middlewares
    <3>1. chain[index] \notin {"logger", "recovery"}
      BY <2>2, HandlersAssumption
    <3> QED BY <1>4, <2>2, <3>1 DEF Invoke
  <2>3. CASE chain[index] \in Controllers
    <3>1. chain[index] \notin {"logger", "recovery"} /\ chain[index] \notin Middlewares
      BY <2>3, HandlersAssumption
    <3> QED BY <1>4, <2>3, <3>1 DEF Invoke
  <2> QED BY <1>4, <2>1, <2>2, <2>3
<1> DEFINE f == [at |-> index, stage |-> s]
<1>6. f \in Frames /\ f.at = index /\ f.stage = s
  BY <1>2 DEF Frames
<1> HIDE DEF f
<1>7. stack \in Seq(Frames) /\ stack' = Append(stack, f)
  BY <1>1, <1>5 DEF TypeOK, Frames, f
<1>8. /\ stack' \in Seq(Frames) /\ Len(stack') = Len(stack) + 1 /\ stack' # <<>>
      /\ stack'[Len(stack) + 1] = f
      /\ \A i \in 1 .. Len(stack) : stack'[i] = stack[i]
  BY <1>2, <1>6, <1>7
<1>9. index' \in 1 .. Len(chain) + 1 /\ index <= index'
  BY <1>2, <1>5
<1>10. TypeOK'
  <2>1. index' \in 1 .. 2 * AbortIndex
    BY <1>2, <1>3, <1>9
  <2> QED BY <1>1, <1>8, <2>1 DEF TypeOK, Frames
<1>11. \A i \in 1 .. Len(stack) : stack[i].at < index /\ stack[i].stage = "loop"
  <2>1. Frame.at < index
    BY <1>1 DEF StackInv
  <2>2. \A i \in 1 .. Len(stack) : i = Len(stack) \/ i < Len(stack)
    BY <1>2
  <2>3. Len(stack) \in 1 .. Len(stack)
    BY <1>2
  <2>4. ASSUME NEW i \in 1 .. Len(stack), i < Len(stack)
        PROVE  stack[i].at < index /\ stack[i].stage = "loop"
    <3>1. stack[i].at < Frame.at /\ stack[i].stage = "loop"
      BY <1>1, <2>3, <2>4 DEF StackInv
    <3> QED BY <1>1, <1>2, <2>1, <2>3, <2>4, <3>1
  <2> QED BY <1>1, <2>1, <2>2, <2>4
<1>12. \A i \in 1 .. Len(stack') : i \in 1 .. Len(stack) \/ i = Len(stack) + 1
  BY <1>2, <1>8
<1>13. StackInv'
  <2>1. Len(stack) <= index
    <3>1. Len(stack) - 1 <= Frame.at /\ Frame.at < index /\ Frame.at \in Nat
      BY <1>1, <1>2, <1>11 DEF StackInv
    <3> QED BY <1>2, <3>1
  <2>2. \A i \in 1 .. Len(stack') : i - 1 <= stack'[i].at /\ stack'[i].at <= index'
    <3>1. \A i \in 1 .. Len(stack) : i - 1 <= stack[i].at
      BY <1>1 DEF StackInv
    <3>2. \A i \in 1 .. Len(stack) : stack[i].at <= index'
      BY <1>2, <1>9, <1>11
    <3> QED BY <1>2, <1>6, <1>8, <1>9, <1>12, <2>1, <3>1, <3>2
  <2>3. \A i, j \in 1 .. Len(stack') :
          i < j => stack'[i].at < stack'[j].at /\ stack'[i].stage = "loop"
    <3> SUFFICES ASSUME NEW i \in 1 .. Len(stack'), NEW j \in 1 .. Len(stack'), i < j
                 PROVE  stack'[i].at < stack'[j].at /\ stack'[i].stage = "loop"
      OBVIOUS
    <3>1. i \in 1 .. Len(stack)
      BY <1>2, <1>8
    <3>2. CASE j \in 1 .. Len(stack)
      BY <1>1, <1>8, <3>1, <3>2 DEF StackInv
    <3>3. CASE j = Len(stack) + 1
      BY <1>6, <1>8, <1>11, <3>1, <3>3
    <3> QED BY <1>12, <3>2, <3>3
  <2>4. stack'[1].at = 0
    BY <1>1, <1>2, <1>8 DEF StackInv
  <2>5. index' + Len(stack') <= AbortIndex + Len(chain) + 2
    BY <1>2, <1>3, <1>8, <1>9
  <2>6. /\ f.stage = "loop" => f.at < index'
        /\ f.stage = "before" => f.at = index' /\ chain[f.at] \in Middlewares
        /\ f.stage = "request" => f.at = index' /\ chain[f.at] \in Controllers
        /\ f.stage # "after"
        /\ f.stage # "loop" => f.at > 2
    BY <1>2, <1>5, <1>6
  <2>7. chain # <<>>
    BY <1>2, ChainFacts
  <2> QED BY <1>1, <1>8, <2>2, <2>3, <2>4, <2>5, <2>6, <2>7 DEF StackInv
<1>14. PassedInv'
  <2> SUFFICES ASSUME ~Happened("other"), NEW i \in 1 .. index' - 1, chain[i] \in Middlewares
               PROVE  Did(chain[i], {"passed", "waived"}) # {}
    BY <1>1 DEF PassedInv, Happened, Did
  <2>1. i \in 1 .. Len(chain)
    <3>1. index' \in Nat /\ index' - 1 <= Len(chain)
      BY <1>2, <1>9
    <3>2. \A n \in Nat : n - 1 <= Len(chain) => 1 .. n - 1 \subseteq 1 .. Len(chain)
      BY <1>2
    <3> QED BY <3>1, <3>2
  <2>2. i \in 1 .. index - 1
    <3>1. i > 2
      BY <1>2, <2>1, ChainFacts
    <3>2. index' = index \/ (index < 3 /\ index' = index + 1)
      BY <1>5
    <3> QED BY <1>2, <2>1, <3>1, <3>2
  <2> QED BY <1>1, <2>2 DEF PassedInv
<1>15. InsideInv'
  <2> SUFFICES ASSUME ~gone, ~Happened("other")
               PROVE  /\ Len(stack') # 1
                      /\ Len(stack') = 2 => index' = 2
                      /\ stack'[2].at = 1
                      /\ Len(stack') >= 3 => stack'[3].at = 2
    BY <1>1 DEF InsideInv, Happened
  <2>1. InsideInv
    BY DEF IndInv
  <2>2. CASE Len(stack) = 1
    <3>1. index = 1
      BY <1>1, <1>2, <2>1, <2>2 DEF InsideInv
    <3>2. index' = 2 /\ Len(stack') = 2 /\ stack'[2].at = 1
      BY <1>5, <1>6, <1>8, <2>2, <3>1
    <3> QED BY <3>2
  <2>3. CASE Len(stack) = 2
    <3>1. index = 2 /\ stack[2].at = 1
      BY <1>1, <1>2, <2>1, <2>3 DEF InsideInv
    <3>2. Len(stack') = 3 /\ stack'[3].at = 2 /\ stack'[2].at = 1
      BY <1>6, <1>8, <2>3, <3>1
    <3> QED BY <3>2
  <2>4. CASE Len(stack) >= 3
    <3>1. stack[2].at = 1 /\ stack[3].at = 2
      BY <1>1, <1>2, <2>1, <2>4 DEF InsideInv
    <3>2. stack'[2] = stack[2] /\ stack'[3] = stack[3] /\ Len(stack') > 3
      BY <1>2, <1>8, <2>4
    <3> QED BY <3>1, <3>2
  <2>5. \A n \in Nat : n >= 1 => n = 1 \/ n = 2 \/ n >= 3
    OBVIOUS
  <2> QED BY <1>2, <2>2, <2>3, <2>4, <2>5
<1>16. ControllerGuarded' /\ PanicContained'
  BY <1>1 DEF ControllerGuarded, PanicContained, IndInv, Happened, Did
<1> QED BY <1>10, <1>13, <1>14, <1>15, <1>16 DEF IndInv

LEMMA LoopEndInv ==
  ASSUME IndInv, LoopEnd
  PROVE  IndInv'
<1>1. /\ TypeOK /\ StackInv /\ PassedInv /\ InsideInv /\ panic = Nil /\ stack # <<>>
      /\ Frame = stack[Len(stack)] /\ Frame.stage = "loop" /\ index > Len(chain)
      /\ UNCHANGED <<chain, panic, answers, gone, dropped, trace>>
  BY DEF LoopEnd, At, Busy, Frame, Last, IndInv
<1>2. /\ WellFormed(chain) /\ Len(stack) \in Nat /\ Len(stack) >= 1
      /\ Len(chain) \in Nat /\ AbortIndex \in Nat /\ index \in Nat
      /\ \A i \in 1 .. Len(stack) : stack[i].at \in 0 .. Len(chain)
  BY <1>1, Sizes DEF TypeOK
<1>3. ControllerGuarded' /\ PanicContained'
  BY <1>1 DEF ControllerGuarded, PanicContained, IndInv, Happened, Did
<1>4. CASE stack' = <<>> /\ UNCHANGED index
  <2>1. stack' \in Seq(Frames) /\ Len(stack') = 0
    BY <1>4
  <2>2. TypeOK'
    BY <1>1, <1>4, <2>1 DEF TypeOK, Frames
  <2>3. index' + Len(stack') <= AbortIndex + Len(chain) + 2
    BY <1>1, <1>2, <1>4, <2>1 DEF StackInv
  <2>4. StackInv'
    BY <1>1, <1>4, <2>1, <2>3 DEF StackInv
  <2>5. PassedInv' /\ InsideInv'
    BY <1>1, <1>4 DEF PassedInv, InsideInv, Happened
  <2> QED BY <1>3, <2>2, <2>4, <2>5 DEF IndInv
<1>5. CASE Stage("after") /\ UNCHANGED index /\ chain[Frame.at] \in Middlewares /\ Frame.at # 0
  <2>1. /\ stack' \in Seq(Frames) /\ stack' # <<>> /\ Len(stack') = Len(stack)
        /\ \A i \in 1 .. Len(stack) - 1 : stack'[i] = stack[i]
        /\ stack'[Len(stack)].at = Frame.at
        /\ stack'[Len(stack)].stage = "after"
    BY <1>1, <1>5, StageFacts
  <2>2. \A i \in 1 .. Len(stack) : stack'[i].at = stack[i].at
    <3>1. \A i \in 1 .. Len(stack) : i \in 1 .. Len(stack) - 1 \/ i = Len(stack)
      BY <1>2
    <3> QED BY <1>1, <2>1, <3>1
  <2>3. TypeOK'
    BY <1>1, <1>5, <2>1 DEF TypeOK, Frames
  <2>4. Frame.at > 2
    <3>1. Frame.at \in 1 .. Len(chain)
      BY <1>1, <1>2, <1>5
    <3> QED BY <1>2, <1>5, <3>1, ChainFacts
  <2>5. StackInv'
    <3>1. \A i \in 1 .. Len(stack') : i - 1 <= stack'[i].at /\ stack'[i].at <= index'
      BY <1>1, <1>5, <2>1, <2>2 DEF StackInv
    <3>2. \A i, j \in 1 .. Len(stack') :
            i < j => stack'[i].at < stack'[j].at /\ stack'[i].stage = "loop"
      <4>1. \A i, j \in 1 .. Len(stack) : i < j => i \in 1 .. Len(stack) - 1
        BY <1>2
      <4> QED BY <1>1, <2>1, <2>2, <4>1 DEF StackInv
    <3>3. stack'[1].at = 0
      BY <1>1, <1>2, <2>2 DEF StackInv
    <3>4. index' + Len(stack') <= AbortIndex + Len(chain) + 2
      BY <1>1, <1>5, <2>1 DEF StackInv
    <3> QED BY <1>1, <1>5, <1>2, <2>1, <2>4, <3>1, <3>2, <3>3, <3>4, ChainFacts DEF StackInv
  <2>6. PassedInv'
    BY <1>1, <1>2, <1>5 DEF PassedInv, Happened
  <2>7. InsideInv'
    <3> SUFFICES ASSUME ~gone, ~Happened("other")
                 PROVE  /\ Len(stack) >= 2 => stack'[2].at = 1
                        /\ Len(stack) >= 3 => stack'[3].at = 2
      BY <1>1, <1>5, <2>1 DEF InsideInv, Happened
    <3>1. /\ Len(stack) >= 2 => stack'[2].at = stack[2].at
          /\ Len(stack) >= 3 => stack'[3].at = stack[3].at
      BY <1>2, <2>2
    <3> QED BY <1>1, <3>1 DEF InsideInv
  <2> QED BY <1>3, <2>3, <2>5, <2>6, <2>7 DEF IndInv
<1>6. CASE Return
  <2> DEFINE k == Len(stack)
  <2>1. k \in 1 .. k /\ stack' = SubSeq(stack, 1, k - 1) /\ index' = index + 1
    BY <1>2, <1>6 DEF Return, Front
  <2> HIDE DEF k
  <2>2. /\ StackInv' /\ stack' \in Seq(Frames) /\ index' \in 1 .. 2 * AbortIndex
        /\ Len(stack') = k - 1
        /\ \A i \in 1 .. k - 1 : stack'[i] = stack[i]
    BY <1>1, <2>1, CutStack DEF k
  <2>3. TypeOK'
    BY <1>1, <2>2 DEF TypeOK, Frames
  <2>4. index' > Len(chain)
    BY <1>1, <1>2, <2>1
  <2>5. PassedInv'
    <3>1. ~(index' <= Len(chain))
      BY <1>2, <2>1, <2>4
    <3> QED BY <1>1, <3>1, ChainAssumption DEF PassedInv
  <2>6. InsideInv'
    <3> SUFFICES ASSUME ~gone, ~Happened("other")
                 PROVE  /\ Len(stack') >= 2 => stack'[2].at = 1
                        /\ Len(stack') >= 3 => stack'[3].at = 2
      BY <1>1, <2>4 DEF InsideInv, Happened
    <3>1. /\ Len(stack') >= 2 => stack'[2] = stack[2] /\ Len(stack) >= 2
          /\ Len(stack') >= 3 => stack'[3] = stack[3] /\ Len(stack) >= 3
      BY <1>2, <2>2 DEF k
    <3> QED BY <1>1, <3>1 DEF InsideInv
  <2> QED BY <1>3, <2>2, <2>3, <2>5, <2>6 DEF IndInv
<1>7. \/ stack' = <<>> /\ UNCHANGED index
      \/ Stage("after") /\ UNCHANGED index /\ chain[Frame.at] \in Middlewares /\ Frame.at # 0
      \/ Return
  BY DEF LoopEnd, Handler
<1> QED BY <1>4, <1>5, <1>6, <1>7

LEMMA RecoverInv ==
  ASSUME IndInv, Recover
  PROVE  IndInv'
<1>1. /\ TypeOK /\ StackInv /\ PassedInv /\ InsideInv /\ panic # Nil /\ stack # <<>>
      /\ UNCHANGED <<chain, dropped, trace>>
  BY DEF Recover, IndInv, StackInv
<1>2. PICK k \in Depth :
        /\ stack' = SubSeq(stack, 1, k - 1)
        /\ \/ /\ panic = "pipe"
              /\ panic' = Nil /\ index' = AbortIndex + 1
              /\ UNCHANGED <<answers, gone>>
           \/ /\ panic # "pipe" /\ ~gone
              /\ panic' = Nil /\ answers' = answers + 1
              /\ index' = IF panic = "other" THEN index + 1 ELSE AbortIndex + 1
              /\ UNCHANGED gone
           \/ /\ panic # "pipe"
              /\ panic' = "pipe" /\ gone' = TRUE
              /\ UNCHANGED <<answers, index>>
  BY DEF Recover
<1>3. /\ WellFormed(chain) /\ Len(stack) \in Nat /\ Len(chain) \in Nat /\ AbortIndex \in Nat
      /\ Len(chain) < AbortIndex /\ index \in Nat
  BY <1>1, Sizes, ChainFacts
<1>4. /\ k \in 1 .. Len(stack) /\ stack[k].at = 2 /\ stack[1].at = 0 /\ k # 1
  <2>1. stack \in Seq(Frames)
    BY <1>1 DEF TypeOK, Frames
  <2>2. k \in 1 .. Len(stack) /\ stack[k].at # 0 /\ chain[stack[k].at] = "recovery"
    BY <2>1 DEF Depth
  <2>3. stack[k].at \in 1 .. Len(chain)
    BY <1>1, <1>3, <2>2, Sizes
  <2>4. stack[k].at = 2
    BY <1>3, <2>2, <2>3, ChainFacts
  <2>5. stack[1].at = 0
    BY <1>1 DEF StackInv
  <2> QED BY <2>2, <2>4, <2>5
<1>5. index' = index + 1 \/ index' = AbortIndex + 1 \/ index' = index
  BY <1>2
<1>6. /\ StackInv' /\ stack' \in Seq(Frames) /\ index' \in 1 .. 2 * AbortIndex
      /\ Len(stack') = k - 1
      /\ \A i \in 1 .. k - 1 : stack'[i] = stack[i]
  BY <1>1, <1>2, <1>4, <1>5, CutStack
<1>7. TypeOK'
  <2>1. answers \in Nat /\ gone \in BOOLEAN
    BY <1>1 DEF TypeOK
  <2>2. (answers' = answers \/ answers' = answers + 1) /\ (gone' = gone \/ gone' = TRUE)
    BY <1>2
  <2>3. panic' \in {Nil, "pipe"}
    BY <1>2
  <2>4. answers' \in Nat
    BY <2>1, <2>2
  <2>5. gone' \in BOOLEAN
    BY <2>1, <2>2
  <2> QED BY <1>1, <1>6, <2>3, <2>4, <2>5 DEF TypeOK, Frames
<1>8. \A v : Happened(v)' <=> Happened(v)
  BY <1>1 DEF Happened
<1>9. PassedInv'
  <2>1. panic' # "other"
    BY <1>2, ChainAssumption
  <2>2. ~Happened("other") => index' = index \/ index' = AbortIndex + 1
    BY <1>1, <1>2 DEF PassedInv
  <2>3. ~(AbortIndex + 1 <= Len(chain))
    BY <1>3
  <2>4. ~Happened("other") /\ index' <= Len(chain) => index' = index
    BY <2>2, <2>3
  <2> QED BY <1>1, <1>8, <2>1, <2>4 DEF PassedInv, Did
<1>10. InsideInv'
  <2> SUFFICES ASSUME stack' # <<>>, ~gone', ~Happened("other")
               PROVE  Len(stack') = 2 /\ index' > Len(chain) /\ stack'[2].at = 1 /\ panic' = Nil
    BY <1>1, <1>6, <1>8 DEF InsideInv
  <2>1. ~gone /\ panic # "other" /\ panic' = Nil /\ index' = AbortIndex + 1
    BY <1>1, <1>2 DEF PassedInv
  <2>2. Len(stack) >= 3 /\ stack[2].at = 1 /\ stack[3].at = 2
    BY <1>1, <1>3, <2>1 DEF InsideInv
  <2>3. k = 3
    <3>1. 3 \in 1 .. Len(stack) /\ k \in Nat
      BY <1>3, <1>4, <2>2
    <3>2. ~(k < 3) /\ ~(3 < k)
      BY <1>1, <1>4, <2>2, <3>1 DEF StackInv
    <3> QED BY <3>1, <3>2
  <2>4. Len(stack') = 2 /\ stack'[2].at = 1
    BY <1>6, <2>2, <2>3
  <2> QED BY <1>3, <2>1, <2>4
<1>11. ControllerGuarded'
  BY <1>1 DEF ControllerGuarded, IndInv, Happened, Did
<1>12. PanicContained'
  BY <1>1, <1>2, <1>8 DEF PanicContained, IndInv
<1> QED BY <1>6, <1>7, <1>9, <1>10, <1>11, <1>12 DEF IndInv

LEMMA DropInv ==
  ASSUME IndInv, Drop
  PROVE  IndInv'
<1>1. /\ TypeOK /\ StackInv /\ InsideInv /\ panic # Nil /\ stack # <<>> /\ Depth = {}
      /\ stack' = <<>> /\ panic' = Nil /\ dropped' = TRUE
      /\ UNCHANGED <<chain, index, answers, gone, trace>>
  BY DEF Drop, IndInv, StackInv
<1>2. stack' \in Seq(Frames) /\ Len(stack') = 0
  BY <1>1
<1>3. TypeOK'
  BY <1>1, <1>2 DEF TypeOK, Frames
<1>4. StackInv'
  <2>1. index' + Len(stack') <= AbortIndex + Len(chain) + 2
    BY <1>1, <1>2, Sizes DEF StackInv
  <2> QED BY <1>1, <1>2, <2>1 DEF StackInv
<1>5. PassedInv' /\ InsideInv'
  BY <1>1, ChainAssumption DEF PassedInv, InsideInv
<1>6. gone \/ Happened("other")
  <2> SUFFICES ASSUME ~gone, ~Happened("other") PROVE FALSE
    OBVIOUS
  <2>1. Len(stack) \in Nat /\ WellFormed(chain) /\ stack \in Seq(Frames)
    BY <1>1, Sizes DEF TypeOK, Frames
  <2>2. Len(stack) >= 3 /\ stack[3].at = 2
    BY <1>1, <2>1 DEF InsideInv
  <2>3. chain[2] = "recovery"
    BY <2>1 DEF WellFormed
  <2>4. 3 \in DOMAIN stack
    BY <2>1, <2>2
  <2> QED BY <1>1, <2>2, <2>3, <2>4 DEF Depth
<1>7. PanicContained' /\ ControllerGuarded'
  BY <1>1, <1>6 DEF PanicContained, ControllerGuarded, IndInv, Happened, Did
<1> QED BY <1>3, <1>4, <1>5, <1>7 DEF IndInv

LEMMA ServeInv ==
  ASSUME IndInv, Serve
  PROVE  IndInv'
<1>1. /\ TypeOK /\ StackInv /\ panic = Nil /\ WellFormed(chain') /\ index' = 1
      /\ stack' = <<[at |-> 0, stage |-> "loop"]>> /\ panic' = Nil
      /\ answers' = 0 /\ gone' = FALSE /\ dropped' = FALSE /\ trace' = <<>>
  BY DEF Serve, Start, IndInv, StackInv
<1>2. Len(chain') \in Nat /\ AbortIndex \in Nat /\ Len(chain') < AbortIndex - 1 /\ chain' # <<>>
  BY <1>1, ChainFacts, HandlersAssumption
<1> DEFINE f == [at |-> 0, stage |-> "loop"]
<1>3. f \in Frames' /\ f.at = 0 /\ f.stage = "loop"
  BY <1>2 DEF Frames
<1> HIDE DEF f
<1>4. /\ stack' \in Seq(Frames') /\ Len(stack') = 1 /\ stack'[1] = f
      /\ \A i \in 1 .. Len(stack') : i = 1
  BY <1>1, <1>3 DEF f
<1>5. /\ trace' \in Seq(Events) /\ DOMAIN trace' = {} /\ ~Happened("other")'
  BY <1>1 DEF Happened
<1>6. TypeOK'
  <2>1. index' \in 1 .. 2 * AbortIndex
    BY <1>1, <1>2
  <2> QED BY <1>1, <1>4, <1>5, <2>1 DEF TypeOK, Frames, Events
<1>7. StackInv'
  BY <1>1, <1>2, <1>3, <1>4 DEF StackInv
<1>8. PassedInv' /\ InsideInv'
  BY <1>1, <1>2, <1>4, ChainAssumption DEF PassedInv, InsideInv
<1>9. ControllerGuarded' /\ PanicContained'
  BY <1>1, <1>5 DEF ControllerGuarded, PanicContained
<1> QED BY <1>6, <1>7, <1>8, <1>9 DEF IndInv

LEMMA InitInv ==
  ASSUME Init
  PROVE  IndInv
<1>1. /\ chain = <<>> /\ stack = <<>> /\ index = 1 /\ panic = Nil /\ answers = 0
      /\ gone = FALSE /\ dropped = FALSE /\ trace = <<>>
  BY DEF Init
<1>2. stack \in Seq(Frames) /\ Len(stack) = 0 /\ Len(chain) = 0
      /\ trace \in Seq(Events) /\ DOMAIN trace = {}
  BY <1>1
<1>3. AbortIndex \in Nat /\ AbortIndex > 0
  BY HandlersAssumption
<1>4. TypeOK
  <2>1. 1 \in 1 .. 2 * AbortIndex
    BY <1>3
  <2> QED BY <1>1, <1>2, <2>1 DEF TypeOK, Frames, Events
<1>5. StackInv /\ PassedInv /\ InsideInv
  BY <1>1, <1>2, <1>3, ChainAssumption DEF StackInv, PassedInv, InsideInv
<1>6. ControllerGuarded /\ PanicContained
  BY <1>1, <1>2 DEF ControllerGuarded, PanicContained
<1> QED BY <1>4, <1>5, <1>6 DEF IndInv

LEMMA NextInv ==
  ASSUME IndInv, [Next]_vars
  PROVE  IndInv'
<1>1. CASE Serve
  BY <1>1, ServeInv
<1>2. CASE Invoke
  BY <1>2, InvokeInv
<1>3. CASE LoopEnd
  BY <1>3, LoopEndInv
<1>4. CASE Before \/ After \/ Request
  BY <1>4, BeforeInv, AfterInv, RequestInv
<1>5. CASE Recover \/ Drop
  BY <1>5, RecoverInv, DropInv
<1>6. CASE UNCHANGED vars
  BY <1>6 DEF vars, IndInv, TypeOK, StackInv, PassedInv, InsideInv, ControllerGuarded,
              PanicContained, Happened, Did
<1> QED BY <1>1, <1>2, <1>3, <1>4, <1>5, <1>6 DEF Next, Handle

-----------------------------------------------------------------------------
(* Theorems *)

\* Every variable keeps its shape; gin's index, which Abort sets to abortIndex
\* and every return still counts up, stays below twice of it.
THEOREM ChainTyped == Spec => []TypeOK
<1>1. Init => IndInv
  BY InitInv
<1>2. IndInv /\ [Next]_vars => IndInv'
  BY NextInv
<1>3. IndInv => TypeOK
  BY DEF IndInv
<1> QED BY <1>1, <1>2, <1>3, PTL DEF Spec

\* A controller of any chain runs behind all its middlewares.
THEOREM ControllersGuarded == Spec => []ControllerGuarded
<1>1. Init => IndInv
  BY InitInv
<1>2. IndInv /\ [Next]_vars => IndInv'
  BY NextInv
<1>3. IndInv => ControllerGuarded
  BY DEF IndInv
<1> QED BY <1>1, <1>2, <1>3, PTL DEF Spec

\* Recovery holds whatever panics, in any chain, unless the client has left or
\* a panic went on without Abort.
THEOREM PanicsContained == Spec => []PanicContained
<1>1. Init => IndInv
  BY InitInv
<1>2. IndInv /\ [Next]_vars => IndInv'
  BY NextInv
<1>3. IndInv => PanicContained
  BY DEF IndInv
<1> QED BY <1>1, <1>2, <1>3, PTL DEF Spec
=============================================================================
