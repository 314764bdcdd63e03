---------------------------- MODULE HandlerChain ----------------------------
(***************************************************************************)
(* How a request runs through the handlers of its route: ControllerHandler *)
(* and MiddlewareHandler, and Recovery, over the nested Next loops of gin. *)
(*                                                                         *)
(* The stack holds the calls under way: the engine's call of Next, and one *)
(* frame for each handler that has not returned.  A frame at "loop" is in  *)
(* Next, and all the loops share the index of the context.  Requests share *)
(* nothing, so one at a time shows all that can happen to one.             *)
(***************************************************************************)
EXTENDS GinHandlers, SequencesExt

CONSTANTS
  Denying,      \* middlewares whose DeniedBeforeAbortContext is true
  Allowing,     \* middlewares whose AllowAfterAbortContext is true
  AfterFails,   \* whether After may fail or panic
  PanicValues,  \* types of the values that handlers panic with
  Nil

ASSUME ChainAssumption ==
  /\ Denying \cup Allowing \subseteq Middlewares
  /\ AfterFails \in BOOLEAN
  /\ PanicValues \subseteq {"error", "string", "other"}
  /\ Nil \notin {"error", "string", "other", "pipe"}

VARIABLES
  chain,    \* the handlers of the route
  index,    \* c.index, counted from 1
  stack,
  panic,    \* the value that is unwinding the stack
  answers,  \* responses that were written
  gone,     \* the client has closed the connection
  dropped,  \* the panic went through to net/http, which closes the connection
  trace     \* what the handlers did, for the properties

vars == <<chain, index, stack, panic, answers, gone, dropped, trace>>

Marks == {"passed", "waived", "refused", "after", "failed", "request", "error", "string", "other", "pipe"}

-----------------------------------------------------------------------------
(* gin: Next, Abort, and a handler's return to the loop that called it *)

Busy == stack # <<>> /\ panic = Nil
Frame == Last(stack)
Handler == chain[Frame.at]
At(stage) == Busy /\ Frame.stage = stage
Stage(stage) == stack' = [stack EXCEPT ![Len(stack)].stage = stage]

CallNext == Stage("loop") /\ index' = index + 1
Return == stack' = Front(stack) /\ index' = index + 1
AbortAndReturn == stack' = Front(stack) /\ index' = AbortIndex + 1

Note(mark) == trace' = Append(trace, [mark |-> mark, who |-> Handler])

Panics(value) ==
  /\ panic' = value
  /\ Note(value)
  /\ gone' = (gone \/ value = "pipe")
  /\ UNCHANGED <<chain, index, stack, answers, dropped>>

\* A response is written, then `returning`; or writing it fails.
Renders(mark, returning) ==
  \/ /\ ~gone
     /\ answers' = answers + 1
     /\ returning
     /\ Note(mark)
     /\ UNCHANGED <<chain, panic, gone, dropped>>
  \/ Panics("pipe")

Invoke ==
  /\ At("loop") /\ index <= Len(chain)
  /\ LET h == chain[index] IN
     IF h \in {"logger", "recovery"}
     THEN /\ stack' = Append(stack, [at |-> index, stage |-> "loop"])
          /\ index' = index + 1
     ELSE /\ stack' = Append(stack, [at |-> index,
                        stage |-> IF h \in Middlewares THEN "before" ELSE "request"])
          /\ UNCHANGED index
  /\ UNCHANGED <<chain, panic, answers, gone, dropped, trace>>

\* Mutant: an aborted request skips what is left of the middlewares.
LoopEndSkipping ==
  /\ At("loop") /\ index > Len(chain)
  /\ IF Frame.at = 0 THEN stack' = <<>> /\ UNCHANGED index
     ELSE IF Handler \in Middlewares /\ index < AbortIndex
          THEN Stage("after") /\ UNCHANGED index
     ELSE Return
  /\ UNCHANGED <<chain, panic, answers, gone, dropped, trace>>

\* Mutant: the middleware is processed for a phase that there is not.
LoopEndInvalidPhase ==
  /\ At("loop") /\ index > Len(chain)
  /\ IF Frame.at = 0 THEN stack' = <<>> /\ UNCHANGED index
     ELSE IF Handler \in Middlewares THEN Stage("invalid phase") /\ UNCHANGED index
     ELSE Return
  /\ UNCHANGED <<chain, panic, answers, gone, dropped, trace>>

\* Next returns to the engine, to a middleware, or to the logger or Recovery,
\* which have no more to do.
LoopEnd ==
  /\ At("loop") /\ index > Len(chain)
  /\ IF Frame.at = 0 THEN stack' = <<>> /\ UNCHANGED index
     ELSE IF Handler \in Middlewares THEN Stage("after") /\ UNCHANGED index
     ELSE Return
  /\ UNCHANGED <<chain, panic, answers, gone, dropped, trace>>

-----------------------------------------------------------------------------
(* MiddlewareHandler and ControllerHandler *)

\* Mutant: Abort is not called.
BeforeGoingOn ==
  /\ At("before")
  /\ \/ Note("passed") /\ CallNext /\ UNCHANGED <<chain, panic, answers, gone, dropped>>
     \/ Renders("refused", Return)

Before ==
  /\ At("before")
  /\ \/ Note("passed") /\ CallNext /\ UNCHANGED <<chain, panic, answers, gone, dropped>>
     \/ /\ Handler \in Denying
        /\ Note("waived") /\ CallNext
        /\ UNCHANGED <<chain, panic, answers, gone, dropped>>
     \/ Handler \notin Denying /\ Renders("refused", AbortAndReturn)
     \/ \E v \in PanicValues : Panics(v)

After ==
  /\ At("after")
  /\ \/ Note("after") /\ Return /\ UNCHANGED <<chain, panic, answers, gone, dropped>>
     \/ AfterFails /\ Handler \in Allowing /\ Renders("failed", AbortAndReturn)
     \/ AfterFails /\ \E v \in PanicValues : Panics(v)

\* The response of the controller or that of its error.
Request ==
  /\ At("request")
  /\ Renders("request", Return) \/ \E v \in PanicValues : Panics(v)

-----------------------------------------------------------------------------
(* Recovery *)

Depth == {i \in DOMAIN stack : stack[i].at # 0 /\ chain[stack[i].at] = "recovery"}

\* Mutant: a string is aborted and not answered.
RecoverSilent ==
  /\ panic # Nil
  /\ \E i \in Depth :
       /\ stack' = SubSeq(stack, 1, i - 1)
       /\ panic' = Nil /\ index' = AbortIndex + 1
       /\ answers' = IF panic = "error" THEN answers + 1 ELSE answers
  /\ UNCHANGED <<chain, gone, dropped, trace>>

\* Mutant: strings are not dealt with and go on.
RecoverErrorsOnly ==
  /\ panic # Nil
  /\ \E i \in Depth :
       /\ stack' = SubSeq(stack, 1, i - 1)
       /\ index' = AbortIndex + 1
       /\ IF panic = "string" THEN UNCHANGED <<panic, answers>>
          ELSE panic' = Nil /\ answers' = answers + 1
  /\ UNCHANGED <<chain, gone, dropped, trace>>

\* Mutant: an answer that fails is tried again, without end if the client has left.
RecoverRetrying ==
  /\ panic # Nil
  /\ \E i \in Depth :
       \/ /\ panic = "pipe" \/ ~gone
          /\ stack' = SubSeq(stack, 1, i - 1) /\ panic' = Nil
          /\ index' = IF panic = "other" THEN index + 1 ELSE AbortIndex + 1
          /\ answers' = IF panic = "pipe" THEN answers ELSE answers + 1
          /\ UNCHANGED gone
       \/ panic # "pipe" /\ gone' = TRUE /\ UNCHANGED <<stack, panic, answers, index>>
  /\ UNCHANGED <<chain, dropped, trace>>

\* The frames up to Recovery are gone.  A broken pipe is not answered; a value
\* that is neither an error nor a string is, but without Abort, so that the loop
\* outside of Recovery goes on with the next handler.  To render can fail again.
Recover ==
  /\ panic # Nil
  /\ \E i \in Depth :
       /\ stack' = SubSeq(stack, 1, i - 1)
       /\ \/ /\ panic = "pipe"
             /\ panic' = Nil /\ index' = AbortIndex + 1
             /\ UNCHANGED <<answers, gone>>
          \/ /\ panic # "pipe" /\ ~gone
             /\ panic' = Nil /\ answers' = answers + 1
             /\ index' = IF panic = "other" THEN index + 1 ELSE AbortIndex + 1
             /\ UNCHANGED gone
          \/ /\ panic # "pipe"
             /\ panic' = "pipe" /\ gone' = TRUE
             /\ UNCHANGED <<answers, index>>
  /\ UNCHANGED <<chain, dropped, trace>>

\* No frame of Recovery is left.
Drop ==
  /\ panic # Nil /\ Depth = {}
  /\ stack' = <<>> /\ panic' = Nil /\ dropped' = TRUE
  /\ UNCHANGED <<chain, index, answers, gone, trace>>

-----------------------------------------------------------------------------
\* gin has found the route of a request.
Start(ch) ==
  /\ stack = <<>>
  /\ chain' = ch
  /\ index' = 1
  /\ stack' = <<[at |-> 0, stage |-> "loop"]>>
  /\ answers' = 0 /\ gone' = FALSE /\ dropped' = FALSE /\ trace' = <<>>
  /\ UNCHANGED panic

Handle == Invoke \/ LoopEnd \/ Before \/ After \/ Request \/ Recover \/ Drop

Init ==
  /\ chain = <<>> /\ index = 1 /\ stack = <<>> /\ panic = Nil
  /\ answers = 0 /\ gone = FALSE /\ dropped = FALSE /\ trace = <<>>

Serve == WellFormed(chain') /\ Start(chain')

Next == Serve \/ Handle

Spec == Init /\ [][Next]_vars
-----------------------------------------------------------------------------
(* Properties *)

\* Every variable keeps its shape.
TypeOK ==
  /\ chain = <<>> \/ WellFormed(chain)
  /\ index \in 1 .. 2 * AbortIndex  \* c.index is an int8 and must not wrap round
  /\ stack \in Seq([at : 0 .. Len(chain), stage : {"loop", "before", "after", "request"}])
  /\ panic \in PanicValues \cup {Nil, "pipe"}
  /\ answers \in Nat
  /\ gone \in BOOLEAN /\ dropped \in BOOLEAN
  /\ trace \in Seq([mark : Marks, who : Handlers])

Happened(mark) == \E i \in DOMAIN trace : trace[i].mark = mark
Did(who, marks) == {i \in DOMAIN trace : trace[i].who = who /\ trace[i].mark \in marks}
Whos(marks) ==
  LET events == Kept(trace, {i \in DOMAIN trace : trace[i].mark \in marks}) IN
  [i \in DOMAIN events |-> events[i].who]

\* A controller runs only for a request that every middleware of the route
\* has let through, unless a handler panicked with a value for which Recovery
\* does not abort (processMiddlewareFunc, CombineRouters, RecoveryWithLogger).
ControllerGuarded ==
  \A i \in DOMAIN trace :
    trace[i].mark = "request" =>
      \/ Happened("other")
      \/ \A m \in ToSet(chain) \cap Middlewares :
           \E k \in Did(m, {"passed", "waived"}) : k < i

\* After runs once for each middleware that let the request through, from the
\* inside out, even if another middleware refused the request; only a panic
\* cuts this short (MiddlewareHandler).
AfterMirrorsBefore ==
  stack = <<>> /\ (\A v \in {"error", "string", "other", "pipe"} : ~Happened(v)) =>
    Whos({"after", "failed"}) = Reverse(Whos({"passed", "waived"}))

\* A panic takes the connection down only if the client has left or if an
\* earlier panic was not aborted: after Recovery nothing runs unprotected.
PanicContained == dropped => gone \/ Happened("other")

\* A client that stays gets a response if the route has a controller at all,
\* and just one: of the controller, of its error, of the middleware that refused
\* the request, or of Recovery.  A second takes a second controller, an After
\* that fails or panics, or a panic that Recovery does not abort
\* (ControllerHandler, MiddlewareHandler, Recovery).
AnsweredOnce ==
  stack = <<>> /\ chain # <<>> /\ ~gone =>
    /\ ToSet(chain) \cap Controllers # {} => answers >= 1
    /\ answers > 1 =>
         \/ Cardinality(ToSet(chain) \cap Controllers) > 1
         \/ Happened("failed") \/ Happened("other")
         \/ \E i, j \in DOMAIN trace :
              /\ i < j
              /\ trace[i].mark \in {"request", "refused"}
              /\ trace[j].mark \in {"error", "string"}

\* What the index has still to come to.
Ahead == IF index > Len(chain) THEN 0 ELSE Len(chain) + 1 - index

\* A handler that has not called Next is in the stack and ahead; one that is back
\* from Next has only to return.
Credit ==
  CASE Frame.stage = "loop" -> 0 [] Frame.stage = "after" -> 1 [] OTHER -> 4

Work == 5 * Ahead + 3 * Len(stack) - Credit

\* A bound on the steps that are left of a request: between two of its stages a
\* panic can be thrown.
StepsLeft == IF stack = <<>> THEN 0 ELSE 2 * Work + (IF panic = Nil THEN 1 ELSE 0)

\* Every step of a request brings it nearer to its end, for which there are at
\* most 10 * Len(chain) + 7: no refusal, panic or answer of Recovery that fails
\* winds the handlers back (MiddlewareHandler, RecoveryWithLogger).
RunsDown == [][stack # <<>> => StepsLeft' \in 0 .. StepsLeft - 1]_vars
=============================================================================
