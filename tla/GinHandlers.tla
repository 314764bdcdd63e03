----------------------------- MODULE GinHandlers ----------------------------
(* The functions that handle requests, and the chains of them that gin     *)
(* runs.                                                                   *)
EXTENDS Integers, Sequences, FiniteSets

CONSTANTS
  Middlewares, Controllers,  \* functions, told apart by their names
  AbortIndex                 \* gin's abortIndex, counted from 1: 64

ASSUME HandlersAssumption ==
  /\ Middlewares \cap Controllers = {}
  /\ {"logger", "recovery"} \cap (Middlewares \cup Controllers) = {}
  /\ AbortIndex \in Nat \ {0}

Handlers == {"logger", "recovery"} \cup Middlewares \cup Controllers

\* The elements of s at its places I, in their order.
Place(I, n) == CHOOSE i \in I : Cardinality({j \in I : j <= i}) = n
Kept(s, I) == [n \in 1 .. Cardinality(I) |-> s[Place(I, n)]]

\* gin's combineHandlers panics unless the chain ends well before abortIndex.
Fits(length) == length < AbortIndex - 1

\* Logger and Recovery first, middlewares before controllers.
WellFormed(ch) ==
  /\ ch \in Seq(Handlers) /\ Fits(Len(ch))
  /\ Len(ch) >= 2 /\ ch[1] = "logger" /\ ch[2] = "recovery"
  /\ \A i \in 3 .. Len(ch) : ch[i] \in Middlewares \cup Controllers
  /\ \A i, j \in 1 .. Len(ch) : i < j /\ ch[i] \in Controllers => ch[j] \in Controllers
=============================================================================
