---------------------------- MODULE OnceRegistry ----------------------------
(***************************************************************************)
(* What the lazily filled globals of the program promise (the map of       *)
(* defined errors, the handles of MySQL, Redis and cron): a value is made  *)
(* once for a key, stays as it is ever after, and is what everybody who    *)
(* asks for the key is given, except for the excuses that an               *)
(* implementation may make.                                                *)
(***************************************************************************)
CONSTANTS Askers, Keys, Values,
          Excuses,  \* what may be given in place of a key's value
          Absent,   \* no value yet
          Unasked   \* no answer yet

VARIABLES
  entry,   \* the value of each key
  answers  \* the last answer that each asker was given, <<key, value>>

rvars == <<entry, answers>>

RegistryInit ==
  /\ entry = [k \in Keys |-> Absent]
  /\ answers = [a \in Askers |-> Unasked]

Make(k) ==
  /\ entry[k] = Absent
  /\ entry'[k] \in Values
  /\ entry' = [entry EXCEPT ![k] = entry'[k]]
  /\ UNCHANGED answers

Give(a, k) ==
  /\ \E v \in {entry[k]} \cup Excuses :
       /\ v # Absent \/ v \in Excuses
       /\ answers' = [answers EXCEPT ![a] = <<k, v>>]
  /\ UNCHANGED entry

RegistryNext == \E k \in Keys : Make(k) \/ \E a \in Askers : Give(a, k)

RegistrySpec == RegistryInit /\ [][RegistryNext]_rvars
=============================================================================
