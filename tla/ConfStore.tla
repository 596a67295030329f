----------------------------- MODULE ConfStore -----------------------------
(***************************************************************************)
(* What SetConf and GetConf promise together: Tor's configuration is a map *)
(* from keys to values that the one writes and the other reads.  A value   *)
(* may be nil, empty or any text; there are no lines, quotes or escapes.   *)
(***************************************************************************)
EXTENDS Integers, Sequences

CONSTANTS
  Keys,
  Nil,            \* the value of a key that is not set
  Kept(_)         \* the values that are promised to be kept

VARIABLES
  store,
  request,        \* the call's request
  waiting,        \* a call is under way
  effective,      \* its request has taken effect
  torn,           \* the connection has ended within an answer that was taken
  results         \* what the calls so far have returned

vars == <<store, request, waiting, effective, results>>

KeptOf(entry) == [val |-> entry.val, valSetAndEmpty |-> entry.valSetAndEmpty]

Init ==
  /\ store = [k \in Keys |-> Nil]
  /\ waiting = FALSE /\ effective = FALSE /\ results = <<>>

Ask ==
  /\ ~waiting /\ waiting' = TRUE /\ effective' = FALSE
  /\ UNCHANGED <<store, results>>

\* A call of another method that returns at once.
Refuse(result) ==
  /\ ~waiting
  /\ request'.op \notin {"SetConf", "GetConf"}
  /\ results' = Append(results, result)
  /\ UNCHANGED <<store, waiting, effective>>

\* A request takes effect once, between its call and the call's return.
TakeEffect ==
  /\ waiting /\ ~effective /\ effective' = TRUE
  /\ IF request.op = "SetConf"
     THEN LET entry == request.entries[1]
          IN /\ DOMAIN store' = Keys
             /\ \A k \in Keys \ {entry.key} : store'[k] = store[k]
             /\ Kept(entry.val) => store'[entry.key] = KeptOf(entry)
     ELSE UNCHANGED store
  /\ UNCHANGED <<request, waiting, results>>

\* A call that the connection did not fail has taken effect, and GetConf
\* returns the key with its value, or, once, what has come of it.
Return(result) ==
  /\ waiting /\ waiting' = FALSE
  /\ results' = Append(results, result)
  /\ result.err = "" /\ request.op \in {"SetConf", "GetConf"} => effective
  /\ request.op = "GetConf" /\ result.err # "read" /\ (torn' => torn) =>
       LET key == request.keys[1]
       IN Kept(store[key].val) =>
            /\ result.err = ""
            /\ result.val = <<[key |-> key, val |-> store[key].val,
                               valSetAndEmpty |-> store[key].valSetAndEmpty]>>
  /\ UNCHANGED <<store, request, effective>>

Next ==
  \/ Ask \/ TakeEffect
  \/ /\ Len(results') > 0
     /\ Return(results'[Len(results')]) \/ Refuse(results'[Len(results')])

Spec == Init /\ [][Next]_vars
=============================================================================
