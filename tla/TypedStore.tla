----------------------------- MODULE TypedStore -----------------------------
(* What the comments on Trie promise: a store of values of any type under  *)
(* non-empty keys, in which a value is never overwritten.                  *)
EXTENDS Sequences

CONSTANTS Keys, Types, Values, NoValue

VARIABLES store,   \* the keys in use -> type and value
          ret      \* the last call: its name, key, success and value

Result(op, k, ok, v) == [op |-> op, key |-> k, ok |-> ok, value |-> v]

Init == store = [k \in {} |-> NoValue] /\ ret = Result("init", <<>>, TRUE, NoValue)

Insert(k, t, v) ==
  LET ok == k # <<>> /\ k \notin DOMAIN store
  IN /\ ret' = Result("insert", k, ok, NoValue)
     /\ store' = IF ok
                 THEN [j \in DOMAIN store \cup {k} |-> IF j = k THEN <<t, v>> ELSE store[j]]
                 ELSE store

Remove(k) ==
  /\ ret' = Result("remove", k, k \in DOMAIN store, NoValue)
  /\ store' = [j \in DOMAIN store \ {k} |-> store[j]]

GetValue(k, t) ==
  LET ok == k \in DOMAIN store /\ store[k][1] = t
  IN /\ ret' = Result("get", k, ok, IF ok THEN store[k][2] ELSE NoValue)
     /\ UNCHANGED store

Next ==
  \E k \in Keys :
    \/ Remove(k)
    \/ \E t \in Types : GetValue(k, t) \/ \E v \in Values : Insert(k, t, v)

Spec == Init /\ [][Next]_<<store, ret>>
=============================================================================
