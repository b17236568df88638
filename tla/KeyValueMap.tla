---------------------------- MODULE KeyValueMap ----------------------------
(***************************************************************************)
(* What a hash table of the container library promises its callers (the    *)
(* HashTable interface): a dictionary whose operations take effect one at  *)
(* a time.  ret is the outcome of the last completed call.                 *)
(***************************************************************************)
CONSTANTS Keys, Values, NoValue

VARIABLES map, ret

Outcome(op, key, res) == [op |-> op, key |-> key, res |-> res]

Init ==
  /\ map = [k \in Keys |-> NoValue]
  /\ ret = Outcome("none", NoValue, NoValue)

Find(k) ==
  /\ ret' = Outcome("find", k, map[k])
  /\ UNCHANGED map

Insert(k, v) ==
  /\ map' = [map EXCEPT ![k] = v]
  /\ ret' = Outcome("insert", k, v)

Remove(k) ==
  /\ map' = [map EXCEPT ![k] = NoValue]
  /\ ret' = Outcome("remove", k, map[k] # NoValue)

Next ==
  \E k \in Keys :
    \/ Find(k)
    \/ Remove(k)
    \/ \E v \in Values : Insert(k, v)

Spec == Init /\ [][Next]_<<map, ret>>
=============================================================================
