-------------------------------- MODULE Trie --------------------------------
(***************************************************************************)
(* The concurrent trie (primer/p0_trie).  A node is named by the path of   *)
(* key characters that leads to it, the root by the empty path; it is      *)
(* plain (a TrieNode) or ends a key (a TrieNodeWithValue<T>).  Every       *)
(* operation runs under latch_ from beginning to end and is one step.      *)
(*                                                                         *)
(* The node Insert and Remove put in the place of another is built by the  *)
(* move constructor, which takes over the children: paths below the node   *)
(* stay.                                                                   *)
(***************************************************************************)
EXTENDS Integers, Sequences

CONSTANTS Chars,             \* the key characters
          Keys,              \* the strings callers use, as sequences
          Types, Values,
          NoType, NoValue    \* the type and value of a plain node

ASSUME TrieAssumption ==
  /\ Keys \subseteq Seq(Chars)
  /\ NoType \notin Types /\ NoValue \notin Values

VARIABLES nodes,   \* path -> node
          ret      \* the last call: its name, key, success and value

vars == <<nodes, ret>>

TrieNode == [is_end |-> FALSE, type |-> NoType, value |-> NoValue]
TrieNodeWithValue(t, v) == [is_end |-> TRUE, type |-> t, value |-> v]

Result(op, k, ok, v) == [op |-> op, key |-> k, ok |-> ok, value |-> v]

Init ==
  /\ nodes = [p \in {<<>>} |-> TrieNode]
  /\ ret = Result("init", <<>>, TRUE, NoValue)

-----------------------------------------------------------------------------
Prefix(k, n) == SubSeq(k, 1, n)
Parent(p) == Prefix(p, Len(p) - 1)

(* The nodes GetNodeWithLen passes, and with insert creates, on the way *)
Path(k, len) == {Prefix(k, i) : i \in 0 .. len}

(* GetNodeWithLen without insert finds a node *)
Reaches(k, len) == Path(k, len) \subseteq DOMAIN nodes

(* Mutant: a node that is removed is not asked for its children *)
HasChildrenNever(p) == FALSE

HasChildren(p) == \E q \in DOMAIN nodes : Len(q) = Len(p) + 1 /\ Parent(q) = p

(* The trie with a node at k, new or in the place of the one there *)
WithNode(k, node) ==
  [p \in DOMAIN nodes \cup Path(k, Len(k)) |->
     IF p = k THEN node ELSE IF p \in DOMAIN nodes THEN nodes[p] ELSE TrieNode]

(* The terminal node exists and dynamic_cast takes it for TrieNodeWithValue<t> *)
Holds(k, t) == Reaches(k, Len(k)) /\ nodes[k].is_end /\ nodes[k].type = t

(* Mutant: an existing value is overwritten *)
InsertOverwrites(k, t, v) ==
  LET ok == k # <<>>
  IN /\ nodes' = IF ok THEN WithNode(k, TrieNodeWithValue(t, v)) ELSE nodes
     /\ ret' = Result("insert", k, ok, NoValue)

Insert(k, t, v) ==
  LET ok == k # <<>> /\ ~Holds(k, t)
  IN /\ nodes' = IF ok THEN WithNode(k, TrieNodeWithValue(t, v)) ELSE nodes
     /\ ret' = Result("insert", k, ok, NoValue)

Remove(k) ==
  LET ok == k # <<>> /\ Reaches(k, Len(k)) /\ nodes[k].is_end
  IN /\ nodes' = IF ~ok THEN nodes
                 ELSE IF HasChildren(k) THEN WithNode(k, TrieNode)
                 ELSE [p \in DOMAIN nodes \ {k} |-> nodes[p]]
     /\ ret' = Result("remove", k, ok, NoValue)

GetValue(k, t) ==
  LET ok == k # <<>> /\ Holds(k, t)
  IN /\ ret' = Result("get", k, ok, IF ok THEN nodes[k].value ELSE NoValue)
     /\ UNCHANGED nodes

Next ==
  \E k \in Keys :
    \/ Remove(k)
    \/ \E t \in Types : GetValue(k, t) \/ \E v \in Values : Insert(k, t, v)

Spec == Init /\ [][Next]_vars

-----------------------------------------------------------------------------
(* Nodes and results have their types; the root is plain. *)
TypeOK ==
  /\ \A p \in DOMAIN nodes :
       nodes[p] \in {TrieNode} \cup {TrieNodeWithValue(t, v) : t \in Types, v \in Values}
  /\ <<>> \in DOMAIN nodes /\ ~nodes[<<>>].is_end
  /\ ret.value \in Values \cup {NoValue}

(* Every node is reached from the root, through any order of inserts and     *)
(* removes of keys that are prefixes of each other: no key is cut off.       *)
Connected == \A p \in DOMAIN nodes : Reaches(p, Len(p))

Terminals == {p \in DOMAIN nodes : nodes[p].is_end}

Store == INSTANCE TypedStore WITH store <- [p \in Terminals |-> <<nodes[p].type, nodes[p].value>>]

(* Seen through its terminal nodes the trie is the store its comments        *)
(* describe: same answers, and no call changes the value of another key.     *)
ImplementsStore == Store!Spec
=============================================================================
