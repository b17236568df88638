----------------------------- MODULE TrieProofs -----------------------------
(***************************************************************************)
(* For every set of keys, types and values: the trie stays connected, and  *)
(* used with values of one type it implements the store of its comments.   *)
(***************************************************************************)
EXTENDS Trie, TLAPS

(* Prefixes of a key are sequences of their length ... *)
LEMMA PrefixType ==
  ASSUME NEW k \in Seq(Chars), NEW n \in 0 .. Len(k)
  PROVE  /\ Prefix(k, n) \in Seq(Chars)
         /\ Len(Prefix(k, n)) = n
         /\ \A i \in 1 .. n : Prefix(k, n)[i] = k[i]
  BY DEF Prefix

(* ... the longest is the key itself ... *)
LEMMA PrefixFull ==
  ASSUME NEW k \in Seq(Chars)
  PROVE  Prefix(k, Len(k)) = k
  BY DEF Prefix

(* ... and a prefix of a prefix is a prefix. *)
LEMMA PrefixPrefix ==
  ASSUME NEW k \in Seq(Chars), NEW n \in 0 .. Len(k), NEW m \in 0 .. n
  PROVE  Prefix(Prefix(k, n), m) = Prefix(k, m)
  BY DEF Prefix

(* The nodes' names are paths; with it TypeOK and Connected are inductive. *)
Inv == TypeOK /\ Connected /\ DOMAIN nodes \subseteq Seq(Chars)

LEMMA PathType ==
  ASSUME NEW k \in Seq(Chars)
  PROVE  Path(k, Len(k)) \subseteq Seq(Chars) /\ k \in Path(k, Len(k)) /\ <<>> \in Path(k, Len(k))
  <1>1. \A i \in 0 .. Len(k) : Prefix(k, i) \in Seq(Chars)
    BY PrefixType
  <1>2. Prefix(k, Len(k)) = k /\ Len(k) \in 0 .. Len(k)
    BY PrefixFull
  <1>3. Prefix(k, 0) = <<>> /\ 0 \in 0 .. Len(k)
    BY DEF Prefix
  <1> QED
    BY <1>1, <1>2, <1>3 DEF Path

(* The paths of the prefixes of a path are part of it *)
LEMMA PathClosed ==
  ASSUME NEW k \in Seq(Chars), NEW p \in Path(k, Len(k))
  PROVE  Path(p, Len(p)) \subseteq Path(k, Len(k))
  <1>1. PICK n \in 0 .. Len(k) : p = Prefix(k, n)
    BY DEF Path
  <1>2. Len(p) = n
    BY <1>1, PrefixType
  <1>3. \A m \in 0 .. n : Prefix(p, m) = Prefix(k, m)
    BY <1>1, PrefixPrefix
  <1> QED
    BY <1>2, <1>3 DEF Path

(* In a connected trie a terminal is found iff its node exists *)
LEMMA ReachesNode ==
  ASSUME Inv, NEW k \in Seq(Chars)
  PROVE  Reaches(k, Len(k)) <=> k \in DOMAIN nodes
  BY PathType DEF Inv, Connected, Reaches

LEMMA InitInv == Init => Inv
  <1> SUFFICES ASSUME Init PROVE Inv
    OBVIOUS
  <1>1. DOMAIN nodes = {<<>>} /\ nodes[<<>>] = TrieNode /\ ret.value = NoValue
    BY DEF Init, Result
  <1>2. TypeOK
    BY <1>1 DEF TypeOK, TrieNode
  <1>3. <<>> \in Seq(Chars) /\ Len(<<>>) = 0 /\ Prefix(<<>>, 0) = <<>>
    BY DEF Prefix
  <1>4. Connected
    BY <1>1, <1>3 DEF Connected, Reaches, Path
  <1> QED
    BY <1>1, <1>2, <1>3, <1>4 DEF Inv

(* Putting a node into the trie keeps it connected *)
LEMMA WithNodeInv ==
  ASSUME Inv, NEW k \in Seq(Chars), k # <<>>,
         NEW node \in {TrieNode} \cup {TrieNodeWithValue(t, v) : t \in Types, v \in Values},
         nodes' = WithNode(k, node), ret'.value \in Values \cup {NoValue}
  PROVE  Inv'
  <1>1. DOMAIN nodes' = DOMAIN nodes \cup Path(k, Len(k))
    BY DEF WithNode
  <1>2. \A p \in DOMAIN nodes' :
          nodes'[p] = IF p = k THEN node ELSE IF p \in DOMAIN nodes THEN nodes[p] ELSE TrieNode
    BY <1>1 DEF WithNode
  <1>3. TypeOK'
    BY <1>1, <1>2 DEF TypeOK, Inv
  <1>4. \A p \in DOMAIN nodes' : Path(p, Len(p)) \subseteq DOMAIN nodes'
    BY <1>1, PathClosed DEF Inv, Connected, Reaches
  <1>5. DOMAIN nodes' \subseteq Seq(Chars)
    BY <1>1, PathType DEF Inv
  <1> QED
    BY <1>3, <1>4, <1>5 DEF Inv, Connected, Reaches

(* So does taking out a node that has no children *)
LEMMA WithoutNodeInv ==
  ASSUME Inv, NEW k \in DOMAIN nodes, k # <<>>, ~HasChildren(k),
         nodes' = [p \in DOMAIN nodes \ {k} |-> nodes[p]], ret'.value \in Values \cup {NoValue}
  PROVE  Inv'
  <1>1. TypeOK' /\ DOMAIN nodes' \subseteq Seq(Chars)
    BY DEF TypeOK, Inv
  <1>2. ASSUME NEW p \in DOMAIN nodes, p # k, NEW n \in 0 .. Len(p), Prefix(p, n) = k
        PROVE  FALSE
    <2>1. p \in Seq(Chars) /\ k \in Seq(Chars)
      BY DEF Inv
    <2>2. Len(k) = n
      BY <1>2, <2>1, PrefixType
    <2>3. n # Len(p)
      BY <1>2, <2>1, PrefixFull
    <2>4. n + 1 \in 0 .. Len(p)
      BY <2>1, <2>3
    <2> DEFINE q == Prefix(p, n + 1)
    <2>5. q \in DOMAIN nodes
      BY <2>4 DEF Inv, Connected, Reaches, Path
    <2>6. Len(q) = Len(k) + 1
      BY <2>1, <2>2, <2>4, PrefixType
    <2>7. Prefix(q, n) = k
      BY <1>2, <2>1, <2>4, PrefixPrefix
    <2>8. Parent(q) = k
      BY <2>2, <2>6, <2>7, <2>1 DEF Parent
    <2> QED
      BY <2>5, <2>6, <2>8 DEF HasChildren
  <1>3. Connected'
    BY <1>2 DEF Inv, Connected, Reaches, Path
  <1> QED
    BY <1>1, <1>3 DEF Inv

(* One step per operation *)
LEMMA NextInv == Inv /\ [Next]_vars => Inv'
  <1> SUFFICES ASSUME Inv, [Next]_vars PROVE Inv'
    OBVIOUS
  <1> USE TrieAssumption
  <1>1. ASSUME NEW k \in Keys, NEW t \in Types, NEW v \in Values, Insert(k, t, v)
        PROVE  Inv'
    <2>1. ret'.value \in Values \cup {NoValue}
      BY <1>1 DEF Insert, Result
    <2>2. CASE k # <<>> /\ ~Holds(k, t)
      <3>1. nodes' = WithNode(k, TrieNodeWithValue(t, v))
        BY <1>1, <2>2 DEF Insert
      <3> QED
        BY <2>1, <2>2, <3>1, WithNodeInv
    <2>3. CASE ~(k # <<>> /\ ~Holds(k, t))
      <3>1. nodes' = nodes
        BY <1>1, <2>3 DEF Insert
      <3> QED
        BY <2>1, <3>1 DEF Inv, TypeOK, Connected, Reaches
    <2> QED
      BY <2>2, <2>3
  <1>2. ASSUME NEW k \in Keys, Remove(k)
        PROVE  Inv'
    <2>1. ret'.value \in Values \cup {NoValue}
      BY <1>2 DEF Remove, Result
    <2> DEFINE ok == k # <<>> /\ Reaches(k, Len(k)) /\ nodes[k].is_end
    <2>2. CASE ~ok
      <3>1. nodes' = nodes
        BY <1>2, <2>2 DEF Remove
      <3> QED
        BY <2>1, <3>1 DEF Inv, TypeOK, Connected, Reaches
    <2>3. CASE ok /\ HasChildren(k)
      <3>1. nodes' = WithNode(k, TrieNode)
        BY <1>2, <2>3 DEF Remove
      <3> QED
        BY <2>1, <2>3, <3>1, WithNodeInv
    <2>4. CASE ok /\ ~HasChildren(k)
      <3>1. nodes' = [p \in DOMAIN nodes \ {k} |-> nodes[p]]
        BY <1>2, <2>4 DEF Remove
      <3>2. k \in DOMAIN nodes
        BY <2>4, ReachesNode
      <3> QED
        BY <2>1, <2>4, <3>1, <3>2, WithoutNodeInv
    <2> QED
      BY <2>2, <2>3, <2>4
  <1>3. ASSUME NEW k \in Keys, NEW t \in Types, GetValue(k, t)
        PROVE  Inv'
    <2>1. nodes' = nodes
      BY <1>3 DEF GetValue
    <2>2. ret'.value \in Values \cup {NoValue}
      <3>1. CASE k # <<>> /\ Holds(k, t)
        <4>1. k \in DOMAIN nodes /\ nodes[k].is_end
          BY <3>1, ReachesNode DEF Holds
        <4>2. nodes[k].value \in Values
          BY <4>1 DEF Inv, TypeOK, TrieNode, TrieNodeWithValue
        <4> QED
          BY <1>3, <3>1, <4>2 DEF GetValue, Result
      <3>2. CASE ~(k # <<>> /\ Holds(k, t))
        BY <1>3, <3>2 DEF GetValue, Result
      <3> QED
        BY <3>1, <3>2
    <2> QED
      BY <2>1, <2>2 DEF Inv, TypeOK, Connected, Reaches
  <1>4. CASE UNCHANGED vars
    BY <1>4 DEF vars, Inv, TypeOK, Connected, Reaches
  <1> QED
    BY <1>1, <1>2, <1>3, <1>4 DEF Next

LEMMA InvAlways == Spec => []Inv
  BY InitInv, NextInv, PTL DEF Spec

(* Nodes keep their types, the root stays plain and GetValue only answers   *)
(* with values that were inserted or none.                                  *)
THEOREM TrieTypeCorrect == Spec => []TypeOK
  <1>1. Inv => TypeOK
    BY DEF Inv
  <1> QED
    BY <1>1, InvAlways, PTL

(* Whatever keys are inserted and removed, in whatever order, every node of *)
(* the trie is reached from the root: Remove of a key never cuts off the    *)
(* longer keys below it.                                                    *)
THEOREM TrieConnected == Spec => []Connected
  <1>1. Inv => Connected
    BY DEF Inv
  <1> QED
    BY <1>1, InvAlways, PTL

-----------------------------------------------------------------------------
(* With values of one type only, a key is held iff its node is terminal *)
OneType == \A s, t \in Types : s = t

LEMMA HoldsTerminal ==
  ASSUME OneType, Inv, NEW k \in Keys, NEW t \in Types
  PROVE  Holds(k, t) <=> k \in Terminals
  <1>1. k \in Seq(Chars)
    BY TrieAssumption
  <1>2. Reaches(k, Len(k)) <=> k \in DOMAIN nodes
    BY <1>1, ReachesNode
  <1>3. ASSUME k \in DOMAIN nodes, nodes[k].is_end
        PROVE  nodes[k].type = t
    BY <1>3 DEF Inv, TypeOK, TrieNode, TrieNodeWithValue, OneType
  <1> QED
    BY <1>2, <1>3 DEF Holds, Terminals

(* The store the trie stands for, the state of the abstract specification *)
Map == [p \in Terminals |-> <<nodes[p].type, nodes[p].value>>]

(* The empty key, the root's, is never terminal *)
LEMMA RootPlain == Inv => <<>> \notin Terminals
  BY DEF Inv, TypeOK, Terminals

LEMMA InitStore == Init => Store!Init
  <1> SUFFICES ASSUME Init PROVE Store!Init
    OBVIOUS
  <1>1. Terminals = {}
    BY DEF Init, Terminals, TrieNode
  <1> QED
    BY <1>1 DEF Store!Init, Init, Result, Store!Result

LEMMA InsertStore ==
  ASSUME OneType, Inv, NEW k \in Keys, NEW t \in Types, NEW v \in Values, Insert(k, t, v)
  PROVE  Store!Insert(k, t, v)
  <1>1. Holds(k, t) <=> k \in DOMAIN Map
    BY HoldsTerminal DEF Map
  <1>2. CASE k # <<>> /\ k \notin DOMAIN Map
    <2>1. nodes' = WithNode(k, TrieNodeWithValue(t, v))
      BY <1>1, <1>2 DEF Insert
    <2>2. k \in Path(k, Len(k))
      BY PathType, TrieAssumption
    <2>3. Terminals' = Terminals \cup {k}
      BY <2>1, <2>2 DEF Terminals, WithNode, TrieNode, TrieNodeWithValue
    <2>4. \A p \in Terminals' : nodes'[p] = IF p = k THEN TrieNodeWithValue(t, v) ELSE nodes[p]
      BY Zenon, <2>1, <2>2, <2>3 DEF Terminals, WithNode
    <2>5. Map' = [j \in DOMAIN Map \cup {k} |-> IF j = k THEN <<t, v>> ELSE Map[j]]
      BY <2>3, <2>4 DEF Map, TrieNodeWithValue
    <2> QED
      BY Zenon, <1>1, <1>2, <2>5 DEF Insert, Store!Insert, Map, Result, Store!Result
  <1>3. CASE ~(k # <<>> /\ k \notin DOMAIN Map)
    <2>1. Map' = Map
      BY <1>1, <1>3 DEF Insert, Map, Terminals
    <2> QED
      BY <1>1, <1>3, <2>1 DEF Insert, Store!Insert, Map, Result, Store!Result
  <1> QED
    BY <1>2, <1>3

LEMMA RemoveStore ==
  ASSUME Inv, NEW k \in Keys, Remove(k)
  PROVE  Store!Remove(k)
  <1> DEFINE ok == k # <<>> /\ Reaches(k, Len(k)) /\ nodes[k].is_end
  <1>1. ok <=> k \in DOMAIN Map
    BY TrieAssumption, ReachesNode, RootPlain DEF Map, Terminals
  <1>2. Map' = [j \in DOMAIN Map \ {k} |-> Map[j]]
    <2>1. CASE ~ok
      BY <1>1, <2>1 DEF Remove, Map, Terminals
    <2>2. CASE ok /\ HasChildren(k)
      <3>1. nodes' = WithNode(k, TrieNode)
        BY <2>2 DEF Remove
      <3>2. Terminals' = Terminals \ {k}
        BY <3>1 DEF Terminals, WithNode, TrieNode
      <3>3. \A p \in Terminals' : nodes'[p] = nodes[p]
        BY Zenon, <3>1, <3>2 DEF Terminals, WithNode
      <3> QED
        BY <3>2, <3>3 DEF Map
    <2>3. CASE ok /\ ~HasChildren(k)
      <3>1. nodes' = [p \in DOMAIN nodes \ {k} |-> nodes[p]]
        BY <2>3 DEF Remove
      <3>2. Terminals' = Terminals \ {k} /\ \A p \in Terminals' : nodes'[p] = nodes[p]
        BY <3>1 DEF Terminals
      <3> QED
        BY <3>2 DEF Map
    <2> QED
      BY <2>1, <2>2, <2>3
  <1>3. CASE ok
    <2>1. ret' = Store!Result("remove", k, TRUE, NoValue)
      BY Zenon, <1>3 DEF Remove, Result, Store!Result
    <2>2. (k \in DOMAIN Map) = TRUE
      BY <1>1, <1>3
    <2> QED
      BY Zenon, <1>2, <2>1, <2>2 DEF Store!Remove, Map
  <1>4. CASE ~ok
    <2>1. ret' = Store!Result("remove", k, FALSE, NoValue)
      BY Zenon, <1>4 DEF Remove, Result, Store!Result
    <2>2. (k \in DOMAIN Map) = FALSE
      BY <1>1, <1>4
    <2> QED
      BY Zenon, <1>2, <2>1, <2>2 DEF Store!Remove, Map
  <1> QED
    BY <1>3, <1>4

LEMMA GetStore ==
  ASSUME OneType, Inv, NEW k \in Keys, NEW t \in Types, GetValue(k, t)
  PROVE  Store!GetValue(k, t)
  <1>1. Holds(k, t) <=> k \in DOMAIN Map
    BY HoldsTerminal DEF Map
  <1>2. k \in DOMAIN Map => k # <<>> /\ Map[k][1] = t /\ Map[k][2] = nodes[k].value
    BY <1>1, RootPlain DEF Holds, Map
  <1>3. Map' = Map
    BY DEF GetValue, Map, Terminals
  <1> QED
    BY <1>1, <1>2, <1>3 DEF GetValue, Store!GetValue, Map, Result, Store!Result

(* A trie holding values of a single type implements TypedStore: it answers *)
(* every call as the comments on Insert, Remove and GetValue say.  With two *)
(* types it does not, because Insert replaces a value of another type.      *)
THEOREM TrieImplementsStore ==
  ASSUME OneType
  PROVE  Spec => ImplementsStore
  <1>1. Inv /\ [Next]_vars => [Store!Next]_<<Map, ret>>
    <2> SUFFICES ASSUME Inv, [Next]_vars PROVE [Store!Next]_<<Map, ret>>
      OBVIOUS
    <2>1. ASSUME NEW k \in Keys, NEW t \in Types, NEW v \in Values, Insert(k, t, v)
          PROVE  Store!Next
      BY <2>1, InsertStore DEF Store!Next
    <2>2. ASSUME NEW k \in Keys, Remove(k)
          PROVE  Store!Next
      BY <2>2, RemoveStore DEF Store!Next
    <2>3. ASSUME NEW k \in Keys, NEW t \in Types, GetValue(k, t)
          PROVE  Store!Next
      BY <2>3, GetStore DEF Store!Next
    <2>4. CASE UNCHANGED vars
      BY <2>4 DEF vars, Map, Terminals
    <2> QED
      BY <2>1, <2>2, <2>3, <2>4 DEF Next
  <1> QED
    BY <1>1, InitStore, InvAlways, PTL DEF Spec, ImplementsStore, Store!Spec, Map
=============================================================================
