------------------------------- MODULE MCTrie -------------------------------
(* Keys that are prefixes of each other, siblings, and the empty key. *)
EXTENDS Trie

Letters == {"a", "b", "c"}
NestedKeys == {<<>>, <<"a">>, <<"a", "b">>, <<"a", "b", "c">>, <<"a", "c">>, <<"b">>}
=============================================================================
