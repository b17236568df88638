----------------------- MODULE MCExtendibleHashTable -----------------------
(* Instances of ExtendibleHashTable: std::hash<int> is the identity.       *)
EXTENDS ExtendibleHashTable

IdentityHash == [k \in Keys |-> k]
=============================================================================
