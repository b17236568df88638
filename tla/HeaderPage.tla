----------------------------- MODULE HeaderPage -----------------------------
(***************************************************************************)
(* The header page (storage/page/header_page): a count, then records of a  *)
(* name and a root page id, as operations on the cells of a page.  The     *)
(* first cell holds the count; cell 1 + i, the i-th record.  A name is a   *)
(* number, and the name of a zero cell is that of no index.                *)
(***************************************************************************)
EXTENDS Integers, Sequences

GetRecordCount(h) == h[1][1]
SetRecordCount(h, n) == [h EXCEPT ![1] = <<n, 0>>]

(* The first record of the name, from 1, or 0 *)
FindRecord(h, name) ==
  LET found == {i \in 1 .. GetRecordCount(h) : h[1 + i][1] = name}
  IN IF found = {} THEN 0 ELSE CHOOSE i \in found : \A j \in found : i <= j

HasRecord(h, name) == FindRecord(h, name) # 0

(* There is room: InsertRecord does not look *)
HasRoom(h) == 1 + GetRecordCount(h) < Len(h)

InsertRecord(h, name, root_id) ==
  IF HasRecord(h, name) THEN h
  ELSE SetRecordCount([h EXCEPT ![2 + GetRecordCount(h)] = <<name, root_id>>], GetRecordCount(h) + 1)

(* Mutant: the last record is not moved *)
DeleteRecordShort(h, name) ==
  LET i == FindRecord(h, name)
      n == GetRecordCount(h)
  IN IF i = 0 THEN h
     ELSE SetRecordCount([k \in DOMAIN h |-> IF k \in 1 + i .. n - 1 THEN h[k + 1] ELSE h[k]], n - 1)

(* What is behind the last record stays behind it *)
DeleteRecord(h, name) ==
  LET i == FindRecord(h, name)
      n == GetRecordCount(h)
  IN IF i = 0 THEN h
     ELSE SetRecordCount([k \in DOMAIN h |-> IF k \in 1 + i .. n THEN h[k + 1] ELSE h[k]], n - 1)

(* Only the root id is written *)
UpdateRecord(h, name, root_id) ==
  IF HasRecord(h, name) THEN [h EXCEPT ![1 + FindRecord(h, name)] = <<@[1], root_id>>] ELSE h

(* -2, which is no page id, if there is no record *)
GetRootId(h, name) == IF HasRecord(h, name) THEN h[1 + FindRecord(h, name)][2] ELSE -2
=============================================================================
