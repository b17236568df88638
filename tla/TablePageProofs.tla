-------------------------- MODULE TablePageProofs --------------------------
(* TablePage keeps its layout for every page size and every set of tuples,  *)
(* and a page of bytes implements the page of slots of PageSpec: the layout *)
(* first, then the sum of the tuple sizes, then the step simulation.        *)
EXTENDS TablePage, FiniteSetTheorems, WellFoundedInduction, TLAPS

(* Unsigned arithmetic that does not wrap: a word below the modulus is      *)
(* itself.  GetFreeSpaceRemaining is computed in uint32_t.                  *)
LEMMA NoWrap ==
  ASSUME NEW x \in Nat, NEW w \in Nat, x < w
  PROVE  x % w = x
OBVIOUS

(* The free space as the code computes it is the distance between the slot  *)
(* array and the free space pointer.                                        *)
LEMMA FreeSpace ==
  ASSUME TypeOK, LayoutSound
  PROVE  GetFreeSpaceRemaining = free_space_pointer - 24 - 8 * tuple_count
<1> DEFINE x == free_space_pointer - 24 - 8 * tuple_count
<1>1. x \in Nat /\ x < Word /\ Word \in Nat
  BY PageAssumption DEF TypeOK, LayoutSound, SIZE_TABLE_PAGE_HEADER, SIZE_TUPLE
<1>2. x % Word = x
  <2> HIDE DEF x
  <2> QED BY Zenon, <1>1, NoWrap
<1> QED BY Zenon, <1>2 DEF GetFreeSpaceRemaining, SIZE_TABLE_PAGE_HEADER, SIZE_TUPLE

(* Init establishes the layout of an empty page.                            *)
LEMMA InitLayout == Init => TypeOK /\ LayoutSound
BY PageAssumption DEF Init, TypeOK, LayoutSound, SIZE_TABLE_PAGE_HEADER, SIZE_TUPLE, SlotEntry

Inv == TypeOK /\ LayoutSound

(* Inserting takes bytes directly below the lowest tuple, and the check of   *)
(* the free space leaves room for the new slot as well.                     *)
LEMMA InsertLayout ==
  ASSUME Inv, NEW t \in Tuples, InsertTuple(t)
  PROVE  Inv'
<1> USE DEF SIZE_TABLE_PAGE_HEADER, SIZE_TUPLE
<1>1. TypeOK /\ LayoutSound
  BY Zenon DEF Inv
<1>2. /\ GetFreeSpaceRemaining = free_space_pointer - 24 - 8 * tuple_count
      /\ GetFreeSpaceRemaining \in Int /\ Size[t] \in Nat \ {0}
  <2>1. GetFreeSpaceRemaining = free_space_pointer - 24 - 8 * tuple_count
    BY Zenon, <1>1, FreeSpace
  <2> QED BY <2>1, <1>1, TupleAssumption DEF TypeOK
<1>3. CASE GetFreeSpaceRemaining < Size[t] + SIZE_TUPLE
  <2>1. UNCHANGED <<free_space_pointer, tuple_count, slot, data>>
    <3>1. ~(GetFreeSpaceRemaining >= Size[t] + SIZE_TUPLE)
      BY <1>3, <1>2
    <3> QED BY Zenon, <3>1 DEF InsertTuple
  <2> QED BY Zenon, <2>1, <1>1 DEF Inv, TypeOK, LayoutSound, Live
<1>4. CASE GetFreeSpaceRemaining >= Size[t] + SIZE_TUPLE
  <2>1. PICK s \in 0 .. tuple_count :
          /\ FirstFree(s)
          /\ free_space_pointer' = free_space_pointer - Size[t]
          /\ DOMAIN data' = free_space_pointer' .. PageSize - 1
          /\ tuple_count' = IF s = tuple_count THEN tuple_count + 1 ELSE tuple_count
          /\ slot' = [r \in 0 .. tuple_count' - 1 |->
                        IF r = s THEN SlotEntry(free_space_pointer', Size[t], FALSE) ELSE slot[r]]
    <3>1. ~(GetFreeSpaceRemaining < Size[t] + SIZE_TUPLE)
      BY <1>4, <1>2
    <3> QED BY <3>1, Zenon DEF InsertTuple
  <2>2. free_space_pointer - 24 - 8 * tuple_count >= Size[t] + 8
    BY Zenon, <1>4, <1>2
  <2>3. TypeOK'
    BY <2>1, <2>2, <1>1, <1>2, PageAssumption DEF TypeOK, SlotEntry
  <2>4. tuple_count' \in {tuple_count, tuple_count + 1}
    BY Zenon, <2>1
  <2>5. \A r \in 0 .. tuple_count' - 1 :
          slot'[r] = IF r = s THEN SlotEntry(free_space_pointer', Size[t], FALSE) ELSE slot[r]
    BY Zenon, <2>1
  <2>6. \A r \in 0 .. tuple_count' - 1 : r # s => r \in 0 .. tuple_count - 1 /\ slot'[r] = slot[r]
    BY <2>5, <2>1, <1>1 DEF TypeOK
  <2>7. s \in 0 .. tuple_count' - 1
    BY <2>1, <1>1 DEF TypeOK
  <2>8. /\ slot'[s].offset = free_space_pointer - Size[t] /\ slot'[s].size = Size[t]
        /\ slot'[s].deleted = FALSE
    BY Zenon, <2>5, <2>7, <2>1 DEF SlotEntry
  <2>9. 24 + 8 * tuple_count' <= free_space_pointer'
    BY <2>2, <2>1, <1>1, <1>2 DEF TypeOK
  <2>10. \A r \in 0 .. tuple_count' - 1 :
           /\ Live(r)' => /\ free_space_pointer' <= slot'[r].offset
                         /\ slot'[r].offset + slot'[r].size <= PageSize
           /\ ~Live(r)' => slot'[r].offset = 0 /\ ~slot'[r].deleted
    <3> TAKE r \in 0 .. tuple_count' - 1
    <3>1. CASE r = s
      <4>1. slot'[r].offset = free_space_pointer' /\ slot'[r].size = Size[t]
        BY Zenon, <3>1, <2>1, <2>8
      <4>2. free_space_pointer' + Size[t] <= PageSize /\ Size[t] > 0 /\ free_space_pointer' \in Int
        BY <2>1, <1>1, <1>2, PageAssumption DEF TypeOK
      <4> QED BY <4>1, <4>2 DEF Live
    <3>2. CASE r # s
      <4>1. r \in 0 .. tuple_count - 1 /\ slot'[r] = slot[r]
        BY Zenon, <3>2, <2>6
      <4>2. /\ slot[r].offset \in Nat /\ slot[r].size \in Nat
            /\ Live(r) => /\ free_space_pointer <= slot[r].offset
                          /\ slot[r].offset + slot[r].size <= PageSize
            /\ ~Live(r) => slot[r].offset = 0 /\ ~slot[r].deleted
        BY <4>1, <1>1 DEF TypeOK, LayoutSound
      <4> QED BY <4>1, <4>2, <2>1, <1>1, <1>2 DEF TypeOK, Live
    <3> QED BY Zenon, <3>1, <3>2
  <2>11. \A r, q \in 0 .. tuple_count' - 1 :
           r # q /\ Live(r)' /\ Live(q)' => \/ slot'[r].offset + slot'[r].size <= slot'[q].offset
                                            \/ slot'[q].offset + slot'[q].size <= slot'[r].offset
    <3>1. \A r \in 0 .. tuple_count' - 1 :
            r # s /\ Live(r)' => slot'[s].offset + slot'[s].size <= slot'[r].offset
      <4> TAKE r \in 0 .. tuple_count' - 1
      <4> HAVE r # s /\ Live(r)'
      <4>1. r \in 0 .. tuple_count - 1 /\ slot'[r] = slot[r] /\ Live(r)
        BY Zenon, <2>6 DEF Live
      <4>2. free_space_pointer <= slot[r].offset /\ slot[r].offset \in Nat
        BY <4>1, <1>1 DEF TypeOK, LayoutSound
      <4> QED BY <4>1, <4>2, <2>8, <1>1, <1>2 DEF TypeOK
    <3> SUFFICES ASSUME NEW r \in 0 .. tuple_count' - 1, NEW q \in 0 .. tuple_count' - 1,
                        r # q, r # s, q # s, Live(r)', Live(q)'
                 PROVE  \/ slot'[r].offset + slot'[r].size <= slot'[q].offset
                        \/ slot'[q].offset + slot'[q].size <= slot'[r].offset
      BY Zenon, <3>1
    <3>2. /\ r \in 0 .. tuple_count - 1 /\ slot'[r] = slot[r] /\ Live(r)
          /\ q \in 0 .. tuple_count - 1 /\ slot'[q] = slot[q] /\ Live(q)
      BY Zenon, <2>6 DEF Live
    <3> QED BY Zenon, <3>2, <1>1 DEF LayoutSound
  <2> QED BY Zenon, <2>3, <2>9, <2>10, <2>11 DEF Inv, LayoutSound
<1> QED BY <1>2, <1>3, <1>4

(* Marking and unmarking touch one flag of a slot that holds a tuple, or    *)
(* clear the flag of an empty one, where it is clear already.               *)
LEMMA MarkLayout ==
  ASSUME Inv, NEW s \in 0 .. MaxSlots, MarkDelete(s) \/ RollbackDelete(s)
  PROVE  Inv'
<1> USE DEF SIZE_TABLE_PAGE_HEADER, SIZE_TUPLE
<1>1. TypeOK /\ LayoutSound
  BY Zenon DEF Inv
<1>2. UNCHANGED <<free_space_pointer, tuple_count, data>>
  BY Zenon DEF MarkDelete, RollbackDelete
<1>3. CASE UNCHANGED slot
  BY Zenon, <1>1, <1>2, <1>3 DEF Inv, TypeOK, LayoutSound, Live
<1>4. CASE /\ s < tuple_count
           /\ \E d \in BOOLEAN :
                /\ d => slot[s].size # 0
                /\ slot' = [slot EXCEPT ![s] = SlotEntry(slot[s].offset, slot[s].size, d)]
  <2>1. PICK d \in BOOLEAN :
          /\ d => slot[s].size # 0
          /\ slot' = [slot EXCEPT ![s] = SlotEntry(slot[s].offset, slot[s].size, d)]
    BY Zenon, <1>4
  <2>2. s \in 0 .. tuple_count - 1
    BY <1>4, <1>1, PageAssumption DEF TypeOK
  <2>3. TypeOK'
    BY Zenon, <2>1, <2>2, <1>1, <1>2 DEF TypeOK, SlotEntry
  <2>4. \A r \in 0 .. tuple_count - 1 :
          /\ slot'[r].offset = slot[r].offset /\ slot'[r].size = slot[r].size
          /\ slot'[r].deleted = IF r = s THEN d ELSE slot[r].deleted
    BY Zenon, <2>1, <2>2, <1>1 DEF TypeOK, SlotEntry
  <2>5. LayoutSound'
    BY <2>1, <2>4, <1>1, <1>2 DEF TypeOK, LayoutSound, Live
  <2> QED BY Zenon, <2>3, <2>5 DEF Inv
<1> QED BY Zenon, <1>3, <1>4 DEF MarkDelete, RollbackDelete, Readable, IsDeleted

(* What UpdateTuple and ApplyDelete do to the slots when the tuple of slot s *)
(* becomes n bytes long: it keeps its end, and the tuples below move with   *)
(* the free space pointer.                                                  *)
Resized(s, n) ==
  LET by == slot[s].size - n
  IN /\ free_space_pointer' = free_space_pointer + by
     /\ tuple_count' = tuple_count
     /\ DOMAIN data' = free_space_pointer' .. PageSize - 1
     /\ slot' = [r \in 0 .. tuple_count - 1 |->
                   IF r = s
                   THEN IF n = 0 THEN SlotEntry(0, 0, FALSE) ELSE SlotEntry(slot[s].offset + by, n, FALSE)
                   ELSE IF Live(r) /\ slot[r].offset < slot[s].offset
                        THEN SlotEntry(slot[r].offset + by, slot[r].size, slot[r].deleted)
                        ELSE slot[r]]

(* A slot's fields are numbers, and a slot is a record of its three fields. *)
LEMMA SlotFields ==
  ASSUME TypeOK, NEW r \in 0 .. tuple_count - 1
  PROVE  /\ slot[r].offset \in 0 .. PageSize /\ slot[r].size \in 0 .. PageSize
         /\ slot[r].deleted \in BOOLEAN
BY Zenon DEF TypeOK

(* A natural number other than zero is positive *)
LEMMA Positive == \A n \in Nat : n # 0 => n > 0
OBVIOUS

(* Resizing one tuple keeps every other one apart from it and on the page.  *)
LEMMA ResizeLayout ==
  ASSUME Inv, NEW s \in 0 .. tuple_count - 1, Live(s), NEW n \in Nat,
         n <= slot[s].size + (free_space_pointer - 24 - 8 * tuple_count),
         Resized(s, n)
  PROVE  Inv'
<1> USE DEF SIZE_TABLE_PAGE_HEADER, SIZE_TUPLE
<1> DEFINE by == slot[s].size - n
<1>1. TypeOK /\ LayoutSound
  BY Zenon DEF Inv
<1>2. /\ slot[s].offset \in Nat /\ slot[s].size \in Nat \ {0}
      /\ free_space_pointer <= slot[s].offset /\ slot[s].offset + slot[s].size <= PageSize
  BY <1>1, SlotFields DEF LayoutSound, Live
<1>3. /\ free_space_pointer' = free_space_pointer + by /\ free_space_pointer' \in 0 .. PageSize
      /\ tuple_count' = tuple_count /\ tuple_count \in Nat
      /\ 24 + 8 * tuple_count' <= free_space_pointer'
  <2>1. free_space_pointer' = free_space_pointer + by /\ tuple_count' = tuple_count
    BY Zenon DEF Resized
  <2>2. free_space_pointer \in Nat /\ tuple_count \in Nat
    BY <1>1 DEF TypeOK
  <2> QED BY <2>1, <2>2, <1>2, PageAssumption
<1>4. ASSUME NEW r \in 0 .. tuple_count - 1, r # s
      PROVE  /\ slot'[r].size = slot[r].size /\ slot'[r].deleted = slot[r].deleted
             /\ slot'[r].offset = IF Live(r) /\ slot[r].offset < slot[s].offset
                                  THEN slot[r].offset + by ELSE slot[r].offset
             /\ slot[r].size \in Nat /\ slot[r].offset \in Nat
  BY <1>4, <1>1, SlotFields DEF Resized, SlotEntry
<1>5. ASSUME NEW r \in 0 .. tuple_count - 1, r # s, Live(r)
      PROVE  /\ free_space_pointer <= slot[r].offset /\ slot[r].offset + slot[r].size <= PageSize
             /\ \/ slot[r].offset + slot[r].size <= slot[s].offset
                \/ slot[s].offset + slot[s].size <= slot[r].offset
  BY Zenon, <1>5, <1>1 DEF LayoutSound
<1>6. /\ slot'[s].size = n
      /\ n = 0 => slot'[s].offset = 0 /\ slot'[s].deleted = FALSE
      /\ n # 0 => slot'[s].offset = slot[s].offset + by /\ slot'[s].deleted = FALSE
  BY Zenon DEF Resized, SlotEntry
<1>7. \A r \in 0 .. tuple_count - 1 :
        /\ Live(r)' => /\ free_space_pointer' <= slot'[r].offset
                       /\ slot'[r].offset + slot'[r].size <= PageSize
        /\ ~Live(r)' => slot'[r].offset = 0 /\ ~slot'[r].deleted
  <2> TAKE r \in 0 .. tuple_count - 1
  <2>1. CASE r = s
    <3>1. CASE n = 0
      BY <3>1, <2>1, <1>6 DEF Live
    <3>2. CASE n # 0
      <4>1. slot'[r].offset = slot[s].offset + by /\ slot'[r].size = n
        BY Zenon, <3>2, <2>1, <1>6
      <4>2. Live(r)'
        <5>1. n > 0
          BY Zenon, <3>2, Positive
        <5> QED BY Zenon, <4>1, <5>1 DEF Live
      <4>3. free_space_pointer' <= slot[s].offset + by /\ slot[s].offset + by + n <= PageSize
        <5>1. /\ by \in Int /\ free_space_pointer \in Int /\ slot[s].offset \in Int
              /\ slot[s].size \in Int /\ PageSize \in Int
          BY <1>2, <1>1, PageAssumption DEF TypeOK
        <5> QED BY <5>1, <1>2, <1>3
      <4> QED BY Zenon, <4>1, <4>2, <4>3
    <3> QED BY Zenon, <3>1, <3>2
  <2>2. CASE r # s /\ Live(r)
    <3>1. Live(r)' /\ slot[r].size > 0
      BY Zenon, <2>2, <1>4 DEF Live
    <3>2. by \in Int /\ by <= slot[s].size /\ free_space_pointer \in Int /\ PageSize \in Int
      BY <1>2, <1>1, PageAssumption DEF TypeOK
    <3> HIDE DEF by
    <3> QED BY <3>1, <3>2, <2>2, <1>2, <1>3, <1>4, <1>5
  <2>3. CASE r # s /\ ~Live(r)
    BY Zenon, <2>3, <1>1, <1>4 DEF LayoutSound, Live
  <2> QED BY Zenon, <2>1, <2>2, <2>3
<1>8. TypeOK'
  <2>1. ASSUME NEW o \in 0 .. PageSize, NEW z \in 0 .. PageSize, NEW d \in BOOLEAN
        PROVE  SlotEntry(o, z, d) \in [offset : 0 .. PageSize, size : 0 .. PageSize, deleted : BOOLEAN]
    BY Zenon DEF SlotEntry
  <2>2. ASSUME NEW r \in 0 .. tuple_count - 1
        PROVE  slot'[r] \in [offset : 0 .. PageSize, size : 0 .. PageSize, deleted : BOOLEAN]
    <3>1. CASE r = s /\ n = 0
      <4>1. slot'[r] = SlotEntry(0, 0, FALSE)
        BY Zenon, <3>1 DEF Resized
      <4>2. 0 \in 0 .. PageSize
        BY PageAssumption
      <4> QED BY Zenon, <4>1, <4>2, <2>1
    <3>2. CASE r = s /\ n # 0
      <4> DEFINE x == slot[s].offset + by
      <4>1. slot'[r] = SlotEntry(x, n, FALSE)
        BY Zenon, <3>2 DEF Resized
      <4>2. x \in 0 .. PageSize /\ n \in 0 .. PageSize
        <5>1. /\ by \in Int /\ free_space_pointer \in Nat /\ slot[s].offset \in Nat
              /\ slot[s].size \in Nat /\ PageSize \in Nat
          BY <1>2, <1>1, PageAssumption DEF TypeOK
        <5> QED BY <5>1, <1>2, <1>3
      <4>3. FALSE \in BOOLEAN
        BY Zenon
      <4> HIDE DEF x
      <4>4. SlotEntry(x, n, FALSE) \in [offset : 0 .. PageSize, size : 0 .. PageSize, deleted : BOOLEAN]
        BY Zenon, <4>2, <4>3, <2>1
      <4> QED BY Zenon, <4>1, <4>4
    <3>3. CASE r # s /\ Live(r) /\ slot[r].offset < slot[s].offset
      <4>1. slot'[r] = SlotEntry(slot[r].offset + by, slot[r].size, slot[r].deleted)
        BY Zenon, <3>3 DEF Resized
      <4>2. slot[r].offset + by \in 0 .. PageSize
        <5>1. /\ free_space_pointer \in Nat /\ slot[r].offset \in Nat
              /\ free_space_pointer <= slot[r].offset
          BY <3>3, <1>1, <1>4, <1>5 DEF TypeOK
        <5> QED BY <5>1, <3>3, <1>2, <1>3, PageAssumption
      <4> QED BY <4>1, <4>2, <2>1, <1>1, SlotFields
    <3>4. CASE r # s /\ ~(Live(r) /\ slot[r].offset < slot[s].offset)
      BY Zenon, <3>4, <1>1 DEF Resized, TypeOK
    <3> QED BY Zenon, <3>1, <3>2, <3>3, <3>4
  <2> QED BY Zenon, <2>2, <1>3 DEF TypeOK, Resized
<1>9. \A r, q \in 0 .. tuple_count - 1 :
        r # q /\ Live(r)' /\ Live(q)' => \/ slot'[r].offset + slot'[r].size <= slot'[q].offset
                                         \/ slot'[q].offset + slot'[q].size <= slot'[r].offset
  <2>1. ASSUME NEW r \in 0 .. tuple_count - 1, r # s, Live(r)', Live(s)'
        PROVE  \/ slot'[r].offset + slot'[r].size <= slot'[s].offset
               \/ slot'[s].offset + slot'[s].size <= slot'[r].offset
    <3>1. Live(r) /\ n # 0
      BY <2>1, <1>4, <1>6 DEF Live
    <3> QED BY <2>1, <3>1, <1>2, <1>4, <1>5, <1>6 DEF Live
  <2>2. ASSUME NEW r \in 0 .. tuple_count - 1, NEW q \in 0 .. tuple_count - 1,
               r # q, r # s, q # s, Live(r)', Live(q)'
        PROVE  \/ slot'[r].offset + slot'[r].size <= slot'[q].offset
               \/ slot'[q].offset + slot'[q].size <= slot'[r].offset
    <3>1. Live(r) /\ Live(q)
      BY Zenon, <2>2, <1>4 DEF Live
    <3>2. \/ slot[r].offset + slot[r].size <= slot[q].offset
          \/ slot[q].offset + slot[q].size <= slot[r].offset
      BY Zenon, <2>2, <3>1, <1>1 DEF LayoutSound
    <3>3. by \in Int /\ by <= slot[s].size
      BY <1>2
    <3> HIDE DEF by
    <3> QED BY <2>2, <3>1, <3>2, <3>3, <1>2, <1>4, <1>5 DEF Live
  <2> QED BY Zenon, <2>1, <2>2
<1> QED BY Zenon, <1>3, <1>7, <1>8, <1>9 DEF Inv, LayoutSound

(* UpdateTuple resizes a tuple that fits; its assertion never fails.        *)
LEMMA UpdateLayout ==
  ASSUME Inv, NEW s \in 0 .. MaxSlots, NEW t \in Tuples, UpdateTuple(s, t)
  PROVE  /\ Inv'
         /\ \/ ~CanUpdate(s, t) /\ UNCHANGED <<free_space_pointer, tuple_count, slot, data>>
            \/ /\ Live(s) /\ s \in 0 .. tuple_count - 1 /\ Resized(s, Size[t])
               /\ Size[t] <= slot[s].size + (free_space_pointer - 24 - 8 * tuple_count)
               /\ data' = Replaced(slot[s].offset, slot[s].offset + slot[s].size, Size[t], Bytes(t))
<1>1. TypeOK /\ LayoutSound
  BY Zenon DEF Inv
<1>2. CASE ~CanUpdate(s, t)
  <2>1. UNCHANGED <<free_space_pointer, tuple_count, slot, data>>
    BY Zenon, <1>2 DEF UpdateTuple
  <2> QED BY Zenon, <2>1, <1>1, <1>2 DEF Inv, TypeOK, LayoutSound, Live
<1>3. CASE CanUpdate(s, t)
  <2> DEFINE end == slot[s].offset + slot[s].size
             by == slot[s].size - Size[t]
  <2>1. s \in 0 .. tuple_count - 1 /\ slot[s].size # 0
    BY <1>1, <1>3, PageAssumption DEF CanUpdate, Readable, IsDeleted, TypeOK
  <2>2. /\ Live(s) /\ slot[s].offset \in Nat /\ slot[s].size \in Nat \ {0}
        /\ free_space_pointer <= slot[s].offset /\ free_space_pointer \in Nat
    BY <2>1, <1>1, SlotFields DEF Live, LayoutSound, TypeOK
  <2>3. ~(slot[s].offset < free_space_pointer)
    BY <2>2
  <2>4. /\ free_space_pointer' = free_space_pointer + by
        /\ data' = Replaced(slot[s].offset, end, Size[t], Bytes(t))
        /\ slot' = [r \in DOMAIN slot |->
                      Shifted(IF r = s THEN SlotEntry(slot[s].offset, Size[t], FALSE) ELSE slot[r],
                              end, by)]
        /\ tuple_count' = tuple_count
    BY <1>3, <2>3, Zenon DEF UpdateTuple
  <2>5. DOMAIN slot = 0 .. tuple_count - 1
    BY Zenon, <1>1 DEF TypeOK
  <2>6. Size[t] \in Nat \ {0}
    BY Zenon, TupleAssumption
  <2>7. ASSUME NEW r \in 0 .. tuple_count - 1, r # s
        PROVE  (slot[r].size > 0 /\ slot[r].offset < end)
                 <=> (Live(r) /\ slot[r].offset < slot[s].offset)
    <3>1. CASE Live(r)
      <4>1. \/ slot[r].offset + slot[r].size <= slot[s].offset
            \/ slot[s].offset + slot[s].size <= slot[r].offset
        BY Zenon, <2>1, <2>2, <2>7, <3>1, <1>1 DEF LayoutSound
      <4>2. slot[r].offset \in Nat /\ slot[r].size \in Nat
        BY <1>1, SlotFields
      <4> QED BY <4>1, <4>2, <3>1, <2>2 DEF Live
    <3> QED BY Zenon, <3>1 DEF Live
  <2>8. Resized(s, Size[t])
    <3>1. DOMAIN data' = free_space_pointer' .. PageSize - 1
      <4>1. free_space_pointer + (end - slot[s].offset - Size[t]) = free_space_pointer + by
        BY <2>2, <2>6
      <4> QED BY Zenon, <2>4, <4>1 DEF Replaced
    <3>2. ASSUME NEW r \in 0 .. tuple_count - 1
          PROVE  Shifted(IF r = s THEN SlotEntry(slot[s].offset, Size[t], FALSE) ELSE slot[r], end, by)
                   = IF r = s THEN SlotEntry(slot[s].offset + by, Size[t], FALSE)
                     ELSE IF Live(r) /\ slot[r].offset < slot[s].offset
                          THEN SlotEntry(slot[r].offset + by, slot[r].size, slot[r].deleted)
                          ELSE slot[r]
      <4>1. CASE r = s
        BY <4>1, <2>2, <2>6 DEF Shifted, SlotEntry
      <4>2. CASE r # s
        BY Zenon, <4>2, <2>7 DEF Shifted
      <4> QED BY Zenon, <4>1, <4>2
    <3> QED BY Zenon, <2>4, <2>5, <2>6, <3>1, <3>2 DEF Resized
  <2>9. Size[t] <= slot[s].size + (free_space_pointer - 24 - 8 * tuple_count)
    <3>1. GetFreeSpaceRemaining = free_space_pointer - 24 - 8 * tuple_count
      BY Zenon, <1>1, FreeSpace
    <3>2. GetFreeSpaceRemaining + slot[s].size >= Size[t]
      BY Zenon, <1>3 DEF CanUpdate
    <3> QED BY <3>1, <3>2, <2>2, <2>6, <1>1 DEF TypeOK
  <2> QED BY Zenon, <2>1, <2>2, <2>4, <2>6, <2>8, <2>9, ResizeLayout
<1> QED BY Zenon, <1>2, <1>3

(* Moving the bytes moves the free space pointer with them.                 *)
LEMMA ReplacedDomain ==
  ASSUME NEW from, NEW end, NEW n, NEW bytes
  PROVE  DOMAIN Replaced(from, end, n, bytes) = free_space_pointer + ((end - from) - n) .. PageSize - 1
BY Zenon DEF Replaced

(* ApplyDelete resizes a tuple to nothing; a slot that holds none fails its  *)
(* assertion, the offset 0 of an empty slot lying below every tuple.        *)
LEMMA ApplyLayout ==
  ASSUME Inv, NEW s \in 0 .. MaxSlots, ApplyDelete(s)
  PROVE  /\ Inv'
         /\ \/ UNCHANGED <<free_space_pointer, tuple_count, slot, data>>
            \/ /\ Live(s) /\ s \in 0 .. tuple_count - 1 /\ Resized(s, 0)
               /\ 0 <= slot[s].size + (free_space_pointer - 24 - 8 * tuple_count)
               /\ data' = Replaced(slot[s].offset, slot[s].offset + slot[s].size, 0, NoBytes)
<1>1. TypeOK /\ LayoutSound
  BY Zenon DEF Inv
<1>2. CASE ~(s < tuple_count /\ slot[s].offset >= free_space_pointer)
  <2>1. UNCHANGED <<free_space_pointer, tuple_count, slot, data>>
    BY Zenon, <1>2 DEF ApplyDelete
  <2> QED BY Zenon, <2>1, <1>1 DEF Inv, TypeOK, LayoutSound, Live
<1>3. CASE s < tuple_count /\ slot[s].offset >= free_space_pointer
  <2>1. s \in 0 .. tuple_count - 1
    BY <1>1, <1>3, PageAssumption DEF TypeOK
  <2>2. /\ slot[s].offset \in Nat /\ slot[s].size \in Nat
        /\ free_space_pointer \in Nat /\ tuple_count \in Nat
        /\ 24 + 8 * tuple_count <= free_space_pointer
    BY <2>1, <1>1, SlotFields DEF TypeOK, LayoutSound, SIZE_TABLE_PAGE_HEADER, SIZE_TUPLE
  <2>3. Live(s)
    <3>1. slot[s].offset # 0
      BY <1>3, <2>2
    <3> QED BY Zenon, <3>1, <2>1, <1>1 DEF LayoutSound
  <2>4. /\ free_space_pointer' = free_space_pointer + slot[s].size
        /\ data' = Replaced(slot[s].offset, slot[s].offset + slot[s].size, 0, NoBytes)
        /\ slot' = [r \in DOMAIN slot |->
                      IF r = s THEN SlotEntry(0, 0, FALSE)
                      ELSE Shifted(slot[r], slot[s].offset, slot[s].size)]
        /\ tuple_count' = tuple_count
    BY Zenon, <1>3 DEF ApplyDelete
  <2>5. Resized(s, 0)
    <3>1. DOMAIN slot = 0 .. tuple_count - 1
      BY Zenon, <1>1 DEF TypeOK
    <3>2. DOMAIN data' = free_space_pointer' .. PageSize - 1
      <4> DEFINE by == ((slot[s].offset + slot[s].size) - slot[s].offset) - 0
      <4>1. by = slot[s].size
        BY <2>2
      <4>2. DOMAIN data' = free_space_pointer + by .. PageSize - 1
        BY <2>4, ReplacedDomain, Zenon
      <4> HIDE DEF by
      <4> QED BY Zenon, <2>4, <4>1, <4>2
    <3>3. slot[s].size - 0 = slot[s].size
      BY <2>2
    <3> QED BY Zenon, <2>4, <3>1, <3>2, <3>3 DEF Resized, Shifted, Live
  <2>6. 0 <= slot[s].size + (free_space_pointer - 24 - 8 * tuple_count)
    BY <2>2
  <2> QED BY Zenon, <2>1, <2>3, <2>4, <2>5, <2>6, ResizeLayout
<1> QED BY Zenon, <1>2, <1>3

(* memmove and the new offsets agree: the other tuples read as before.      *)
LEMMA ResizeBytes ==
  ASSUME Inv, NEW s \in 0 .. tuple_count - 1, Live(s), NEW n \in Nat,
         n <= slot[s].size + (free_space_pointer - 24 - 8 * tuple_count),
         Resized(s, n), NEW bytes,
         data' = Replaced(slot[s].offset, slot[s].offset + slot[s].size, n, bytes),
         NEW r \in 0 .. tuple_count - 1, r # s, Live(r)
  PROVE  slot'[r].size = slot[r].size /\ BytesAt(r)' = BytesAt(r)
<1> DEFINE by == slot[s].size - n
           end == slot[s].offset + slot[s].size
<1>1. TypeOK /\ LayoutSound
  BY Zenon DEF Inv
<1>2. /\ slot[s].offset \in Nat /\ slot[s].size \in Nat
      /\ slot[r].offset \in Nat /\ slot[r].size \in Nat
      /\ free_space_pointer \in Nat /\ PageSize \in Nat
  BY <1>1, SlotFields, PageAssumption DEF TypeOK
<1>3. /\ free_space_pointer <= slot[r].offset /\ slot[r].offset + slot[r].size <= PageSize
      /\ free_space_pointer <= slot[s].offset /\ end <= PageSize
      /\ \/ slot[r].offset + slot[r].size <= slot[s].offset
         \/ end <= slot[r].offset
  BY Zenon, <1>1 DEF LayoutSound
<1>4. /\ slot'[r].size = slot[r].size
      /\ slot'[r].offset = IF slot[r].offset < slot[s].offset
                           THEN slot[r].offset + by ELSE slot[r].offset
  BY Zenon DEF Resized, SlotEntry
<1>5. ASSUME NEW a \in free_space_pointer + by .. PageSize - 1
      PROVE  /\ a >= end => data'[a] = data[a]
             /\ ~(a >= end) /\ ~(a >= slot[s].offset + by) => data'[a] = data[a - by]
  <2>1. end - slot[s].offset - n = by
    BY <1>2
  <2> HIDE DEF by, end
  <2>2. data' = [x \in free_space_pointer + by .. PageSize - 1 |->
                   IF x >= end THEN data[x]
                   ELSE IF x >= slot[s].offset + by THEN bytes[x - (slot[s].offset + by)]
                   ELSE data[x - by]]
    BY Zenon, <2>1 DEF Replaced, end
  <2> QED BY <2>2, Zenon
<1>6. ASSUME NEW b \in 0 .. slot[r].size - 1
      PROVE  data'[slot'[r].offset + b] = data[slot[r].offset + b]
  <2>1. by \in Int /\ by <= slot[s].size
    BY <1>2
  <2>2. CASE slot[r].offset < slot[s].offset
    <3>1. /\ slot[r].offset + by + b \in free_space_pointer + by .. PageSize - 1
          /\ ~(slot[r].offset + by + b >= end)
          /\ ~(slot[r].offset + by + b >= slot[s].offset + by)
      BY <2>1, <2>2, <1>2, <1>3
    <3>2. slot'[r].offset + b = slot[r].offset + by + b
      BY Zenon, <2>2, <1>4
    <3> HIDE DEF by, end
    <3> DEFINE x == slot[r].offset + by + b
    <3>3. data'[x] = data[x - by]
      <4>1. x \in free_space_pointer + by .. PageSize - 1 /\ ~(x >= end) /\ ~(x >= slot[s].offset + by)
        BY Zenon, <3>1
      <4> HIDE DEF x
      <4> QED BY Zenon, <4>1, <1>5
    <3>4. slot'[r].offset + b = x /\ x - by = slot[r].offset + b
      BY <3>2, <2>1, <1>2
    <3> HIDE DEF x
    <3> QED BY Zenon, <3>3, <3>4
  <2>3. CASE ~(slot[r].offset < slot[s].offset)
    <3>1. /\ slot[r].offset + b \in free_space_pointer + by .. PageSize - 1
          /\ slot[r].offset + b >= end
      BY <2>1, <2>3, <1>2, <1>3
    <3>2. slot'[r].offset + b = slot[r].offset + b
      BY Zenon, <2>3, <1>4
    <3> HIDE DEF by, end
    <3> QED BY Zenon, <3>1, <3>2, <1>5
  <2> QED BY Zenon, <2>2, <2>3
<1> QED BY Zenon, <1>4, <1>6 DEF BytesAt

(* A step that changes nothing on the page keeps the layout.                *)
LEMMA StepLayoutSame ==
  ASSUME Inv, UNCHANGED <<free_space_pointer, tuple_count, slot, data>>
  PROVE  Inv'
BY Zenon DEF Inv, TypeOK, LayoutSound, Live

(* Every operation keeps the layout.                                        *)
LEMMA StepLayout == Inv /\ [Next]_vars => Inv'
<1> SUFFICES ASSUME Inv, [Next]_vars
             PROVE  Inv'
  BY Zenon
<1>1. CASE UNCHANGED <<free_space_pointer, tuple_count, slot, data>>
  BY Zenon, <1>1, StepLayoutSame
<1>2. ASSUME NEW t \in Tuples, InsertTuple(t)
      PROVE  Inv'
  BY Zenon, <1>2, InsertLayout
<1>3. ASSUME NEW s \in 0 .. MaxSlots, MarkDelete(s) \/ RollbackDelete(s)
      PROVE  Inv'
  BY Zenon, <1>3, MarkLayout
<1>4. ASSUME NEW s \in 0 .. MaxSlots, ApplyDelete(s)
      PROVE  Inv'
  BY Zenon, <1>4, ApplyLayout
<1>5. ASSUME NEW s \in 0 .. MaxSlots, NEW t \in Tuples, UpdateTuple(s, t)
      PROVE  Inv'
  BY Zenon, <1>5, UpdateLayout
<1> QED BY Zenon, <1>1, <1>2, <1>3, <1>4, <1>5 DEF Next, GetTuple, vars

(* For every page size and every set of tuples, any history of InsertTuple,  *)
(* MarkDelete, UpdateTuple, ApplyDelete and RollbackDelete keeps the header  *)
(* fields and the slots within the page: TypeOK.                            *)
THEOREM PageTypeCorrect == Spec => []TypeOK
<1>1. Init => Inv
  BY Zenon, InitLayout DEF Inv
<1>2. Inv => TypeOK
  BY Zenon DEF Inv
<1> QED BY <1>1, <1>2, StepLayout, PTL DEF Spec

(* For every page size and every set of tuples the slot array stays below    *)
(* the tuples and the tuples stay apart and on the page: LayoutSound.       *)
THEOREM PageLayoutCorrect == Spec => []LayoutSound
<1>1. Init => Inv
  BY Zenon, InitLayout DEF Inv
<1>2. Inv => LayoutSound
  BY Zenon DEF Inv
<1> QED BY <1>1, <1>2, StepLayout, PTL DEF Spec

(* What InsertTuple does to the page when it puts t into slot s. *)
Filled(s, t) ==
  /\ free_space_pointer' = free_space_pointer - Size[t]
  /\ data' = [a \in free_space_pointer' .. PageSize - 1 |->
                IF a < free_space_pointer THEN Bytes(t)[a - free_space_pointer']
                ELSE data[a]]
  /\ tuple_count' = IF s = tuple_count THEN tuple_count + 1 ELSE tuple_count
  /\ slot' = [q \in 0 .. tuple_count' - 1 |->
                IF q = s THEN SlotEntry(free_space_pointer', Size[t], FALSE) ELSE slot[q]]

(* InsertTuple writes below every tuple on the page.                        *)
LEMMA InsertBytes ==
  ASSUME Inv, NEW t \in Tuples, NEW s \in 0 .. tuple_count, Filled(s, t),
         NEW r \in 0 .. tuple_count - 1, r # s, Live(r)
  PROVE  slot'[r].size = slot[r].size /\ BytesAt(r)' = BytesAt(r)
<1>1. r \in 0 .. tuple_count' - 1
  BY DEF Filled, Inv, TypeOK
<1>2. slot'[r] = slot[r]
  BY Zenon, <1>1 DEF Filled
<1>3. /\ free_space_pointer <= slot[r].offset /\ slot[r].offset + slot[r].size <= PageSize
      /\ slot[r].offset \in Nat /\ slot[r].size \in Nat
      /\ free_space_pointer \in Nat /\ PageSize \in Nat /\ Size[t] \in Nat
  BY PageAssumption, TupleAssumption DEF Inv, TypeOK, LayoutSound
<1>4. free_space_pointer' = free_space_pointer - Size[t]
  BY Zenon DEF Filled
<1>5. ASSUME NEW b \in 0 .. slot[r].size - 1
      PROVE  data'[slot[r].offset + b] = data[slot[r].offset + b]
  <2> DEFINE x == slot[r].offset + b
  <2>1. x \in free_space_pointer' .. PageSize - 1 /\ ~(x < free_space_pointer)
    BY <1>3, <1>4
  <2> HIDE DEF x
  <2>2. DOMAIN data' = free_space_pointer' .. PageSize - 1
    BY Zenon DEF Filled
  <2>3. \A a \in DOMAIN data' : ~(a < free_space_pointer) => data'[a] = data[a]
    BY Zenon DEF Filled
  <2>4. data'[x] = data[x]
    BY <2>1, <2>2, <2>3, Zenon
  <2> QED BY Zenon, <2>4 DEF x
<1> QED BY Zenon, <1>2, <1>5 DEF BytesAt

(* One step leaves the other tuples as they read.                           *)
LEMMA StepIntact ==
  ASSUME Inv, Next, NEW r \in 0 .. tuple_count - 1, Live(r), r # ret'.slot
  PROVE  slot'[r].size = slot[r].size /\ BytesAt(r)' = BytesAt(r)
<1>1. CASE UNCHANGED <<slot, data>>
  BY Zenon, <1>1 DEF BytesAt
<1>2. ASSUME NEW t \in Tuples, InsertTuple(t)
      PROVE  slot'[r].size = slot[r].size /\ BytesAt(r)' = BytesAt(r)
  <2>1. CASE ~UNCHANGED <<slot, data>>
    <3>1. PICK s \in 0 .. tuple_count : Filled(s, t) /\ ret' = Result("insert", s, TRUE, Bytes(t))
      BY <1>2, <2>1, Zenon DEF InsertTuple, Filled
    <3>2. r # s
      BY Zenon, <3>1 DEF Result
    <3> QED BY Zenon, <3>1, <3>2, InsertBytes
  <2> QED BY Zenon, <1>1, <2>1
<1>3. ASSUME NEW s \in 0 .. MaxSlots, MarkDelete(s) \/ RollbackDelete(s)
      PROVE  slot'[r].size = slot[r].size /\ BytesAt(r)' = BytesAt(r)
  <2>1. data' = data /\ ret'.slot = s
    <3>1. data' = data /\ \E op, ok, bytes : ret' = Result(op, s, ok, bytes)
      BY Zenon, <1>3 DEF MarkDelete, RollbackDelete
    <3> QED BY <3>1 DEF Result
  <2>2. slot'[r] = slot[r]
    <3>1. r # s /\ r \in DOMAIN slot
      BY Zenon, <2>1 DEF Inv, TypeOK
    <3>2. slot' = slot \/ \E e : slot' = [slot EXCEPT ![s] = e]
      BY <1>3, Zenon DEF MarkDelete, RollbackDelete
    <3> QED BY <3>1, <3>2, Zenon
  <2> QED BY Zenon, <2>1, <2>2 DEF BytesAt
<1>4. ASSUME NEW s \in 0 .. MaxSlots, ApplyDelete(s)
      PROVE  slot'[r].size = slot[r].size /\ BytesAt(r)' = BytesAt(r)
  <2>1. ret'.slot = s
    <3>1. \E op, ok, bytes : ret' = Result(op, s, ok, bytes)
      BY <1>4, Zenon DEF ApplyDelete
    <3> QED BY <3>1 DEF Result
  <2> QED BY Zenon, <1>1, <1>4, <2>1, ApplyLayout, ResizeBytes
<1>5. ASSUME NEW s \in 0 .. MaxSlots, NEW t \in Tuples, UpdateTuple(s, t)
      PROVE  slot'[r].size = slot[r].size /\ BytesAt(r)' = BytesAt(r)
  <2>1. ret'.slot = s
    <3>1. \E op, ok, bytes : ret' = Result(op, s, ok, bytes)
      BY <1>5, Zenon DEF UpdateTuple
    <3> QED BY <3>1 DEF Result
  <2>2. CASE /\ Live(s) /\ s \in 0 .. tuple_count - 1 /\ Resized(s, Size[t])
             /\ Size[t] <= slot[s].size + (free_space_pointer - 24 - 8 * tuple_count)
             /\ data' = Replaced(slot[s].offset, slot[s].offset + slot[s].size, Size[t], Bytes(t))
    <3>1. Size[t] \in Nat /\ r # s
      BY Zenon, <2>1, TupleAssumption
    <3> QED BY Zenon, <2>2, <3>1, ResizeBytes
  <2>3. \/ UNCHANGED <<free_space_pointer, tuple_count, slot, data>>
        \/ /\ Live(s) /\ s \in 0 .. tuple_count - 1 /\ Resized(s, Size[t])
           /\ Size[t] <= slot[s].size + (free_space_pointer - 24 - 8 * tuple_count)
           /\ data' = Replaced(slot[s].offset, slot[s].offset + slot[s].size, Size[t], Bytes(t))
    BY Zenon, <1>5, UpdateLayout
  <2> QED BY Zenon, <1>1, <2>2, <2>3
<1> QED BY Zenon, <1>1, <1>2, <1>3, <1>4, <1>5 DEF Next, GetTuple

(* No operation on one slot changes the bytes read from another, whatever    *)
(* the page size, the tuples and the history: memmove and the offset        *)
(* updates of UpdateTuple and ApplyDelete agree (OthersIntact).             *)
THEOREM PageOthersIntact == Spec => OthersIntact
<1> DEFINE Intact == \A s \in 0 .. tuple_count - 1 :
                       Live(s) /\ s # ret'.slot
                         => slot'[s].size = slot[s].size /\ BytesAt(s)' = BytesAt(s)
<1>1. Init => Inv
  BY Zenon, InitLayout DEF Inv
<1>2. Inv /\ [Next]_vars => [Intact]_vars
  BY Zenon, StepIntact
<1>3. OthersIntact <=> [][Intact]_vars
  BY Zenon DEF OthersIntact
<1> QED BY <1>1, <1>2, <1>3, StepLayout, PTL DEF Spec

-----------------------------------------------------------------------------
(* The bytes of the tuples in the slots S of a page: the sum in              *)
(* GetFreeSpaceRemaining.                                                    *)
Total(p, S) == Abstract!MapThenSumSet(LAMBDA s : Abstract!SizeAt(p, s), S)
Pick(s) == CHOOSE x \in s : TRUE
(* The fold behind the sum chooses a function f with this equation. *)
Iter(p, S, f) == f = [s \in SUBSET S |-> IF s = {} THEN 0 ELSE Abstract!SizeAt(p, Pick(s)) + f[s \ {Pick(s)}]]

(* The sum is the value at S of the function that the fold chooses. *)
LEMMA TotalDef ==
  ASSUME NEW p, NEW S
  PROVE  Total(p, S) = (CHOOSE f : Iter(p, S, f))[S]
BY Zenon DEF Total, Iter, Abstract!MapThenSumSet, Abstract!MapThenFoldSet, Pick

(* A non-empty set of subsets of a finite set has one that contains no       *)
(* other: the induction principle of this module.                            *)
LEMMA SmallestSubset ==
  ASSUME NEW S, IsFiniteSet(S), NEW B \in SUBSET (SUBSET S), B # {}
  PROVE  \E T \in B : \A U \in B : ~(U \subseteq T /\ U # T)
<1>1. IsWellFoundedOn(StrictSubsetOrdering(S), FiniteSubsetsOf(S))
  BY Zenon, FS_StrictSubsetOrderingWellFounded
<1>2. B \subseteq FiniteSubsetsOf(S)
  BY Zenon, FS_Subset DEF FiniteSubsetsOf
<1>3. \E T \in B : \A U \in B : ~(<<U, T>> \in StrictSubsetOrdering(S))
  BY Zenon, <1>1, <1>2, WFMin
<1> QED BY Zenon, <1>3 DEF StrictSubsetOrdering

(* The element the fold takes first. *)
LEMMA Picked ==
  ASSUME NEW s, s # {}
  PROVE  Pick(s) \in s /\ s \ {Pick(s)} \subseteq s /\ s \ {Pick(s)} # s
BY Zenon DEF Pick

(* The equation of the fold at one set. *)
LEMMA IterAt ==
  ASSUME NEW p, NEW S, NEW f, Iter(p, S, f), NEW s \in SUBSET S
  PROVE  f[s] = IF s = {} THEN 0 ELSE Abstract!SizeAt(p, Pick(s)) + f[s \ {Pick(s)}]
<1> DEFINE G(h) == [u \in SUBSET S |-> IF u = {} THEN 0 ELSE Abstract!SizeAt(p, Pick(u)) + h[u \ {Pick(u)}]]
<1>1. f = G(f)
  BY Zenon DEF Iter
<1>2. G(f)[s] = IF s = {} THEN 0 ELSE Abstract!SizeAt(p, Pick(s)) + f[s \ {Pick(s)}]
  BY Zenon
<1> HIDE DEF G
<1> QED BY Zenon, <1>1, <1>2

(* Two solutions of the equation agree where both are defined. *)
LEMMA IterUnique ==
  ASSUME NEW p, NEW S, NEW T, IsFiniteSet(S), NEW f, NEW g, Iter(p, S, f), Iter(p, T, g), S \subseteq T
  PROVE  \A s \in SUBSET S : f[s] = g[s]
<1> DEFINE B == {s \in SUBSET S : f[s] # g[s]}
<1> SUFFICES ASSUME B # {} PROVE FALSE
  BY Zenon
<1>0. B \in SUBSET (SUBSET S)
  BY Zenon
<1>1. PICK s \in B : \A u \in B : ~(u \subseteq s /\ u # s)
  <2> HIDE DEF B
  <2> QED BY <1>0, SmallestSubset
<1>2. s # {}
  BY Zenon, IterAt
<1>3. s \ {Pick(s)} \in SUBSET S /\ s \ {Pick(s)} \notin B
  BY Zenon, <1>1, <1>2, Picked
<1>4. f[s] = Abstract!SizeAt(p, Pick(s)) + f[s \ {Pick(s)}] /\ g[s] = Abstract!SizeAt(p, Pick(s)) + g[s \ {Pick(s)}]
  <2>1. s \in SUBSET S /\ s \in SUBSET T
    BY Zenon
  <2> QED BY <2>1, <1>2, IterAt
<1> QED BY Zenon, <1>3, <1>4

(* The equation has a solution on a finite set. *)
LEMMA IterExists ==
  ASSUME NEW p, NEW S, IsFiniteSet(S)
  PROVE  \E f : Iter(p, S, f)
<1> DEFINE Sol(T) == CHOOSE f : Iter(p, T, f)
           B == {T \in SUBSET S : ~\E f : Iter(p, T, f)}
<1> SUFFICES ASSUME B # {} PROVE FALSE
  BY Zenon
<1>0. B \in SUBSET (SUBSET S)
  BY Zenon
<1>1. PICK T \in B : \A U \in B : ~(U \subseteq T /\ U # T)
  <2> HIDE DEF B
  <2> QED BY <1>0, SmallestSubset
<1>2. \A U \in SUBSET T : U # T => Iter(p, U, Sol(U))
  <2> SUFFICES ASSUME NEW U \in SUBSET T, U # T PROVE Iter(p, U, Sol(U))
    BY Zenon
  <2>1. \E f : Iter(p, U, f)
    BY Zenon, <1>1
  <2> QED BY Zenon, <2>1
<1> DEFINE F == [s \in SUBSET T |-> IF s = {} THEN 0 ELSE Abstract!SizeAt(p, Pick(s)) + Sol(s \ {Pick(s)})[s \ {Pick(s)}]]
<1>3. \A s \in SUBSET T : s # T => F[s] = Sol(s)[s]
  <2> SUFFICES ASSUME NEW s \in SUBSET T, s # T PROVE F[s] = Sol(s)[s]
    BY Zenon
  <2>1. Iter(p, s, Sol(s))
    BY Zenon, <1>2
  <2> DEFINE u == s \ {Pick(s)}
  <2>2. Sol(s)[s] = IF s = {} THEN 0 ELSE Abstract!SizeAt(p, Pick(s)) + Sol(s)[u]
    <3>1. ASSUME NEW h, Iter(p, s, h)
          PROVE  h[s] = IF s = {} THEN 0 ELSE Abstract!SizeAt(p, Pick(s)) + h[u]
      <4>1. s \in SUBSET s
        BY Zenon
      <4> QED BY <3>1, <4>1, IterAt
    <3> HIDE DEF Sol, u
    <3> QED BY Zenon, <2>1, <3>1
  <2>3. CASE s = {}
    <3> HIDE DEF Sol
    <3> QED BY Zenon, <2>2, <2>3
  <2>4. CASE s # {}
    <3>1. u \in SUBSET T /\ u # T /\ u \subseteq s
      BY Zenon, <2>4, Picked
    <3>2. Iter(p, u, Sol(u)) /\ IsFiniteSet(u)
      BY Zenon, <3>1, <1>2, FS_Subset
    <3> HIDE DEF Sol, u
    <3>3. Sol(u)[u] = Sol(s)[u]
      BY <3>1, <3>2, <2>1, IterUnique
    <3>4. F[s] = Abstract!SizeAt(p, Pick(s)) + Sol(u)[u]
      BY Zenon, <2>4 DEF u
    <3> HIDE DEF F
    <3> QED BY Zenon, <2>2, <2>4, <3>3, <3>4
  <2> QED BY Zenon, <2>3, <2>4
<1>4. Iter(p, T, F)
  <2>1. ASSUME NEW s \in SUBSET T
        PROVE  F[s] = IF s = {} THEN 0 ELSE Abstract!SizeAt(p, Pick(s)) + F[s \ {Pick(s)}]
    <3>1. CASE s = {}
      BY Zenon, <3>1
    <3>2. CASE s # {}
      <4>1. s \ {Pick(s)} \in SUBSET T /\ s \ {Pick(s)} # T
        BY Zenon, <3>2, Picked
      <4>2. F[s \ {Pick(s)}] = Sol(s \ {Pick(s)})[s \ {Pick(s)}]
        <5> HIDE DEF F, Sol
        <5> QED BY Zenon, <4>1, <1>3
      <4>3. F[s] = Abstract!SizeAt(p, Pick(s)) + Sol(s \ {Pick(s)})[s \ {Pick(s)}]
        <5> HIDE DEF Sol
        <5> QED BY Zenon, <3>2
      <4> HIDE DEF F, Sol
      <4> QED BY Zenon, <3>2, <4>2, <4>3
    <3> QED BY Zenon, <3>1, <3>2
  <2>2. F = [s \in SUBSET T |-> F[s]]
    <3> HIDE DEF Sol
    <3> QED BY Zenon
  <2> HIDE DEF F
  <2> QED BY Zenon, <2>1, <2>2 DEF Iter
<1> HIDE DEF F, Sol
<1> QED BY Zenon, <1>1, <1>4

(* The sum takes one slot at a time, in the order of the fold. *)
LEMMA TotalRec ==
  ASSUME NEW p, NEW S, IsFiniteSet(S)
  PROVE  Total(p, S) = IF S = {} THEN 0 ELSE Abstract!SizeAt(p, Pick(S)) + Total(p, S \ {Pick(S)})
<1> DEFINE f == CHOOSE h : Iter(p, S, h)
           U == S \ {Pick(S)}
           g == CHOOSE h : Iter(p, U, h)
<1>1. Iter(p, S, f)
  BY Zenon, IterExists
<1>2. IsFiniteSet(U) /\ Iter(p, U, g)
  BY Zenon, FS_RemoveElement, IterExists
<1>3. Total(p, S) = f[S] /\ Total(p, U) = g[U]
  BY Zenon, TotalDef
<1>4. g[U] = f[U]
  <2> HIDE DEF f, g
  <2>1. U \subseteq S /\ U \in SUBSET U
    BY Zenon
  <2> HIDE DEF U
  <2> QED BY <2>1, <1>1, <1>2, IterUnique
<1>5. f[S] = IF S = {} THEN 0 ELSE Abstract!SizeAt(p, Pick(S)) + f[U]
  <2> HIDE DEF f, g
  <2> QED BY <1>1, IterAt
<1> HIDE DEF f, g, U
<1> QED BY Zenon, <1>3, <1>4, <1>5 DEF U

(* A sum of sizes is a natural number. *)
LEMMA TotalType ==
  ASSUME NEW p, NEW S, IsFiniteSet(S), \A s \in S : Abstract!SizeAt(p, s) \in Nat
  PROVE  Total(p, S) \in Nat
<1> DEFINE B == {T \in SUBSET S : Total(p, T) \notin Nat}
<1> SUFFICES ASSUME B # {} PROVE FALSE
  BY Zenon
<1>0. B \in SUBSET (SUBSET S)
  BY Zenon
<1>1. PICK T \in B : \A U \in B : ~(U \subseteq T /\ U # T)
  <2> HIDE DEF B
  <2> QED BY <1>0, SmallestSubset
<1>2. IsFiniteSet(T)
  BY Zenon, FS_Subset
<1>3. T # {}
  <2>1. Total(p, {}) = 0
    BY Zenon, FS_EmptySet, TotalRec
  <2> QED BY <2>1
<1>4. Total(p, T \ {Pick(T)}) \in Nat /\ Pick(T) \in S
  BY Zenon, <1>1, <1>3, Picked
<1>5. Total(p, T) = Abstract!SizeAt(p, Pick(T)) + Total(p, T \ {Pick(T)})
  BY Zenon, <1>2, <1>3, TotalRec
<1> QED BY <1>4, <1>5

(* The order does not matter: any slot can be split off. *)
LEMMA TotalRemove ==
  ASSUME NEW p, NEW S, IsFiniteSet(S), \A s \in S : Abstract!SizeAt(p, s) \in Nat, NEW x \in S
  PROVE  Total(p, S) = Abstract!SizeAt(p, x) + Total(p, S \ {x})
<1> DEFINE Good(T) == \A y \in T : Total(p, T) = Abstract!SizeAt(p, y) + Total(p, T \ {y})
           B == {T \in SUBSET S : ~Good(T)}
<1> SUFFICES ASSUME B # {} PROVE FALSE
  BY Zenon
<1>0. B \in SUBSET (SUBSET S)
  BY Zenon
<1>1. PICK T \in B : \A U \in B : ~(U \subseteq T /\ U # T)
  <2> HIDE DEF B
  <2> QED BY <1>0, SmallestSubset
<1>2. PICK y \in T : Total(p, T) # Abstract!SizeAt(p, y) + Total(p, T \ {y})
  BY Zenon
<1> DEFINE c == Pick(T)
<1>3. c \in T
  BY Zenon, <1>2, Picked
<1>4. /\ IsFiniteSet(T) /\ IsFiniteSet(T \ {y}) /\ IsFiniteSet(T \ {c})
      /\ IsFiniteSet((T \ {y}) \ {c})
  BY Zenon, FS_Subset
<1>5. Total(p, T) = Abstract!SizeAt(p, c) + Total(p, T \ {c})
  BY Zenon, <1>2, <1>4, TotalRec
<1>6. c # y
  BY Zenon, <1>2, <1>5
<1>7. Good(T \ {c}) /\ Good(T \ {y})
  BY <1>1, <1>2, <1>3
<1>8. Total(p, T \ {c}) = Abstract!SizeAt(p, y) + Total(p, (T \ {c}) \ {y})
  BY Zenon, <1>7, <1>6
<1>9. Total(p, T \ {y}) = Abstract!SizeAt(p, c) + Total(p, (T \ {y}) \ {c})
  BY Zenon, <1>7, <1>6, <1>3
<1>10. (T \ {c}) \ {y} = (T \ {y}) \ {c}
  BY Zenon
<1>11. Abstract!SizeAt(p, c) \in Nat /\ Abstract!SizeAt(p, y) \in Nat /\ Total(p, (T \ {y}) \ {c}) \in Nat
  <2>1. c \in S /\ y \in S
    BY Zenon, <1>2, <1>3
  <2>2. \A s \in (T \ {y}) \ {c} : Abstract!SizeAt(p, s) \in Nat
    BY Zenon
  <2> QED BY Zenon, <2>1, <2>2, <1>4, TotalType
<1> HIDE DEF c, B, Good
<1> QED BY <1>2, <1>5, <1>8, <1>9, <1>10, <1>11

(* Slots of the same sizes have the same sum. *)
LEMMA TotalSame ==
  ASSUME NEW p, NEW q, NEW S, IsFiniteSet(S), \A s \in S : Abstract!SizeAt(p, s) = Abstract!SizeAt(q, s)
  PROVE  Total(p, S) = Total(q, S)
<1> DEFINE B == {T \in SUBSET S : Total(p, T) # Total(q, T)}
<1> SUFFICES ASSUME B # {} PROVE FALSE
  BY Zenon
<1>0. B \in SUBSET (SUBSET S)
  BY Zenon
<1>1. PICK T \in B : \A U \in B : ~(U \subseteq T /\ U # T)
  <2> HIDE DEF B
  <2> QED BY <1>0, SmallestSubset
<1>2. IsFiniteSet(T)
  BY Zenon, FS_Subset
<1>3. T # {}
  BY Zenon, <1>2, TotalRec
<1>4. Total(p, T \ {Pick(T)}) = Total(q, T \ {Pick(T)}) /\ Pick(T) \in S
  BY Zenon, <1>1, <1>3, Picked
<1>5. /\ Total(p, T) = Abstract!SizeAt(p, Pick(T)) + Total(p, T \ {Pick(T)})
      /\ Total(q, T) = Abstract!SizeAt(q, Pick(T)) + Total(q, T \ {Pick(T)})
  BY Zenon, <1>2, <1>3, TotalRec
<1> QED BY Zenon, <1>4, <1>5

(* The pages that can exist: slots numbered from 0 without a gap. *)
PageSet == UNION {[0 .. n - 1 -> Abstract!Slot] : n \in Nat}

(* The tuple count of a page is the number of its slots. *)
LEMMA TupleCount ==
  ASSUME NEW p
  PROVE  Abstract!GetTupleCount(p) = Cardinality(DOMAIN p)
BY Zenon DEF Abstract!GetTupleCount, Abstract!Cardinality, Cardinality

(* A page has as many slots as its tuple count says. *)
LEMMA PageShape ==
  ASSUME NEW p \in PageSet
  PROVE  /\ Abstract!GetTupleCount(p) \in Nat /\ DOMAIN p = 0 .. Abstract!GetTupleCount(p) - 1
         /\ p \in [DOMAIN p -> Abstract!Slot] /\ IsFiniteSet(DOMAIN p)
<1>1. PICK n \in Nat : p \in [0 .. n - 1 -> Abstract!Slot]
  BY Zenon DEF PageSet
<1>2. IsFiniteSet(0 .. n - 1) /\ Cardinality(0 .. n - 1) = n
  BY FS_Interval
<1> QED BY Zenon, <1>1, <1>2, TupleCount

(* Any row of slots is a page. *)
LEMMA PageMade ==
  ASSUME NEW n \in Nat, NEW p \in [0 .. n - 1 -> Abstract!Slot]
  PROVE  p \in PageSet
BY Zenon DEF PageSet

(* Min, which the slot searches use, finds the least element. *)
LEMMA LeastNatural ==
  ASSUME NEW S \in SUBSET Nat, S # {}
  PROVE  Abstract!Min(S) \in S /\ \A y \in S : Abstract!Min(S) <= y
<1>1. IsWellFoundedOn(OpToRel(<, Nat), Nat)
  BY Zenon, NatLessThanWellFounded
<1>2. \E x \in S : \A y \in S : ~(<<y, x>> \in OpToRel(<, Nat))
  <2> DEFINE R == OpToRel(<, Nat)
  <2> HIDE DEF R
  <2>1. IsWellFoundedOn(R, Nat)
    BY Zenon, <1>1 DEF R
  <2>2. \E x \in S : \A y \in S : ~(<<y, x>> \in R)
    BY Zenon, <2>1, WFMin
  <2> QED BY Zenon, <2>2 DEF R
<1>3. PICK x \in S : \A y \in S : ~(<<y, x>> \in OpToRel(<, Nat))
  BY Zenon, <1>2
<1>4. ASSUME NEW y \in S
      PROVE  x <= y
  <2>1. <<y, x>> \in Nat \X Nat /\ <<y, x>>[1] = y /\ <<y, x>>[2] = x
    BY Zenon
  <2>2. ~(y < x)
    BY Zenon, <2>1, <1>3 DEF OpToRel
  <2>3. x \in Nat /\ y \in Nat
    BY Zenon
  <2> QED BY <2>2, <2>3
<1> QED BY Zenon, <1>4 DEF Abstract!Min

(* InsertTuple takes an empty slot of the page or the one after its last. *)
LEMMA SlotChosen ==
  ASSUME NEW p \in PageSet
  PROVE  /\ Abstract!InsertSlot(p) \in Nat
         /\ \/ Abstract!InsertSlot(p) \in DOMAIN p /\ p[Abstract!InsertSlot(p)].tuple = NoTuple
            \/ Abstract!InsertSlot(p) = Abstract!GetTupleCount(p) /\ Abstract!InsertSlot(p) \notin DOMAIN p
<1> DEFINE free == {s \in DOMAIN p : p[s].tuple = NoTuple}
<1>1. Abstract!GetTupleCount(p) \in Nat /\ DOMAIN p = 0 .. Abstract!GetTupleCount(p) - 1
  BY Zenon, PageShape
<1>2. CASE free = {}
  BY <1>1, <1>2 DEF Abstract!InsertSlot
<1>3. CASE free # {}
  <2>1. free \in SUBSET Nat
    BY <1>1
  <2>2. Abstract!Min(free) \in free
    <3> HIDE DEF free
    <3> QED BY Zenon, <1>3, <2>1, LeastNatural
  <2>3. Abstract!InsertSlot(p) = Abstract!Min(free)
    BY Zenon, <1>3 DEF Abstract!InsertSlot
  <2> QED BY <1>1, <2>2, <2>3
<1> QED BY Zenon, <1>2, <1>3

(* After InsertTuple the slot it took holds the tuple and the others are as  *)
(* before.                                                                   *)
LEMMA Inserted ==
  ASSUME NEW p \in PageSet, NEW t \in Tuples
  PROVE  /\ Abstract!InsertTuple(p, t) \in PageSet
         /\ DOMAIN Abstract!InsertTuple(p, t) = DOMAIN p \cup {Abstract!InsertSlot(p)}
         /\ \A s \in DOMAIN p \cup {Abstract!InsertSlot(p)} :
              Abstract!InsertTuple(p, t)[s] = IF s = Abstract!InsertSlot(p) THEN Abstract!Holding(t) ELSE p[s]
<1> DEFINE k == Abstract!InsertSlot(p)
           n == Abstract!GetTupleCount(p)
           q == Abstract!InsertTuple(p, t)
<1>1. n \in Nat /\ DOMAIN p = 0 .. n - 1 /\ p \in [DOMAIN p -> Abstract!Slot]
  BY Zenon, PageShape
<1>2. k \in DOMAIN p \/ k = n
  BY Zenon, SlotChosen
<1>3. Abstract!Holding(t) \in Abstract!Slot
  BY Zenon DEF Abstract!Holding, Abstract!Slot
<1>4. q = [x \in DOMAIN p \cup {k} |-> IF x = k THEN Abstract!Holding(t) ELSE p[x]]
  BY Zenon DEF Abstract!InsertTuple
<1> HIDE DEF k, n, q
<1>5. CASE k \in DOMAIN p
  <2>1. q \in [0 .. n - 1 -> Abstract!Slot]
    BY Zenon, <1>1, <1>3, <1>4, <1>5
  <2> QED BY Zenon, <1>1, <1>4, <2>1, PageMade DEF k, q
<1>6. CASE k = n
  <2>1. DOMAIN p \cup {k} = 0 .. (n + 1) - 1
    BY <1>1, <1>6
  <2>2. q \in [0 .. (n + 1) - 1 -> Abstract!Slot] /\ n + 1 \in Nat
    BY <1>1, <1>3, <1>4, <2>1
  <2> QED BY Zenon, <1>4, <2>2, PageMade DEF k, q
<1> QED BY Zenon, <1>2, <1>5, <1>6

(* Setting one slot of a page gives a page. *)
LEMMA SlotSet ==
  ASSUME NEW p \in PageSet, NEW s \in DOMAIN p, NEW x \in Abstract!Slot
  PROVE  /\ [p EXCEPT ![s] = x] \in PageSet
         /\ DOMAIN [p EXCEPT ![s] = x] = DOMAIN p
         /\ \A k \in DOMAIN p : [p EXCEPT ![s] = x][k] = IF k = s THEN x ELSE p[k]
<1>1. Abstract!GetTupleCount(p) \in Nat /\ DOMAIN p = 0 .. Abstract!GetTupleCount(p) - 1 /\ p \in [DOMAIN p -> Abstract!Slot]
  BY Zenon, PageShape
<1>2. [p EXCEPT ![s] = x] \in [0 .. Abstract!GetTupleCount(p) - 1 -> Abstract!Slot]
  BY Zenon, <1>1
<1> QED BY Zenon, <1>1, <1>2, PageMade

(* A slot takes some number of bytes. *)
LEMMA SlotTakes ==
  ASSUME NEW p \in PageSet, NEW s \in DOMAIN p
  PROVE  Abstract!SizeAt(p, s) \in Nat
<1>1. p[s].tuple \in Tuples \cup {NoTuple}
  BY Zenon, PageShape DEF Abstract!Slot
<1> QED BY Zenon, <1>1, TupleAssumption DEF Abstract!SizeAt

(* The free space in terms of the sum. *)
LEMMA Space ==
  ASSUME NEW p
  PROVE  Abstract!GetFreeSpaceRemaining(p) =
           PageSize - SIZE_TABLE_PAGE_HEADER - SIZE_TUPLE * Abstract!GetTupleCount(p) - Total(p, DOMAIN p)
BY Zenon DEF Abstract!GetFreeSpaceRemaining, Total, SIZE_TABLE_PAGE_HEADER, SIZE_TUPLE,
             Abstract!SIZE_TABLE_PAGE_HEADER, Abstract!SIZE_TUPLE

(* The free space is an integer (that it is not negative is an invariant). *)
LEMMA SpaceType ==
  ASSUME NEW p \in PageSet
  PROVE  Abstract!GetFreeSpaceRemaining(p) \in Int /\ Total(p, DOMAIN p) \in Nat
<1>1. Total(p, DOMAIN p) \in Nat
  BY Zenon, PageShape, SlotTakes, TotalType
<1> QED BY <1>1, Space, PageShape, TupleAssumption, PageAssumption DEF SIZE_TABLE_PAGE_HEADER, SIZE_TUPLE

(* An empty page has all of its space but the header. *)
LEMMA SpaceEmpty == Abstract!GetFreeSpaceRemaining(Abstract!EmptyPage) = PageSize - SIZE_TABLE_PAGE_HEADER /\ Abstract!EmptyPage \in PageSet
<1>1. DOMAIN Abstract!EmptyPage = {}
  BY Zenon DEF Abstract!EmptyPage
<1>2. Total(Abstract!EmptyPage, {}) = 0 /\ Abstract!GetTupleCount(Abstract!EmptyPage) = 0
  BY Zenon, <1>1, FS_EmptySet, TotalRec, TupleCount
<1>3. Abstract!EmptyPage \in [0 .. 0 - 1 -> Abstract!Slot]
  <2>1. 0 .. 0 - 1 = {}
    OBVIOUS
  <2> QED BY Zenon, <2>1 DEF Abstract!EmptyPage
<1>4. Abstract!EmptyPage \in PageSet
  BY Zenon, <1>3, PageMade
<1>5. Abstract!GetFreeSpaceRemaining(Abstract!EmptyPage) =
        PageSize - SIZE_TABLE_PAGE_HEADER - SIZE_TUPLE * Abstract!GetTupleCount(Abstract!EmptyPage) - Total(Abstract!EmptyPage, DOMAIN Abstract!EmptyPage)
  BY Zenon, Space
<1> QED BY <1>1, <1>2, <1>4, <1>5, TupleAssumption, PageAssumption DEF SIZE_TABLE_PAGE_HEADER, SIZE_TUPLE

(* When one slot changes, the free space changes by the difference of the    *)
(* sizes.                                                                    *)
LEMMA SpaceSet ==
  ASSUME NEW p \in PageSet, NEW s \in DOMAIN p, NEW q \in PageSet, DOMAIN q = DOMAIN p,
         \A k \in DOMAIN p \ {s} : q[k] = p[k]
  PROVE  Abstract!GetFreeSpaceRemaining(q) = Abstract!GetFreeSpaceRemaining(p) + Abstract!SizeAt(p, s) - Abstract!SizeAt(q, s)
<1> DEFINE D == DOMAIN p
           R == D \ {s}
<1>1. IsFiniteSet(D) /\ IsFiniteSet(R) /\ Abstract!GetTupleCount(p) \in Nat
  BY Zenon, PageShape, FS_RemoveElement
<1>2. \A k \in D : Abstract!SizeAt(p, k) \in Nat /\ Abstract!SizeAt(q, k) \in Nat
  BY Zenon, SlotTakes
<1>3. Total(p, R) = Total(q, R)
  <2>1. \A k \in R : Abstract!SizeAt(p, k) = Abstract!SizeAt(q, k)
    BY Zenon DEF Abstract!SizeAt
  <2> HIDE DEF R
  <2> QED BY Zenon, <1>1, <2>1, TotalSame
<1>4. Total(p, D) = Abstract!SizeAt(p, s) + Total(p, R) /\ Total(q, D) = Abstract!SizeAt(q, s) + Total(q, R)
  <2> HIDE DEF D
  <2>1. s \in D
    BY Zenon DEF D
  <2> QED BY <1>1, <1>2, <2>1, TotalRemove
<1>5. Total(p, R) \in Nat
  <2> HIDE DEF D
  <2> QED BY Zenon, <1>1, <1>2, TotalType
<1>6. Abstract!GetTupleCount(q) = Abstract!GetTupleCount(p)
  BY Zenon DEF Abstract!GetTupleCount
<1>7. /\ Abstract!GetFreeSpaceRemaining(p) = PageSize - SIZE_TABLE_PAGE_HEADER - SIZE_TUPLE * Abstract!GetTupleCount(p) - Total(p, D)
      /\ Abstract!GetFreeSpaceRemaining(q) = PageSize - SIZE_TABLE_PAGE_HEADER - SIZE_TUPLE * Abstract!GetTupleCount(p) - Total(q, D)
  BY Zenon, <1>6, Space
<1>8. Abstract!SizeAt(p, s) \in Nat /\ Abstract!SizeAt(q, s) \in Nat
  BY Zenon, <1>2
<1> HIDE DEF D, R
<1> QED BY <1>1, <1>3, <1>4, <1>5, <1>7, <1>8, TupleAssumption, PageAssumption DEF SIZE_TABLE_PAGE_HEADER, SIZE_TUPLE

(* InsertTuple takes the tuple's bytes, and a slot if there was no empty     *)
(* one.                                                                      *)
LEMMA SpaceInserted ==
  ASSUME NEW p \in PageSet, NEW t \in Tuples
  PROVE  Abstract!GetFreeSpaceRemaining(Abstract!InsertTuple(p, t)) =
           Abstract!GetFreeSpaceRemaining(p) - Size[t] - (IF Abstract!InsertSlot(p) \in DOMAIN p THEN 0 ELSE SIZE_TUPLE)
<1> DEFINE q == Abstract!InsertTuple(p, t)
           k == Abstract!InsertSlot(p)
           D == DOMAIN p
<1>1. /\ q \in PageSet /\ DOMAIN q = D \cup {k}
      /\ \A s \in D \cup {k} : q[s] = IF s = k THEN Abstract!Holding(t) ELSE p[s]
  BY Zenon, Inserted
<1>2. /\ k \in Nat
      /\ \/ k \in D /\ p[k].tuple = NoTuple
         \/ k = Abstract!GetTupleCount(p) /\ k \notin D
  BY Zenon, SlotChosen
<1>3. Abstract!SizeAt(q, k) = Size[t] /\ Size[t] \in Nat
  <2>1. q[k] = Abstract!Holding(t)
    BY Zenon, <1>1
  <2> HIDE DEF q
  <2> QED BY <2>1, TupleAssumption DEF Abstract!SizeAt, Abstract!Holding
<1>4. CASE k \in D
  <2>1. Abstract!SizeAt(p, k) = 0
    BY Zenon, <1>2, <1>4 DEF Abstract!SizeAt
  <2>2. DOMAIN q = DOMAIN p /\ \A s \in DOMAIN p \ {k} : q[s] = p[s]
    BY Zenon, <1>1, <1>4
  <2>3. Abstract!GetFreeSpaceRemaining(q) = Abstract!GetFreeSpaceRemaining(p) + Abstract!SizeAt(p, k) - Abstract!SizeAt(q, k)
    <3> HIDE DEF q, k
    <3> QED BY Zenon, <1>1, <1>4, <2>2, SpaceSet
  <2>4. Abstract!GetFreeSpaceRemaining(p) \in Int
    BY Zenon, SpaceType
  <2> HIDE DEF q, k, D
  <2>5. Abstract!GetFreeSpaceRemaining(q) = Abstract!GetFreeSpaceRemaining(p) - Size[t] - 0
    BY <1>3, <2>1, <2>3, <2>4
  <2> QED BY Zenon, <1>4, <2>5 DEF q, k, D
<1>5. CASE k \notin D
  <2>1. IsFiniteSet(D) /\ IsFiniteSet(D \cup {k}) /\ Cardinality(D \cup {k}) = Cardinality(D) + 1
    <3> HIDE DEF k
    <3> QED BY Zenon, <1>5, PageShape, FS_AddElement
  <2>2. Abstract!GetTupleCount(q) = Abstract!GetTupleCount(p) + 1 /\ Abstract!GetTupleCount(p) \in Nat
    <3>1. Abstract!GetTupleCount(p) \in Nat
      BY Zenon, PageShape
    <3> QED BY Zenon, <1>1, <2>1, <3>1, TupleCount
  <2>3. Total(q, D \cup {k}) = Abstract!SizeAt(q, k) + Total(q, (D \cup {k}) \ {k})
    <3>1. \A s \in D \cup {k} : Abstract!SizeAt(q, s) \in Nat
      BY Zenon, <1>1, SlotTakes
    <3> HIDE DEF D, q, k
    <3> QED BY <2>1, <3>1, TotalRemove
  <2>4. (D \cup {k}) \ {k} = D
    BY Zenon, <1>5
  <2>5. Total(q, D) = Total(p, D)
    <3>1. \A s \in D : Abstract!SizeAt(q, s) = Abstract!SizeAt(p, s)
      BY Zenon, <1>1, <1>5 DEF Abstract!SizeAt
    <3> HIDE DEF D, q
    <3> QED BY Zenon, <2>1, <3>1, TotalSame
  <2>6. Total(p, D) \in Nat
    BY Zenon, SpaceType
  <2>7. /\ Abstract!GetFreeSpaceRemaining(p) = PageSize - SIZE_TABLE_PAGE_HEADER - SIZE_TUPLE * Abstract!GetTupleCount(p) - Total(p, D)
        /\ Abstract!GetFreeSpaceRemaining(q) = PageSize - SIZE_TABLE_PAGE_HEADER - SIZE_TUPLE * Abstract!GetTupleCount(q) - Total(q, D \cup {k})
    BY Zenon, <1>1, Space
  <2> HIDE DEF D, q, k
  <2>8. Abstract!GetFreeSpaceRemaining(q) = Abstract!GetFreeSpaceRemaining(p) - Size[t] - SIZE_TUPLE
    BY <1>3, <2>2, <2>3, <2>4, <2>5, <2>6, <2>7, TupleAssumption, PageAssumption DEF SIZE_TABLE_PAGE_HEADER, SIZE_TUPLE
  <2> QED BY Zenon, <1>5, <2>8 DEF D, q, k
<1> QED BY Zenon, <1>4, <1>5

-----------------------------------------------------------------------------
(* What the layout holds, beside being sound: the bytes in every slot in     *)
(* use are those of one tuple, and the free space between the slot array and *)
(* the free space pointer is all that the tuples and slots leave over.       *)
Contents == \A s \in 0 .. tuple_count - 1 : Live(s) => \E t \in Tuples : BytesAt(s) = Bytes(t)
SpaceExact == GetFreeSpaceRemaining = Abstract!GetFreeSpaceRemaining(AbstractPage)
PageInv == Inv /\ Contents /\ SpaceExact

(* The bytes of a tuple tell it from any other and from no bytes. *)
LEMMA BytesTell ==
  ASSUME NEW t \in Tuples
  PROVE  /\ Size[t] \in Nat \ {0} /\ DOMAIN Bytes(t) = 0 .. Size[t] - 1 /\ Bytes(t) # NoBytes
         /\ \A u \in Tuples : Bytes(u) = Bytes(t) => u = t
<1>1. Size[t] \in Nat \ {0} /\ 0 \in 0 .. Size[t] - 1
  BY TupleAssumption
<1>2. DOMAIN Bytes(t) = 0 .. Size[t] - 1 /\ Bytes(t)[0] = <<t, 0>>
  BY Zenon, <1>1 DEF Bytes
<1>3. DOMAIN NoBytes = {}
  BY Zenon DEF NoBytes
<1>4. ASSUME NEW u \in Tuples, Bytes(u) = Bytes(t)
      PROVE  u = t
  <2>1. 0 \in 0 .. Size[u] - 1
    BY TupleAssumption
  <2>2. Bytes(u)[0] = <<u, 0>>
    BY Zenon, <2>1 DEF Bytes
  <2> QED BY <2>2, <1>2, <1>4
<1> QED BY Zenon, <1>1, <1>2, <1>3, <1>4

(* A reader of the bytes gets the tuple back. *)
LEMMA Decoded ==
  /\ Decode(NoBytes) = NoTuple
  /\ \A t \in Tuples : Decode(Bytes(t)) = t
<1>1. Decode(NoBytes) = NoTuple
  BY Zenon DEF Decode
<1>2. ASSUME NEW t \in Tuples
      PROVE  Decode(Bytes(t)) = t
  <2>1. Bytes(t) # NoBytes /\ \A u \in Tuples : Bytes(u) = Bytes(t) => u = t
    BY Zenon, BytesTell
  <2>2. Decode(Bytes(t)) = CHOOSE u \in Tuples : Bytes(u) = Bytes(t)
    BY Zenon, <2>1 DEF Decode
  <2> QED BY Zenon, <2>1, <2>2
<1> QED BY Zenon, <1>1, <1>2

(* An empty slot reads as no bytes. *)
LEMMA NoneRead ==
  ASSUME NEW sl, NEW d
  PROVE  [b \in 0 .. 0 - 1 |-> d[sl + b]] = NoBytes
<1>1. 0 .. 0 - 1 = {}
  OBVIOUS
<1> QED BY Zenon, <1>1 DEF NoBytes

(* What the abstract page has in a slot. *)
LEMMA ViewSlot ==
  ASSUME Inv, Contents, NEW s \in 0 .. tuple_count - 1
  PROVE  /\ AbstractPage[s] \in Abstract!Slot
         /\ AbstractPage[s] = [tuple |-> AbstractPage[s].tuple, deleted |-> slot[s].deleted]
         /\ AbstractPage[s].tuple = Decode(BytesAt(s))
         /\ Live(s) => /\ AbstractPage[s].tuple \in Tuples
                       /\ BytesAt(s) = Bytes(AbstractPage[s].tuple)
         /\ ~Live(s) => AbstractPage[s] = Abstract!Empty
         /\ Live(s) <=> AbstractPage[s].tuple # NoTuple
         /\ Abstract!SizeAt(AbstractPage, s) = slot[s].size
<1> DEFINE t == Decode(BytesAt(s))
<1>1. AbstractPage[s] = [tuple |-> t, deleted |-> slot[s].deleted]
  BY Zenon DEF AbstractPage
<1>2. slot[s].size \in Nat /\ slot[s].deleted \in BOOLEAN
  BY SlotFields DEF Inv
<1>3. CASE Live(s)
  <2>1. t \in Tuples /\ BytesAt(s) = Bytes(t)
    BY Zenon, <1>3, Decoded DEF Contents
  <2>2. DOMAIN BytesAt(s) = 0 .. slot[s].size - 1
    BY Zenon DEF BytesAt
  <2>3. Size[t] \in Nat \ {0} /\ DOMAIN Bytes(t) = 0 .. Size[t] - 1
    BY Zenon, <2>1, BytesTell
  <2> HIDE DEF t
  <2>4. Size[t] = slot[s].size
    <3>1. 0 .. Size[t] - 1 = 0 .. slot[s].size - 1
      BY Zenon, <2>1, <2>2, <2>3
    <3> QED BY <1>2, <2>3, <3>1
  <2>5. t # NoTuple
    BY Zenon, <2>1, TupleAssumption
  <2> QED BY <1>1, <1>2, <1>3, <2>1, <2>4, <2>5 DEF t, Abstract!Slot, Abstract!SizeAt
<1>4. CASE ~Live(s)
  <2>1. slot[s].size = 0 /\ slot[s].deleted = FALSE
    BY <1>2, <1>4 DEF Inv, LayoutSound, Live
  <2>2. BytesAt(s) = NoBytes
    BY <2>1, NoneRead DEF BytesAt
  <2>3. t = NoTuple
    BY Zenon, <2>2, Decoded
  <2> HIDE DEF t
  <2>4. AbstractPage[s] = Abstract!Empty /\ AbstractPage[s].tuple = NoTuple
    <3>1. AbstractPage[s] = [tuple |-> NoTuple, deleted |-> FALSE]
      BY Zenon, <1>1, <2>1, <2>3
    <3> QED BY <3>1 DEF Abstract!Empty
  <2>5. Abstract!Empty \in Abstract!Slot
    BY Zenon DEF Abstract!Slot, Abstract!Empty
  <2>6. Abstract!SizeAt(AbstractPage, s) = slot[s].size
    BY Zenon, <2>1, <2>4 DEF Abstract!SizeAt
  <2>7. AbstractPage[s] = [tuple |-> AbstractPage[s].tuple, deleted |-> slot[s].deleted]
    BY Zenon, <1>1, <2>3, <2>4
  <2> QED BY Zenon, <1>4, <2>3, <2>4, <2>5, <2>6, <2>7 DEF t
<1> QED BY Zenon, <1>3, <1>4

(* The abstract page is a page with as many slots. *)
LEMMA View ==
  ASSUME Inv, Contents
  PROVE  /\ AbstractPage \in PageSet /\ DOMAIN AbstractPage = 0 .. tuple_count - 1
         /\ tuple_count \in Nat /\ Abstract!GetTupleCount(AbstractPage) = tuple_count
<1>1. tuple_count \in Nat
  BY Zenon DEF Inv, TypeOK
<1>2. DOMAIN AbstractPage = 0 .. tuple_count - 1
  BY Zenon DEF AbstractPage
<1>3. AbstractPage \in [0 .. tuple_count - 1 -> Abstract!Slot]
  <2>1. AbstractPage = [s \in 0 .. tuple_count - 1 |-> AbstractPage[s]]
    BY Zenon DEF AbstractPage
  <2> QED BY Zenon, <2>1, ViewSlot
<1>4. Cardinality(0 .. tuple_count - 1) = tuple_count
  BY <1>1, FS_Interval
<1> QED BY Zenon, <1>1, <1>2, <1>3, <1>4, PageMade, TupleCount

(* The page and the abstract page agree on which calls succeed and on the    *)
(* slot an insertion takes.                                                  *)
LEMMA SameGuards ==
  ASSUME PageInv
  PROVE  /\ \A s \in Nat : Readable(s) <=> Abstract!Readable(AbstractPage, s)
         /\ \A s \in Nat : \A t \in Tuples : CanUpdate(s, t) <=> Abstract!CanUpdate(AbstractPage, s, t)
         /\ \A t \in Tuples :
              GetFreeSpaceRemaining >= Size[t] + SIZE_TUPLE <=> Abstract!CanInsert(AbstractPage, t)
<1>1. /\ Inv /\ Contents /\ DOMAIN AbstractPage = 0 .. tuple_count - 1 /\ tuple_count \in Nat
      /\ GetFreeSpaceRemaining = Abstract!GetFreeSpaceRemaining(AbstractPage)
  BY Zenon, View DEF PageInv, SpaceExact
<1>2. ASSUME NEW s \in Nat
      PROVE  Readable(s) <=> Abstract!Readable(AbstractPage, s)
  <2>1. s < tuple_count <=> s \in 0 .. tuple_count - 1
    BY <1>1
  <2>2. CASE s \in 0 .. tuple_count - 1
    <3>1. slot[s].size \in Nat /\ slot[s].deleted \in BOOLEAN
      BY <1>1, <2>2, SlotFields DEF Inv
    <3>2. slot[s].size = 0 <=> AbstractPage[s].tuple = NoTuple
      <4>1. Live(s) <=> AbstractPage[s].tuple # NoTuple
        BY Zenon, <1>1, <2>2, ViewSlot
      <4>2. Live(s) <=> slot[s].size # 0
        BY <3>1 DEF Live
      <4> QED BY Zenon, <4>1, <4>2
    <3>3. slot[s].deleted = AbstractPage[s].deleted
      <4>1. AbstractPage[s] = [tuple |-> AbstractPage[s].tuple, deleted |-> slot[s].deleted]
        BY Zenon, <1>1, <2>2, ViewSlot
      <4> QED BY <4>1
    <3> QED BY Zenon, <1>1, <2>1, <2>2, <3>2, <3>3 DEF Readable, IsDeleted, Abstract!Readable
  <2>3. CASE s \notin 0 .. tuple_count - 1
    BY Zenon, <1>1, <2>1, <2>3 DEF Readable, Abstract!Readable
  <2> QED BY Zenon, <2>2, <2>3
<1>3. ASSUME NEW s \in Nat, NEW t \in Tuples
      PROVE  CanUpdate(s, t) <=> Abstract!CanUpdate(AbstractPage, s, t)
  <2>1. CASE Readable(s)
    <3>1. s \in 0 .. tuple_count - 1
      BY <1>1, <2>1 DEF Readable
    <3>2. slot[s].size = Abstract!SizeAt(AbstractPage, s)
      BY Zenon, <1>1, <3>1, ViewSlot
    <3> QED BY Zenon, <1>1, <1>2, <2>1, <3>2 DEF CanUpdate, Abstract!CanUpdate
  <2> QED BY Zenon, <1>2, <2>1 DEF CanUpdate, Abstract!CanUpdate
<1>4. ASSUME NEW t \in Tuples
      PROVE  GetFreeSpaceRemaining >= Size[t] + SIZE_TUPLE <=> Abstract!CanInsert(AbstractPage, t)
  BY Zenon, <1>1 DEF Abstract!CanInsert, SIZE_TUPLE, Abstract!SIZE_TUPLE
<1> QED BY Zenon, <1>2, <1>3, <1>4

(* The scan of the slots from the front finds what the abstract page calls   *)
(* its first empty slot.                                                     *)
LEMMA SameSlot ==
  ASSUME Inv, Contents, NEW s \in 0 .. tuple_count, FirstFree(s)
  PROVE  Abstract!InsertSlot(AbstractPage) = s
<1> DEFINE free == {r \in DOMAIN AbstractPage : AbstractPage[r].tuple = NoTuple}
<1>1. /\ DOMAIN AbstractPage = 0 .. tuple_count - 1 /\ tuple_count \in Nat
      /\ Abstract!GetTupleCount(AbstractPage) = tuple_count
  BY Zenon, View
<1>2. ASSUME NEW r \in 0 .. tuple_count - 1
      PROVE  r \in free <=> slot[r].size = 0
  <2>1. slot[r].size \in Nat
    BY SlotFields DEF Inv
  <2>2. Live(r) <=> AbstractPage[r].tuple # NoTuple
    BY Zenon, ViewSlot
  <2>3. Live(r) <=> slot[r].size # 0
    BY <2>1 DEF Live
  <2> QED BY Zenon, <1>1, <2>2, <2>3
<1>3. free \subseteq 0 .. tuple_count - 1
  BY Zenon, <1>1
<1>4. Abstract!InsertSlot(AbstractPage) = IF free = {} THEN tuple_count ELSE Abstract!Min(free)
  BY Zenon, <1>1 DEF Abstract!InsertSlot
<1> HIDE DEF free
<1>5. CASE s = tuple_count
  <2>1. \A r \in 0 .. tuple_count - 1 : slot[r].size # 0
    BY Zenon, <1>5 DEF FirstFree
  <2>2. free = {}
    BY Zenon, <1>2, <1>3, <2>1
  <2> QED BY Zenon, <1>4, <1>5, <2>2
<1>6. CASE s # tuple_count
  <2>1. s \in 0 .. tuple_count - 1 /\ s < tuple_count
    BY <1>1, <1>6
  <2>2. s \in free
    BY Zenon, <1>2, <2>1 DEF FirstFree
  <2>3. free \in SUBSET Nat /\ free # {}
    BY <1>3, <2>2
  <2>4. Abstract!Min(free) \in free /\ \A y \in free : Abstract!Min(free) <= y
    BY Zenon, <2>3, LeastNatural
  <2> DEFINE m == Abstract!Min(free)
  <2>5. m \in 0 .. tuple_count - 1 /\ slot[m].size = 0 /\ m <= s
    BY Zenon, <1>2, <1>3, <2>2, <2>4
  <2> HIDE DEF m
  <2>6. m \notin 0 .. s - 1
    BY Zenon, <2>5 DEF FirstFree
  <2>7. m = s
    BY <2>1, <2>5, <2>6
  <2> QED BY Zenon, <1>4, <2>3, <2>7 DEF m
<1> QED BY Zenon, <1>5, <1>6

(* The free space after a step, computed without a wrap. *)
LEMMA FreeSpaceNext ==
  ASSUME Inv'
  PROVE  /\ GetFreeSpaceRemaining' = free_space_pointer' - 24 - 8 * tuple_count'
         /\ free_space_pointer' \in Nat /\ tuple_count' \in Nat
<1>1. TypeOK' /\ LayoutSound'
  BY Zenon DEF Inv
<1>2. free_space_pointer' \in 0 .. PageSize /\ tuple_count' \in Nat
  BY Zenon, <1>1 DEF TypeOK
<1>3. 24 + 8 * tuple_count' <= free_space_pointer'
  <2>1. (SIZE_TABLE_PAGE_HEADER + SIZE_TUPLE * tuple_count <= free_space_pointer)'
    BY Zenon, <1>1 DEF LayoutSound
  <2> QED BY Zenon, <2>1 DEF SIZE_TABLE_PAGE_HEADER, SIZE_TUPLE
<1>4. ASSUME NEW f \in 0 .. PageSize, NEW c \in Nat, 24 + 8 * c <= f
      PROVE  (f - 24 - 8 * c) % Word = f - 24 - 8 * c
  <2>1. f - 24 - 8 * c \in Nat /\ f - 24 - 8 * c < Word /\ Word \in Nat
    BY <1>4, PageAssumption
  <2> QED BY Zenon, <2>1, NoWrap
<1>5. (free_space_pointer' - 24 - 8 * tuple_count') % Word = free_space_pointer' - 24 - 8 * tuple_count'
  BY Zenon, <1>2, <1>3, <1>4
<1>6. free_space_pointer' \in Nat
  BY <1>2, PageAssumption
<1> QED BY Zenon, <1>2, <1>5, <1>6 DEF GetFreeSpaceRemaining, SIZE_TABLE_PAGE_HEADER, SIZE_TUPLE

(* The free space before it, in the same terms. *)
LEMMA FreeSpaceNow ==
  ASSUME Inv
  PROVE  /\ GetFreeSpaceRemaining = free_space_pointer - 24 - 8 * tuple_count
         /\ free_space_pointer \in Nat /\ tuple_count \in Nat
<1>1. GetFreeSpaceRemaining = free_space_pointer - 24 - 8 * tuple_count
  BY Zenon, FreeSpace DEF Inv
<1>2. free_space_pointer \in Nat /\ tuple_count \in Nat
  BY DEF Inv, TypeOK
<1> QED BY Zenon, <1>1, <1>2

(* The sizes in the slots after a step are numbers. *)
LEMMA SizesNext ==
  ASSUME Inv', NEW r \in 0 .. tuple_count' - 1
  PROVE  slot'[r].size \in Nat
<1>1. TypeOK'
  BY Zenon DEF Inv
<1>2. slot' \in [0 .. tuple_count' - 1 -> [offset : 0 .. PageSize, size : 0 .. PageSize, deleted : BOOLEAN]]
  BY Zenon, <1>1 DEF TypeOK
<1>3. slot'[r].size \in 0 .. PageSize
  BY Zenon, <1>2
<1> QED BY <1>3, PageAssumption

(* How the abstract page reads one slot after a step, from its bytes. *)
LEMMA ReadNext ==
  ASSUME Inv', NEW s \in 0 .. tuple_count' - 1, NEW x \in Abstract!Slot,
         x.deleted = slot'[s].deleted,
         Live(s)' => x.tuple \in Tuples /\ BytesAt(s)' = Bytes(x.tuple),
         ~Live(s)' => x.tuple = NoTuple
  PROVE  /\ AbstractPage'[s] = x
         /\ (IF x.tuple = NoTuple THEN 0 ELSE Size[x.tuple]) = slot'[s].size
<1>1. slot'[s].size \in Nat
  BY Zenon, SizesNext
<1>2. AbstractPage'[s] = [tuple |-> Decode(BytesAt(s)'), deleted |-> slot'[s].deleted]
  BY Zenon DEF AbstractPage, Decode
<1>3. Decode(BytesAt(s)') = x.tuple /\ (IF x.tuple = NoTuple THEN 0 ELSE Size[x.tuple]) = slot'[s].size
  <2>1. CASE Live(s)'
    <3>1. Decode(BytesAt(s)') = x.tuple
      BY Zenon, <2>1, Decoded
    <3>2. DOMAIN Bytes(x.tuple) = 0 .. Size[x.tuple] - 1 /\ Size[x.tuple] \in Nat \ {0} /\ x.tuple # NoTuple
      BY Zenon, <2>1, BytesTell, TupleAssumption
    <3>3. DOMAIN Bytes(x.tuple) = 0 .. slot'[s].size - 1
      <4>1. DOMAIN BytesAt(s)' = 0 .. slot'[s].size - 1
        BY Zenon DEF BytesAt
      <4> QED BY Zenon, <2>1, <4>1
    <3>4. Size[x.tuple] = slot'[s].size
      BY <1>1, <3>2, <3>3
    <3> QED BY Zenon, <3>1, <3>2, <3>4
  <2>2. CASE ~Live(s)'
    <3>1. slot'[s].size = 0
      BY <1>1, <2>2 DEF Live
    <3>2. BytesAt(s)' = NoBytes
      BY <3>1, NoneRead DEF BytesAt
    <3> QED BY Zenon, <2>2, <3>1, <3>2, Decoded
  <2> QED BY Zenon, <2>1, <2>2
<1>4. x = [tuple |-> x.tuple, deleted |-> x.deleted]
  BY Zenon DEF Abstract!Slot
<1> QED BY Zenon, <1>2, <1>3, <1>4

(* A slot that a step does not name reads as before. *)
LEMMA ReadSame ==
  ASSUME Inv, Contents, Inv', NEW r \in 0 .. tuple_count - 1, r \in 0 .. tuple_count' - 1,
         slot'[r].size = slot[r].size, slot'[r].deleted = slot[r].deleted,
         Live(r) => BytesAt(r)' = BytesAt(r)
  PROVE  /\ AbstractPage'[r] = AbstractPage[r]
         /\ Live(r)' => \E t \in Tuples : BytesAt(r)' = Bytes(t)
<1> DEFINE x == AbstractPage[r]
<1>1. /\ x \in Abstract!Slot /\ x = [tuple |-> x.tuple, deleted |-> slot[r].deleted]
      /\ Live(r) => x.tuple \in Tuples /\ BytesAt(r) = Bytes(x.tuple)
      /\ ~Live(r) => x.tuple = NoTuple
  BY Zenon, ViewSlot
<1>2. Live(r)' <=> Live(r)
  BY Zenon DEF Live
<1> HIDE DEF x
<1>3. x.deleted = slot'[r].deleted
  BY <1>1
<1>4. AbstractPage'[r] = x
  BY Zenon, <1>1, <1>2, <1>3, ReadNext
<1> QED BY Zenon, <1>1, <1>2, <1>4 DEF x

(* A step that gives one slot a new content, leaves the others as they read  *)
(* and moves the free space pointer by the difference is a step of the       *)
(* abstract page that sets that slot.                                        *)
LEMMA SetView ==
  ASSUME PageInv, Inv', tuple_count' = tuple_count,
         NEW s \in 0 .. tuple_count - 1, NEW x \in Abstract!Slot,
         \A r \in 0 .. tuple_count - 1 :
           r # s => /\ slot'[r].size = slot[r].size /\ slot'[r].deleted = slot[r].deleted
                    /\ Live(r) => BytesAt(r)' = BytesAt(r),
         x.deleted = slot'[s].deleted,
         Live(s)' => x.tuple \in Tuples /\ BytesAt(s)' = Bytes(x.tuple),
         ~Live(s)' => x.tuple = NoTuple,
         free_space_pointer' = free_space_pointer + slot[s].size - slot'[s].size
  PROVE  AbstractPage' = [AbstractPage EXCEPT ![s] = x] /\ PageInv'
<1> DEFINE q == [AbstractPage EXCEPT ![s] = x]
<1>1. Inv /\ Contents /\ GetFreeSpaceRemaining = Abstract!GetFreeSpaceRemaining(AbstractPage)
  BY Zenon DEF PageInv, SpaceExact
<1>2. AbstractPage \in PageSet /\ DOMAIN AbstractPage = 0 .. tuple_count - 1
  BY Zenon, <1>1, View
<1>3. /\ q \in PageSet /\ DOMAIN q = DOMAIN AbstractPage
      /\ \A k \in DOMAIN AbstractPage : q[k] = IF k = s THEN x ELSE AbstractPage[k]
  BY Zenon, <1>2, SlotSet
<1>4. AbstractPage'[s] = x /\ (IF x.tuple = NoTuple THEN 0 ELSE Size[x.tuple]) = slot'[s].size
  BY Zenon, ReadNext
<1>5. \A r \in 0 .. tuple_count - 1 :
        r # s => /\ AbstractPage'[r] = AbstractPage[r]
                 /\ Live(r)' => \E t \in Tuples : BytesAt(r)' = Bytes(t)
  BY Zenon, <1>1, ReadSame
<1> HIDE DEF q
<1>6. AbstractPage' = q
  <2>1. AbstractPage' = [k \in 0 .. tuple_count - 1 |-> AbstractPage'[k]]
    BY Zenon DEF AbstractPage
  <2>2. q = [k \in 0 .. tuple_count - 1 |-> q[k]]
    BY Zenon, <1>2 DEF q
  <2>3. \A k \in 0 .. tuple_count - 1 : AbstractPage'[k] = q[k]
    BY Zenon, <1>2, <1>3, <1>4, <1>5
  <2> DEFINE g == AbstractPage'
  <2> HIDE DEF g
  <2>4. g = q
    <3>1. g = [k \in 0 .. tuple_count - 1 |-> g[k]] /\ \A k \in 0 .. tuple_count - 1 : g[k] = q[k]
      BY Zenon, <2>1, <2>3 DEF g
    <3> QED BY Zenon, <2>2, <3>1
  <2> QED BY Zenon, <2>4 DEF g
<1>7. Contents'
  BY Zenon, <1>5 DEF Contents
<1>8. SpaceExact'
  <2>1. Abstract!GetFreeSpaceRemaining(q)
          = Abstract!GetFreeSpaceRemaining(AbstractPage) + Abstract!SizeAt(AbstractPage, s) - Abstract!SizeAt(q, s)
    BY Zenon, <1>2, <1>3, SpaceSet
  <2>2. Abstract!SizeAt(AbstractPage, s) = slot[s].size
    BY Zenon, <1>1, ViewSlot
  <2>3. Abstract!SizeAt(q, s) = slot'[s].size
    BY Zenon, <1>2, <1>3, <1>4 DEF Abstract!SizeAt
  <2>4. slot[s].size \in Nat /\ slot'[s].size \in Nat
    BY <1>1, SizesNext, SlotFields DEF Inv
  <2>5. GetFreeSpaceRemaining' = Abstract!GetFreeSpaceRemaining(q)
    BY <1>1, <2>1, <2>2, <2>3, <2>4, FreeSpaceNow, FreeSpaceNext
  <2> QED BY Zenon, <1>6, <2>5 DEF SpaceExact
<1> QED BY Zenon, <1>6, <1>7, <1>8 DEF PageInv, q

(* What the caller is told, read as the abstract page tells it. *)
LEMMA RetView ==
  ASSUME NEW op, NEW s, NEW ok, NEW bytes, ret' = Result(op, s, ok, bytes)
  PROVE  AbstractRet' = Abstract!Result(op, s, ok, Decode(bytes))
BY Zenon DEF AbstractRet, Result, Abstract!Result, Decode, NoBytes, Bytes, Garbage

(* A step that leaves the page alone. *)
LEMMA SameView ==
  ASSUME PageInv, UNCHANGED <<free_space_pointer, tuple_count, slot, data>>
  PROVE  AbstractPage' = AbstractPage /\ PageInv'
<1>1. AbstractPage' = AbstractPage
  BY Zenon DEF AbstractPage, BytesAt
<1>2. Inv'
  BY Zenon, StepLayoutSame DEF PageInv
<1>3. Contents'
  BY Zenon DEF PageInv, Contents, BytesAt, Live
<1>4. SpaceExact'
  <2>1. GetFreeSpaceRemaining' = GetFreeSpaceRemaining
    BY Zenon DEF GetFreeSpaceRemaining
  <2> QED BY Zenon, <1>1, <2>1 DEF PageInv, SpaceExact
<1> QED BY Zenon, <1>1, <1>2, <1>3, <1>4 DEF PageInv

(* Reading a slot. *)
LEMMA GetImplements ==
  ASSUME PageInv, NEW s \in 0 .. MaxSlots, GetTuple(s)
  PROVE  Abstract!Get(s) /\ PageInv'
<1>1. AbstractPage' = AbstractPage /\ PageInv'
  BY Zenon, SameView DEF GetTuple
<1>2. s \in Nat
  BY PageAssumption
<1>3. Readable(s) <=> Abstract!Readable(AbstractPage, s)
  BY Zenon, <1>2, SameGuards
<1>4. CASE Readable(s)
  <2>1. ret' = Result("get", s, TRUE, BytesAt(s))
    BY Zenon, <1>4 DEF GetTuple
  <2>2. s \in 0 .. tuple_count - 1 /\ Inv /\ Contents
    BY <1>2, <1>4 DEF Readable, PageInv, Inv, TypeOK
  <2>3. Decode(BytesAt(s)) = AbstractPage[s].tuple
    BY Zenon, <2>2, ViewSlot
  <2>4. AbstractRet' = Abstract!Result("get", s, TRUE, AbstractPage[s].tuple)
    BY Zenon, <2>1, <2>3, RetView
  <2> QED BY Zenon, <1>1, <1>3, <1>4, <2>4 DEF Abstract!Get
<1>5. CASE ~Readable(s)
  <2>1. ret' = Result("get", s, FALSE, NoBytes)
    BY Zenon, <1>5 DEF GetTuple
  <2>2. AbstractRet' = Abstract!Result("get", s, FALSE, NoTuple)
    BY Zenon, <2>1, RetView, Decoded
  <2>3. Abstract!Readable(AbstractPage, s) = FALSE
    BY <1>3, <1>5
  <2> QED BY Zenon, <1>1, <2>2, <2>3 DEF Abstract!Get
<1> QED BY Zenon, <1>4, <1>5

(* Setting the flag of a slot that is in use, or clearing any slot's, sets   *)
(* that flag of the abstract page.                                           *)
LEMMA FlagView ==
  ASSUME PageInv, Inv', UNCHANGED <<free_space_pointer, tuple_count, data>>,
         NEW s \in 0 .. tuple_count - 1, NEW d \in BOOLEAN, d => Live(s),
         slot' = [slot EXCEPT ![s] = SlotEntry(slot[s].offset, slot[s].size, d)]
  PROVE  AbstractPage' = [AbstractPage EXCEPT ![s].deleted = d] /\ PageInv'
<1> DEFINE x == [tuple |-> AbstractPage[s].tuple, deleted |-> d]
<1>1. Inv /\ Contents /\ DOMAIN slot = 0 .. tuple_count - 1 /\ slot[s].size \in Nat
  BY SlotFields DEF PageInv, Inv, TypeOK
<1>2. /\ AbstractPage[s] \in Abstract!Slot
      /\ Live(s) => AbstractPage[s].tuple \in Tuples /\ BytesAt(s) = Bytes(AbstractPage[s].tuple)
      /\ ~Live(s) => AbstractPage[s].tuple = NoTuple
  BY Zenon, <1>1, ViewSlot
<1>3. \A r \in 0 .. tuple_count - 1 : r # s => slot'[r] = slot[r]
  BY Zenon, <1>1
<1>4. slot'[s].offset = slot[s].offset /\ slot'[s].size = slot[s].size /\ slot'[s].deleted = d
  <2>1. slot'[s] = SlotEntry(slot[s].offset, slot[s].size, d)
    BY Zenon, <1>1
  <2> QED BY <2>1 DEF SlotEntry
<1>5. \A r \in 0 .. tuple_count - 1 :
        r # s => /\ slot'[r].size = slot[r].size /\ slot'[r].deleted = slot[r].deleted
                 /\ Live(r) => BytesAt(r)' = BytesAt(r)
  BY <1>3 DEF BytesAt
<1>6. BytesAt(s)' = BytesAt(s) /\ (Live(s)' <=> Live(s))
  BY <1>4 DEF BytesAt, Live
<1>7. x \in Abstract!Slot /\ x.tuple = AbstractPage[s].tuple /\ x.deleted = d
  BY Zenon, <1>2 DEF Abstract!Slot
<1>8. free_space_pointer' = free_space_pointer + slot[s].size - slot'[s].size
  BY <1>1, <1>4 DEF Inv, TypeOK
<1> HIDE DEF x
<1>9. /\ x.deleted = slot'[s].deleted
      /\ Live(s)' => x.tuple \in Tuples /\ BytesAt(s)' = Bytes(x.tuple)
      /\ ~Live(s)' => x.tuple = NoTuple
  BY Zenon, <1>2, <1>4, <1>6, <1>7
<1>10. AbstractPage' = [AbstractPage EXCEPT ![s] = x] /\ PageInv'
  BY Zenon, <1>5, <1>7, <1>8, <1>9, SetView
<1>11. [AbstractPage[s] EXCEPT !.deleted = d] = x
  BY <1>2 DEF x, Abstract!Slot
<1>12. [AbstractPage EXCEPT ![s].deleted = d] = [AbstractPage EXCEPT ![s] = [AbstractPage[s] EXCEPT !.deleted = d]]
  BY Zenon
<1> QED BY Zenon, <1>10, <1>11, <1>12

(* Marking a slot. *)
LEMMA MarkImplements ==
  ASSUME PageInv, NEW s \in 0 .. MaxSlots, MarkDelete(s)
  PROVE  Abstract!Mark(s) /\ PageInv'
<1>1. s \in Nat /\ Inv /\ Inv' /\ tuple_count \in Nat
  BY PageAssumption, MarkLayout DEF PageInv, Inv, TypeOK
<1>2. Readable(s) <=> Abstract!Readable(AbstractPage, s)
  BY Zenon, <1>1, SameGuards
<1>3. CASE ~Readable(s)
  <2>1. ret' = Result("mark", s, FALSE, NoBytes) /\ UNCHANGED <<free_space_pointer, tuple_count, slot, data>>
    BY Zenon, <1>3 DEF MarkDelete
  <2>2. AbstractRet' = Abstract!Result("mark", s, FALSE, NoTuple)
    BY Zenon, <2>1, RetView, Decoded
  <2>3. AbstractPage' = AbstractPage /\ PageInv'
    BY Zenon, <2>1, SameView
  <2>4. Abstract!Readable(AbstractPage, s) = FALSE
    BY <1>2, <1>3
  <2> QED BY Zenon, <2>2, <2>3, <2>4 DEF Abstract!Mark, Abstract!MarkDelete
<1>4. CASE Readable(s)
  <2>1. /\ ret' = Result("mark", s, TRUE, NoBytes) /\ UNCHANGED <<free_space_pointer, tuple_count, data>>
        /\ slot' = [slot EXCEPT ![s] = SlotEntry(slot[s].offset, slot[s].size, TRUE)]
    BY Zenon, <1>4 DEF MarkDelete
  <2>2. AbstractRet' = Abstract!Result("mark", s, TRUE, NoTuple)
    BY Zenon, <2>1, RetView, Decoded
  <2>3. s \in 0 .. tuple_count - 1
    BY <1>1, <1>4 DEF Readable
  <2>4. Live(s)
    <3>1. slot[s].size \in Nat /\ slot[s].size # 0
      BY <1>1, <1>4, <2>3, SlotFields DEF Readable, IsDeleted, Inv
    <3> QED BY <3>1 DEF Live
  <2>5. AbstractPage' = [AbstractPage EXCEPT ![s].deleted = TRUE] /\ PageInv'
    BY Zenon, <1>1, <2>1, <2>3, <2>4, FlagView
  <2> QED BY Zenon, <1>2, <1>4, <2>2, <2>5 DEF Abstract!Mark, Abstract!MarkDelete
<1> QED BY Zenon, <1>3, <1>4

(* Clearing the mark; a slot that does not exist fails the assertion. *)
LEMMA RollbackImplements ==
  ASSUME PageInv, NEW s \in 0 .. MaxSlots, RollbackDelete(s)
  PROVE  Abstract!Rollback(s) /\ PageInv'
<1>1. s \in Nat /\ Inv /\ Contents /\ Inv' /\ tuple_count \in Nat
  BY PageAssumption, MarkLayout DEF PageInv, Inv, TypeOK
<1>2. s < tuple_count <=> Abstract!CanRollbackDelete(AbstractPage, s)
  <2>1. s < tuple_count <=> s \in 0 .. tuple_count - 1
    BY <1>1
  <2> QED BY Zenon, <1>1, <2>1, View DEF Abstract!CanRollbackDelete
<1>3. CASE ~(s < tuple_count)
  <2>1. ret' = Result("assert", s, FALSE, NoBytes) /\ UNCHANGED <<free_space_pointer, tuple_count, slot, data>>
    BY Zenon, <1>3 DEF RollbackDelete
  <2>2. AbstractRet' = Abstract!Result("assert", s, FALSE, NoTuple)
    BY Zenon, <2>1, RetView, Decoded
  <2>3. AbstractPage' = AbstractPage /\ PageInv'
    BY Zenon, <2>1, SameView
  <2>4. Abstract!CanRollbackDelete(AbstractPage, s) = FALSE
    BY <1>2, <1>3
  <2> QED BY Zenon, <2>2, <2>3, <2>4 DEF Abstract!Rollback
<1>4. CASE s < tuple_count
  <2>1. ~(s >= tuple_count) /\ s \in 0 .. tuple_count - 1
    BY <1>1, <1>4
  <2>2. /\ ret' = Result("rollback", s, TRUE, NoBytes) /\ UNCHANGED <<free_space_pointer, tuple_count, data>>
        /\ slot' = [slot EXCEPT ![s] = SlotEntry(slot[s].offset, slot[s].size, FALSE)]
    BY Zenon, <2>1 DEF RollbackDelete
  <2>3. AbstractRet' = Abstract!Result("rollback", s, TRUE, NoTuple)
    BY Zenon, <2>2, RetView, Decoded
  <2>4. AbstractPage' = [AbstractPage EXCEPT ![s].deleted = FALSE] /\ PageInv'
    BY Zenon, <1>1, <2>1, <2>2, FlagView
  <2> QED BY Zenon, <1>2, <1>4, <2>3, <2>4 DEF Abstract!Rollback, Abstract!RollbackDelete
<1> QED BY Zenon, <1>3, <1>4

(* Resizing moves flags and sizes of the other slots nowhere. *)
LEMMA ResizeFlags ==
  ASSUME Inv, NEW s \in 0 .. tuple_count - 1, NEW n \in Nat, Resized(s, n)
  PROVE  /\ slot'[s].size = n /\ slot'[s].deleted = FALSE
         /\ \A r \in 0 .. tuple_count - 1 :
              r # s => slot'[r].size = slot[r].size /\ slot'[r].deleted = slot[r].deleted
<1>1. slot'[s] = IF n = 0 THEN SlotEntry(0, 0, FALSE) ELSE SlotEntry(slot[s].offset + (slot[s].size - n), n, FALSE)
  BY Zenon DEF Resized
<1>2. ASSUME NEW r \in 0 .. tuple_count - 1, r # s
      PROVE  \/ slot'[r] = slot[r]
             \/ slot'[r] = SlotEntry(slot[r].offset + (slot[s].size - n), slot[r].size, slot[r].deleted)
  BY Zenon, <1>2 DEF Resized
<1>3. slot'[s].size = n /\ slot'[s].deleted = FALSE
  BY <1>1 DEF SlotEntry
<1>4. ASSUME NEW r \in 0 .. tuple_count - 1, r # s
      PROVE  slot'[r].size = slot[r].size /\ slot'[r].deleted = slot[r].deleted
  <2>1. CASE slot'[r] = slot[r]
    BY Zenon, <2>1
  <2>2. CASE slot'[r] = SlotEntry(slot[r].offset + (slot[s].size - n), slot[r].size, slot[r].deleted)
    BY <2>2 DEF SlotEntry
  <2> QED BY Zenon, <1>2, <1>4, <2>1, <2>2
<1> QED BY Zenon, <1>3, <1>4

(* UpdateTuple writes the new tuple where its slot then points. *)
LEMMA ResizeNew ==
  ASSUME Inv, NEW s \in 0 .. tuple_count - 1, Live(s), NEW t \in Tuples, Resized(s, Size[t]),
         data' = Replaced(slot[s].offset, slot[s].offset + slot[s].size, Size[t], Bytes(t))
  PROVE  BytesAt(s)' = Bytes(t)
<1> DEFINE n == Size[t]
           from == slot[s].offset
           end == slot[s].offset + slot[s].size
           by == slot[s].size - n
<1>1. /\ n \in Nat \ {0} /\ from \in Nat /\ slot[s].size \in Nat \ {0} /\ by \in Int /\ end \in Int
      /\ free_space_pointer \in Nat /\ PageSize \in Nat
      /\ free_space_pointer <= from /\ end <= PageSize
  <2>1. n \in Nat \ {0}
    BY Zenon, TupleAssumption
  <2>2. from \in Nat /\ slot[s].size \in Nat \ {0} /\ free_space_pointer \in Nat /\ PageSize \in Nat
    BY SlotFields, PageAssumption DEF Inv, TypeOK, Live
  <2>3. free_space_pointer <= from /\ end <= PageSize
    BY Zenon DEF Inv, LayoutSound
  <2> QED BY <2>1, <2>2, <2>3
<1>2. slot'[s].offset = from + by /\ slot'[s].size = n
  <2>1. slot'[s] = SlotEntry(from + by, n, FALSE)
    <3>1. slot'[s] = IF n = 0 THEN SlotEntry(0, 0, FALSE) ELSE SlotEntry(from + by, n, FALSE)
      BY Zenon DEF Resized
    <3> QED BY Zenon, <1>1, <3>1
  <2> QED BY <2>1 DEF SlotEntry
<1>3. (end - from) - n = by
  BY <1>1
<1> HIDE DEF by, end, from, n
<1>4. data' = [x \in free_space_pointer + by .. PageSize - 1 |->
                 IF x >= end THEN data[x]
                 ELSE IF x >= from + by THEN Bytes(t)[x - (from + by)]
                 ELSE data[x - by]]
  BY Zenon, <1>3 DEF Replaced, from, end, n
<1>5. ASSUME NEW b \in 0 .. n - 1
      PROVE  data'[(from + by) + b] = Bytes(t)[b]
  <2> DEFINE x == (from + by) + b
  <2>1. /\ x \in free_space_pointer + by .. PageSize - 1 /\ ~(x >= end) /\ x >= from + by
        /\ x - (from + by) = b
    BY <1>1, <1>3
  <2> HIDE DEF x
  <2>2. data'[x] = Bytes(t)[x - (from + by)]
    BY Zenon, <1>4, <2>1
  <2> QED BY Zenon, <2>1, <2>2 DEF x
<1>6. BytesAt(s)' = [b \in 0 .. n - 1 |-> data'[(from + by) + b]]
  BY Zenon, <1>2 DEF BytesAt
<1>7. Bytes(t) = [b \in 0 .. n - 1 |-> Bytes(t)[b]]
  BY Zenon DEF Bytes, n
<1> QED BY Zenon, <1>5, <1>6, <1>7

(* Setting the tuple in the record of a slot. *)
LEMMA TupleSet ==
  ASSUME NEW y \in Abstract!Slot, NEW t \in Tuples
  PROVE  [y EXCEPT !.tuple = t] = [tuple |-> t, deleted |-> y.deleted]
BY DEF Abstract!Slot

(* Updating a tuple; the assertion on the offset holds. *)
LEMMA UpdateImplements ==
  ASSUME PageInv, NEW s \in 0 .. MaxSlots, NEW t \in Tuples, UpdateTuple(s, t)
  PROVE  Abstract!Update(s, t) /\ PageInv'
<1>1. s \in Nat /\ Inv /\ Contents /\ tuple_count \in Nat /\ Size[t] \in Nat \ {0}
  BY PageAssumption, TupleAssumption DEF PageInv, Inv, TypeOK
<1>2. CanUpdate(s, t) <=> Abstract!CanUpdate(AbstractPage, s, t)
  BY Zenon, <1>1, SameGuards
<1>3. CASE ~CanUpdate(s, t)
  <2>1. ret' = Result("update", s, FALSE, NoBytes) /\ UNCHANGED <<free_space_pointer, tuple_count, slot, data>>
    BY Zenon, <1>3 DEF UpdateTuple
  <2>2. AbstractRet' = Abstract!Result("update", s, FALSE, NoTuple)
    BY Zenon, <2>1, RetView, Decoded
  <2>3. AbstractPage' = AbstractPage /\ PageInv'
    BY Zenon, <2>1, SameView
  <2>4. Abstract!CanUpdate(AbstractPage, s, t) = FALSE
    BY <1>2, <1>3
  <2> QED BY Zenon, <2>2, <2>3, <2>4 DEF Abstract!Update, Abstract!UpdateTuple
<1>4. CASE CanUpdate(s, t)
  <2>1. /\ Inv' /\ Live(s) /\ s \in 0 .. tuple_count - 1 /\ Resized(s, Size[t])
        /\ Size[t] <= slot[s].size + (free_space_pointer - 24 - 8 * tuple_count)
        /\ data' = Replaced(slot[s].offset, slot[s].offset + slot[s].size, Size[t], Bytes(t))
    BY Zenon, <1>1, <1>4, UpdateLayout
  <2>2. ret' = Result("update", s, TRUE, BytesAt(s))
    <3>1. ~(slot[s].offset < free_space_pointer)
      BY <1>1, <2>1, SlotFields DEF Inv, LayoutSound, TypeOK
    <3> QED BY Zenon, <1>4, <3>1 DEF UpdateTuple
  <2>3. /\ AbstractPage[s] \in Abstract!Slot /\ Decode(BytesAt(s)) = AbstractPage[s].tuple
        /\ AbstractPage[s] = [tuple |-> AbstractPage[s].tuple, deleted |-> slot[s].deleted]
    BY Zenon, <1>1, <2>1, ViewSlot
  <2>4. AbstractRet' = Abstract!Result("update", s, TRUE, AbstractPage[s].tuple)
    BY Zenon, <2>2, <2>3, RetView
  <2> DEFINE x == [tuple |-> t, deleted |-> FALSE]
  <2>5. x \in Abstract!Slot /\ x.tuple = t /\ x.deleted = FALSE
    BY Zenon DEF Abstract!Slot
  <2>6. [AbstractPage[s] EXCEPT !.tuple = t] = x
    <3>1. slot[s].deleted = FALSE
      BY Zenon, <1>1, <1>4, <2>1, SlotFields DEF CanUpdate, Readable, IsDeleted, Inv
    <3>2. AbstractPage[s].deleted = FALSE
      BY <2>3, <3>1
    <3>3. [AbstractPage[s] EXCEPT !.tuple = t] = [tuple |-> t, deleted |-> AbstractPage[s].deleted]
      BY Zenon, <2>3, TupleSet
    <3> QED BY Zenon, <3>2, <3>3
  <2> HIDE DEF x
  <2>7. slot'[s].size = Size[t] /\ slot'[s].deleted = FALSE /\ tuple_count' = tuple_count
    <3>1. tuple_count' = tuple_count
      BY Zenon, <2>1 DEF Resized
    <3> QED BY Zenon, <1>1, <2>1, <3>1, ResizeFlags
  <2>8. \A r \in 0 .. tuple_count - 1 :
          r # s => /\ slot'[r].size = slot[r].size /\ slot'[r].deleted = slot[r].deleted
                   /\ Live(r) => BytesAt(r)' = BytesAt(r)
    <3>1. \A r \in 0 .. tuple_count - 1 :
            r # s => slot'[r].size = slot[r].size /\ slot'[r].deleted = slot[r].deleted
      BY Zenon, <1>1, <2>1, ResizeFlags
    <3>2. ASSUME NEW r \in 0 .. tuple_count - 1, r # s, Live(r)
          PROVE  BytesAt(r)' = BytesAt(r)
      BY Zenon, <1>1, <2>1, <3>2, ResizeBytes
    <3> QED BY Zenon, <3>1, <3>2
  <2>9. BytesAt(s)' = Bytes(t) /\ Live(s)'
    <3>1. BytesAt(s)' = Bytes(t)
      BY Zenon, <1>1, <2>1, ResizeNew
    <3>2. Live(s)'
      BY <1>1, <2>7 DEF Live
    <3> QED BY Zenon, <3>1, <3>2
  <2>10. free_space_pointer' = free_space_pointer + slot[s].size - slot'[s].size
    <3>1. free_space_pointer' = free_space_pointer + (slot[s].size - Size[t])
      BY Zenon, <2>1 DEF Resized
    <3>2. free_space_pointer \in Nat /\ slot[s].size \in Nat
      BY <1>1, <2>1, SlotFields DEF Inv, TypeOK
    <3> QED BY Zenon, <1>1, <2>7, <3>1, <3>2
  <2>11. AbstractPage' = [AbstractPage EXCEPT ![s] = x] /\ PageInv'
    BY Zenon, <2>1, <2>5, <2>7, <2>8, <2>9, <2>10, SetView
  <2>12. [AbstractPage EXCEPT ![s].tuple = t] = [AbstractPage EXCEPT ![s] = [AbstractPage[s] EXCEPT !.tuple = t]]
    BY Zenon
  <2>13. Abstract!UpdateTuple(AbstractPage, s, t) = [AbstractPage EXCEPT ![s].tuple = t]
    BY Zenon, <1>2, <1>4 DEF Abstract!UpdateTuple
  <2> QED BY Zenon, <1>2, <1>4, <2>4, <2>6, <2>11, <2>12, <2>13 DEF Abstract!Update
<1> QED BY Zenon, <1>3, <1>4

(* Emptying a slot; one that is empty or does not exist fails an assertion,  *)
(* since the offset 0 of an empty slot lies below the free space pointer.    *)
LEMMA ApplyImplements ==
  ASSUME PageInv, NEW s \in 0 .. MaxSlots, ApplyDelete(s)
  PROVE  Abstract!Apply(s) /\ PageInv'
<1> DEFINE can == s < tuple_count /\ slot[s].offset >= free_space_pointer
<1>1. s \in Nat /\ Inv /\ Contents /\ tuple_count \in Nat /\ free_space_pointer \in Nat
  BY PageAssumption DEF PageInv, Inv, TypeOK
<1>2. can <=> Abstract!CanApplyDelete(AbstractPage, s)
  <2>1. s < tuple_count <=> s \in DOMAIN AbstractPage
    <3>1. s < tuple_count <=> s \in 0 .. tuple_count - 1
      BY <1>1
    <3> QED BY Zenon, <1>1, <3>1, View
  <2>2. CASE s < tuple_count
    <3>1. s \in 0 .. tuple_count - 1
      BY <1>1, <2>2
    <3>2. Live(s) <=> AbstractPage[s].tuple # NoTuple
      BY Zenon, <1>1, <3>1, ViewSlot
    <3>3. Live(s) <=> slot[s].offset >= free_space_pointer
      <4>1. /\ Live(s) => free_space_pointer <= slot[s].offset
            /\ ~Live(s) => slot[s].offset = 0
            /\ 24 + 8 * tuple_count <= free_space_pointer
        BY Zenon, <1>1, <3>1 DEF Inv, LayoutSound, SIZE_TABLE_PAGE_HEADER, SIZE_TUPLE
      <4>2. slot[s].offset \in Nat
        BY <1>1, <3>1, SlotFields DEF Inv
      <4> QED BY <1>1, <4>1, <4>2
    <3> QED BY Zenon, <2>1, <2>2, <3>2, <3>3 DEF Abstract!CanApplyDelete
  <2> QED BY Zenon, <2>1, <2>2 DEF Abstract!CanApplyDelete
<1>3. CASE ~can
  <2>1. ret' = Result("assert", s, FALSE, NoBytes) /\ UNCHANGED <<free_space_pointer, tuple_count, slot, data>>
    BY Zenon, <1>3 DEF ApplyDelete
  <2>2. AbstractRet' = Abstract!Result("assert", s, FALSE, NoTuple)
    BY Zenon, <2>1, RetView, Decoded
  <2>3. AbstractPage' = AbstractPage /\ PageInv'
    BY Zenon, <2>1, SameView
  <2> HIDE DEF can
  <2>4. Abstract!CanApplyDelete(AbstractPage, s) = FALSE
    BY <1>2, <1>3
  <2> QED BY Zenon, <2>2, <2>3, <2>4 DEF Abstract!Apply
<1>4. CASE can
  <2>1. ret' = Result("apply", s, TRUE, NoBytes) /\ free_space_pointer' = free_space_pointer + slot[s].size
    BY Zenon, <1>4 DEF ApplyDelete
  <2>2. AbstractRet' = Abstract!Result("apply", s, TRUE, NoTuple)
    BY Zenon, <2>1, RetView, Decoded
  <2>3. s \in 0 .. tuple_count - 1
    BY <1>1, <1>4
  <2> HIDE DEF can
  <2>4. Live(s) /\ slot[s].size \in Nat
    <3>1. AbstractPage[s].tuple # NoTuple
      BY Zenon, <1>2, <1>4 DEF Abstract!CanApplyDelete
    <3>2. Live(s)
      BY Zenon, <1>1, <2>3, <3>1, ViewSlot
    <3> QED BY <1>1, <2>3, <3>2, SlotFields DEF Inv
  <2>5. /\ Inv' /\ Resized(s, 0) /\ 0 <= slot[s].size + (free_space_pointer - 24 - 8 * tuple_count)
        /\ data' = Replaced(slot[s].offset, slot[s].offset + slot[s].size, 0, NoBytes)
    <3>1. free_space_pointer' # free_space_pointer
      BY <1>1, <2>1, <2>4 DEF Live
    <3> QED BY Zenon, <1>1, <3>1, ApplyLayout
  <2>6. /\ slot'[s].size = 0 /\ slot'[s].deleted = FALSE /\ tuple_count' = tuple_count
        /\ \A r \in 0 .. tuple_count - 1 :
             r # s => slot'[r].size = slot[r].size /\ slot'[r].deleted = slot[r].deleted
    <3>1. tuple_count' = tuple_count
      BY Zenon, <2>5 DEF Resized
    <3>2. 0 \in Nat
      BY Zenon
    <3> QED BY Zenon, <1>1, <2>3, <2>5, <3>1, <3>2, ResizeFlags
  <2>7. \A r \in 0 .. tuple_count - 1 :
          r # s => /\ slot'[r].size = slot[r].size /\ slot'[r].deleted = slot[r].deleted
                   /\ Live(r) => BytesAt(r)' = BytesAt(r)
    <3>1. ASSUME NEW r \in 0 .. tuple_count - 1, r # s, Live(r)
          PROVE  BytesAt(r)' = BytesAt(r)
      <4>1. 0 \in Nat
        BY Zenon
      <4> QED BY Zenon, <1>1, <2>3, <2>4, <2>5, <3>1, <4>1, ResizeBytes
    <3> QED BY Zenon, <2>6, <3>1
  <2> DEFINE x == Abstract!Empty
  <2>8. x \in Abstract!Slot /\ x.tuple = NoTuple /\ x.deleted = FALSE
    BY Zenon DEF Abstract!Slot, Abstract!Empty
  <2>9. ~Live(s)' /\ free_space_pointer' = free_space_pointer + slot[s].size - slot'[s].size
    BY <1>1, <2>1, <2>4, <2>6 DEF Live
  <2> HIDE DEF x
  <2>10. AbstractPage' = [AbstractPage EXCEPT ![s] = x] /\ PageInv'
    BY Zenon, <2>3, <2>5, <2>6, <2>7, <2>8, <2>9, SetView
  <2> QED BY Zenon, <1>2, <1>4, <2>2, <2>10 DEF Abstract!Apply, Abstract!ApplyDelete, x
<1> QED BY Zenon, <1>3, <1>4

(* InsertTuple writes the tuple where the slot it fills points. *)
LEMMA InsertNew ==
  ASSUME Inv, NEW t \in Tuples, NEW s \in 0 .. tuple_count, Filled(s, t)
  PROVE  BytesAt(s)' = Bytes(t) /\ slot'[s].size = Size[t] /\ slot'[s].deleted = FALSE
<1> DEFINE f == free_space_pointer'
<1>1. /\ f = free_space_pointer - Size[t] /\ free_space_pointer \in 0 .. PageSize
      /\ PageSize \in Nat /\ Size[t] \in Nat \ {0} /\ tuple_count \in Nat
  BY Zenon, PageAssumption, TupleAssumption DEF Filled, Inv, TypeOK
<1>2. slot'[s] = SlotEntry(f, Size[t], FALSE)
  <2>1. s \in 0 .. tuple_count' - 1
    BY <1>1 DEF Filled
  <2> QED BY Zenon, <2>1 DEF Filled
<1>3. slot'[s].offset = f /\ slot'[s].size = Size[t] /\ slot'[s].deleted = FALSE
  BY <1>2 DEF SlotEntry
<1>4. data' = [a \in f .. PageSize - 1 |->
                 IF a < free_space_pointer THEN Bytes(t)[a - f] ELSE data[a]]
  BY Zenon DEF Filled
<1> HIDE DEF f
<1>5. ASSUME NEW b \in 0 .. Size[t] - 1
      PROVE  data'[f + b] = Bytes(t)[b]
  <2> DEFINE x == f + b
  <2>1. x \in f .. PageSize - 1 /\ x < free_space_pointer /\ x - f = b
    BY <1>1
  <2> HIDE DEF x
  <2>2. data'[x] = Bytes(t)[x - f]
    BY Zenon, <1>4, <2>1
  <2> QED BY Zenon, <2>1, <2>2 DEF x
<1>6. BytesAt(s)' = [b \in 0 .. Size[t] - 1 |-> data'[f + b]]
  BY Zenon, <1>3 DEF BytesAt
<1>7. Bytes(t) = [b \in 0 .. Size[t] - 1 |-> Bytes(t)[b]]
  BY Zenon DEF Bytes
<1> QED BY Zenon, <1>3, <1>5, <1>6, <1>7

(* Inserting a tuple. *)
LEMMA InsertImplements ==
  ASSUME PageInv, NEW t \in Tuples, InsertTuple(t)
  PROVE  Abstract!Insert(t) /\ PageInv'
<1>1. /\ Inv /\ Contents /\ Inv' /\ GetFreeSpaceRemaining = Abstract!GetFreeSpaceRemaining(AbstractPage)
      /\ GetFreeSpaceRemaining = free_space_pointer - 24 - 8 * tuple_count
      /\ free_space_pointer \in Nat /\ tuple_count \in Nat /\ Size[t] \in Nat \ {0}
  <2>1. Inv /\ Contents /\ GetFreeSpaceRemaining = Abstract!GetFreeSpaceRemaining(AbstractPage)
    BY Zenon DEF PageInv, SpaceExact
  <2> QED BY Zenon, <2>1, InsertLayout, FreeSpaceNow, TupleAssumption
<1>2. GetFreeSpaceRemaining >= Size[t] + SIZE_TUPLE <=> Abstract!CanInsert(AbstractPage, t)
  BY Zenon, SameGuards
<1>3. CASE ~(GetFreeSpaceRemaining >= Size[t] + SIZE_TUPLE)
  <2>1. ret' = Result("insert", NoSlot, FALSE, Bytes(t)) /\ UNCHANGED <<free_space_pointer, tuple_count, slot, data>>
    BY Zenon, <1>3 DEF InsertTuple
  <2>2. AbstractRet' = Abstract!Result("insert", NoSlot, FALSE, t)
    BY Zenon, <2>1, RetView, Decoded
  <2>3. AbstractPage' = AbstractPage /\ PageInv'
    BY Zenon, <2>1, SameView
  <2>4. Abstract!CanInsert(AbstractPage, t) = FALSE
    BY <1>2, <1>3
  <2> QED BY Zenon, <2>2, <2>3, <2>4 DEF Abstract!Insert, NoSlot, Abstract!NoSlot
<1>4. CASE GetFreeSpaceRemaining >= Size[t] + SIZE_TUPLE
  <2>1. PICK s \in 0 .. tuple_count :
          FirstFree(s) /\ Filled(s, t) /\ ret' = Result("insert", s, TRUE, Bytes(t))
    <3>1. ~(GetFreeSpaceRemaining < Size[t] + SIZE_TUPLE)
      BY <1>1, <1>4 DEF SIZE_TUPLE
    <3> QED BY Zenon, <3>1 DEF InsertTuple, Filled
  <2> DEFINE q == Abstract!InsertTuple(AbstractPage, t)
  <2>2. Abstract!InsertSlot(AbstractPage) = s
    BY Zenon, <1>1, <2>1, SameSlot
  <2>3. AbstractPage \in PageSet /\ DOMAIN AbstractPage = 0 .. tuple_count - 1
    BY Zenon, <1>1, View
  <2>4. /\ q \in PageSet /\ DOMAIN q = DOMAIN AbstractPage \cup {s}
        /\ \A r \in DOMAIN AbstractPage \cup {s} : q[r] = IF r = s THEN Abstract!Holding(t) ELSE AbstractPage[r]
    BY Zenon, <2>2, <2>3, Inserted
  <2>5. Abstract!GetFreeSpaceRemaining(q) =
          Abstract!GetFreeSpaceRemaining(AbstractPage) - Size[t] - (IF s \in 0 .. tuple_count - 1 THEN 0 ELSE SIZE_TUPLE)
    BY Zenon, <2>2, <2>3, SpaceInserted
  <2> HIDE DEF q
  <2>6. /\ tuple_count' = IF s = tuple_count THEN tuple_count + 1 ELSE tuple_count
        /\ 0 .. tuple_count' - 1 = DOMAIN AbstractPage \cup {s}
    <3>1. tuple_count' = IF s = tuple_count THEN tuple_count + 1 ELSE tuple_count
      BY Zenon, <2>1 DEF Filled
    <3>2. CASE s = tuple_count
      BY <1>1, <2>3, <3>1, <3>2
    <3>3. CASE s # tuple_count
      BY <1>1, <2>3, <3>1, <3>3
    <3> QED BY Zenon, <3>1, <3>2, <3>3
  <2>7. AbstractPage'[s] = Abstract!Holding(t) /\ \E u \in Tuples : BytesAt(s)' = Bytes(u)
    <3> DEFINE x == Abstract!Holding(t)
    <3>1. BytesAt(s)' = Bytes(t) /\ slot'[s].size = Size[t] /\ slot'[s].deleted = FALSE
      BY Zenon, <1>1, <2>1, InsertNew
    <3>2. x \in Abstract!Slot /\ x.tuple = t /\ x.deleted = FALSE
      BY Zenon DEF Abstract!Holding, Abstract!Slot
    <3>3. Live(s)'
      BY <1>1, <3>1 DEF Live
    <3>4. s \in 0 .. tuple_count' - 1
      BY Zenon, <2>6
    <3> HIDE DEF x
    <3>5. AbstractPage'[s] = x
      BY Zenon, <1>1, <3>1, <3>2, <3>3, <3>4, ReadNext
    <3> QED BY Zenon, <3>1, <3>5 DEF x
  <2>8. ASSUME NEW r \in DOMAIN AbstractPage \cup {s}, r # s
        PROVE  /\ AbstractPage'[r] = AbstractPage[r]
               /\ Live(r)' => \E u \in Tuples : BytesAt(r)' = Bytes(u)
    <3>1. r \in 0 .. tuple_count - 1 /\ r \in 0 .. tuple_count' - 1
      BY Zenon, <2>3, <2>6, <2>8
    <3>2. slot'[r] = slot[r]
      BY Zenon, <2>1, <2>8, <3>1 DEF Filled
    <3>3. Live(r) => BytesAt(r)' = BytesAt(r)
      BY Zenon, <1>1, <2>1, <2>8, <3>1, InsertBytes
    <3>4. slot'[r].size = slot[r].size /\ slot'[r].deleted = slot[r].deleted
      BY Zenon, <3>2
    <3> QED BY Zenon, <1>1, <3>1, <3>3, <3>4, ReadSame
  <2>9. AbstractPage' = q
    <3> DEFINE D == DOMAIN AbstractPage \cup {s}
               g == AbstractPage'
    <3>1. g = [k \in D |-> g[k]]
      <4>1. AbstractPage' = [k \in 0 .. tuple_count' - 1 |-> AbstractPage'[k]]
        BY Zenon DEF AbstractPage
      <4> QED BY Zenon, <2>6, <4>1
    <3>2. q = [k \in D |-> q[k]]
      BY Zenon, <2>2, <2>4 DEF q, Abstract!InsertTuple
    <3>3. \A k \in D : g[k] = q[k]
      BY Zenon, <2>4, <2>7, <2>8
    <3> HIDE DEF D, g
    <3>4. g = q
      BY Zenon, <3>1, <3>2, <3>3
    <3> QED BY Zenon, <3>4 DEF g
  <2>10. Contents'
    BY Zenon, <2>6, <2>7, <2>8 DEF Contents
  <2>11. SpaceExact'
    <3>1. free_space_pointer' = free_space_pointer - Size[t]
      BY Zenon, <2>1 DEF Filled
    <3>2. GetFreeSpaceRemaining' = free_space_pointer' - 24 - 8 * tuple_count'
      BY Zenon, <1>1, FreeSpaceNext
    <3>3. GetFreeSpaceRemaining' = Abstract!GetFreeSpaceRemaining(q)
      <4>1. CASE s = tuple_count
        <5>1. tuple_count' = tuple_count + 1 /\ s \notin 0 .. tuple_count - 1
          BY <1>1, <2>6, <4>1
        <5>2. Abstract!GetFreeSpaceRemaining(q) = GetFreeSpaceRemaining - Size[t] - 8
          BY Zenon, <1>1, <2>5, <5>1 DEF SIZE_TUPLE
        <5> QED BY <1>1, <3>1, <3>2, <5>1, <5>2
      <4>2. CASE s # tuple_count
        <5>1. tuple_count' = tuple_count /\ s \in 0 .. tuple_count - 1
          BY Zenon, <1>1, <2>6, <4>2
        <5>2. Abstract!GetFreeSpaceRemaining(q) = GetFreeSpaceRemaining - Size[t] - 0
          BY Zenon, <1>1, <2>5, <5>1
        <5> QED BY <1>1, <3>1, <3>2, <5>1, <5>2
      <4> QED BY Zenon, <4>1, <4>2
    <3> QED BY Zenon, <2>9, <3>3 DEF SpaceExact
  <2>12. AbstractRet' = Abstract!Result("insert", s, TRUE, t)
    BY Zenon, <2>1, RetView, Decoded
  <2> QED BY Zenon, <1>1, <1>2, <1>4, <2>2, <2>9, <2>10, <2>11, <2>12 DEF Abstract!Insert, PageInv, q
<1> QED BY Zenon, <1>3, <1>4

(* An empty page starts as the abstract page does. *)
LEMMA InitImplements == Init => Abstract!Init /\ PageInv
<1> SUFFICES ASSUME Init PROVE Abstract!Init /\ PageInv
  BY Zenon
<1>1. Inv
  BY Zenon, InitLayout DEF Inv
<1>2. tuple_count = 0 /\ 0 .. tuple_count - 1 = {}
  BY DEF Init
<1>3. AbstractPage = Abstract!EmptyPage
  <2>1. AbstractPage = [s \in {} |-> [tuple |-> Decode(BytesAt(s)), deleted |-> slot[s].deleted]]
    BY Zenon, <1>2 DEF AbstractPage
  <2>2. ASSUME NEW e
        PROVE  [s \in {} |-> [tuple |-> Decode(BytesAt(s)), deleted |-> slot[s].deleted]] = [s \in {} |-> e]
    BY Zenon
  <2> QED BY Zenon, <2>1, <2>2 DEF Abstract!EmptyPage
<1>4. AbstractRet = Abstract!Result("init", Abstract!NoSlot, TRUE, NoTuple)
  <2>1. ret = Result("init", NoSlot, TRUE, NoBytes)
    BY Zenon DEF Init
  <2>2. ret.op = "init" /\ ret.slot = -1 /\ ret.ok = TRUE /\ ret.bytes = NoBytes
    BY Zenon, <2>1 DEF Result, NoSlot
  <2> QED BY Zenon, <2>2, Decoded DEF AbstractRet, Abstract!Result, Abstract!NoSlot
<1>5. Contents
  BY Zenon, <1>2 DEF Contents
<1>6. SpaceExact
  <2>1. GetFreeSpaceRemaining = free_space_pointer - 24 - 8 * tuple_count /\ free_space_pointer = PageSize
    BY Zenon, <1>1, FreeSpaceNow DEF Init
  <2>2. GetFreeSpaceRemaining = PageSize - SIZE_TABLE_PAGE_HEADER
    BY <1>2, <2>1, PageAssumption DEF SIZE_TABLE_PAGE_HEADER
  <2> QED BY Zenon, <1>3, <2>2, SpaceEmpty DEF SpaceExact
<1> QED BY Zenon, <1>1, <1>3, <1>4, <1>5, <1>6 DEF Abstract!Init, PageInv

(* Every step of the page is a step of the abstract page. *)
LEMMA StepImplements == PageInv /\ [Next]_vars => PageInv' /\ [Abstract!Next]_<<AbstractPage, AbstractRet>>
<1> SUFFICES ASSUME PageInv, [Next]_vars PROVE PageInv' /\ [Abstract!Next]_<<AbstractPage, AbstractRet>>
  BY Zenon
<1>1. CASE UNCHANGED vars
  <2>1. PageInv' /\ AbstractPage' = AbstractPage
    BY Zenon, <1>1, SameView DEF vars
  <2>2. AbstractRet' = AbstractRet
    BY Zenon, <1>1 DEF vars, AbstractRet
  <2> QED BY Zenon, <2>1, <2>2
<1>2. CASE Next
  <2>1. Abstract!Running
    <3>1. AbstractRet.op = ret.op
      BY Zenon DEF AbstractRet
    <3> QED BY Zenon, <1>2, <3>1 DEF Next, Abstract!Running
  <2>2. CASE \E t \in Tuples : InsertTuple(t)
    BY Zenon, <2>1, <2>2, InsertImplements DEF Abstract!Next
  <2>3. CASE \E s \in 0 .. MaxSlots : MarkDelete(s)
    BY Zenon, <2>1, <2>3, MarkImplements DEF Abstract!Next
  <2>4. CASE \E s \in 0 .. MaxSlots : ApplyDelete(s)
    BY Zenon, <2>1, <2>4, ApplyImplements DEF Abstract!Next
  <2>5. CASE \E s \in 0 .. MaxSlots : RollbackDelete(s)
    BY Zenon, <2>1, <2>5, RollbackImplements DEF Abstract!Next
  <2>6. CASE \E s \in 0 .. MaxSlots : GetTuple(s)
    BY Zenon, <2>1, <2>6, GetImplements DEF Abstract!Next
  <2>7. CASE \E s \in 0 .. MaxSlots : \E t \in Tuples : UpdateTuple(s, t)
    BY Zenon, <2>1, <2>7, UpdateImplements DEF Abstract!Next
  <2> QED BY Zenon, <1>2, <2>2, <2>3, <2>4, <2>5, <2>6, <2>7 DEF Next
<1> QED BY Zenon, <1>1, <1>2

(* The byte layout implements the slotted page for every page size and every *)
(* set of tuples: InsertTuple, MarkDelete, UpdateTuple, ApplyDelete,         *)
(* RollbackDelete and GetTuple succeed, choose slots, fail assertions and    *)
(* return tuples exactly as PageSpec says, and no byte of free space is ever *)
(* lost between the slots and the tuples (ImplementsPage).                   *)
THEOREM PageImplementsSpec == Spec => ImplementsPage
BY InitImplements, StepImplements, PTL DEF Spec, ImplementsPage, Abstract!Spec
=============================================================================
