---------------------------- MODULE FbtOps_proofs ----------------------------
(***************************************************************************)
(* What the loops of the free block table do, for every number of slots:    *)
(* where they stop, and which blocks are in the table afterwards.           *)
(***************************************************************************)
EXTENDS FbtOps, FiniteSetTheorems, TLAPS

\* A non-empty set of natural numbers has a smallest element, which the loops
\* that look upwards for the first match find.
LEMMA HasSmallest ==
  ASSUME NEW S \in SUBSET Nat, S # {}
  PROVE  \E i \in S : IsSmallest(i, S)
<1> DEFINE T == {0 .. i : i \in S}
<1>1. T \subseteq FiniteSubsetsOf(Nat)
  <2> SUFFICES ASSUME NEW i \in S PROVE 0 .. i \in FiniteSubsetsOf(Nat)
    OBVIOUS
  <2>1. IsFiniteSet(0 .. i)
    BY FS_Interval
  <2> QED BY <2>1 DEF FiniteSubsetsOf
<1>2. T # {}
  OBVIOUS
<1>3. IsWellFoundedOn(StrictSubsetOrdering(Nat), FiniteSubsetsOf(Nat))
  BY FS_StrictSubsetOrderingWellFounded
<1>4. PICK x \in T : \A y \in T : ~ (<<y, x>> \in StrictSubsetOrdering(Nat))
  <2> HIDE DEF T
  <2> QED BY <1>1, <1>2, <1>3, WFMin
<1>5. PICK i \in S : x = 0 .. i
  OBVIOUS
<1>6. ASSUME NEW j \in S, j < i PROVE FALSE
  <2>1. 0 .. j \in T /\ x \in T
    OBVIOUS
  <2>2. (0 .. j) \subseteq (0 .. i) /\ (0 .. j) # (0 .. i)
    <3>1. i \in 0 .. i /\ i \notin 0 .. j
      BY <1>6
    <3> QED BY <3>1, <1>6
  <2>3. <<0 .. j, x>> \in StrictSubsetOrdering(Nat)
    <3>1. 0 .. j \in FiniteSubsetsOf(Nat) /\ 0 .. i \in FiniteSubsetsOf(Nat)
      BY <1>1, <2>1, <1>5
    <3> QED BY <3>1, <2>2, <1>5 DEF StrictSubsetOrdering, FiniteSubsetsOf
  <2> QED BY <2>1, <2>3, <1>4
<1> QED BY <1>6 DEF IsSmallest

\* A non-empty set of slots has a largest element, which the loops that look
\* downwards find.
LEMMA HasLargest ==
  ASSUME NEW n \in Nat, NEW S \in SUBSET (0 .. n), S # {}
  PROVE  \E i \in S : IsLargest(i, S)
<1> DEFINE T == {n - i : i \in S}
<1>1. T \in SUBSET Nat /\ T # {}
  <2>1. \A i \in S : n - i \in Nat
    OBVIOUS
  <2>2. T \in SUBSET Nat
    BY <2>1
  <2>3. T # {}
    OBVIOUS
  <2> QED BY <2>2, <2>3
<1>2. PICK k \in T : IsSmallest(k, T)
  <2> HIDE DEF T
  <2> QED BY <1>1, HasSmallest
<1>3. PICK i \in S : k = n - i
  OBVIOUS
<1>4. \A j \in S : n - i <= n - j
  BY <1>2, <1>3 DEF IsSmallest
<1> QED BY <1>4 DEF IsLargest

\* INDEX_FreeBlock_Get looks at a slot of the table.
LEMMA PickSlotInTable ==
  ASSUME NEW t, NEW die
  PROVE  PickSlot(t, die) \in Slots
<1> USE FbtAssumption
<1> DEFINE stops == {i \in Slots : \/ t[i].block = INVALID_BLOCK
                                   \/ t[i].block % TOTAL_DIE_COUNT = die}
           first == CHOOSE i \in stops : IsSmallest(i, stops)
<1>1. PickSlot(t, die) = IF stops # {} /\ t[first].block # INVALID_BLOCK THEN first ELSE 0
  BY DEF PickSlot
<1>2. stops \in SUBSET Nat /\ stops \subseteq Slots /\ 0 \in Slots
  BY DEF Slots
<1> HIDE DEF stops
<1>3. ASSUME stops # {} PROVE first \in Slots
  <2>1. \E i \in stops : IsSmallest(i, stops)
    BY <1>2, <1>3, HasSmallest
  <2> QED BY <2>1, <1>2
<1> HIDE DEF first
<1> QED BY <1>1, <1>2, <1>3

\* The most worn entry INDEX_FreeBlock_SwapMaxECBlock finds is good, and every
\* entry after it has INVALID_EC.
LEMMA MaxEcSlotLast ==
  ASSUME NEW t, MaxEcSlot(t) > 0
  PROVE  /\ MaxEcSlot(t) \in Slots \ {0}
         /\ t[MaxEcSlot(t)].ec # INVALID_EC
         /\ \A j \in Slots : MaxEcSlot(t) < j => t[j].ec = INVALID_EC
<1> USE FbtAssumption
<1> DEFINE U == UsedSlots(t)
           m == CHOOSE i \in U : IsLargest(i, U)
<1>1. U # {} /\ MaxEcSlot(t) = m
  BY DEF MaxEcSlot
<1>2. \E i \in U : IsLargest(i, U)
  <2>1. FREE_BLOCK_COUNT - 1 \in Nat /\ U \in SUBSET (0 .. FREE_BLOCK_COUNT - 1)
    BY DEF UsedSlots, Slots
  <2> HIDE DEF U
  <2> QED BY <2>1, <1>1, HasLargest
<1>3. m \in U /\ IsLargest(m, U)
  BY <1>2
<1> HIDE DEF m
<1> QED BY <1>1, <1>3 DEF IsLargest, UsedSlots, Slots

\* A table of blocks in B, none of which is listed twice.
TableOf(B, t) ==
  /\ t \in [Slots -> [block : B, ec : Nat] \cup {NoEntry}]
  /\ \A i, j \in Slots : t[i].block = t[j].block /\ t[i].block # INVALID_BLOCK => i = j

\* The entries of such a table.
LEMMA TableEntry ==
  ASSUME NEW B, INVALID_BLOCK \notin B, NEW t, TableOf(B, t), NEW i \in Slots
  PROVE  /\ t[i].ec \in Nat
         /\ t[i].block # INVALID_BLOCK => t[i] \in [block : B, ec : Nat] /\ t[i].block \in B
         /\ t[i].block # INVALID_BLOCK => t[i].block \in FbtBlocks(t)
         /\ t[i].ec # INVALID_EC => t[i].block # INVALID_BLOCK
BY FbtAssumption DEF TableOf, FbtBlocks, NoEntry, Entry

\* The blocks of a free block table are physical blocks, each in some slot.
LEMMA BlocksOfTable ==
  ASSUME NEW B, INVALID_BLOCK \notin B, NEW t, TableOf(B, t)
  PROVE  /\ FbtBlocks(t) \subseteq B
         /\ \A b \in FbtBlocks(t) : \E i \in Slots : t[i].block = b
BY FbtAssumption DEF TableOf, FbtBlocks, NoEntry, Entry

\* INDEX_FreeBlock_Get takes one block out.
LEMMA RemoveTakes ==
  ASSUME NEW B, INVALID_BLOCK \notin B, NEW t, TableOf(B, t),
         NEW s \in Slots, t[s].block # INVALID_BLOCK
  PROVE  /\ TableOf(B, FbtRemove(t, s))
         /\ FbtBlocks(FbtRemove(t, s)) \subseteq FbtBlocks(t) \ {t[s].block}
<1> USE FbtAssumption
<1> DEFINE u == FbtRemove(t, s)
           last == FREE_BLOCK_COUNT - 1
<1>1. /\ last \in Nat /\ s \in Int /\ \A i \in Slots : i \in Int
      /\ \A i \in Slots : i < last => i + 1 \in Slots
  BY DEF Slots
<1>2. \A j \in Slots : u[j] = IF j < s THEN t[j] ELSE IF j < last THEN t[j + 1] ELSE NoEntry
  BY DEF FbtRemove
<1>3. u \in [Slots -> [block : B, ec : Nat] \cup {NoEntry}]
  BY <1>1 DEF FbtRemove, TableOf
<1> DEFINE from(j) == IF j < s THEN j ELSE j + 1
<1> HIDE DEF u
<1>4. \A j \in Slots : u[j].block # INVALID_BLOCK =>
        from(j) \in Slots /\ u[j] = t[from(j)] /\ from(j) # s
  BY <1>1, <1>2 DEF NoEntry, Entry
<1>5. \A i, j \in Slots : from(i) = from(j) => i = j
  BY <1>1
<1> HIDE DEF from
<1>6. TableOf(B, u)
  BY <1>3, <1>4, <1>5 DEF TableOf
<1>7. FbtBlocks(u) \subseteq FbtBlocks(t) \ {t[s].block}
  BY <1>4 DEF TableOf, FbtBlocks
<1> QED BY <1>6, <1>7 DEF u

\* INDEX_FreeBlock_Put inserts one block, and drops the last entry.
LEMMA InsertAdds ==
  ASSUME NEW B, INVALID_BLOCK \notin B, NEW t, TableOf(B, t), NEW k \in Nat,
         NEW b \in B, b \notin FbtBlocks(t), NEW e \in Nat
  PROVE  /\ TableOf(B, InsertAt(t, k, Entry(b, e)))
         /\ FbtBlocks(InsertAt(t, k, Entry(b, e))) \subseteq FbtBlocks(t) \cup {b}
<1> USE FbtAssumption
<1> DEFINE x == Entry(b, e)
           u == InsertAt(t, k, x)
<1>1. /\ \A i \in Slots : i \in Nat
      /\ \A i \in Slots : i > 0 => i - 1 \in Slots
  BY DEF Slots
<1>2. \A j \in Slots : u[j] = IF j < k THEN t[j] ELSE IF j = k THEN x ELSE t[j - 1]
  BY DEF InsertAt
<1>3. x \in [block : B, ec : Nat] /\ x.block = b
  BY DEF Entry
<1>4. u \in [Slots -> [block : B, ec : Nat] \cup {NoEntry}]
  BY <1>1, <1>3 DEF InsertAt, TableOf
<1> DEFINE from(j) == IF j < k THEN j ELSE j - 1
<1> HIDE DEF u, x
<1>5. \A j \in Slots : j # k => from(j) \in Slots /\ u[j] = t[from(j)]
  BY <1>1, <1>2
<1>6. \A i, j \in Slots : i # k /\ j # k /\ from(i) = from(j) => i = j
  BY <1>1
<1> HIDE DEF from
<1>7. k \in Slots => u[k] = x
  BY <1>1, <1>2
<1>8. \A i \in Slots : t[i].block # b
  BY DEF FbtBlocks
<1>9. TableOf(B, u)
  <2> SUFFICES ASSUME NEW i \in Slots, NEW j \in Slots, u[i].block = u[j].block,
                      u[i].block # INVALID_BLOCK
               PROVE  i = j
    BY <1>4 DEF TableOf
  <2>1. CASE i # k /\ j # k
    BY <2>1, <1>5, <1>6 DEF TableOf
  <2>2. CASE i = k \/ j = k
    BY <2>2, <1>3, <1>5, <1>7, <1>8
  <2> QED BY <2>1, <2>2
<1>10. FbtBlocks(u) \subseteq FbtBlocks(t) \cup {b}
  BY <1>3, <1>5, <1>7 DEF FbtBlocks
<1> QED BY <1>9, <1>10 DEF u, x

\* INDEX_FreeBlock_Put adds the block at most.
LEMMA PutAdds ==
  ASSUME NEW B, INVALID_BLOCK \notin B, NEW t, TableOf(B, t),
         NEW b \in B, b \notin FbtBlocks(t), NEW e \in Nat
  PROVE  /\ TableOf(B, FbtPut(t, b, e))
         /\ FbtBlocks(FbtPut(t, b, e)) \subseteq FbtBlocks(t) \cup {b}
<1> USE FbtAssumption
<1> DEFINE S == {i \in 1 .. FREE_BLOCK_COUNT - 2 : ~(t[i].ec > e)}
<1>1. S # {} => \E i \in S : IsLargest(i, S)
  <2>1. FREE_BLOCK_COUNT \in Nat /\ S \in SUBSET (0 .. FREE_BLOCK_COUNT)
    OBVIOUS
  <2> HIDE DEF S
  <2> QED BY <2>1, HasLargest
<1>2. S \subseteq Nat
  OBVIOUS
<1>3. PutSlot(t, e) = IF S # {} THEN 1 + (CHOOSE i \in S : IsLargest(i, S))
                      ELSE IF t[0].ec > e THEN 0 ELSE 1
  BY DEF PutSlot
<1> HIDE DEF S
<1>4. S # {} => (CHOOSE i \in S : IsLargest(i, S)) \in Nat
  BY <1>1, <1>2
<1>5. PutSlot(t, e) \in Nat
  BY <1>3, <1>4
<1> QED BY <1>5, InsertAdds DEF FbtPut

\* INDEX_FreeBlock_SwapMaxECBlock puts one block in the place of the most worn.
LEMMA SwapReplaces ==
  ASSUME NEW B, INVALID_BLOCK \notin B, NEW t, TableOf(B, t),
         NEW b \in B, b \notin FbtBlocks(t), NEW e \in Nat, NEW th,
         NEW top, top = MaxEcSlot(t), top > 0, t[top].ec > e, t[top].ec - e > th
  PROVE  /\ TableOf(B, FbtSwap(t, b, e, th))
         /\ FbtBlocks(FbtSwap(t, b, e, th)) \subseteq (FbtBlocks(t) \ {t[top].block}) \cup {b}
<1> USE FbtAssumption
<1> DEFINE S == {i \in 1 .. top - 1 : ~(t[i].ec > e)}
           k == IF S # {} THEN 1 + (CHOOSE i \in S : IsLargest(i, S))
                ELSE IF t[0].ec > e THEN 0 ELSE 1
           x == Entry(b, e)
           u == FbtSwap(t, b, e, th)
<1>0. top \in Slots \ {0} /\ top \in Nat /\ t[top].block # INVALID_BLOCK
  <2>1. top \in Slots \ {0} /\ t[top].ec # INVALID_EC
    BY MaxEcSlotLast
  <2> QED BY <2>1, TableEntry DEF Slots
<1>1. S # {} => \E i \in S : IsLargest(i, S)
  <2>1. S \in SUBSET (0 .. top)
    BY <1>0
  <2> HIDE DEF S
  <2> QED BY <2>1, <1>0, HasLargest
<1>2. S \subseteq 1 .. top - 1
  OBVIOUS
<1>3. \A j \in Slots : u[j] = IF j < k THEN t[j] ELSE IF j = k THEN x
                              ELSE IF j <= top THEN t[j - 1] ELSE t[j]
  BY DEF FbtSwap
<1>a. DOMAIN u = Slots
  BY DEF FbtSwap
<1> HIDE DEF S, u
<1>4. k \in 0 .. top
  <2>1. CASE S # {}
    <3>1. (CHOOSE i \in S : IsLargest(i, S)) \in 1 .. top - 1
      BY <1>1, <1>2, <2>1
    <3> QED BY <1>0, <2>1, <3>1
  <2>2. CASE S = {}
    BY <1>0, <2>2
  <2> QED BY <2>1, <2>2
<1>5. x \in [block : B, ec : Nat] /\ x.block = b
  BY DEF Entry
<1> HIDE DEF k, x
<1>6. /\ \A i \in Slots : i \in Nat
      /\ \A i \in Slots : i > 0 => i - 1 \in Slots
      /\ k \in Slots
  BY <1>0, <1>4 DEF Slots
<1> DEFINE from(j) == IF j < k THEN j ELSE IF j <= top THEN j - 1 ELSE j
<1>7. \A j \in Slots : j # k => from(j) \in Slots /\ u[j] = t[from(j)] /\ from(j) # top
  BY <1>0, <1>3, <1>4, <1>6
<1>8. \A i, j \in Slots : i # k /\ j # k /\ from(i) = from(j) => i = j
  BY <1>0, <1>4, <1>6
<1> HIDE DEF from
<1>9. u[k] = x
  BY <1>3, <1>4, <1>6
<1>10. \A i \in Slots : t[i].block # b
  BY DEF FbtBlocks
<1>11. u \in [Slots -> [block : B, ec : Nat] \cup {NoEntry}]
  <2>1. \A j \in Slots : u[j] \in [block : B, ec : Nat] \cup {NoEntry}
    BY <1>5, <1>7, <1>9 DEF TableOf
  <2>2. u = [j \in Slots |-> u[j]]
    BY <1>a DEF u, FbtSwap
  <2> QED BY <2>1, <2>2
<1>12. TableOf(B, u)
  <2> SUFFICES ASSUME NEW i \in Slots, NEW j \in Slots, u[i].block = u[j].block,
                      u[i].block # INVALID_BLOCK
               PROVE  i = j
    BY <1>11 DEF TableOf
  <2>1. CASE i # k /\ j # k
    BY <2>1, <1>7, <1>8 DEF TableOf
  <2>2. CASE i = k \/ j = k
    BY <2>2, <1>5, <1>7, <1>9, <1>10
  <2> QED BY <2>1, <2>2
<1>13. FbtBlocks(u) \subseteq (FbtBlocks(t) \ {t[top].block}) \cup {b}
  <2>1. \A j \in Slots : j # k /\ u[j].block # INVALID_BLOCK => u[j].block # t[top].block
    <3> SUFFICES ASSUME NEW j \in Slots, j # k, u[j].block # INVALID_BLOCK
                 PROVE  u[j].block # t[top].block
      OBVIOUS
    <3> DEFINE i == from(j)
    <3>1. i \in Slots /\ u[j] = t[i] /\ i # top /\ top \in Slots
      BY <1>0, <1>7
    <3> HIDE DEF i
    <3>2. \A p, q \in Slots : t[p].block = t[q].block /\ t[p].block # INVALID_BLOCK => p = q
      BY DEF TableOf
    <3> QED BY <3>1, <3>2
  <2> QED BY <2>1, <1>5, <1>7, <1>9 DEF FbtBlocks
<1> QED BY <1>12, <1>13 DEF u
-----------------------------------------------------------------------------
(* No block is dropped, as long as the table has room                       *)

\* The used entries come first.
Packed(t) ==
  \A i, j \in Slots : i < j /\ t[j].block # INVALID_BLOCK => t[i].block # INVALID_BLOCK

\* No block in the table is worn out: its erase count is below that of an unused
\* entry, which the loops take for the end of the table.
UnwornTable(t) == \A i \in Slots : t[i].block # INVALID_BLOCK => t[i].ec < INVALID_EC

\* INDEX_FreeBlock_Get leaves the other blocks in the table.
LEMMA RemoveDropsOne ==
  ASSUME NEW t, Packed(t), NEW s \in Slots
  PROVE  /\ Packed(FbtRemove(t, s))
         /\ FbtBlocks(t) \ {t[s].block} \subseteq FbtBlocks(FbtRemove(t, s))
<1> USE FbtAssumption
<1> DEFINE u == FbtRemove(t, s)
           last == FREE_BLOCK_COUNT - 1
<1>1. /\ last \in Nat /\ \A i \in Slots : i \in Nat /\ i <= last
      /\ \A i \in Slots : i < last => i + 1 \in Slots
      /\ \A i \in Slots : i > 0 => i - 1 \in Slots
  BY DEF Slots
<1>2. \A j \in Slots : u[j] = IF j < s THEN t[j] ELSE IF j < last THEN t[j + 1] ELSE NoEntry
  BY DEF FbtRemove
<1> HIDE DEF u, last
<1>3. Packed(u)
  <2> SUFFICES ASSUME NEW i \in Slots, NEW j \in Slots, i < j, u[j].block # INVALID_BLOCK
               PROVE  u[i].block # INVALID_BLOCK
    BY DEF Packed
  <2> DEFINE f == IF i < s THEN i ELSE i + 1
             g == IF j < s THEN j ELSE j + 1
  <2>1. NoEntry.block = INVALID_BLOCK
    BY DEF NoEntry, Entry
  <2>2. g \in Slots /\ u[j] = t[g]
    BY <1>1, <1>2, <2>1
  <2>3. f \in Slots /\ u[i] = t[f] /\ f < g
    BY <1>1, <1>2
  <2> HIDE DEF f, g
  <2> QED BY <2>2, <2>3 DEF Packed
<1>4. FbtBlocks(t) \ {t[s].block} \subseteq FbtBlocks(u)
  <2> SUFFICES ASSUME NEW i \in Slots, t[i].block # INVALID_BLOCK, i # s
               PROVE  \E j \in Slots : u[j] = t[i]
    BY DEF FbtBlocks
  <2>1. CASE i < s
    BY <2>1, <1>2
  <2>2. CASE i > s
    <3>1. i - 1 \in Slots /\ ~(i - 1 < s) /\ i - 1 < last /\ i - 1 + 1 = i
      BY <1>1, <2>2
    <3>2. u[i - 1] = t[i - 1 + 1]
      BY <1>2, <3>1
    <3> QED BY <3>1, <3>2
  <2>3. i \in Nat /\ s \in Nat
    BY <1>1
  <2> QED BY <2>1, <2>2, <2>3
<1> QED BY <1>3, <1>4 DEF u

\* INDEX_FreeBlock_Put inserts among the used entries, and drops none when the
\* last slot is unused.
LEMMA PutDropsNone ==
  ASSUME NEW B, INVALID_BLOCK \notin B, NEW t, TableOf(B, t), Packed(t),
         t[FREE_BLOCK_COUNT - 1].block = INVALID_BLOCK,
         NEW b \in B, NEW e \in Nat, UnwornTable(FbtPut(t, b, e))
  PROVE  /\ Packed(FbtPut(t, b, e))
         /\ FbtBlocks(t) \cup {b} \subseteq FbtBlocks(FbtPut(t, b, e))
<1> USE FbtAssumption
<1> DEFINE S == {i \in 1 .. FREE_BLOCK_COUNT - 2 : ~(t[i].ec > e)}
           m == CHOOSE i \in S : IsLargest(i, S)
           k == PutSlot(t, e)
           u == FbtPut(t, b, e)
           last == FREE_BLOCK_COUNT - 1
<1>1. S # {} => \E i \in S : IsLargest(i, S)
  <2>1. FREE_BLOCK_COUNT \in Nat /\ S \in SUBSET (0 .. FREE_BLOCK_COUNT)
    OBVIOUS
  <2> HIDE DEF S
  <2> QED BY <2>1, HasLargest
<1>2. k = IF S # {} THEN 1 + m ELSE IF t[0].ec > e THEN 0 ELSE 1
  BY DEF PutSlot
<1>3. S # {} => m \in S
  <2> HIDE DEF S
  <2> QED BY <1>1
<1>4. /\ last \in Nat /\ last >= 1
      /\ \A i \in Slots : i \in Nat /\ i <= last /\ t[i].ec \in Nat
      /\ \A i \in Nat : i <= last => i \in Slots
  BY TableEntry DEF Slots
<1>5. k \in Slots /\ (k # 0 => k - 1 \in Slots /\ ~(t[k - 1].ec > e))
  <2>1. CASE S # {}
    <3>1. m \in 1 .. FREE_BLOCK_COUNT - 2 /\ ~(t[m].ec > e)
      BY <1>3, <2>1
    <3>2. k = 1 + m
      BY <1>2, <2>1
    <3> HIDE DEF m, k
    <3>3. m \in Nat /\ k \in Nat /\ k <= last /\ k - 1 = m
      BY <3>1, <3>2
    <3> QED BY <1>4, <3>1, <3>3
  <2>2. CASE S = {}
    <3>1. k = 0 \/ (k = 1 /\ ~(t[0].ec > e))
      BY <1>2, <2>2
    <3> HIDE DEF S, k
    <3> QED BY <1>4, <3>1
  <2> QED BY <2>1, <2>2
<1>6. /\ \A j \in Slots : u[j] = IF j < k THEN t[j] ELSE IF j = k THEN Entry(b, e) ELSE t[j - 1]
      /\ Entry(b, e).block = b /\ Entry(b, e).ec = e /\ b # INVALID_BLOCK
  BY DEF FbtPut, InsertAt, Entry
<1> HIDE DEF S, m, k, u, last
<1>7. e < INVALID_EC
  <2>1. u[k].block = b /\ u[k].ec = e
    BY <1>4, <1>5, <1>6
  <2>2. UnwornTable(u)
    BY DEF u
  <2> QED BY <1>5, <1>6, <2>1, <2>2 DEF UnwornTable
<1>8. \A i \in Slots : i < k => t[i].block # INVALID_BLOCK
  <2>1. k # 0 => t[k - 1].block # INVALID_BLOCK
    <3> SUFFICES ASSUME k # 0, t[k - 1].block = INVALID_BLOCK PROVE FALSE
      OBVIOUS
    <3>1. t[k - 1] = NoEntry
      BY <1>5 DEF TableOf
    <3> QED BY <1>5, <1>7, <3>1 DEF NoEntry, Entry
  <2> SUFFICES ASSUME NEW i \in Slots, i < k PROVE t[i].block # INVALID_BLOCK
    OBVIOUS
  <2>2. k # 0 /\ k - 1 \in Slots /\ (i = k - 1 \/ i < k - 1)
    BY <1>4, <1>5
  <2> QED BY <2>1, <2>2 DEF Packed
<1>9. Packed(u)
  <2> SUFFICES ASSUME NEW i \in Slots, NEW j \in Slots, i < j, u[j].block # INVALID_BLOCK
               PROVE  u[i].block # INVALID_BLOCK
    BY DEF Packed
  <2>1. i < k \/ i = k \/ (i > k /\ j > k)
    BY <1>4, <1>5
  <2>2. CASE i > k /\ j > k
    <3>1. u[j] = t[j - 1] /\ u[i] = t[i - 1] /\ i - 1 \in Slots /\ j - 1 \in Slots /\ i - 1 < j - 1
      BY <1>4, <1>5, <1>6, <2>2
    <3> QED BY <3>1 DEF Packed
  <2> QED BY <1>4, <1>5, <1>6, <1>8, <2>1, <2>2
<1>10. FbtBlocks(t) \cup {b} \subseteq FbtBlocks(u)
  <2>1. u[k].block = b
    BY <1>4, <1>5, <1>6
  <2>2. ASSUME NEW i \in Slots, t[i].block # INVALID_BLOCK
        PROVE  \E j \in Slots : u[j] = t[i]
    <3>1. CASE i < k
      BY <3>1, <1>6
    <3>2. CASE ~(i < k)
      <4>1. PICK n \in Slots : ~(n < k) /\ n # k /\ n - 1 = i
        <5>1. i + 1 \in Slots /\ ~(i + 1 < k) /\ i + 1 # k /\ (i + 1) - 1 = i
          BY <1>4, <1>5, <2>2, <3>2 DEF last
        <5> QED BY <5>1
      <4>2. u[n] = t[i]
        BY <1>6, <4>1
      <4> QED BY <4>1, <4>2
    <3> QED BY <3>1, <3>2
  <2> QED BY <1>5, <1>6, <2>1, <2>2 DEF FbtBlocks
<1> QED BY <1>9, <1>10 DEF u

\* INDEX_FreeBlock_SwapMaxECBlock drops the most worn block only.
LEMMA SwapDropsOne ==
  ASSUME NEW B, INVALID_BLOCK \notin B, NEW t, TableOf(B, t), Packed(t),
         NEW b \in B, NEW e \in Nat, NEW th,
         NEW top, top = MaxEcSlot(t), top > 0, t[top].ec > e, t[top].ec - e > th
  PROVE  /\ Packed(FbtSwap(t, b, e, th))
         /\ (FbtBlocks(t) \ {t[top].block}) \cup {b} \subseteq FbtBlocks(FbtSwap(t, b, e, th))
<1> USE FbtAssumption
<1> DEFINE S == {i \in 1 .. top - 1 : ~(t[i].ec > e)}
           k == IF S # {} THEN 1 + (CHOOSE i \in S : IsLargest(i, S))
                ELSE IF t[0].ec > e THEN 0 ELSE 1
           x == Entry(b, e)
           u == FbtSwap(t, b, e, th)
           last == FREE_BLOCK_COUNT - 1
<1>0. top \in Slots \ {0} /\ top \in Nat /\ t[top].block # INVALID_BLOCK
  <2>1. top \in Slots \ {0} /\ t[top].ec # INVALID_EC
    BY MaxEcSlotLast
  <2> QED BY <2>1, TableEntry DEF Slots
<1>1. S # {} => \E i \in S : IsLargest(i, S)
  <2>1. S \in SUBSET (0 .. top)
    BY <1>0
  <2> HIDE DEF S
  <2> QED BY <2>1, <1>0, HasLargest
<1>2. S \subseteq 1 .. top - 1
  OBVIOUS
<1>3. \A j \in Slots : u[j] = IF j < k THEN t[j] ELSE IF j = k THEN x
                              ELSE IF j <= top THEN t[j - 1] ELSE t[j]
  BY DEF FbtSwap
<1> HIDE DEF S, u
<1>4. k \in 0 .. top
  <2>1. CASE S # {}
    <3>1. (CHOOSE i \in S : IsLargest(i, S)) \in 1 .. top - 1
      BY <1>1, <1>2, <2>1
    <3> QED BY <1>0, <2>1, <3>1
  <2>2. CASE S = {}
    BY <1>0, <2>2
  <2> QED BY <2>1, <2>2
<1>5. x.block = b /\ b # INVALID_BLOCK
  BY DEF Entry
<1> HIDE DEF k, x
<1>6. /\ last \in Nat /\ \A i \in Slots : i \in Nat /\ i <= last
      /\ \A i \in Nat : i <= last => i \in Slots
      /\ k \in Slots
  BY <1>0, <1>4 DEF Slots
<1>7. u[k] = x
  BY <1>3, <1>4, <1>6
<1> HIDE DEF last
<1>8. \A i \in Slots : i <= top => t[i].block # INVALID_BLOCK
  <2> SUFFICES ASSUME NEW i \in Slots, i <= top PROVE t[i].block # INVALID_BLOCK
    OBVIOUS
  <2>1. i = top \/ i < top
    BY <1>0, <1>6
  <2> QED BY <1>0, <2>1 DEF Packed
<1>9. \A i \in Slots : i <= top => u[i].block # INVALID_BLOCK
  <2> SUFFICES ASSUME NEW i \in Slots, i <= top PROVE u[i].block # INVALID_BLOCK
    OBVIOUS
  <2>1. CASE i < k
    BY <1>3, <1>8, <2>1
  <2>2. CASE i = k
    BY <1>5, <1>7, <2>2
  <2>3. CASE i > k
    <3>1. u[i] = t[i - 1] /\ i - 1 \in Slots /\ i - 1 <= top
      BY <1>0, <1>3, <1>4, <1>6, <2>3
    <3> QED BY <1>8, <3>1
  <2> QED BY <1>6, <2>1, <2>2, <2>3
<1>10. \A i \in Slots : i > top => u[i] = t[i]
  BY <1>0, <1>3, <1>4, <1>6
<1>11. Packed(u)
  <2> SUFFICES ASSUME NEW i \in Slots, NEW j \in Slots, i < j, u[j].block # INVALID_BLOCK, i > top
               PROVE  u[i].block # INVALID_BLOCK
    BY <1>0, <1>6, <1>9 DEF Packed
  <2>1. j > top
    BY <1>0, <1>6
  <2> QED BY <1>10, <2>1 DEF Packed
<1>12. (FbtBlocks(t) \ {t[top].block}) \cup {b} \subseteq FbtBlocks(u)
  <2>1. ASSUME NEW i \in Slots, t[i].block # INVALID_BLOCK, i # top
        PROVE  \E j \in Slots : u[j] = t[i]
    <3>1. CASE i < k
      BY <1>3, <3>1
    <3>2. CASE i >= k /\ i < top
      <4>1. PICK n \in Slots : ~(n < k) /\ n # k /\ n <= top /\ n - 1 = i
        <5>1. i + 1 \in Slots /\ ~(i + 1 < k) /\ i + 1 # k /\ i + 1 <= top /\ (i + 1) - 1 = i
          BY <1>0, <1>6, <3>2
        <5> QED BY <5>1
      <4>2. u[n] = t[i]
        BY <1>3, <4>1
      <4> QED BY <4>1, <4>2
    <3>3. CASE i > top
      BY <1>10, <3>3
    <3>4. i \in Nat /\ k \in Nat
      BY <1>6
    <3>5. i < k \/ (i >= k /\ i < top) \/ i > top
      BY <1>0, <2>1, <3>4
    <3> QED BY <3>1, <3>2, <3>3, <3>5
  <2> QED BY <1>5, <1>6, <1>7, <2>1 DEF FbtBlocks
<1> QED BY <1>11, <1>12 DEF u
=============================================================================
