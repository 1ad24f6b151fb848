------------------------- MODULE TableSearch_proofs -------------------------
(***************************************************************************)
(* TABLE_Read is right for every block size: theorems about TableSearch     *)
(* for a block whose valid pages are a prefix (Overwritten = FALSE).        *)
(***************************************************************************)
EXTENDS TableSearch, TLAPS

\* The invariant of the binary search, for the number n of valid pages: the
\* last valid page, if there is one, is in head .. tail - 1.
Bracket(n) ==
  /\ Prefix(page, n)
  /\ head < tail
  /\ head = 0 \/ head < n
  /\ tail = PAGE_PER_PHY_BLOCK \/ n <= tail
  /\ pc = "read" => result = head /\ tail = head + 1
  /\ pc = "done" => result = IF n > 0 THEN n - 1 ELSE INVALID_PAGE

\* What is proved to be inductive.
IInv == TypeOK /\ \E n \in Range0 : Bracket(n)

\* The page in the middle lies in the range; the loop goes on exactly while
\* the range has more than one page, and then both halves are proper.
LEMMA MidInRange ==
  ASSUME TypeOK, head < tail
  PROVE  /\ mid \in Int
         /\ head <= mid /\ mid < tail
         /\ 2 * mid <= head + tail /\ head + tail <= 2 * mid + 1
         /\ mid = head => tail = head + 1
BY SearchAssumption DEF TypeOK, mid, Pages

\* TABLE_Read starts with a range that contains the last valid page.
LEMMA SearchInit ==
  ASSUME Overwritten = FALSE, Init
  PROVE  IInv
<1>1. PICK n \in Range0 : Prefix(page, n)
  BY DEF Init
<1>2. TypeOK
  BY SearchAssumption DEF Init, TypeOK, Pages
<1>3. Bracket(n)
  BY <1>1, SearchAssumption DEF Init, Bracket
<1> QED BY <1>2, <1>3 DEF IInv

\* Every step of TABLE_Read keeps it there.
LEMMA SearchStep ==
  ASSUME IInv, [Next]_vars
  PROVE  IInv'
<1>1. TypeOK
  BY DEF IInv
<1>2. PICK n \in Range0 : Bracket(n)
  BY DEF IInv
<1>3. n \in Int /\ 0 <= n /\ n <= PAGE_PER_PHY_BLOCK
  BY SearchAssumption DEF Range0
<1>4. /\ mid \in Int
      /\ head <= mid /\ mid < tail
      /\ mid = head => tail = head + 1
  BY <1>1, <1>2, MidInRange DEF Bracket
<1>5. CASE Probe
  <2>1. mid \in Pages /\ head < mid
    BY <1>1, <1>4, <1>5, SearchAssumption DEF Probe, TypeOK, Pages
  <2>2. page[mid] = "valid" <=> mid < n
    BY <2>1, <1>2 DEF Bracket, Prefix
  <2>3. CASE page[mid] = "valid"
    <3>1. head' = mid /\ tail' = tail /\ page' = page /\ result' = result /\ pc' = pc
      BY <1>5, <2>3 DEF Probe
    <3>2. TypeOK'
      BY <3>1, <2>1, <1>1 DEF TypeOK
    <3>3. pc = "loop"
      BY <1>5 DEF Probe
    <3>4. Bracket(n)'
      BY <3>1, <3>3, <2>2, <2>3, <1>2, <1>4 DEF Bracket, Prefix
    <3> QED BY <3>2, <3>4 DEF IInv
  <2>4. CASE page[mid] # "valid"
    <3>1. head' = head /\ tail' = mid /\ page' = page /\ result' = result /\ pc' = pc
      BY <1>5, <2>4 DEF Probe
    <3>2. TypeOK'
      BY <3>1, <2>1, <1>1, SearchAssumption DEF TypeOK, Pages
    <3>3. pc = "loop"
      BY <1>5 DEF Probe
    <3>4. n <= mid
      BY <2>2, <2>4, <1>3, <1>4
    <3>5. Bracket(n)'
      BY <3>1, <3>3, <3>4, <2>1, <1>2 DEF Bracket, Prefix
    <3> QED BY <3>2, <3>5 DEF IInv
  <2> QED BY <2>3, <2>4
<1>6. CASE Leave
  <2>1. mid = head /\ tail = head + 1
    BY <1>4, <1>6, <1>1, SearchAssumption DEF Leave, TypeOK, Pages
  <2>2. TypeOK'
    BY <2>1, <1>1, <1>6 DEF Leave, TypeOK
  <2>3. Bracket(n)'
    BY <2>1, <1>2, <1>6 DEF Leave, Bracket, Prefix
  <2> QED BY <2>2, <2>3 DEF IInv
<1>7. CASE ReadTable
  <2>1. result = head /\ tail = head + 1 /\ head \in Pages
    BY <1>1, <1>2, <1>7 DEF ReadTable, Bracket, TypeOK
  <2>2. page[head] = "valid" <=> head < n
    BY <2>1, <1>2 DEF Bracket, Prefix
  <2>3. head < n <=> n > 0
    BY <2>1, <1>2, <1>3 DEF Bracket, Pages
  <2>4. head < n => head = n - 1
    BY <2>1, <1>2, <1>3, SearchAssumption DEF Bracket, Pages
  <2>5. result' = IF n > 0 THEN n - 1 ELSE INVALID_PAGE
    BY <2>1, <2>2, <2>3, <2>4, <1>7 DEF ReadTable
  <2>6. TypeOK'
    BY <2>1, <1>1, <1>7 DEF ReadTable, TypeOK
  <2>7. Bracket(n)'
    BY <2>5, <1>2, <1>7 DEF ReadTable, Bracket, Prefix
  <2> QED BY <2>6, <2>7 DEF IInv
<1>8. CASE UNCHANGED vars
  <2>1. TypeOK'
    BY <1>1, <1>8 DEF TypeOK, vars
  <2>2. Bracket(n)'
    BY <1>2, <1>8 DEF Bracket, Prefix, vars
  <2> QED BY <2>1, <2>2 DEF IInv
<1> QED BY <1>5, <1>6, <1>7, <1>8 DEF Next

\* The invariant holds throughout the search.
THEOREM SearchInvariant == ASSUME Overwritten = FALSE PROVE Spec => []IInv
<1>1. Init => IInv
  BY SearchInit
<1>2. IInv /\ [Next]_vars => IInv'
  BY SearchStep
<1> QED BY <1>1, <1>2, PTL DEF Spec

\* The variables of TABLE_Read stay in their ranges: no page outside the block
\* is ever read.
THEOREM SearchTyped == ASSUME Overwritten = FALSE PROVE Spec => []TypeOK
<1>1. IInv => TypeOK
  BY DEF IInv
<1> QED BY <1>1, SearchInvariant, PTL

\* For every block size and every number of valid pages TABLE_Read returns the
\* last valid page, and fails only when there is none.
THEOREM SearchFindsLast == ASSUME Overwritten = FALSE PROVE Spec => []FindsLast
<1>1. IInv => FindsLast
  <2> SUFFICES ASSUME IInv, pc = "done" PROVE FindsLast
    BY DEF FindsLast
  <2>1. PICK n \in Range0 : Bracket(n)
    BY DEF IInv
  <2>2. n \in Int /\ 0 <= n /\ n <= PAGE_PER_PHY_BLOCK
    BY SearchAssumption DEF Range0
  <2>3. \A p \in Pages : page[p] = "valid" <=> p < n
    BY <2>1 DEF Bracket, Prefix
  <2>4. CASE n > 0
    <3>0. result = n - 1
      BY <2>1, <2>4 DEF Bracket
    <3>1. result = n - 1 /\ result # INVALID_PAGE /\ result \in Pages
      BY <3>0, <2>2, <2>4, SearchAssumption DEF INVALID_PAGE, Pages
    <3>2. \A p \in Pages : p > result => ~(p < n)
      BY <3>1, <2>2 DEF Pages
    <3>3. page[result] = "valid"
      BY <3>1, <2>2, <2>3
    <3> QED BY <3>1, <3>2, <3>3, <2>3 DEF FindsLast
  <2>5. CASE n = 0
    <3>1. result = INVALID_PAGE
      BY <2>1, <2>5 DEF Bracket
    <3>2. \A p \in Pages : ~(p < n)
      BY <2>5 DEF Pages
    <3> QED BY <3>1, <3>2, <2>3 DEF FindsLast
  <2> QED BY <2>2, <2>4, <2>5
<1> QED BY <1>1, SearchInvariant, PTL

\* Every probe halves the range.
THEOREM SearchHalves == ASSUME Overwritten = FALSE PROVE Spec => Halves
<1>1. IInv /\ [Next]_vars =>
        [pc = "loop" /\ pc' = "loop" => 2 * (tail' - head') <= tail - head + 1]_vars
  <2> SUFFICES ASSUME IInv, Next, pc = "loop", pc' = "loop"
               PROVE  2 * (tail' - head') <= tail - head + 1
    OBVIOUS
  <2>1. TypeOK /\ head < tail
    BY DEF IInv, Bracket
  <2>2. /\ mid \in Int
        /\ 2 * mid <= head + tail /\ head + tail <= 2 * mid + 1
    BY <2>1, MidInRange
  <2>3. Probe
    BY DEF Next, Leave, ReadTable
  <2>4. \/ head' = mid /\ tail' = tail
        \/ head' = head /\ tail' = mid
    BY <2>3 DEF Probe
  <2>5. head \in Int /\ tail \in Int
    BY <2>1, SearchAssumption DEF TypeOK, Pages
  <2> QED BY <2>2, <2>4, <2>5
<1> QED BY <1>1, SearchInvariant, PTL DEF Spec, Halves
=============================================================================
