-------------------------- MODULE RootTable_proofs --------------------------
(***************************************************************************)
(* Proofs about RootTable for every number of pages per block, every set of *)
(* bodies and every edition limit.  The invariants are proved for the fault *)
(* model of the simulated NAND (Torn = FALSE: a page a power loss interrupts *)
(* is either untouched or complete); with torn pages they do not hold.      *)
(***************************************************************************)
EXTENDS RootTable, TLAPS

\* Block b is the current one and p its next page: the pages below p are
\* written, the others erased, and the other block is as ROOT_Commit left it.
Layout(b, p) ==
  /\ \A j \in Pages : j < p => rootFlash[b][j].st = "ok"
  /\ \A j \in Pages : j >= p => rootFlash[b][j].st = "erased"
  /\ p = 0 => \A j \in Pages : rootFlash[Other(b)][j].st = "ok"
  /\ p > 0 => \/ \A j \in Pages : rootFlash[Other(b)][j].st = "erased"
              \/ /\ \A j \in Pages : rootFlash[Other(b)][j].st = "ok"
                 /\ rootFlash[Other(b)][0].edition < rootFlash[b][0].edition

\* The page written last.
Last(b, p) == IF p > 0 THEN rootFlash[b][p - 1] ELSE rootFlash[Other(b)][P - 1]

\* The page written last has the highest edition on flash.
LastIsNewest(b, p) ==
  \A c \in Blocks, j \in Pages :
    rootFlash[c][j].st = "ok" => rootFlash[c][j].edition <= Last(b, p).edition

Good(b, p) == Layout(b, p) /\ LastIsNewest(b, p)

IInv ==
  /\ TypeOK
  /\ rootPc # "off" =>
       /\ Good(root_current_block, root_current_page)
       /\ Last(root_current_block, root_current_page).edition < root_edition
       /\ Last(root_current_block, root_current_page).body = acked
  /\ rootPc = "idle" => root_current_page > 0
  /\ rootPc = "commit" => attempt = root_table.body
  /\ rootPc = "off" =>
       \E b \in Blocks, p \in 0 .. P :
          Good(b, p) /\ Last(b, p).body \in {acked, attempt}
-----------------------------------------------------------------------------
\* RootTable keeps its types.
LEMMA InitTyped == Init => TypeOK
  BY RootAssumption DEF Init, TypeOK, Blocks, Pages, PageSet, WrittenPage, ErasedPage

\* Programming a page keeps the type of the flash.
LEMMA FlashUpdateTyped ==
  ASSUME TypeOK, NEW b \in Blocks, NEW p \in Pages, NEW pg \in PageSet
  PROVE  [rootFlash EXCEPT ![b][p] = pg] \in [Blocks -> [Pages -> PageSet]]
  BY DEF TypeOK

\* What ROOT_Init would load is a page.
LEMMA RecoveredTyped ==
  ASSUME TypeOK, FirstUnreadable(LatestBlock) \in 0 .. P, FirstUnreadable(LatestBlock) > 0
  PROVE  Recovered \in PageSet
<1>1. LatestBlock \in Blocks
  BY DEF LatestBlock, Blocks
<1>2. FirstUnreadable(LatestBlock) - 1 \in Pages
  BY RootAssumption DEF Pages
<1> QED BY <1>1, <1>2 DEF TypeOK, Recovered

\* There is a first unreadable page, so FirstUnreadable names one.
LEMMA FirstUnreadableUnique ==
  ASSUME TypeOK, NEW b \in Blocks, NEW p \in 0 .. P,
         \A j \in Pages : j < p => rootFlash[b][j].st = "ok",
         \A j \in Pages : j >= p => rootFlash[b][j].st # "ok"
  PROVE  FirstUnreadable(b) = p
<1>1. IsFirstUnreadable(b, p)
  BY RootAssumption DEF IsFirstUnreadable, Readable, Pages
<1>2. ASSUME NEW i \in 0 .. P, IsFirstUnreadable(b, i)
      PROVE  i = p
  BY <1>2, RootAssumption DEF IsFirstUnreadable, Readable, Pages
<1> QED BY <1>1, <1>2 DEF FirstUnreadable

\* On a well laid out flash ROOT_Init loads the page written last.
LEMMA RecoveredIsLast ==
  ASSUME TypeOK, NEW b \in Blocks, NEW p \in 0 .. P, Layout(b, p)
  PROVE  /\ Recovered = Last(b, p)
         /\ FirstUnreadable(LatestBlock) > 0
         /\ FirstUnreadable(LatestBlock) \in 0 .. P
         /\ p > 0 => LatestBlock = b /\ FirstUnreadable(LatestBlock) = p
         /\ p = 0 => LatestBlock = Other(b) /\ FirstUnreadable(LatestBlock) = P
<1> USE RootAssumption
<1>0. 0 \in Pages /\ Other(b) \in Blocks /\ P \in 0 .. P
  BY DEF Pages, Other, Blocks
<1>1. CASE p > 0
  <2>1. LatestBlock = b
    <3>1. rootFlash[b][0].st = "ok"
      BY <1>0, <1>1 DEF Layout
    <3>2. \/ rootFlash[Other(b)][0].st = "erased"
          \/ rootFlash[Other(b)][0].edition < rootFlash[b][0].edition
      BY <1>0, <1>1 DEF Layout
    <3>3. /\ rootFlash[0][0].edition \in Nat
          /\ rootFlash[1][0].edition \in Nat
      BY <1>0 DEF TypeOK, Blocks, PageSet
    <3>4. CASE b = 0
      BY <3>1, <3>2, <3>3, <3>4 DEF LatestBlock, Readable, Other
    <3>5. CASE b = 1
      BY <3>1, <3>2, <3>3, <3>5 DEF LatestBlock, Readable, Other
    <3> QED BY <3>4, <3>5 DEF Blocks
  <2>2. FirstUnreadable(b) = p
    <3>1. \A j \in Pages : j < p => rootFlash[b][j].st = "ok"
      BY DEF Layout
    <3>2. \A j \in Pages : j >= p => rootFlash[b][j].st # "ok"
      BY DEF Layout
    <3> QED BY <3>1, <3>2, FirstUnreadableUnique
  <2> QED BY <1>1, <2>1, <2>2 DEF Recovered, Last
<1>2. CASE p = 0
  <2>1. LatestBlock = Other(b)
    <3>1. rootFlash[b][0].st = "erased" /\ rootFlash[Other(b)][0].st = "ok"
      BY <1>0, <1>2 DEF Layout
    <3> QED BY <3>1 DEF LatestBlock, Readable, Other, Blocks
  <2>2. FirstUnreadable(Other(b)) = P
    <3>1. \A j \in Pages : j < P => rootFlash[Other(b)][j].st = "ok"
      BY <1>2 DEF Layout
    <3>2. \A j \in Pages : j >= P => rootFlash[Other(b)][j].st # "ok"
      BY DEF Pages
    <3> QED BY <1>0, <3>1, <3>2, FirstUnreadableUnique
  <2> QED BY <1>2, <2>1, <2>2 DEF Recovered, Last
<1> QED BY <1>1, <1>2
-----------------------------------------------------------------------------
\* The inductive invariant holds after ROOT_Format.
LEMMA InitIInv == Init => IInv
<1> SUFFICES ASSUME Init PROVE IInv
  OBVIOUS
<1> USE RootAssumption
<1>1. TypeOK
  BY InitTyped
<1>2. Good(0, 1)
  <2>1. \A j \in Pages : rootFlash[0][j].st = IF j = 0 THEN "ok" ELSE "erased"
    BY DEF Init, Blocks, WrittenPage, ErasedPage
  <2>2. \A j \in Pages : rootFlash[1][j].st = "erased"
    BY DEF Init, Blocks, WrittenPage, ErasedPage
  <2>3. Layout(0, 1)
    BY <2>1, <2>2 DEF Layout, Other, Pages
  <2>4. Last(0, 1) = rootFlash[0][0]
    BY DEF Last
  <2>5. rootFlash[0][0].edition = 0
    BY DEF Init, Blocks, Pages, WrittenPage
  <2>6. LastIsNewest(0, 1)
    BY <2>1, <2>2, <2>4, <2>5 DEF LastIsNewest, Blocks
  <2> QED BY <2>3, <2>6 DEF Good
<1>3. Last(0, 1) = WrittenPage(0, Body0)
  BY DEF Init, Last, Blocks, Pages
<1> QED BY <1>1, <1>2, <1>3 DEF IInv, Init, WrittenPage

\* Good, Layout and Last only look at the flash.
LEMMA GoodUnchanged ==
  ASSUME rootFlash' = rootFlash, NEW b, NEW p
  PROVE  /\ Good(b, p)' = Good(b, p)
         /\ Last(b, p)' = Last(b, p)
  BY DEF Good, Layout, LastIsNewest, Last

\* Erasing the full block's sibling keeps the layout: it is now the current
\* block, empty, and the full one holds the page written last.
LEMMA EraseKeepsGood ==
  ASSUME TypeOK, NEW b \in Blocks, Good(b, P),
         rootFlash' = [rootFlash EXCEPT ![Other(b)] = [p \in Pages |-> ErasedPage]]
  PROVE  Good(Other(b), 0)' /\ Last(Other(b), 0)' = Last(b, P)
<1> USE RootAssumption
<1>1. Other(b) \in Blocks /\ Other(Other(b)) = b /\ Other(b) # b
  BY DEF Other, Blocks
<1>2. rootFlash'[b] = rootFlash[b]
  BY <1>1 DEF TypeOK
<1>3. rootFlash'[Other(b)] = [p \in Pages |-> ErasedPage]
  BY <1>1 DEF TypeOK
<1>4. \A j \in Pages : rootFlash'[Other(b)][j].st = "erased"
  BY <1>3 DEF ErasedPage
<1>5. \A j \in Pages : rootFlash'[b][j].st = "ok"
  BY <1>2 DEF Good, Layout, Pages
<1>6. Layout(Other(b), 0)'
  BY <1>1, <1>4, <1>5 DEF Layout, Pages
<1>7. Last(Other(b), 0)' = Last(b, P)
  BY <1>1, <1>2 DEF Last
<1>8. LastIsNewest(Other(b), 0)'
  <2> SUFFICES ASSUME NEW c \in Blocks, NEW j \in Pages, rootFlash'[c][j].st = "ok"
               PROVE  rootFlash'[c][j].edition <= Last(b, P).edition
    BY <1>7 DEF LastIsNewest
  <2>1. c = b
    BY <1>4 DEF Other, Blocks
  <2> QED BY <2>1, <1>2 DEF Good, LastIsNewest
<1> QED BY <1>6, <1>7, <1>8 DEF Good

\* Programming the next page with a higher edition keeps the layout, and the
\* page programmed is the one written last.
LEMMA WriteKeepsGood ==
  ASSUME TypeOK, NEW b \in Blocks, NEW p \in Pages, Good(b, p),
         NEW e \in Nat, NEW v \in Body, Last(b, p).edition < e,
         rootFlash' = [rootFlash EXCEPT ![b][p] = WrittenPage(e, v)]
  PROVE  Good(b, p + 1)' /\ Last(b, p + 1)' = WrittenPage(e, v)
<1> USE RootAssumption
<1>1. Other(b) \in Blocks /\ Other(b) # b
  BY DEF Other, Blocks
<1>2. rootFlash'[Other(b)] = rootFlash[Other(b)]
  BY <1>1 DEF TypeOK
<1>3. rootFlash'[b][p] = WrittenPage(e, v)
  BY DEF TypeOK
<1>4. \A j \in Pages : j # p => rootFlash'[b][j] = rootFlash[b][j]
  BY DEF TypeOK
<1>5. Last(b, p + 1)' = WrittenPage(e, v)
  BY <1>3 DEF Last, Pages
<1>6. \A c \in Blocks, j \in Pages : rootFlash[c][j].edition \in Nat
  BY DEF TypeOK, PageSet
<1>7. Last(b, p) \in PageSet
  BY <1>1 DEF Last, TypeOK, Pages
<1>8. Last(b, p).edition \in Nat
  BY <1>7 DEF PageSet
<1>9. LastIsNewest(b, p + 1)'
  <2> SUFFICES ASSUME NEW c \in Blocks, NEW j \in Pages, rootFlash'[c][j].st = "ok"
               PROVE  rootFlash'[c][j].edition <= e
    BY <1>5 DEF LastIsNewest, WrittenPage
  <2>1. CASE c = b /\ j = p
    BY <2>1, <1>3 DEF WrittenPage
  <2>2. CASE ~(c = b /\ j = p)
    <3>1. rootFlash'[c][j] = rootFlash[c][j]
      BY <2>2, <1>2, <1>4 DEF Other, Blocks
    <3>2. rootFlash[c][j].edition <= Last(b, p).edition
      BY <3>1 DEF Good, LastIsNewest
    <3> QED BY <3>1, <3>2, <1>6, <1>8
  <2> QED BY <2>1, <2>2
<1>10. Layout(b, p + 1)'
  <2>1. \A j \in Pages : j < p + 1 => rootFlash'[b][j].st = "ok"
    BY <1>3, <1>4 DEF Good, Layout, WrittenPage, Pages
  <2>2. \A j \in Pages : j >= p + 1 => rootFlash'[b][j].st = "erased"
    BY <1>4 DEF Good, Layout, Pages
  <2>3. \/ \A j \in Pages : rootFlash'[Other(b)][j].st = "erased"
        \/ /\ \A j \in Pages : rootFlash'[Other(b)][j].st = "ok"
           /\ rootFlash'[Other(b)][0].edition < rootFlash'[b][0].edition
    <3>1. CASE p = 0
      <4>1. \A j \in Pages : rootFlash[Other(b)][j].st = "ok"
        BY <3>1 DEF Good, Layout
      <4>2. rootFlash[Other(b)][0].edition <= Last(b, p).edition
        BY <1>1, <4>1 DEF Good, LastIsNewest, Pages
      <4>3. rootFlash'[b][0].edition = e
        BY <3>1, <1>3 DEF WrittenPage
      <4>4. rootFlash[Other(b)][0].edition \in Nat
        BY <1>1, <1>6 DEF Pages
      <4> QED BY <4>1, <4>2, <4>3, <4>4, <1>2, <1>8
    <3>2. CASE p > 0
      <4>1. rootFlash'[b][0] = rootFlash[b][0]
        BY <3>2, <1>4 DEF Pages
      <4> QED BY <3>2, <4>1, <1>2 DEF Good, Layout
    <3> QED BY <3>1, <3>2 DEF Pages
  <2>4. p + 1 # 0
    BY DEF Pages
  <2> QED BY <2>1, <2>2, <2>3, <2>4 DEF Layout
<1> QED BY <1>5, <1>9, <1>10 DEF Good
-----------------------------------------------------------------------------
\* Without torn pages programming the current page writes it in full.
LEMMA ProgrammedIsWritten ==
  ASSUME Good(root_current_block, root_current_page),
         TypeOK, root_current_page < P
  PROVE  Programmed = {WrittenPage(root_edition, root_table.body)}
<1>1. root_current_page \in Pages
  BY RootAssumption DEF TypeOK, Pages
<1>2. rootFlash[root_current_block][root_current_page].st = "erased"
  BY <1>1 DEF Good, Layout, TypeOK
<1> QED BY <1>2 DEF Programmed

\* Every step keeps the inductive invariant.
LEMMA NextIInv ==
  ASSUME Torn = FALSE, IInv, [Next]_rootVars
  PROVE  IInv'
<1> USE RootAssumption
<1>t. TypeOK
  BY DEF IInv
<1>1. ASSUME NEW v \in Body, SetBody(v) PROVE IInv'
  <2>1. TypeOK'
    BY <1>1, <1>t DEF SetBody, TypeOK
  <2>2. rootFlash' = rootFlash
    BY <1>1 DEF SetBody
  <2> QED BY <1>1, <2>1, <2>2, GoodUnchanged DEF SetBody, IInv
<1>2. CASE CommitCall
  <2>1. TypeOK'
    BY <1>2, <1>t DEF CommitCall, TypeOK, ramVars
  <2>2. rootFlash' = rootFlash
    BY <1>2 DEF CommitCall
  <2> QED BY <1>2, <2>1, <2>2, GoodUnchanged DEF CommitCall, ramVars, IInv
<1>3. CASE CommitErase
  <2>0. PICK b \in Blocks : b = root_current_block
    BY <1>t DEF TypeOK
  <2>1. Other(b) \in Blocks /\ Good(b, P)
    BY <1>3, <2>0 DEF CommitErase, IInv, Other, Blocks
  <2>2. TypeOK'
    <3>1. [p \in Pages |-> ErasedPage] \in [Pages -> PageSet]
      BY DEF ErasedPage, PageSet
    <3> QED BY <1>3, <1>t, <2>0, <2>1, <3>1 DEF CommitErase, TypeOK
  <2>3. Good(Other(b), 0)' /\ Last(Other(b), 0)' = Last(b, P)
    BY <1>3, <1>t, <2>0, <2>1, EraseKeepsGood DEF CommitErase
  <2>4. root_current_block' = Other(b) /\ root_current_page' = 0
    BY <1>3, <2>0 DEF CommitErase
  <2>5. /\ Last(b, P).edition < root_edition
        /\ Last(b, P).body = acked
        /\ attempt = root_table.body
    BY <1>3, <2>0 DEF CommitErase, IInv
  <2>6. Good(root_current_block, root_current_page)'
    BY <2>3, <2>4 DEF Good, Layout, LastIsNewest, Last
  <2>7. Last(root_current_block, root_current_page)' = Last(b, P)
    BY <2>3, <2>4 DEF Last
  <2> QED BY <1>3, <2>2, <2>5, <2>6, <2>7 DEF CommitErase, IInv
<1>4. CASE CommitEraseFails
  <2>1. TypeOK'
    BY <1>4, <1>t DEF CommitEraseFails, TypeOK, ramVars
  <2>2. rootFlash' = rootFlash
    BY <1>4 DEF CommitEraseFails
  <2> QED BY <1>4, <2>1, <2>2, GoodUnchanged DEF CommitEraseFails, ramVars, IInv
<1>5. CASE CommitWrite
  <2>0. PICK b \in Blocks, p \in Pages, e \in Nat, v \in Body :
           /\ b = root_current_block /\ p = root_current_page
           /\ e = root_edition /\ v = root_table.body
    BY <1>5, <1>t DEF CommitWrite, TypeOK, Pages
  <2> DEFINE pg == WrittenPage(e, v)
  <2>1. Good(b, p)
    BY <1>5, <2>0 DEF CommitWrite, IInv
  <2>2. Last(b, p).edition < e
    BY <1>5, <2>0 DEF CommitWrite, IInv
  <2>3. rootFlash' = [rootFlash EXCEPT ![b][p] = pg]
    BY <1>5, <1>t, <2>0, <2>1, ProgrammedIsWritten DEF CommitWrite
  <2>4. Good(b, p + 1)' /\ Last(b, p + 1)' = pg
    BY <1>t, <2>1, <2>2, <2>3, WriteKeepsGood
  <2>5. TypeOK'
    <3>1. pg \in PageSet
      BY <2>2 DEF WrittenPage, PageSet
    <3>2. rootFlash' \in [Blocks -> [Pages -> PageSet]]
      BY <1>t, <2>1, <2>3, <3>1, FlashUpdateTyped
    <3>3. p + 1 \in 0 .. P
      BY <2>1 DEF Pages
    <3> QED BY <1>5, <1>t, <2>0, <3>2, <3>3 DEF CommitWrite, TypeOK
  <2>6. root_current_block' = b /\ root_current_page' = p + 1
    BY <1>5, <2>0 DEF CommitWrite
  <2>7. Good(root_current_block, root_current_page)'
    BY <2>4, <2>6 DEF Good, Layout, LastIsNewest, Last
  <2>8. Last(root_current_block, root_current_page)' = pg
    BY <2>4, <2>6 DEF Last
  <2>9. pg.edition = e /\ pg.body = v /\ p + 1 > 0
    BY DEF WrittenPage, Pages
  <2> QED BY <1>5, <2>0, <2>5, <2>6, <2>7, <2>8, <2>9 DEF CommitWrite, IInv
<1>6. CASE PowerLoss
  <2>1. TypeOK'
    BY <1>6, <1>t DEF PowerLoss, RamLost, TypeOK, Blocks
  <2>2. rootFlash' = rootFlash
    BY <1>6 DEF PowerLoss
  <2>3. /\ root_current_block \in Blocks
        /\ root_current_page \in 0 .. P
        /\ Good(root_current_block, root_current_page)
        /\ Last(root_current_block, root_current_page).body = acked
    BY <1>6, <1>t DEF PowerLoss, IInv, TypeOK
  <2>4. \E c \in Blocks, q \in 0 .. P :
           Good(c, q)' /\ Last(c, q)'.body \in {acked', attempt'}
    BY <1>6, <2>2, <2>3, GoodUnchanged DEF PowerLoss
  <2> QED BY <1>6, <2>1, <2>4 DEF PowerLoss, IInv
<1>7. CASE PowerLossInWrite
  <2>0. PICK b \in Blocks, p \in Pages, e \in Nat, v \in Body :
           /\ b = root_current_block /\ p = root_current_page
           /\ e = root_edition /\ v = root_table.body
    BY <1>7, <1>t DEF PowerLossInWrite, TypeOK, Pages
  <2> DEFINE pg == WrittenPage(e, v)
  <2>1. Good(b, p) /\ attempt = v
    BY <1>7, <2>0 DEF PowerLossInWrite, IInv
  <2>2. Last(b, p).edition < e
    BY <1>7, <2>0 DEF PowerLossInWrite, IInv
  <2>3. rootFlash' = [rootFlash EXCEPT ![b][p] = pg]
    BY Torn = FALSE, <1>7, <1>t, <2>0, <2>1, ProgrammedIsWritten DEF PowerLossInWrite
  <2>4. Good(b, p + 1)' /\ Last(b, p + 1)' = pg
    BY <1>t, <2>1, <2>2, <2>3, WriteKeepsGood
  <2>5. TypeOK'
    <3>1. pg \in PageSet
      BY <2>2 DEF WrittenPage, PageSet
    <3>2. rootFlash' \in [Blocks -> [Pages -> PageSet]]
      BY <1>t, <2>1, <2>3, <3>1, FlashUpdateTyped
    <3> QED BY <1>7, <1>t, <3>2 DEF PowerLossInWrite, RamLost, TypeOK, Blocks
  <2>6. p + 1 \in 0 .. P
    BY <2>1 DEF Pages
  <2>7. Last(b, p + 1)'.body = attempt'
    BY <1>7, <2>1, <2>4 DEF PowerLossInWrite, WrittenPage
  <2>8. \E c \in Blocks, q \in 0 .. P :
           Good(c, q)' /\ Last(c, q)'.body \in {acked', attempt'}
    BY <2>1, <2>4, <2>6, <2>7
  <2> QED BY <1>7, <2>5, <2>8 DEF PowerLossInWrite, IInv
<1>8. CASE RootInit
  <2>1. PICK c \in Blocks, q \in 0 .. P : Good(c, q)
    BY <1>8 DEF RootInit, IInv
  <2>2. /\ Recovered = Last(c, q) /\ FirstUnreadable(LatestBlock) \in 0 .. P
        /\ q > 0 => LatestBlock = c /\ FirstUnreadable(LatestBlock) = q
        /\ q = 0 => LatestBlock = Other(c) /\ FirstUnreadable(LatestBlock) = P
    BY <1>t, <2>1, RecoveredIsLast DEF Good
  <2>3. Recovered \in PageSet
    BY <1>8, <1>t, <2>2, RecoveredTyped DEF RootInit
  <2>4. PICK b \in Blocks, p \in 0 .. P :
           b = LatestBlock /\ p = FirstUnreadable(LatestBlock)
    BY <2>2 DEF LatestBlock, Blocks
  <2>5. TypeOK'
    BY <1>8, <1>t, <2>2, <2>3, <2>4 DEF RootInit, NextEdition, TypeOK, PageSet
  <2>6. Good(b, p) /\ Last(b, p) = Last(c, q)
    <3>1. CASE q > 0
      BY <3>1, <2>1, <2>2, <2>4
    <3>2. CASE q = 0
      <4>1. Other(b) = c /\ b = Other(c) /\ p = P
        BY <3>2, <2>2, <2>4 DEF Other, Blocks
      <4>2. Last(b, P) = Last(c, 0)
        BY <4>1 DEF Last
      <4>3. Layout(b, P)
        BY <2>1, <3>2, <4>1 DEF Good, Layout, Pages
      <4>4. LastIsNewest(b, P)
        BY <2>1, <3>2, <4>2 DEF Good, LastIsNewest
      <4> QED BY <3>2, <4>1, <4>2, <4>3, <4>4 DEF Good
    <3> QED BY <3>1, <3>2
  <2>7. /\ rootFlash' = rootFlash
        /\ root_current_block' = b /\ root_current_page' = p
    BY <1>8, <2>4 DEF RootInit
  <2>8. Good(root_current_block, root_current_page)'
    BY <2>6, <2>7 DEF Good, Layout, LastIsNewest, Last
  <2>9. Last(root_current_block, root_current_page)' = Recovered
    BY <2>2, <2>6, <2>7 DEF Last
  <2>10. /\ Recovered.edition < root_edition'
         /\ Recovered.body = acked'
         /\ attempt' = root_table'.body
    BY <1>8, <2>3 DEF RootInit, NextEdition, PageSet
  <2> QED BY <1>8, <2>5, <2>8, <2>9, <2>10 DEF RootInit, IInv
<1>9. CASE UNCHANGED rootVars
  <2>1. rootFlash' = rootFlash
    BY <1>9 DEF rootVars
  <2>2. TypeOK'
    BY <1>9, <1>t DEF rootVars, ramVars, TypeOK
  <2> QED BY <1>9, <2>1, <2>2, GoodUnchanged DEF rootVars, ramVars, IInv
<1> QED BY <1>1, <1>2, <1>3, <1>4, <1>5, <1>6, <1>7, <1>8, <1>9 DEF Next
-----------------------------------------------------------------------------
\* The inductive invariant holds in every reachable state.
THEOREM Inductive == ASSUME Torn = FALSE PROVE Spec => []IInv
<1>1. Init => IInv
  BY InitIInv
<1>2. IInv /\ [Next]_rootVars => IInv'
  BY NextIInv, Torn = FALSE
<1> QED BY <1>1, <1>2, PTL DEF Spec

\* In every state of the invariant what ROOT_Init would load is known.
LEMMA IInvRecovered ==
  ASSUME IInv
  PROVE  /\ \E b \in Blocks, p \in 0 .. P : Good(b, p) /\ Recovered = Last(b, p)
         /\ FirstUnreadable(LatestBlock) > 0
         /\ Recovered.body \in {acked, attempt}
         /\ Recovered \in PageSet
         /\ rootPc # "off" =>
              /\ Recovered = Last(root_current_block, root_current_page)
              /\ Recovered.body = acked
              /\ Recovered.edition < root_edition
<1>t. TypeOK
  BY DEF IInv
<1>1. PICK b \in Blocks, p \in 0 .. P :
         /\ Good(b, p) /\ Last(b, p).body \in {acked, attempt}
         /\ rootPc # "off" => b = root_current_block /\ p = root_current_page
  BY <1>t DEF IInv, TypeOK
<1>2. /\ Recovered = Last(b, p)
      /\ FirstUnreadable(LatestBlock) > 0
      /\ FirstUnreadable(LatestBlock) \in 0 .. P
  BY <1>t, <1>1, RecoveredIsLast DEF Good
<1>3. Recovered \in PageSet
  BY <1>t, <1>2, RecoveredTyped
<1> QED BY <1>1, <1>2, <1>3 DEF IInv

\* ROOT_Commit and ROOT_Init keep the types of the table and its pages.
THEOREM RootTyped == ASSUME Torn = FALSE PROVE Spec => []TypeOK
<1>1. IInv => TypeOK
  BY DEF IInv
<1> QED BY <1>1, Inductive, Torn = FALSE, PTL

\* A power loss at any moment of ROOT_Commit or ROOT_Init leaves the table of
\* the last successful ROOT_Commit, or the one being committed.
THEOREM RootIsDurable == ASSUME Torn = FALSE PROVE Spec => []RootDurable
<1>1. IInv => RootDurable
  BY IInvRecovered DEF RootDurable
<1> QED BY <1>1, Inductive, Torn = FALSE, PTL

\* ROOT_Commit never programs a page twice between two erases.
THEOREM RootProgramsErased == ASSUME Torn = FALSE PROVE Spec => []ProgramsErasedPage
<1>1. IInv => ProgramsErasedPage
  <2> SUFFICES ASSUME IInv, rootPc = "commit", root_current_page < P
               PROVE  rootFlash[root_current_block][root_current_page].st = "erased"
    BY DEF ProgramsErasedPage
  <2>1. root_current_page \in Pages
    BY RootAssumption DEF IInv, TypeOK, Pages
  <2> QED BY <2>1 DEF IInv, Good, Layout, TypeOK
<1> QED BY <1>1, Inductive, Torn = FALSE, PTL
-----------------------------------------------------------------------------
\* On a good layout ROOT_Init would load the page written last.
LEMMA RecoveredOfLayout ==
  \A b \in Blocks, p \in 0 .. P : TypeOK /\ Layout(b, p) => Recovered = Last(b, p)
  BY RecoveredIsLast

\* The same of the flash after a step.
LEMMA RecoveredOfLayoutNext ==
  \A b \in Blocks, p \in 0 .. P : TypeOK' /\ Layout(b, p)' => Recovered' = Last(b, p)'
<1>1. (\A b \in Blocks, p \in 0 .. P : TypeOK /\ Layout(b, p) => Recovered = Last(b, p))'
  BY RecoveredOfLayout, PTL
<1> QED BY <1>1

\* A step that leaves the flash alone leaves what ROOT_Init would load.
LEMMA RecoveredUnchanged ==
  ASSUME rootFlash' = rootFlash PROVE Recovered' = Recovered
  BY DEF Recovered, LatestBlock, FirstUnreadable, IsFirstUnreadable, Readable

\* Only the write of ROOT_Commit changes what ROOT_Init would load, from the
\* old table to the one being committed, with a higher edition.
LEMMA StepRecovered ==
  ASSUME Torn = FALSE, IInv, [Next]_rootVars
  PROVE  \/ Recovered' = Recovered
         \/ /\ CommitWrite \/ PowerLossInWrite
            /\ Recovered' = WrittenPage(root_edition, root_table.body)
            /\ Recovered.edition < root_edition
<1> USE RootAssumption
<1>t. TypeOK /\ TypeOK'
  BY NextIInv DEF IInv
<1>1. CASE CommitErase
  <2>0. PICK b \in Blocks : b = root_current_block
    BY <1>t DEF TypeOK
  <2>1. Good(b, P) /\ Other(b) \in Blocks /\ 0 \in 0 .. P /\ P \in 0 .. P
    BY <1>1, <2>0 DEF CommitErase, IInv, Other, Blocks
  <2>2. Recovered = Last(b, P)
    BY <1>t, <2>1, RecoveredOfLayout DEF Good
  <2>3. Good(Other(b), 0)' /\ Last(Other(b), 0)' = Last(b, P)
    BY <1>1, <1>t, <2>0, <2>1, EraseKeepsGood DEF CommitErase
  <2>4. Recovered' = Last(Other(b), 0)'
    <3>1. Layout(Other(b), 0)'
      BY <2>3 DEF Good
    <3> QED BY <1>t, <2>1, <3>1, RecoveredOfLayoutNext
  <2> QED BY <2>2, <2>3, <2>4
<1>2. CASE CommitWrite \/ PowerLossInWrite
  <2>0. PICK b \in Blocks, p \in Pages, e \in Nat, v \in Body :
           /\ b = root_current_block /\ p = root_current_page
           /\ e = root_edition /\ v = root_table.body
    BY <1>2, <1>t DEF CommitWrite, PowerLossInWrite, TypeOK, Pages
  <2>1. Good(b, p) /\ Last(b, p).edition < e
    BY <1>2, <2>0 DEF CommitWrite, PowerLossInWrite, IInv
  <2>2. rootFlash' = [rootFlash EXCEPT ![b][p] = WrittenPage(e, v)]
    BY Torn = FALSE, <1>2, <1>t, <2>0, <2>1, ProgrammedIsWritten
       DEF CommitWrite, PowerLossInWrite
  <2>3. Good(b, p + 1)' /\ Last(b, p + 1)' = WrittenPage(e, v)
    BY <1>t, <2>1, <2>2, WriteKeepsGood
  <2>4. p + 1 \in 0 .. P /\ p \in 0 .. P
    BY DEF Pages
  <2>5. Recovered' = WrittenPage(e, v)
    <3>1. Layout(b, p + 1)'
      BY <2>3 DEF Good
    <3> QED BY <1>t, <2>3, <2>4, <3>1, RecoveredOfLayoutNext
  <2>6. Recovered = Last(b, p)
    BY <1>t, <2>1, <2>4, RecoveredOfLayout DEF Good
  <2> QED BY <1>2, <2>0, <2>1, <2>5, <2>6
<1>3. CASE rootFlash' = rootFlash
  BY <1>3, RecoveredUnchanged
<1>4. CommitErase \/ CommitWrite \/ PowerLossInWrite \/ rootFlash' = rootFlash
  BY DEF Next, rootVars, SetBody, CommitCall, CommitEraseFails, PowerLoss, RootInit
<1> QED BY <1>1, <1>2, <1>3, <1>4

\* The edition ROOT_Init would load never decreases.
THEOREM RootNoRollback == ASSUME Torn = FALSE PROVE Spec => NoRollback
<1>1. IInv /\ [Next]_rootVars => [Recovered.edition <= Recovered'.edition]_rootVars
  <2> SUFFICES ASSUME IInv, [Next]_rootVars
               PROVE  Recovered.edition <= Recovered'.edition
    OBVIOUS
  <2>1. Recovered.edition \in Nat /\ root_edition \in Nat
    BY IInvRecovered DEF IInv, TypeOK, PageSet
  <2>2. CASE Recovered' = Recovered
    BY <2>1, <2>2
  <2>3. CASE /\ Recovered' = WrittenPage(root_edition, root_table.body)
             /\ Recovered.edition < root_edition
    BY <2>1, <2>3 DEF WrittenPage
  <2> QED BY <2>2, <2>3, StepRecovered, Torn = FALSE
<1> QED BY <1>1, Inductive, Torn = FALSE, PTL DEF Spec, NoRollback

\* The two-block scheme implements the atomic, durable cell.
THEOREM RootImplementsCell == ASSUME Torn = FALSE PROVE Spec => ImplementsCell
<1> DEFINE ram == IF rootPc = "off" THEN Recovered.body ELSE root_table.body
           up == rootPc # "off"
<1>1. Init => Cell!Init
  <2> SUFFICES ASSUME Init PROVE Cell!Init
    OBVIOUS
  <2>1. IInv
    BY InitIInv
  <2>2. Recovered.body = Body0
    BY <2>1, IInvRecovered DEF Init
  <2> QED BY <2>2, RootAssumption DEF Init, Cell!Init
<1>2. IInv /\ [Next]_rootVars => [Cell!Next]_(Cell!vars)
  <2> SUFFICES ASSUME IInv, [Next]_rootVars PROVE [Cell!Next]_(Cell!vars)
    OBVIOUS
  <2>t. TypeOK
    BY DEF IInv
  <2>s. \/ Recovered' = Recovered
        \/ /\ CommitWrite \/ PowerLossInWrite
           /\ Recovered'.body = root_table.body
    <3>1. WrittenPage(root_edition, root_table.body).body = root_table.body
      BY DEF WrittenPage
    <3>2. CASE Recovered' = Recovered
      BY <3>2
    <3>3. CASE /\ CommitWrite \/ PowerLossInWrite
               /\ Recovered' = WrittenPage(root_edition, root_table.body)
      BY <3>1, <3>3
    <3> QED BY <3>2, <3>3, StepRecovered, Torn = FALSE
  <2>1. ASSUME NEW v \in Body, SetBody(v) PROVE Cell!Set
    <3>1. Recovered' = Recovered
      BY <2>1, RecoveredUnchanged DEF SetBody
    <3> QED BY <2>1, <2>t, <3>1 DEF SetBody, Cell!Set, TypeOK
  <2>2. CASE CommitCall
    <3>1. Recovered' = Recovered
      BY <2>2, RecoveredUnchanged DEF CommitCall
    <3> QED BY <2>2, <3>1 DEF CommitCall, ramVars, Cell!vars
  <2>3. CASE CommitErase
    <3>1. Recovered' = Recovered
      BY <2>3, <2>s DEF CommitErase, CommitWrite, PowerLossInWrite
    <3> QED BY <2>3, <3>1 DEF CommitErase, Cell!vars
  <2>4. CASE CommitEraseFails
    <3>1. Recovered' = Recovered
      BY <2>4, RecoveredUnchanged DEF CommitEraseFails
    <3> QED BY <2>4, <3>1 DEF CommitEraseFails, ramVars, Cell!vars
  <2>5. CASE CommitWrite
    <3>1. root_table'.body = root_table.body
      BY <2>5, <2>t DEF CommitWrite, TypeOK
    <3>2. CASE Recovered' = Recovered
      BY <2>5, <3>1, <3>2 DEF CommitWrite, Cell!vars
    <3>3. CASE Recovered'.body = root_table.body
      BY <2>5, <3>1, <3>3 DEF CommitWrite, Cell!Next, Cell!Commit
    <3> QED BY <2>s, <3>2, <3>3
  <2>6. CASE PowerLoss
    <3>1. Recovered' = Recovered
      BY <2>6, RecoveredUnchanged DEF PowerLoss
    <3> QED BY <2>6, <3>1 DEF PowerLoss, Cell!Next, Cell!PowerLoss
  <2>7. CASE PowerLossInWrite
    BY <2>7, <2>s DEF PowerLossInWrite, Cell!Next, Cell!PowerLoss
  <2>8. CASE RootInit
    <3>1. Recovered' = Recovered
      BY <2>8, RecoveredUnchanged DEF RootInit
    <3> QED BY <2>8, <3>1 DEF RootInit, Cell!Next, Cell!Restart
  <2>9. CASE UNCHANGED rootVars
    <3>1. Recovered' = Recovered
      BY <2>9, RecoveredUnchanged DEF rootVars
    <3> QED BY <2>9, <3>1 DEF rootVars, ramVars, Cell!vars
  <2> QED BY <2>1, <2>2, <2>3, <2>4, <2>5, <2>6, <2>7, <2>8, <2>9 DEF Next, Cell!Next
<1> QED BY <1>1, <1>2, Inductive, Torn = FALSE, PTL DEF Spec, ImplementsCell, Cell!Spec
=============================================================================
