--------------------------- MODULE FtlMeta_proofs ---------------------------
(***************************************************************************)
(* The metadata commit of the FTL for every number of pages, at least three *)
(* per block, every number of host writes and every edition limit.  As for  *)
(* the root table alone, a power loss leaves no torn page.                  *)
(***************************************************************************)
EXTENDS FtlMeta, RootTable_proofs

\* What is left of the calls of FTL_Init and of DATA_Commit.
Mount1 == <<"root", "bdtInit", "bdt", "hdiInit", "bdt">>
Mount2 == <<"bdtInit", "bdt", "hdiInit", "bdt">>
Mount3 == <<"bdt", "hdiInit", "bdt">>
Mount4 == <<"hdiInit", "bdt">>
Mount5 == <<"bdt">>
Commit1 == <<"hdi", "bdt", "root">>
Commit2 == <<"bdt", "root">>
Commit3 == <<"root">>

MountStages == {Mount1, Mount2, Mount3, Mount4, Mount5, <<>>}
CommitStages == {Commit1, Commit2, Commit3, <<>>}

\* The place of table t in the body of a root table.
PlaceIn(t, body) == IF t = "bdt" THEN body.bdt ELSE body.hdi

\* The page of table t the next mount loads.
RecPlace(t) == PlaceIn(t, Recovered.body)

\* The first n pages of block b of table t are written, the others erased.
WrittenTo(t, b, n) ==
  \A j \in Pages : flash[t][b][j].st = IF j < n THEN "ok" ELSE "erased"

\* BDT_Init or HDI_Init has set the table's variables since the last mount.
Loaded(t) ==
  Up /\ todo \notin (IF t = "bdt" THEN {Mount1, Mount2} ELSE {Mount1, Mount2, Mount3, Mount4})

\* How many pages of the block that was erased last can have been written since
\* ROOT_Commit last succeeded: a mount writes the BDT twice and a commit once
\* more before the root, so BDT_Commit must not fill that block with three.
Ahead(t) ==
  IF t = "bdt"
    THEN IF todo = Mount3 THEN 0
         ELSE IF todo \in {Mount4, Mount5} THEN 1
         ELSE IF todo = Commit3 THEN 3 ELSE 2
    ELSE IF todo \in {Commit2, Commit3} THEN 1 ELSE 0

\* The writing position of table t is in the block the next mount loads it
\* from, after that page, or in the other one and that block is full.
Positioned(t) ==
  /\ WrittenTo(t, current[t].block, current[t].page)
  /\ \/ current[t].block = RecPlace(t)[1] /\ RecPlace(t)[2] < current[t].page
     \/ /\ current[t].block = 1 - RecPlace(t)[1]
        /\ WrittenTo(t, RecPlace(t)[1], P)
        /\ worn \/ current[t].page <= Ahead(t)

\* The running DATA_Commit has written table t and the root in RAM says where.
Written(t) ==
  /\ current[t].page > 0
  /\ PlaceIn(t, root_table.body) = <<current[t].block, current[t].page - 1>>
  /\ flash[t][current[t].block][current[t].page - 1].v = version[t]

TablePages == [st : {"erased", "torn", "ok"}, v : Nat]

MetaTyped ==
  /\ flash \in [Tables -> [Blocks -> [Pages -> TablePages]]]
  /\ current \in [Tables -> [block : Blocks, page : 0 .. P]]
  /\ version \in [Tables -> Nat]
  /\ worn \in BOOLEAN
  /\ \/ mounting = TRUE /\ todo \in MountStages
     \/ mounting = FALSE /\ todo \in CommitStages

\* The part of the invariant about one table.
TableInv(t) ==
  /\ flash[t][RecPlace(t)[1]][RecPlace(t)[2]].v = Recovered.body.v
  /\ \E n \in 0 .. P : RecPlace(t)[2] < n /\ WrittenTo(t, RecPlace(t)[1], n)
  /\ Loaded(t) => Positioned(t) /\ version[t] = root_table.body.v
  /\ Up /\ todo = Commit3 => Written(t)
  /\ Up /\ todo = Commit2 /\ t = "hdi" => Written(t)

\* The part about the calls and the root table in RAM.
CallInv ==
  /\ rootPc = "commit" => todo \in {Mount1, Commit3}
  /\ Up => Recovered.body.v <= root_table.body.v
  /\ Up /\ todo \in {Mount1, Mount2} => root_table.body = Recovered.body
  /\ Up /\ todo \in {Mount3, Mount4} =>
       root_table.body.hdi = Recovered.body.hdi /\ root_table.body.v = Recovered.body.v

MetaInv == IInv /\ MetaTyped /\ CallInv /\ \A t \in Tables : TableInv(t)
-----------------------------------------------------------------------------
\* The first call of each stage, and the stage after it.
LEMMA Stages ==
  /\ Head(Mount1) = "root" /\ Tail(Mount1) = Mount2
  /\ Head(Mount2) = "bdtInit" /\ Tail(Mount2) = Mount3
  /\ Head(Mount3) = "bdt" /\ Tail(Mount3) = Mount4
  /\ Head(Mount4) = "hdiInit" /\ Tail(Mount4) = Mount5
  /\ Head(Mount5) = "bdt" /\ Tail(Mount5) = <<>>
  /\ Head(Commit1) = "hdi" /\ Tail(Commit1) = Commit2
  /\ Head(Commit2) = "bdt" /\ Tail(Commit2) = Commit3
  /\ Head(Commit3) = "root" /\ Tail(Commit3) = <<>>
BY DEF Mount1, Mount2, Mount3, Mount4, Mount5, Commit1, Commit2, Commit3

\* No two stages are the same.
LEMMA StagesDiffer ==
  /\ <<>> \notin {Mount1, Mount2, Mount3, Mount4, Mount5, Commit1, Commit2, Commit3}
  /\ Mount1 \notin {Mount2, Mount3, Mount4, Mount5, Commit1, Commit2, Commit3}
  /\ Mount2 \notin {Mount3, Mount4, Mount5, Commit1, Commit2, Commit3}
  /\ Mount3 \notin {Mount4, Mount5, Commit1, Commit2, Commit3}
  /\ Mount4 \notin {Mount5, Commit1, Commit2, Commit3}
  /\ Mount5 \notin {Commit1, Commit2, Commit3}
  /\ Commit1 \notin {Commit2, Commit3}
  /\ Commit2 # Commit3
<1>1. <<>> \notin {Mount1, Mount2, Mount3, Mount4, Mount5, Commit1, Commit2, Commit3}
  BY DEF Mount1, Mount2, Mount3, Mount4, Mount5, Commit1, Commit2, Commit3
<1>2. /\ Len(Mount1) = 5 /\ Len(Mount2) = 4 /\ Len(Mount3) = 3 /\ Len(Mount4) = 2
      /\ Len(Mount5) = 1 /\ Len(Commit1) = 3 /\ Len(Commit2) = 2 /\ Len(Commit3) = 1
  BY DEF Mount1, Mount2, Mount3, Mount4, Mount5, Commit1, Commit2, Commit3
<1>3. Mount3 # Commit1 /\ Mount4 # Commit2 /\ Mount5 # Commit3
  BY Stages
<1>4. 5 # 4 /\ 5 # 3 /\ 5 # 2 /\ 5 # 1 /\ 4 # 3 /\ 4 # 2 /\ 4 # 1 /\ 3 # 2 /\ 3 # 1 /\ 2 # 1
  OBVIOUS
<1> QED BY <1>1, <1>2, <1>3, <1>4, Zenon
-----------------------------------------------------------------------------
\* The types of what the root table holds, in RAM and on flash.
LEMMA BodyTypes ==
  ASSUME IInv
  PROVE  /\ Recovered.body \in RootBody /\ root_table.body \in RootBody
         /\ Recovered.body.v \in Nat /\ root_table.body.v \in Nat
         /\ \A t \in Tables :
              /\ RecPlace(t) \in Places
              /\ RecPlace(t)[1] \in Blocks /\ RecPlace(t)[2] \in Pages
<1>1. Body = RootBody /\ MaxVersion \in Nat
  BY MetaAssumption
<1>2. Recovered \in PageSet
  BY IInvRecovered
<1>3. Recovered.body \in RootBody
  BY <1>1, <1>2 DEF PageSet
<1>4. root_table.body \in RootBody
  BY <1>1 DEF IInv, TypeOK
<1>5. \A t \in Tables : RecPlace(t) \in Places
  BY <1>3 DEF RecPlace, PlaceIn, RootBody, Tables
<1>6. Recovered.body.v \in Nat /\ root_table.body.v \in Nat
  BY <1>1, <1>3, <1>4 DEF RootBody
<1> QED BY <1>3, <1>4, <1>5, <1>6 DEF Places

\* Every step of the metadata commit is a step of the root table, or leaves
\* the root table alone.
LEMMA StepsOfRoot ==
  ASSUME MetaInv, [MetaNext]_vars
  PROVE  [Next]_rootVars
<1> USE RootAssumption, MetaAssumption
<1>0. root_table.body \in RootBody /\ IInv /\ MetaTyped
  BY BodyTypes DEF MetaInv
<1>1. CASE HostWrite
  <2>1. [root_table.body EXCEPT !.v = @ + 1] \in RootBody
    BY <1>0, <1>1 DEF HostWrite, RootBody
  <2> QED BY <1>1, <2>1 DEF HostWrite, Next
<1>2. ASSUME NEW t \in Tables, TableWrite(t) PROVE [Next]_rootVars
  <2> DEFINE here == <<current[t].block, current[t].page>>
  <2>1. here \in Places
    BY <1>0, <1>2 DEF TableWrite, MetaTyped, Places, Pages
  <2> HIDE DEF here
  <2>2. /\ [root_table.body EXCEPT !.bdt = here] \in RootBody
        /\ [root_table.body EXCEPT !.hdi = here] \in RootBody
    BY <1>0, <2>1 DEF RootBody
  <2>3. SetBody(IF t = "bdt" THEN [root_table.body EXCEPT !.bdt = here]
                             ELSE [root_table.body EXCEPT !.hdi = here])
    BY <1>2 DEF TableWrite, here
  <2> QED BY <2>2, <2>3 DEF Next
<1>3. ASSUME NEW t \in Tables, PowerLossInTableWrite(t) PROVE [Next]_rootVars
  BY <1>3 DEF PowerLossInTableWrite, Next
<1>4. ASSUME NEW t \in Tables, TableErase(t) \/ TableEraseFails(t) PROVE [Next]_rootVars
  BY <1>4 DEF TableErase, TableEraseFails
<1>5. CASE DataCommit \/ BdtInit \/ HdiInit
  BY <1>5 DEF DataCommit, BdtInit, HdiInit, TableInit
<1>6. CASE RootCommitCall \/ RootCommitErase \/ RootCommitEraseFails \/ RootCommitWrite
  BY <1>6 DEF RootCommitCall, RootCommitErase, RootCommitEraseFails, RootCommitWrite, Next
<1>7. CASE MetaPowerLoss \/ PowerLossInRootWrite \/ FtlInit
  BY <1>7 DEF MetaPowerLoss, PowerLossInRootWrite, FtlInit, Next
<1>8. CASE UNCHANGED vars
  BY <1>8 DEF vars
<1> QED BY <1>1, <1>2, <1>3, <1>4, <1>5, <1>6, <1>7, <1>8 DEF MetaNext

\* The loop of BDT_Init and HDI_Init stops at the first page to write.
LEMMA FirstUnreadableFromFinds ==
  ASSUME NEW t \in Tables, NEW b \in Blocks, NEW p \in Pages, NEW n \in 0 .. P,
         WrittenTo(t, b, n), p < n
  PROVE  FirstUnreadableFrom(t, b, p) = n
<1> USE RootAssumption
<1> DEFINE First(i) == /\ i = P \/ flash[t][b][i].st # "ok"
                       /\ \A j \in p + 1 .. i - 1 : flash[t][b][j].st = "ok"
<1>1. n \in p + 1 .. P /\ First(n)
  BY DEF WrittenTo, Pages
<1>2. ASSUME NEW i \in p + 1 .. P, First(i) PROVE i = n
  <2>1. CASE i < n
    BY <1>2, <2>1 DEF WrittenTo, Pages
  <2>2. CASE n < i
    <3>1. n \in Pages /\ n \in p + 1 .. i - 1
      BY <2>2, <1>1 DEF Pages
    <3> QED BY <1>2, <3>1 DEF WrittenTo
  <2> QED BY <2>1, <2>2
<1>3. FirstUnreadableFrom(t, b, p) = CHOOSE i \in p + 1 .. P : First(i)
  BY DEF FirstUnreadableFrom
<1> HIDE DEF First
<1> QED BY <1>1, <1>2, <1>3

\* The bound on the pages ahead is a small number, and less than P where
\* BDT_Commit or HDI_Commit is about to run.
LEMMA AheadBound ==
  ASSUME NEW t \in Tables
  PROVE  /\ Ahead(t) \in 0 .. 3
         /\ MetaTyped /\ Calling(t) => Ahead(t) <= 2
<1>1. Ahead(t) \in 0 .. 3
  BY DEF Ahead
<1>2. ASSUME Ahead(t) = 3 PROVE t = "bdt" /\ todo = Commit3
  BY <1>2 DEF Ahead
<1> QED BY <1>1, <1>2, Stages DEF Calling

\* A table whose pages and position a step leaves alone keeps its part of the
\* invariant, as long as the commit or the mount goes forward.
LEMMA TableKept ==
  ASSUME NEW t \in Tables, MetaTyped, TableInv(t),
         flash'[t] = flash[t], Recovered'.body = Recovered.body,
         Loaded(t)' => /\ Loaded(t)
                       /\ current'[t] = current[t]
                       /\ version'[t] = root_table'.body.v
                       /\ worn => worn'
                       /\ worn' \/ Ahead(t) <= Ahead(t)',
         Up' /\ todo' = Commit3 => Written(t)',
         Up' /\ todo' = Commit2 /\ t = "hdi" => Written(t)'
  PROVE  TableInv(t)'
<1> USE RootAssumption
<1>1. RecPlace(t)' = RecPlace(t)
  BY DEF RecPlace, PlaceIn
<1>2. \A b, n : WrittenTo(t, b, n)' <=> WrittenTo(t, b, n)
  BY DEF WrittenTo
<1>3. /\ flash'[t][RecPlace(t)'[1]][RecPlace(t)'[2]].v = Recovered'.body.v
      /\ \E n \in 0 .. P : RecPlace(t)'[2] < n /\ WrittenTo(t, RecPlace(t)[1], n)'
  BY <1>1, <1>2 DEF TableInv
<1>4. ASSUME Loaded(t)' PROVE Positioned(t)'
  <2>1. Positioned(t) /\ current'[t] = current[t] /\ current[t].page \in Nat
    BY <1>4 DEF TableInv, MetaTyped
  <2>2. Ahead(t) \in Nat /\ Ahead(t)' \in Nat
    <3>1. Ahead(t) \in Nat
      BY AheadBound
    <3>2. Ahead(t)' \in Nat
      BY DEF Ahead
    <3> QED BY <3>1, <3>2
  <2>3. worn \/ current[t].page <= Ahead(t) => worn' \/ current'[t].page <= Ahead(t)'
    BY <1>4, <2>1, <2>2
  <2> QED BY <1>1, <1>2, <2>1, <2>3 DEF Positioned, WrittenTo
<1> QED BY <1>1, <1>3, <1>4 DEF TableInv, WrittenTo
-----------------------------------------------------------------------------
\* FTL_Write and the entry of DATA_Commit keep the invariant.
LEMMA IdleStepsKeep ==
  ASSUME MetaInv, IInv', HostWrite \/ DataCommit
  PROVE  MetaInv'
<1> USE RootAssumption, MetaAssumption
<1>0. MetaTyped /\ CallInv /\ IInv /\ \A t \in Tables : TableInv(t)
  BY DEF MetaInv
<1>1. /\ Up /\ todo = <<>> /\ Up' /\ rootPc' = rootPc
      /\ rootFlash' = rootFlash /\ flash' = flash /\ current' = current /\ worn' = worn
  BY DEF HostWrite, DataCommit, SetBody, Up, rootVars, ramVars
<1>2. Recovered' = Recovered
  BY <1>1, RecoveredUnchanged
<1>3. Recovered.body.v \in Nat /\ root_table.body \in RootBody /\ root_table.body.v \in Nat
  BY <1>0, BodyTypes
<1>4. \A t \in Tables : Loaded(t) /\ version[t] = root_table.body.v
  BY <1>0, <1>1, StagesDiffer DEF Loaded, TableInv
<1>5. CASE HostWrite
  <2>1. todo' = todo /\ mounting' = mounting
    BY <1>5 DEF HostWrite
  <2>2. root_table'.body.v = root_table.body.v + 1
    <3>1. root_table'.body = [root_table.body EXCEPT !.v = @ + 1]
      BY <1>0, <1>5 DEF HostWrite, SetBody, IInv, TypeOK
    <3> QED BY <3>1, <1>3 DEF RootBody
  <2>3. \A t \in Tables : version'[t] = root_table'.body.v
    BY <1>4, <1>5, <2>2 DEF HostWrite
  <2>4. MetaTyped'
    BY <1>0, <1>1, <1>5, <2>1 DEF MetaTyped, HostWrite
  <2>5. CallInv'
    BY <1>0, <1>1, <1>2, <1>3, <2>1, <2>2, StagesDiffer DEF CallInv
  <2>6. ASSUME NEW t \in Tables PROVE TableInv(t)'
    <3>1. Ahead(t)' = Ahead(t) /\ Ahead(t) <= Ahead(t)
      BY <2>1, AheadBound DEF Ahead
    <3> QED BY <1>0, <1>1, <1>2, <1>4, <2>1, <2>3, <3>1, TableKept, StagesDiffer
  <2> QED BY <2>4, <2>5, <2>6 DEF MetaInv
<1>6. CASE DataCommit
  <2>1. todo' = Commit1 /\ mounting' = FALSE /\ version' = version /\ root_table' = root_table
    BY <1>6 DEF DataCommit, Commit1, rootVars, ramVars
  <2>2. rootPc # "commit"
    BY <1>0, <1>1, StagesDiffer DEF CallInv
  <2>4. MetaTyped'
    BY <1>0, <1>1, <2>1 DEF MetaTyped, CommitStages
  <2>5. CallInv'
    BY <1>0, <1>1, <1>2, <2>1, <2>2, StagesDiffer DEF CallInv
  <2>6. ASSUME NEW t \in Tables PROVE TableInv(t)'
    <3>1. Ahead(t)' = Ahead(t) /\ Ahead(t) <= Ahead(t)
      BY <1>1, <2>1, StagesDiffer, AheadBound DEF Ahead
    <3> QED BY <1>0, <1>1, <1>2, <1>4, <2>1, <3>1, TableKept, StagesDiffer
  <2> QED BY <2>4, <2>5, <2>6 DEF MetaInv
<1> QED BY <1>5, <1>6

\* The stage of the commit or of the mount when it calls BDT_Commit or
\* HDI_Commit.
LEMMA TableCallStage ==
  ASSUME MetaTyped, NEW t \in Tables, Calling(t)
  PROVE  \/ t = "bdt" /\ mounting = TRUE /\ todo = Mount3
         \/ t = "bdt" /\ mounting = TRUE /\ todo = Mount5
         \/ t = "bdt" /\ mounting = FALSE /\ todo = Commit2
         \/ t = "hdi" /\ mounting = FALSE /\ todo = Commit1
BY Stages DEF MetaTyped, MountStages, CommitStages, Calling, Tables

\* A table at whose commit the code is has been loaded.
LEMMA CallingLoaded ==
  ASSUME MetaInv, NEW t \in Tables, Calling(t)
  PROVE  /\ Loaded(t) /\ Positioned(t) /\ version[t] = root_table.body.v
         /\ rootPc = "idle"
<1>1. MetaTyped /\ CallInv /\ TableInv(t) /\ IInv
  BY DEF MetaInv
<1>2. Loaded(t)
  BY <1>1, TableCallStage, StagesDiffer DEF Loaded, Calling
<1>3. rootPc = "idle"
  BY <1>1, TableCallStage, StagesDiffer DEF CallInv, IInv, TypeOK, Calling, Up
<1> QED BY <1>1, <1>2, <1>3 DEF TableInv

\* The erase of BDT_Commit and HDI_Commit never hits the block the next mount
\* loads the table from.
LEMMA TableEraseKeeps ==
  ASSUME P >= 3, MetaInv, IInv', NEW t \in Tables, TableErase(t)
  PROVE  MetaInv'
<1> USE RootAssumption, MetaAssumption
<1>0. MetaTyped /\ CallInv /\ IInv /\ \A u \in Tables : TableInv(u)
  BY DEF MetaInv
<1>1. /\ Calling(t) /\ Up /\ current[t].page = P /\ ~worn
      /\ flash' = [flash EXCEPT ![t][OtherBlock(t)] = [p \in Pages |-> ErasedTablePage]]
      /\ current' = [current EXCEPT ![t] = [block |-> OtherBlock(t), page |-> 0]]
      /\ rootVars' = rootVars /\ version' = version /\ todo' = todo
      /\ mounting' = mounting /\ worn' = worn
  BY DEF TableErase, Calling
<1>2. /\ rootPc' = rootPc /\ root_table' = root_table /\ rootFlash' = rootFlash
      /\ Recovered' = Recovered
  BY <1>1, RecoveredUnchanged DEF rootVars, ramVars
<1>3. Loaded(t) /\ Positioned(t) /\ version[t] = root_table.body.v
  BY <1>1, CallingLoaded
<1>4. RecPlace(t)[1] \in Blocks /\ RecPlace(t)[2] \in Pages
  BY <1>0, BodyTypes
<1>b. PICK b \in Blocks : b = RecPlace(t)[1]
  BY <1>4
<1> USE <1>b
<1>5. current[t].block = b /\ WrittenTo(t, b, P)
  <2>1. Ahead(t) \in 0 .. 3 /\ Ahead(t) <= 2
    BY <1>0, <1>1, AheadBound
  <2>2. ~(current[t].page <= Ahead(t))
    BY <1>1, <2>1, P >= 3
  <2> QED BY <1>1, <1>3, <2>2 DEF Positioned
<1>6. OtherBlock(t) = 1 - b /\ 1 - b \in Blocks /\ 1 - b # b
  BY <1>4, <1>5 DEF OtherBlock, Blocks
<1>7. /\ flash'[t][b] = flash[t][b]
      /\ flash'[t][1 - b] = [p \in Pages |-> ErasedTablePage]
      /\ \A u \in Tables : u # t => flash'[u] = flash[u] /\ current'[u] = current[u]
      /\ current'[t] = [block |-> 1 - b, page |-> 0]
  BY <1>0, <1>1, <1>4, <1>6 DEF MetaTyped
<1>8. MetaTyped'
  <2>1. [p \in Pages |-> ErasedTablePage] \in [Pages -> TablePages]
    BY DEF ErasedTablePage, TablePages
  <2>2. flash' \in [Tables -> [Blocks -> [Pages -> TablePages]]]
    BY <1>0, <1>1, <1>6, <2>1 DEF MetaTyped
  <2>3. current' \in [Tables -> [block : Blocks, page : 0 .. P]]
    BY <1>0, <1>1, <1>6 DEF MetaTyped
  <2> QED BY <1>0, <1>1, <2>2, <2>3 DEF MetaTyped
<1>9. CallInv'
  BY <1>0, <1>1, <1>2 DEF CallInv, Up
<1>10. RecPlace(t)' = RecPlace(t)
  BY <1>2 DEF RecPlace, PlaceIn
<1>11. \A n : WrittenTo(t, b, n)' <=> WrittenTo(t, b, n)
  BY <1>7 DEF WrittenTo
<1>12. TableInv(t)'
  <2>1. WrittenTo(t, 1 - b, 0)'
    BY <1>7 DEF WrittenTo, ErasedTablePage, Pages
  <2>2. Positioned(t)'
    <3>1. current'[t].block = 1 - b /\ current'[t].page = 0
      BY <1>7
    <3>2. 0 <= Ahead(t)'
      BY DEF Ahead
    <3>3. WrittenTo(t, b, P)'
      BY <1>5, <1>11
    <3> QED BY <1>10, <2>1, <3>1, <3>2, <3>3 DEF Positioned, WrittenTo
  <2>3. todo # Commit3 /\ ~(todo = Commit2 /\ t = "hdi")
    BY <1>0, <1>1, TableCallStage, StagesDiffer
  <2>4. /\ flash'[t][b][RecPlace(t)[2]].v = Recovered'.body.v
        /\ \E n \in 0 .. P : RecPlace(t)[2] < n /\ WrittenTo(t, b, n)'
    BY <1>0, <1>2, <1>7, <1>11 DEF TableInv
  <2> QED BY <1>1, <1>2, <1>3, <1>10, <2>2, <2>3, <2>4 DEF TableInv, WrittenTo
<1>13. ASSUME NEW u \in Tables, u # t PROVE TableInv(u)'
  <2>1. Ahead(u)' = Ahead(u) /\ Ahead(u) <= Ahead(u)
    BY <1>1, AheadBound DEF Ahead
  <2>2. Loaded(u)' = Loaded(u) /\ Up' = Up
    BY <1>1, <1>2 DEF Loaded, Up
  <2>3. Written(u) => Written(u)'
    BY <1>1, <1>2, <1>7, <1>13 DEF Written, PlaceIn
  <2> QED BY <1>0, <1>1, <1>2, <1>7, <1>13, <2>1, <2>2, <2>3, TableKept DEF TableInv
<1> QED BY <1>8, <1>9, <1>12, <1>13 DEF MetaInv

\* A commit or a mount goes on after UBI_Erase failed, without a change.
LEMMA TableEraseFailsKeeps ==
  ASSUME MetaInv, IInv', NEW t \in Tables, TableEraseFails(t)
  PROVE  MetaInv'
<1> USE RootAssumption, MetaAssumption
<1>0. MetaTyped /\ CallInv /\ IInv /\ \A u \in Tables : TableInv(u)
  BY DEF MetaInv
<1>1. /\ Calling(t) /\ Up /\ worn' = TRUE
      /\ todo' = IF mounting THEN Tail(todo) ELSE <<>>
      /\ rootVars' = rootVars /\ flash' = flash /\ current' = current
      /\ version' = version /\ mounting' = mounting
  BY DEF TableEraseFails, Calling, AfterFailure
<1>2. /\ rootPc' = rootPc /\ root_table' = root_table /\ rootFlash' = rootFlash
      /\ Recovered' = Recovered
  BY <1>1, RecoveredUnchanged DEF rootVars, ramVars
<1>3. \/ mounting = TRUE /\ todo = Mount3 /\ todo' = Mount4
      \/ mounting = TRUE /\ todo = Mount5 /\ todo' = <<>>
      \/ mounting = FALSE /\ todo \in {Commit1, Commit2} /\ todo' = <<>>
  BY <1>0, <1>1, TableCallStage, Stages
<1>4. MetaTyped'
  BY <1>0, <1>1, <1>3 DEF MetaTyped, MountStages, CommitStages
<1>5. rootPc # "commit"
  BY <1>0, <1>3, StagesDiffer DEF CallInv
<1>6. CallInv'
  BY <1>0, <1>2, <1>3, <1>5, StagesDiffer DEF CallInv, Up
<1>7. ASSUME NEW u \in Tables PROVE TableInv(u)'
  <2>1. Loaded(u)' => Loaded(u)
    BY <1>2, <1>3, StagesDiffer DEF Loaded, Up
  <2>2. Loaded(u) => version'[u] = root_table'.body.v
    BY <1>0, <1>1, <1>2 DEF TableInv
  <2>3. todo' # Commit3 /\ todo' # Commit2
    BY <1>3, StagesDiffer
  <2> QED BY <1>0, <1>1, <1>2, <2>1, <2>2, <2>3, TableKept
<1> QED BY <1>4, <1>6, <1>7 DEF MetaInv

\* Without torn pages BDT_Commit and HDI_Commit program an erased page in full;
\* it is never the page the next mount loads.
LEMMA ProgramFills ==
  ASSUME TornTables = {}, MetaInv, NEW t \in Tables, Calling(t), current[t].page < P,
         ProgramTable(t, ProgrammedTable(t) \cup (IF t \in TornTables THEN {TornTablePage} ELSE {}))
  PROVE  /\ flash[t][current[t].block][current[t].page].st = "erased"
         /\ flash' \in [Tables -> [Blocks -> [Pages -> TablePages]]]
         /\ \A u \in Tables : u # t => flash'[u] = flash[u]
         /\ flash'[t][current[t].block][current[t].page].v = version[t]
         /\ \A j \in Pages : flash'[t][current[t].block][j].st
                               = IF j < current[t].page + 1 THEN "ok" ELSE "erased"
         /\ flash'[t][1 - current[t].block] = flash[t][1 - current[t].block]
         /\ flash'[t][RecPlace(t)[1]][RecPlace(t)[2]] = flash[t][RecPlace(t)[1]][RecPlace(t)[2]]
<1> USE RootAssumption, MetaAssumption
<1>0. MetaTyped /\ IInv
  BY DEF MetaInv
<1>1. Positioned(t)
  BY CallingLoaded
<1>2. PICK b \in Blocks, p \in Pages : b = current[t].block /\ p = current[t].page
  BY <1>0 DEF MetaTyped, Pages
<1>3. WrittenTo(t, b, p)
  BY <1>1, <1>2 DEF Positioned
<1>4. flash[t][b][p].st = "erased"
  BY <1>3 DEF WrittenTo, Pages
<1> DEFINE pg == [st |-> "ok", v |-> version[t]]
<1>5. flash' = [flash EXCEPT ![t][b][p] = pg]
  BY <1>2, <1>4, TornTables = {} DEF ProgramTable, ProgrammedTable
<1>6. pg \in TablePages /\ pg.st = "ok" /\ pg.v = version[t]
  BY <1>0 DEF MetaTyped, TablePages
<1> HIDE DEF pg
<1>7. flash \in [Tables -> [Blocks -> [Pages -> TablePages]]]
  BY <1>0 DEF MetaTyped
<1>8. flash' \in [Tables -> [Blocks -> [Pages -> TablePages]]]
  BY <1>5, <1>6, <1>7
<1>9. /\ \A u \in Tables : u # t => flash'[u] = flash[u]
      /\ flash'[t][b][p] = pg
      /\ \A j \in Pages : j # p => flash'[t][b][j] = flash[t][b][j]
      /\ \A c \in Blocks : c # b => flash'[t][c] = flash[t][c]
  BY <1>5, <1>7
<1>10. 1 - b \in Blocks /\ 1 - b # b
  BY DEF Blocks
<1>11. \A j \in Pages : flash'[t][b][j].st = IF j < p + 1 THEN "ok" ELSE "erased"
  BY <1>3, <1>6, <1>9 DEF WrittenTo, Pages
<1>12. PICK c \in Blocks, q \in Pages : c = RecPlace(t)[1] /\ q = RecPlace(t)[2]
  BY <1>0, BodyTypes
<1>13. c # b \/ q < p
  BY <1>1, <1>2, <1>10, <1>12 DEF Positioned
<1>14. flash'[t][c][q] = flash[t][c][q]
  BY <1>9, <1>13 DEF Pages
<1> QED BY <1>2, <1>4, <1>6, <1>8, <1>9, <1>10, <1>11, <1>12, <1>14

\* The write keeps the table loadable from the page the root on flash names.
LEMMA ProgramKeepsLoadable ==
  ASSUME TornTables = {}, MetaInv, NEW t \in Tables, Calling(t), current[t].page < P,
         ProgramTable(t, ProgrammedTable(t) \cup (IF t \in TornTables THEN {TornTablePage} ELSE {})),
         Recovered'.body = Recovered.body
  PROVE  /\ flash'[t][RecPlace(t)'[1]][RecPlace(t)'[2]].v = Recovered'.body.v
         /\ \E n \in 0 .. P : RecPlace(t)'[2] < n /\
              \A j \in Pages : flash'[t][RecPlace(t)'[1]][j].st = IF j < n THEN "ok" ELSE "erased"
<1> USE RootAssumption, MetaAssumption
<1>0. MetaTyped /\ TableInv(t) /\ IInv
  BY DEF MetaInv
<1>1. Positioned(t)
  BY CallingLoaded
<1>2. RecPlace(t)' = RecPlace(t)
  BY DEF RecPlace, PlaceIn
<1>3. flash'[t][RecPlace(t)'[1]][RecPlace(t)'[2]].v = Recovered'.body.v
  BY <1>0, <1>2, ProgramFills DEF TableInv
<1>4. PICK b \in Blocks, p \in Pages : b = current[t].block /\ p = current[t].page
  BY <1>0 DEF MetaTyped, Pages
<1>5. PICK c \in Blocks, q \in Pages : c = RecPlace(t)[1] /\ q = RecPlace(t)[2]
  BY <1>0, BodyTypes
<1>6. CASE c = b
  <2>1. p + 1 \in 0 .. P /\ q < p + 1
    BY <1>1, <1>4, <1>5, <1>6 DEF Positioned, Pages, Blocks
  <2>2. \A j \in Pages : flash'[t][b][j].st = IF j < p + 1 THEN "ok" ELSE "erased"
    BY <1>4, ProgramFills
  <2> QED BY <1>2, <1>3, <1>5, <1>6, <2>1, <2>2
<1>7. CASE c # b
  <2>1. c = 1 - b
    BY <1>7 DEF Blocks
  <2>2. flash'[t][c] = flash[t][c]
    BY <2>1, <1>4, ProgramFills
  <2>3. PICK n \in 0 .. P : q < n /\ WrittenTo(t, c, n)
    BY <1>0, <1>5 DEF TableInv
  <2> QED BY <1>2, <1>3, <1>5, <2>2, <2>3 DEF WrittenTo
<1> QED BY <1>6, <1>7

\* BDT_Commit and HDI_Commit keep the invariant.
LEMMA TableWriteKeeps ==
  ASSUME TornTables = {}, MetaInv, IInv', NEW t \in Tables, TableWrite(t)
  PROVE  MetaInv'
<1> USE RootAssumption, MetaAssumption
<1>0. MetaTyped /\ CallInv /\ IInv /\ \A u \in Tables : TableInv(u)
  BY DEF MetaInv
<1>1. /\ Calling(t) /\ Up /\ current[t].page < P /\ rootPc = "idle"
      /\ ProgramTable(t, ProgrammedTable(t))
      /\ current' = [current EXCEPT ![t].page = @ + 1]
      /\ version' = version /\ todo' = Tail(todo)
      /\ mounting' = mounting /\ worn' = worn
  BY DEF TableWrite, Calling, NextCall
<1>2. PICK b \in Blocks, p \in Pages : b = current[t].block /\ p = current[t].page
  BY <1>0, <1>1 DEF MetaTyped, Pages
<1>3. rootFlash' = rootFlash /\ rootPc' = rootPc
  BY DEF TableWrite, SetBody
<1>4. Recovered' = Recovered /\ Up'
  BY <1>1, <1>3, RecoveredUnchanged DEF Up
<1>5. root_table'.body = IF t = "bdt" THEN [root_table.body EXCEPT !.bdt = <<b, p>>]
                                      ELSE [root_table.body EXCEPT !.hdi = <<b, p>>]
  BY <1>0, <1>2 DEF TableWrite, SetBody, IInv, TypeOK
<1>6. root_table.body \in RootBody
  BY <1>0, BodyTypes
<1>7. /\ root_table'.body.v = root_table.body.v
      /\ PlaceIn(t, root_table'.body) = <<b, p>>
      /\ \A u \in Tables : u # t => PlaceIn(u, root_table'.body) = PlaceIn(u, root_table.body)
  BY <1>5, <1>6 DEF RootBody, PlaceIn, Tables
<1>8. /\ flash' \in [Tables -> [Blocks -> [Pages -> TablePages]]]
      /\ \A u \in Tables : u # t => flash'[u] = flash[u]
      /\ flash'[t][b][p].v = version[t]
      /\ \A j \in Pages : flash'[t][b][j].st = IF j < p + 1 THEN "ok" ELSE "erased"
      /\ flash'[t][1 - b] = flash[t][1 - b]
  BY <1>1, <1>2, ProgramFills, TornTables = {}
<1>9. /\ current'[t].block = b /\ current'[t].page = p + 1
      /\ \A u \in Tables : u # t => current'[u] = current[u]
      /\ current' \in [Tables -> [block : Blocks, page : 0 .. P]]
  <2>1. current \in [Tables -> [block : Blocks, page : 0 .. P]] /\ p + 1 \in 0 .. P
    BY <1>0, <1>1, <1>2 DEF MetaTyped, Pages
  <2> QED BY <2>1, <1>0, <1>1, <1>2
<1>10. \/ t = "bdt" /\ mounting = TRUE /\ todo = Mount3 /\ todo' = Mount4
       \/ t = "bdt" /\ mounting = TRUE /\ todo = Mount5 /\ todo' = <<>>
       \/ t = "bdt" /\ mounting = FALSE /\ todo = Commit2 /\ todo' = Commit3
       \/ t = "hdi" /\ mounting = FALSE /\ todo = Commit1 /\ todo' = Commit2
  BY <1>0, <1>1, TableCallStage, Stages
<1>11. MetaTyped'
  BY <1>0, <1>1, <1>8, <1>9, <1>10 DEF MetaTyped, MountStages, CommitStages
<1>12. CallInv'
  <2>1. todo' = Mount4 => root_table'.body.hdi = root_table.body.hdi
    BY <1>5, <1>6, <1>10, StagesDiffer DEF RootBody
  <2> QED BY <1>0, <1>1, <1>3, <1>4, <1>7, <1>10, <2>1, StagesDiffer DEF CallInv
<1>13. Loaded(t) /\ Positioned(t) /\ version[t] = root_table.body.v
  BY <1>1, CallingLoaded
<1>14. TableInv(t)'
  <2>1. RecPlace(t)' = RecPlace(t)
    BY <1>4 DEF RecPlace, PlaceIn
  <2>2. /\ flash'[t][RecPlace(t)'[1]][RecPlace(t)'[2]].v = Recovered'.body.v
        /\ \E n \in 0 .. P : RecPlace(t)'[2] < n /\
             \A j \in Pages : flash'[t][RecPlace(t)'[1]][j].st = IF j < n THEN "ok" ELSE "erased"
    BY <1>1, <1>4, ProgramKeepsLoadable, TornTables = {}
  <2>3. PICK c \in Blocks, q \in Pages : c = RecPlace(t)[1] /\ q = RecPlace(t)[2]
    BY <1>0, BodyTypes
  <2>4. Positioned(t)'
    <3>1. CASE b = c /\ q < p
      BY <3>1, <1>8, <1>9, <2>1, <2>3 DEF Positioned, WrittenTo, Pages
    <3>2. CASE b = 1 - c /\ WrittenTo(t, c, P) /\ (worn \/ p <= Ahead(t))
      <4>1. c = 1 - b
        BY <3>2 DEF Blocks
      <4>2. \A j \in Pages : flash'[t][c][j].st = IF j < P THEN "ok" ELSE "erased"
        BY <3>2, <4>1, <1>8 DEF WrittenTo
      <4>3. Ahead(t) + 1 <= Ahead(t)'
        BY <1>10, StagesDiffer DEF Ahead
      <4>4. Ahead(t) \in Nat /\ Ahead(t)' \in Nat
        BY DEF Ahead
      <4>5. worn' \/ p + 1 <= Ahead(t)'
        BY <3>2, <4>3, <4>4, <1>1 DEF Pages
      <4> QED BY <3>2, <4>2, <4>5, <1>8, <1>9, <2>1, <2>3 DEF Positioned, WrittenTo
    <3> QED BY <3>1, <3>2, <1>2, <1>13, <2>3 DEF Positioned
  <2>5. Written(t)'
    BY <1>1, <1>7, <1>8, <1>9 DEF Written, PlaceIn, Pages
  <2>6. version'[t] = root_table'.body.v
    BY <1>1, <1>7, <1>13
  <2> QED BY <2>2, <2>4, <2>5, <2>6 DEF TableInv, WrittenTo
<1>15. ASSUME NEW u \in Tables, u # t PROVE TableInv(u)'
  <2>1. Ahead(u) <= Ahead(u)'
    BY <1>10, <1>15, StagesDiffer DEF Ahead, Tables
  <2>2. Loaded(u)' => Loaded(u)
    BY <1>1, <1>10, <1>15, StagesDiffer DEF Loaded, Tables
  <2>3. Loaded(u) => version'[u] = root_table'.body.v
    BY <1>0, <1>1, <1>7 DEF TableInv
  <2>4. Written(u) => Written(u)'
    BY <1>1, <1>7, <1>8, <1>9, <1>15 DEF Written, PlaceIn
  <2>5. todo' = Commit3 => Written(u)
    BY <1>0, <1>1, <1>10, <1>15, StagesDiffer DEF TableInv, Tables
  <2>6. ~(todo' = Commit2 /\ u = "hdi")
    BY <1>10, <1>15, StagesDiffer
  <2>7. flash'[u] = flash[u] /\ current'[u] = current[u] /\ Recovered'.body = Recovered.body
    BY <1>4, <1>8, <1>9, <1>15
  <2> QED BY <1>0, <1>1, <2>1, <2>2, <2>3, <2>4, <2>5, <2>6, <2>7, TableKept
<1> QED BY <1>11, <1>12, <1>14, <1>15 DEF MetaInv

\* The power fails inside BDT_Commit or HDI_Commit.
LEMMA PowerLossInTableWriteKeeps ==
  ASSUME TornTables = {}, MetaInv, IInv', NEW t \in Tables, PowerLossInTableWrite(t)
  PROVE  MetaInv'
<1> USE RootAssumption, MetaAssumption
<1>0. MetaTyped /\ CallInv /\ IInv /\ \A u \in Tables : TableInv(u)
  BY DEF MetaInv
<1>1. /\ Calling(t) /\ current[t].page < P /\ worn' = worn
      /\ ProgramTable(t, ProgrammedTable(t) \cup (IF t \in TornTables THEN {TornTablePage} ELSE {}))
      /\ rootPc' = "off" /\ rootFlash' = rootFlash /\ TablesLost
  BY DEF PowerLossInTableWrite, PowerLoss
<1>2. Recovered' = Recovered /\ ~Up'
  BY <1>1, RecoveredUnchanged DEF Up
<1>3. /\ flash' \in [Tables -> [Blocks -> [Pages -> TablePages]]]
      /\ \A u \in Tables : u # t => flash'[u] = flash[u]
  BY <1>1, ProgramFills, TornTables = {}
<1>4. MetaTyped'
  BY <1>0, <1>1, <1>3 DEF MetaTyped, TablesLost, CommitStages, Blocks
<1>5. CallInv'
  BY <1>1, <1>2 DEF CallInv
<1>6. TableInv(t)'
  <2>1. /\ flash'[t][RecPlace(t)'[1]][RecPlace(t)'[2]].v = Recovered'.body.v
        /\ \E n \in 0 .. P : RecPlace(t)'[2] < n /\
             \A j \in Pages : flash'[t][RecPlace(t)'[1]][j].st = IF j < n THEN "ok" ELSE "erased"
    BY <1>1, <1>2, ProgramKeepsLoadable, TornTables = {}
  <2>2. ~Loaded(t)'
    BY <1>2 DEF Loaded
  <2> QED BY <1>2, <2>1, <2>2 DEF TableInv, WrittenTo
<1>7. ASSUME NEW u \in Tables, u # t PROVE TableInv(u)'
  <2>1. ~Loaded(u)'
    BY <1>2 DEF Loaded
  <2> QED BY <1>0, <1>2, <1>3, <1>7, <2>1, TableKept
<1> QED BY <1>4, <1>5, <1>6, <1>7 DEF MetaInv
-----------------------------------------------------------------------------
\* ROOT_Commit is at the start of a mount or at the end of a commit.
LEMMA RootCallStage ==
  ASSUME MetaTyped, Calling("root")
  PROVE  \/ mounting = TRUE /\ todo = Mount1
         \/ mounting = FALSE /\ todo = Commit3
BY Stages DEF MetaTyped, MountStages, CommitStages, Calling

\* The entry, the erase and the failed erase of ROOT_Commit keep the invariant.
LEMMA RootStepsKeep ==
  ASSUME Torn = FALSE, MetaInv, IInv',
         RootCommitCall \/ RootCommitErase \/ RootCommitEraseFails
  PROVE  MetaInv'
<1> USE RootAssumption, MetaAssumption
<1>0. MetaTyped /\ CallInv /\ IInv /\ \A u \in Tables : TableInv(u)
  BY DEF MetaInv
<1>1. /\ Calling("root") /\ Up /\ Up'
      /\ flash' = flash /\ current' = current /\ version' = version /\ mounting' = mounting
      /\ root_table' = root_table
  BY DEF RootCommitCall, RootCommitErase, RootCommitEraseFails, CommitCall, CommitErase,
         CommitEraseFails, metaVars, ramVars, Calling, Up
<1>2. Recovered' = Recovered
  <2>1. CASE RootCommitErase
    <3>1. CommitErase /\ [Next]_rootVars
      BY <2>1 DEF RootCommitErase, Next
    <3>2. ~CommitWrite /\ ~PowerLossInWrite
      BY <3>1 DEF CommitErase, CommitWrite, PowerLossInWrite
    <3> QED BY <1>0, <3>1, <3>2, StepRecovered, Torn = FALSE
  <2>2. CASE RootCommitCall \/ RootCommitEraseFails
    <3>1. rootFlash' = rootFlash
      BY <2>2 DEF RootCommitCall, RootCommitEraseFails, CommitCall, CommitEraseFails
    <3> QED BY <3>1, RecoveredUnchanged
  <2> QED BY <2>1, <2>2
<1>3. CASE todo' = todo /\ worn' = worn
  <2>1. MetaTyped'
    BY <1>0, <1>1, <1>3 DEF MetaTyped
  <2>2. todo \in {Mount1, Commit3}
    BY <1>0, <1>1, RootCallStage
  <2>3. CallInv'
    BY <1>0, <1>1, <1>2, <1>3, <2>2, StagesDiffer DEF CallInv
  <2>4. ASSUME NEW u \in Tables PROVE TableInv(u)'
    <3>1. Ahead(u)' = Ahead(u) /\ Ahead(u) <= Ahead(u)
      BY <1>3, AheadBound DEF Ahead
    <3>2. Loaded(u)' => Loaded(u)
      BY <1>1, <1>3 DEF Loaded
    <3>3. Loaded(u) => version'[u] = root_table'.body.v
      BY <1>0, <1>1 DEF TableInv
    <3>4. Written(u) => Written(u)'
      BY <1>1 DEF Written, PlaceIn
    <3> QED BY <1>0, <1>1, <1>2, <1>3, <3>1, <3>2, <3>3, <3>4, TableKept DEF TableInv
  <2> QED BY <2>1, <2>3, <2>4 DEF MetaInv
<1>4. CASE RootCommitEraseFails
  <2>1. worn' = TRUE /\ todo' = (IF mounting THEN Tail(todo) ELSE <<>>) /\ rootPc' = "idle"
    BY <1>4 DEF RootCommitEraseFails, AfterFailure, CommitEraseFails
  <2>2. \/ mounting = TRUE /\ todo = Mount1 /\ todo' = Mount2
        \/ mounting = FALSE /\ todo = Commit3 /\ todo' = <<>>
    BY <1>0, <1>1, <2>1, RootCallStage, Stages
  <2>3. MetaTyped'
    BY <1>0, <1>1, <2>1, <2>2 DEF MetaTyped, MountStages, CommitStages
  <2>4. CallInv'
    BY <1>0, <1>1, <1>2, <2>1, <2>2, StagesDiffer DEF CallInv
  <2>5. ASSUME NEW u \in Tables PROVE TableInv(u)'
    <3>1. Loaded(u)' => Loaded(u)
      BY <1>1, <2>2, StagesDiffer DEF Loaded
    <3>2. Loaded(u) => version'[u] = root_table'.body.v
      BY <1>0, <1>1 DEF TableInv
    <3>3. todo' # Commit3 /\ todo' # Commit2
      BY <2>2, StagesDiffer
    <3> QED BY <1>0, <1>1, <1>2, <2>1, <3>1, <3>2, <3>3, TableKept
  <2> QED BY <2>3, <2>4, <2>5 DEF MetaInv
<1> QED BY <1>3, <1>4 DEF RootCommitCall, RootCommitErase, metaVars

\* When the write of ROOT_Commit makes the table in RAM the one on flash, the
\* pages it names can be loaded and are of its version.
LEMMA RootWriteLoadable ==
  ASSUME MetaInv, Calling("root"), flash' = flash,
         Recovered'.body \in {Recovered.body, root_table.body},
         NEW t \in Tables
  PROVE  /\ flash'[t][RecPlace(t)'[1]][RecPlace(t)'[2]].v = Recovered'.body.v
         /\ \E n \in 0 .. P : RecPlace(t)'[2] < n /\
              \A j \in Pages : flash'[t][RecPlace(t)'[1]][j].st = IF j < n THEN "ok" ELSE "erased"
<1> USE RootAssumption, MetaAssumption
<1>0. MetaTyped /\ CallInv /\ IInv /\ TableInv(t)
  BY DEF MetaInv
<1>1. RecPlace(t)' = PlaceIn(t, Recovered'.body)
  BY DEF RecPlace, PlaceIn
<1>2. CASE Recovered'.body = Recovered.body
  <2>1. RecPlace(t)' = RecPlace(t)
    BY <1>1, <1>2 DEF RecPlace
  <2> QED BY <1>0, <1>2, <2>1 DEF TableInv, WrittenTo
<1>3. CASE Recovered'.body = root_table.body /\ todo = Commit3
  <2>1. Written(t) /\ Loaded(t)
    BY <1>0, <1>3, StagesDiffer DEF TableInv, Loaded, Calling
  <2>2. Positioned(t) /\ version[t] = root_table.body.v
    BY <1>0, <2>1 DEF TableInv
  <2>3. PICK b \in Blocks, n \in 0 .. P : b = current[t].block /\ n = current[t].page
    BY <1>0 DEF MetaTyped
  <2>4. RecPlace(t)' = <<b, n - 1>> /\ n - 1 < n
    BY <1>1, <1>3, <2>1, <2>3 DEF Written
  <2>5. WrittenTo(t, b, n)
    BY <2>2, <2>3 DEF Positioned
  <2>6. flash[t][b][n - 1].v = version[t]
    BY <2>1, <2>3 DEF Written
  <2> QED BY <1>3, <2>2, <2>4, <2>5, <2>6 DEF WrittenTo
<1>4. CASE todo = Mount1
  BY <1>0, <1>2, <1>4 DEF CallInv, Calling
<1> QED BY <1>0, <1>2, <1>3, <1>4, RootCallStage

\* After a step, with the power on, what ROOT_Init would load is the table of
\* the last ROOT_Commit that succeeded.
LEMMA RecoveredIsAcked == IInv' /\ rootPc' # "off" => Recovered'.body = acked'
<1>1. IInv => (rootPc # "off" => Recovered.body = acked)
  BY IInvRecovered
<1>2. (IInv => (rootPc # "off" => Recovered.body = acked))'
  BY <1>1, PTL
<1> QED BY <1>2

\* The write of ROOT_Commit: the three tables of the commit become the ones
\* the next mount loads.
LEMMA RootWriteKeeps ==
  ASSUME Torn = FALSE, MetaInv, IInv', RootCommitWrite
  PROVE  MetaInv'
<1> USE RootAssumption, MetaAssumption
<1>0. MetaTyped /\ CallInv /\ IInv /\ \A u \in Tables : TableInv(u)
  BY DEF MetaInv
<1>1. /\ Calling("root") /\ Up /\ Up' /\ rootPc' = "idle" /\ CommitWrite
      /\ todo' = Tail(todo) /\ flash' = flash /\ current' = current
      /\ version' = version /\ mounting' = mounting /\ worn' = worn
      /\ acked' = root_table.body
  BY DEF RootCommitWrite, CommitWrite, Calling, Up, NextCall
<1>2. root_table'.body = root_table.body
  BY <1>0, <1>1 DEF CommitWrite, IInv, TypeOK
<1>3. Recovered'.body = root_table.body
  BY <1>1, RecoveredIsAcked
<1>4. \/ mounting = TRUE /\ todo = Mount1 /\ todo' = Mount2
      \/ mounting = FALSE /\ todo = Commit3 /\ todo' = <<>>
  BY <1>0, <1>1, RootCallStage, Stages
<1>5. MetaTyped'
  BY <1>0, <1>1, <1>4 DEF MetaTyped, MountStages, CommitStages
<1>6. CallInv'
  <2>1. root_table.body.v \in Nat
    BY <1>0, BodyTypes
  <2> QED BY <1>1, <1>2, <1>3, <1>4, <2>1, StagesDiffer DEF CallInv
<1>7. ASSUME NEW t \in Tables PROVE TableInv(t)'
  <2>1. /\ flash'[t][RecPlace(t)'[1]][RecPlace(t)'[2]].v = Recovered'.body.v
        /\ \E n \in 0 .. P : RecPlace(t)'[2] < n /\
             \A j \in Pages : flash'[t][RecPlace(t)'[1]][j].st = IF j < n THEN "ok" ELSE "erased"
    BY <1>1, <1>3, RootWriteLoadable
  <2>2. todo' # Commit3 /\ todo' # Commit2
    BY <1>4, StagesDiffer
  <2>3. ASSUME Loaded(t)' PROVE Positioned(t)' /\ version'[t] = root_table'.body.v
    <3>1. todo = Commit3
      BY <1>4, <2>3, StagesDiffer DEF Loaded
    <3>2. Loaded(t) /\ Written(t)
      BY <1>0, <1>1, <3>1, StagesDiffer DEF Loaded, TableInv
    <3>3. Positioned(t) /\ version[t] = root_table.body.v
      BY <1>0, <3>2 DEF TableInv
    <3>4. PICK b \in Blocks, n \in 0 .. P : b = current[t].block /\ n = current[t].page
      BY <1>0 DEF MetaTyped
    <3>5. RecPlace(t)' = <<b, n - 1>> /\ n - 1 < n
      BY <1>3, <3>2, <3>4 DEF RecPlace, PlaceIn, Written
    <3>6. WrittenTo(t, b, n)
      BY <3>3, <3>4 DEF Positioned
    <3>7. Positioned(t)'
      BY <1>1, <3>4, <3>5, <3>6 DEF Positioned, WrittenTo
    <3> QED BY <1>1, <1>2, <3>3, <3>7
  <2> QED BY <2>1, <2>2, <2>3 DEF TableInv, WrittenTo
<1> QED BY <1>5, <1>6, <1>7 DEF MetaInv

\* A power loss outside the write of a table.
LEMMA PowerLossKeeps ==
  ASSUME Torn = FALSE, MetaInv, IInv', MetaPowerLoss \/ PowerLossInRootWrite
  PROVE  MetaInv'
<1> USE RootAssumption, MetaAssumption
<1>0. MetaTyped /\ CallInv /\ IInv /\ \A u \in Tables : TableInv(u)
  BY DEF MetaInv
<1>1. /\ rootPc' = "off" /\ ~Up' /\ TablesLost /\ flash' = flash /\ worn' = worn
  BY DEF MetaPowerLoss, PowerLossInRootWrite, PowerLoss, PowerLossInWrite, Up
<1>2. MetaTyped'
  BY <1>0, <1>1 DEF MetaTyped, TablesLost, CommitStages, Blocks
<1>3. CallInv'
  BY <1>1 DEF CallInv
<1>4. ASSUME NEW t \in Tables PROVE TableInv(t)'
  <2>1. ~Loaded(t)'
    BY <1>1 DEF Loaded
  <2>2. CASE MetaPowerLoss
    <3>1. Recovered' = Recovered
      BY <2>2, RecoveredUnchanged DEF MetaPowerLoss, PowerLoss
    <3> QED BY <1>0, <1>1, <2>1, <3>1, TableKept
  <2>3. CASE PowerLossInRootWrite
    <3>1. PowerLossInWrite /\ [Next]_rootVars /\ rootPc = "commit"
      BY <2>3 DEF PowerLossInRootWrite, Next, PowerLossInWrite
    <3>2. Calling("root")
      BY <1>0, <3>1, Stages, StagesDiffer DEF CallInv, Calling, Up
    <3>3. Recovered'.body \in {Recovered.body, root_table.body}
      <4>1. WrittenPage(root_edition, root_table.body).body = root_table.body
        BY DEF WrittenPage
      <4>2. CASE Recovered' = Recovered
        BY <4>2
      <4>3. CASE Recovered' = WrittenPage(root_edition, root_table.body)
        BY <4>1, <4>3
      <4> QED BY <1>0, <3>1, <4>2, <4>3, StepRecovered, Torn = FALSE
    <3>4. /\ flash'[t][RecPlace(t)'[1]][RecPlace(t)'[2]].v = Recovered'.body.v
          /\ \E n \in 0 .. P : RecPlace(t)'[2] < n /\
               \A j \in Pages : flash'[t][RecPlace(t)'[1]][j].st = IF j < n THEN "ok" ELSE "erased"
      BY <1>1, <3>2, <3>3, RootWriteLoadable
    <3> QED BY <1>1, <2>1, <3>4 DEF TableInv, WrittenTo
  <2> QED BY <2>2, <2>3
<1> QED BY <1>2, <1>3, <1>4 DEF MetaInv

\* FTL_Init loads the root table.
LEMMA FtlInitKeeps ==
  ASSUME MetaInv, IInv', FtlInit
  PROVE  MetaInv'
<1> USE RootAssumption, MetaAssumption
<1>0. MetaTyped /\ CallInv /\ IInv /\ \A u \in Tables : TableInv(u)
  BY DEF MetaInv
<1>1. /\ Up' /\ rootPc' = "commit" /\ rootFlash' = rootFlash
      /\ todo' = Mount1 /\ mounting' = TRUE
      /\ flash' = flash /\ current' = current /\ version' = version /\ worn' = worn
      /\ root_table'.body = Recovered.body
  BY DEF FtlInit, RootInit, Up, Mount1
<1>2. Recovered' = Recovered
  BY <1>1, RecoveredUnchanged
<1>3. MetaTyped'
  BY <1>0, <1>1 DEF MetaTyped, MountStages
<1>4. CallInv'
  <2>1. Recovered.body.v \in Nat
    BY <1>0, BodyTypes
  <2> QED BY <1>1, <1>2, <2>1, StagesDiffer DEF CallInv
<1>5. ASSUME NEW t \in Tables PROVE TableInv(t)'
  <2>1. ~Loaded(t)'
    BY <1>1 DEF Loaded
  <2> QED BY <1>0, <1>1, <1>2, <2>1, TableKept, StagesDiffer
<1> QED BY <1>3, <1>4, <1>5 DEF MetaInv

\* BDT_Init and HDI_Init load their table from the page the root names and go
\* to the first page to write.
LEMMA TableInitKeeps ==
  ASSUME MetaInv, IInv', BdtInit \/ HdiInit
  PROVE  MetaInv'
<1> USE RootAssumption, MetaAssumption
<1>0. MetaTyped /\ CallInv /\ IInv /\ \A u \in Tables : TableInv(u)
  BY DEF MetaInv
<1>1. PICK t \in Tables, call \in {"bdtInit", "hdiInit"} :
         /\ t = "bdt" <=> call = "bdtInit"
         /\ TableInit(t, call, PlaceIn(t, root_table.body))
  BY DEF BdtInit, HdiInit, PlaceIn, Tables
<1> DEFINE place == PlaceIn(t, root_table.body)
<1>2. /\ Calling(call) /\ Up /\ rootPc = "idle" /\ todo' = Tail(todo)
      /\ version' = [version EXCEPT ![t] = flash[t][place[1]][place[2]].v]
      /\ current' = [current EXCEPT ![t] =
           [block |-> place[1], page |-> FirstUnreadableFrom(t, place[1], place[2])]]
      /\ rootVars' = rootVars /\ flash' = flash /\ mounting' = mounting /\ worn' = worn
  BY <1>1 DEF TableInit, Calling, NextCall
<1>3. /\ rootPc' = rootPc /\ root_table' = root_table /\ rootFlash' = rootFlash
      /\ Recovered' = Recovered /\ Up'
  BY <1>2, RecoveredUnchanged DEF rootVars, ramVars, Up
<1>4. \/ t = "bdt" /\ mounting = TRUE /\ todo = Mount2 /\ todo' = Mount3
      \/ t = "hdi" /\ mounting = TRUE /\ todo = Mount4 /\ todo' = Mount5
  BY <1>0, <1>1, <1>2, Stages DEF MetaTyped, MountStages, CommitStages, Calling, Tables
<1>5. place = RecPlace(t) /\ root_table.body.v = Recovered.body.v
  BY <1>0, <1>2, <1>4, StagesDiffer DEF CallInv, PlaceIn, RecPlace
<1>6. PICK b \in Blocks, p \in Pages : b = RecPlace(t)[1] /\ p = RecPlace(t)[2]
  BY <1>0, BodyTypes
<1>7. PICK n \in 0 .. P : p < n /\ WrittenTo(t, b, n)
  BY <1>0, <1>6 DEF TableInv
<1>8. FirstUnreadableFrom(t, b, p) = n
  BY <1>7, FirstUnreadableFromFinds
<1> HIDE DEF place
<1>9. flash[t][b][p].v = root_table.body.v
  BY <1>0, <1>5, <1>6 DEF TableInv
<1>10. /\ current'[t] = [block |-> b, page |-> n] /\ version'[t] = root_table'.body.v
       /\ \A u \in Tables : u # t => current'[u] = current[u] /\ version'[u] = version[u]
  BY <1>0, <1>2, <1>3, <1>5, <1>6, <1>8, <1>9 DEF MetaTyped
<1>11. MetaTyped'
  <2>1. version' \in [Tables -> Nat]
    <3>1. root_table.body.v \in Nat
      BY <1>0, BodyTypes
    <3> QED BY <1>0, <1>2, <1>5, <1>6, <1>9, <3>1 DEF MetaTyped
  <2>2. current' \in [Tables -> [block : Blocks, page : 0 .. P]]
    BY <1>0, <1>2, <1>5, <1>6, <1>8 DEF MetaTyped
  <2> QED BY <1>0, <1>2, <1>4, <2>1, <2>2 DEF MetaTyped, MountStages
<1>12. CallInv'
  BY <1>0, <1>2, <1>3, <1>4, StagesDiffer DEF CallInv
<1>13. TableInv(t)'
  <2>1. RecPlace(t)' = RecPlace(t)
    BY <1>3 DEF RecPlace, PlaceIn
  <2>2. Positioned(t)'
    BY <1>2, <1>6, <1>7, <1>10, <2>1 DEF Positioned, WrittenTo
  <2>3. /\ flash'[t][RecPlace(t)'[1]][RecPlace(t)'[2]].v = Recovered'.body.v
        /\ \E m \in 0 .. P : RecPlace(t)'[2] < m /\
             \A j \in Pages : flash'[t][RecPlace(t)'[1]][j].st = IF j < m THEN "ok" ELSE "erased"
    BY <1>2, <1>3, <1>5, <1>6, <1>7, <1>9, <2>1 DEF WrittenTo
  <2>4. todo' # Commit3 /\ todo' # Commit2
    BY <1>4, StagesDiffer
  <2> QED BY <1>10, <2>2, <2>3, <2>4 DEF TableInv, WrittenTo
<1>14. ASSUME NEW u \in Tables, u # t PROVE TableInv(u)'
  <2>1. todo' # Commit3 /\ todo' # Commit2
    BY <1>4, StagesDiffer
  <2>2. Loaded(u)' => Loaded(u)
    BY <1>2, <1>4, <1>14, StagesDiffer DEF Loaded, Tables
  <2>3. Loaded(u) => version'[u] = root_table'.body.v
    BY <1>0, <1>3, <1>10, <1>14 DEF TableInv
  <2>4. Loaded(u)' => Ahead(u) <= Ahead(u)'
    BY <1>4, <1>14, StagesDiffer DEF Loaded, Ahead, Tables
  <2>5. current'[u] = current[u] /\ flash'[u] = flash[u] /\ Recovered'.body = Recovered.body
    BY <1>2, <1>3, <1>10, <1>14
  <2> QED BY <1>0, <1>2, <2>1, <2>2, <2>3, <2>4, <2>5, TableKept
<1> QED BY <1>11, <1>12, <1>13, <1>14 DEF MetaInv
-----------------------------------------------------------------------------
\* The invariant holds after FTL_Format.
LEMMA FormatMetaInv ==
  ASSUME MetaInit
  PROVE  MetaInv
<1> USE RootAssumption, MetaAssumption
<1>1. IInv
  BY InitIInv DEF MetaInit
<1>2. Recovered.body = FormatBody /\ root_table.body = FormatBody /\ rootPc = "idle"
  BY <1>1, IInvRecovered DEF MetaInit, Init
<1>3. todo = <<>> /\ mounting = FALSE /\ worn = FALSE
  BY DEF MetaInit
<1>4. \A t \in Tables : RecPlace(t) = <<0, 0>>
  BY <1>2 DEF RecPlace, PlaceIn, FormatBody
<1>5. \A t \in Tables : \A b \in Blocks, p \in Pages :
        flash[t][b][p] = IF b = 0 /\ p = 0 THEN [st |-> "ok", v |-> 0] ELSE ErasedTablePage
  BY DEF MetaInit
<1>6. MetaTyped
  <2>1. [st |-> "ok", v |-> 0] \in TablePages /\ ErasedTablePage \in TablePages
    BY DEF ErasedTablePage, TablePages
  <2>2. flash \in [Tables -> [Blocks -> [Pages -> TablePages]]]
    BY <2>1 DEF MetaInit
  <2>3. current \in [Tables -> [block : Blocks, page : 0 .. P]] /\ version \in [Tables -> Nat]
    BY DEF MetaInit, Blocks
  <2> QED BY <1>3, <2>2, <2>3 DEF MetaTyped, CommitStages
<1>7. CallInv
  BY <1>2, <1>3, StagesDiffer DEF CallInv, FormatBody
<1>8. ASSUME NEW t \in Tables PROVE TableInv(t)
  <2>1. 0 \in Blocks /\ 0 \in Pages /\ 1 \in 0 .. P
    BY DEF Blocks, Pages
  <2>2. WrittenTo(t, 0, 1) /\ flash[t][0][0].v = 0
    BY <1>5, <2>1 DEF WrittenTo, ErasedTablePage, Pages
  <2>3. current[t] = [block |-> 0, page |-> 1] /\ version[t] = 0
    BY DEF MetaInit
  <2>4. Positioned(t)
    BY <1>4, <2>2, <2>3 DEF Positioned
  <2> QED BY <1>2, <1>3, <1>4, <2>1, <2>2, <2>3, <2>4, StagesDiffer DEF TableInv, FormatBody
<1> QED BY <1>1, <1>6, <1>7, <1>8 DEF MetaInv

\* Every step keeps it.
LEMMA NextMetaInv ==
  ASSUME Torn = FALSE, TornTables = {}, P >= 3, MetaInv, [MetaNext]_vars
  PROVE  MetaInv'
<1>0. IInv /\ [Next]_rootVars
  BY StepsOfRoot DEF MetaInv
<1>1. IInv'
  BY <1>0, NextIInv, Torn = FALSE
<1>2. CASE HostWrite \/ DataCommit
  BY <1>1, <1>2, IdleStepsKeep
<1>3. ASSUME NEW t \in Tables, TableErase(t) PROVE MetaInv'
  BY <1>1, <1>3, TableEraseKeeps, P >= 3
<1>4. ASSUME NEW t \in Tables, TableEraseFails(t) PROVE MetaInv'
  BY <1>1, <1>4, TableEraseFailsKeeps
<1>5. ASSUME NEW t \in Tables, TableWrite(t) PROVE MetaInv'
  BY <1>1, <1>5, TableWriteKeeps, TornTables = {}
<1>6. ASSUME NEW t \in Tables, PowerLossInTableWrite(t) PROVE MetaInv'
  BY <1>1, <1>6, PowerLossInTableWriteKeeps, TornTables = {}
<1>7. CASE RootCommitCall \/ RootCommitErase \/ RootCommitEraseFails
  BY <1>1, <1>7, RootStepsKeep, Torn = FALSE
<1>8. CASE RootCommitWrite
  BY <1>1, <1>8, RootWriteKeeps, Torn = FALSE
<1>9. CASE MetaPowerLoss \/ PowerLossInRootWrite
  BY <1>1, <1>9, PowerLossKeeps, Torn = FALSE
<1>10. CASE FtlInit
  BY <1>1, <1>10, FtlInitKeeps
<1>11. CASE BdtInit \/ HdiInit
  BY <1>1, <1>11, TableInitKeeps
<1>12. CASE UNCHANGED vars
  <2>1. UNCHANGED rootVars /\ UNCHANGED metaVars
    BY <1>12 DEF vars
  <2>2. Recovered' = Recovered /\ root_table' = root_table /\ rootPc' = rootPc
    BY <2>1, RecoveredUnchanged DEF rootVars, ramVars
  <2>3. /\ flash' = flash /\ current' = current /\ version' = version /\ todo' = todo
        /\ mounting' = mounting /\ worn' = worn
    BY <2>1 DEF metaVars
  <2>4. MetaTyped' /\ CallInv'
    BY <2>2, <2>3 DEF MetaInv, MetaTyped, CallInv, Up
  <2>5. \A t \in Tables : TableInv(t)'
    <3> SUFFICES ASSUME NEW t \in Tables PROVE TableInv(t)'
      OBVIOUS
    <3>1. TableInv(t)
      BY DEF MetaInv
    <3> QED BY <2>2, <2>3, <3>1 DEF TableInv, RecPlace, PlaceIn, WrittenTo, Loaded, Up,
                                    Positioned, Ahead, Written
  <2> QED BY <1>1, <2>4, <2>5 DEF MetaInv
<1> QED BY <1>2, <1>3, <1>4, <1>5, <1>6, <1>7, <1>8, <1>9, <1>10, <1>11, <1>12 DEF MetaNext

\* The invariant holds in every reachable state.
THEOREM MetaInductive ==
  ASSUME Torn = FALSE, TornTables = {}, P >= 3
  PROVE  MetaSpec => []MetaInv
<1>1. MetaInit => MetaInv
  BY FormatMetaInv
<1>2. MetaInv /\ [MetaNext]_vars => MetaInv'
  BY NextMetaInv, Torn = FALSE, TornTables = {}, P >= 3
<1> QED BY <1>1, <1>2, PTL DEF MetaSpec

\* Whatever the moment of the power loss, the root a mount loads names a
\* readable BDT page and a readable HDI page, of its own version.
THEOREM MetaIsConsistent ==
  ASSUME Torn = FALSE, TornTables = {}, P >= 3
  PROVE  MetaSpec => []MetaConsistent
<1>1. MetaInv => MetaConsistent
  <2> SUFFICES ASSUME MetaInv, NEW t \in Tables
               PROVE  PageAt(t, RecPlace(t)) = [st |-> "ok", v |-> Recovered.body.v]
    BY DEF MetaConsistent, RecPlace, PlaceIn
  <2>1. MetaTyped /\ TableInv(t) /\ IInv
    BY DEF MetaInv
  <2>2. PICK b \in Blocks, p \in Pages : b = RecPlace(t)[1] /\ p = RecPlace(t)[2]
    BY <2>1, BodyTypes
  <2>3. flash[t][b][p] \in TablePages
    BY <2>1 DEF MetaTyped
  <2>4. flash[t][b][p].st = "ok" /\ flash[t][b][p].v = Recovered.body.v
    BY <2>1, <2>2 DEF TableInv, WrittenTo
  <2> QED BY <2>2, <2>3, <2>4 DEF PageAt, TablePages
<1> QED BY <1>1, MetaInductive, Torn = FALSE, TornTables = {}, P >= 3, PTL

\* With no commit or mount running, the tables in RAM are of one version, and
\* no older than the last commit that succeeded.
THEOREM MetaRamConsistent ==
  ASSUME Torn = FALSE, TornTables = {}, P >= 3
  PROVE  MetaSpec => []RamConsistent
<1>1. MetaInv => RamConsistent
  <2> SUFFICES ASSUME MetaInv, Up, todo = <<>>
               PROVE  /\ \A t \in Tables : version[t] = root_table.body.v
                      /\ acked.v <= root_table.body.v
    BY DEF RamConsistent
  <2>1. \A t \in Tables : Loaded(t)
    BY StagesDiffer DEF Loaded
  <2>2. Recovered.body = acked
    BY IInvRecovered DEF MetaInv, Up
  <2> QED BY <2>1, <2>2 DEF MetaInv, TableInv, CallInv
<1> QED BY <1>1, MetaInductive, Torn = FALSE, TornTables = {}, P >= 3, PTL

\* BDT_Commit and HDI_Commit never program a page twice between two erases.
THEOREM MetaProgramsErased ==
  ASSUME Torn = FALSE, TornTables = {}, P >= 3
  PROVE  MetaSpec => []TablesProgramErased
<1>1. MetaInv => TablesProgramErased
  <2> SUFFICES ASSUME MetaInv, NEW t \in Tables, Calling(t), current[t].page < P
               PROVE  flash[t][current[t].block][current[t].page].st = "erased"
    BY DEF TablesProgramErased
  <2>1. Positioned(t) /\ MetaTyped
    BY CallingLoaded DEF MetaInv
  <2>2. current[t].page \in Pages /\ ~(current[t].page < current[t].page)
    BY <2>1, RootAssumption DEF MetaTyped, Pages
  <2> QED BY <2>1, <2>2 DEF Positioned, WrittenTo
<1> QED BY <1>1, MetaInductive, Torn = FALSE, TornTables = {}, P >= 3, PTL

\* The composition only ever does to the root table what its specification
\* allows: every theorem about RootTable holds of it.
THEOREM MetaImplementsRoot ==
  ASSUME Torn = FALSE, TornTables = {}, P >= 3
  PROVE  MetaSpec => Spec
<1>1. MetaInit => Init
  BY DEF MetaInit
<1>2. MetaInv /\ [MetaNext]_vars => [Next]_rootVars
  BY StepsOfRoot
<1> QED BY <1>1, <1>2, MetaInductive, Torn = FALSE, TornTables = {}, P >= 3, PTL
        DEF MetaSpec, Spec

\* So the FTL's metadata behave like the atomic, durable cell.
THEOREM MetaImplementsCell ==
  ASSUME Torn = FALSE, TornTables = {}, P >= 3
  PROVE  MetaSpec => ImplementsCell
BY MetaImplementsRoot, RootImplementsCell, Torn = FALSE, TornTables = {}, P >= 3, PTL
=============================================================================
