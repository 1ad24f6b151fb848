------------------------------ MODULE FtlMeta ------------------------------
(***************************************************************************)
(* The FTL's metadata commit: DATA_Commit (core/ftl/ftl_data.c) writes the  *)
(* hot-data table (ftl_hdi.c), the block dirty table (ftl_bdt.c) and last   *)
(* the root table (ftl_root.c), which points at the pages of the other two; *)
(* FTL_Init (ftl_api.c) loads them in the order root, BDT, HDI and commits  *)
(* again on the way, to get past a page a power loss may have left behind.  *)
(*                                                                          *)
(* Composes RootTable with two journals of the same kind.  The contents of  *)
(* a table are a version number: a host write moves all three tables to the *)
(* next version in RAM.  The page mapping table is not part of this module. *)
(***************************************************************************)
EXTENDS RootTable, Sequences

CONSTANTS
  MaxVersion,    \* bound on the number of host writes
  TornTables     \* the tables in which a power loss may leave a torn page

VARIABLES
  flash,        \* flash[t]: the pages of the two blocks of table t
  current,      \* bdt_current_block/page, hdi_current_block/page
  version,      \* block_dirty_table and hdi_hash_table in RAM
  todo,         \* the calls DATA_Commit or FTL_Init still has to make
  mounting,     \* TRUE while todo belongs to FTL_Init
  worn          \* TRUE when INDEX_FreeBlock_Get has run out of blocks

Tables == {"bdt", "hdi"}
Places == Blocks \X Pages

\* The constants of RootTable: the body of the root is a version and the places
\* of the other two tables.  BDT_PAGE_COUNT is 1 in every configuration.
RootBody == [v : 0 .. MaxVersion, bdt : Places, hdi : Places]
FormatBody == [v |-> 0, bdt |-> <<0, 0>>, hdi |-> <<0, 0>>]

ASSUME MetaAssumption ==
  /\ MaxVersion \in Nat
  /\ TornTables \subseteq Tables
  /\ Body = RootBody /\ Body0 = FormatBody

metaVars == <<flash, current, version, todo, mounting, worn>>
vars == <<rootVars, metaVars>>

ErasedTablePage == [st |-> "erased", v |-> 0]
TornTablePage == [st |-> "torn", v |-> 0]

-----------------------------------------------------------------------------
\* HDI_Format, BDT_Format and ROOT_Format have run.
MetaInit ==
  /\ Init
  /\ flash = [t \in Tables |-> [b \in Blocks |-> [p \in Pages |->
                IF b = 0 /\ p = 0 THEN [st |-> "ok", v |-> 0] ELSE ErasedTablePage]]]
  /\ current = [t \in Tables |-> [block |-> 0, page |-> 1]]
  /\ version = [t \in Tables |-> 0]
  /\ todo = <<>>
  /\ mounting = FALSE
  /\ worn = FALSE

Up == rootPc # "off"
Calling(f) == Up /\ todo # <<>> /\ Head(todo) = f
NextCall == todo' = Tail(todo)

\* DATA_Commit stops at the first call that fails; FTL_Init goes on, since
\* ROOT_Init, BDT_Init and HDI_Init ignore what their commit returns.
AfterFailure == todo' = IF mounting THEN Tail(todo) ELSE <<>>

\* Wrong variant: only the root table is changed.
HostWriteRootOnly ==
  /\ Up /\ todo = <<>>
  /\ root_table.body.v < MaxVersion
  /\ SetBody([root_table.body EXCEPT !.v = @ + 1])
  /\ version' = version
  /\ UNCHANGED <<flash, current, todo, mounting, worn>>

\* FTL_Write: HDI_IsHotPage, PMT_Update and the journal pointer change all
\* three tables in RAM.
HostWrite ==
  /\ Up /\ todo = <<>>
  /\ root_table.body.v < MaxVersion
  /\ SetBody([root_table.body EXCEPT !.v = @ + 1])
  /\ version' = [t \in Tables |-> version[t] + 1]
  /\ UNCHANGED <<flash, current, todo, mounting, worn>>

\* Wrong variant: the root is committed before the tables it points at.
DataCommitRootFirst ==
  /\ Up /\ todo = <<>>
  /\ root_edition < EditionLimit
  /\ todo' = <<"root", "hdi", "bdt">>
  /\ mounting' = FALSE
  /\ UNCHANGED <<rootVars, flash, current, version, worn>>

\* DATA_Commit: HDI_Commit, (PMT_Commit,) BDT_Commit, ROOT_Commit.
DataCommit ==
  /\ Up /\ todo = <<>>
  /\ root_edition < EditionLimit
  /\ todo' = <<"hdi", "bdt", "root">>
  /\ mounting' = FALSE
  /\ UNCHANGED <<rootVars, flash, current, version, worn>>

OtherBlock(t) == 1 - current[t].block

\* BDT_Commit and HDI_Commit: the current block is full, erase the other one.
TableErase(t) ==
  /\ Calling(t)
  /\ current[t].page = P
  /\ ~worn
  /\ flash' = [flash EXCEPT ![t][OtherBlock(t)] = [p \in Pages |-> ErasedTablePage]]
  /\ current' = [current EXCEPT ![t] = [block |-> OtherBlock(t), page |-> 0]]
  /\ UNCHANGED <<rootVars, version, todo, mounting, worn>>

\* UBI_Erase has no free block left: the commit returns, and no later erase
\* will succeed either.
TableEraseFails(t) ==
  /\ Calling(t)
  /\ current[t].page = P
  /\ worn' = TRUE
  /\ AfterFailure
  /\ UNCHANGED <<rootVars, flash, current, version, mounting>>

\* What programming the current page of table t leaves in it.
ProgrammedTable(t) ==
  {[st |-> "ok", v |-> version[t]]}
    \cup (IF flash[t][current[t].block][current[t].page].st = "torn"
            THEN {TornTablePage} ELSE {})

ProgramTable(t, pages) ==
  \E pg \in pages :
    flash' = [flash EXCEPT ![t][current[t].block][current[t].page] = pg]

\* BDT_Commit and HDI_Commit: write the page, let root_table point at it.
TableWrite(t) ==
  /\ Calling(t)
  /\ current[t].page < P
  /\ rootPc = "idle"
  /\ ProgramTable(t, ProgrammedTable(t))
  /\ LET here == <<current[t].block, current[t].page>>
     IN  SetBody(IF t = "bdt" THEN [root_table.body EXCEPT !.bdt = here]
                                   ELSE [root_table.body EXCEPT !.hdi = here])
  /\ current' = [current EXCEPT ![t].page = @ + 1]
  /\ NextCall
  /\ UNCHANGED <<version, mounting, worn>>

\* ROOT_Commit, by the steps of RootTable.
RootCommitCall ==
  /\ Calling("root")
  /\ CommitCall
  /\ UNCHANGED metaVars

RootCommitErase ==
  /\ Calling("root") /\ ~worn
  /\ CommitErase
  /\ UNCHANGED metaVars

RootCommitEraseFails ==
  /\ Calling("root")
  /\ CommitEraseFails
  /\ worn' = TRUE
  /\ AfterFailure
  /\ UNCHANGED <<flash, current, version, mounting>>

RootCommitWrite ==
  /\ Calling("root")
  /\ CommitWrite
  /\ NextCall
  /\ UNCHANGED <<flash, current, version, mounting, worn>>

\* RAM is lost; BDT_Init and HDI_Init assign it before it is read again.
TablesLost ==
  /\ current' = [t \in Tables |-> [block |-> 0, page |-> 0]]
  /\ version' = [t \in Tables |-> 0]
  /\ todo' = <<>>
  /\ mounting' = FALSE

\* The power fails between two calls, or inside a write.
MetaPowerLoss ==
  /\ PowerLoss
  /\ TablesLost
  /\ UNCHANGED <<flash, worn>>

PowerLossInRootWrite ==
  /\ PowerLossInWrite
  /\ TablesLost
  /\ UNCHANGED <<flash, worn>>

PowerLossInTableWrite(t) ==
  /\ Calling(t)
  /\ current[t].page < P
  /\ ProgramTable(t, ProgrammedTable(t) \cup (IF t \in TornTables THEN {TornTablePage} ELSE {}))
  /\ PowerLoss
  /\ TablesLost
  /\ UNCHANGED worn

\* FTL_Init: ROOT_Init loads the root; its ROOT_Commit and the rest follow.
\* HDI_Init, like BDT_Init, ends in a BDT_Commit.
FtlInit ==
  /\ RootInit
  /\ todo' = <<"root", "bdtInit", "bdt", "hdiInit", "bdt">>
  /\ mounting' = TRUE
  /\ UNCHANGED <<flash, current, version, worn>>

\* Wrong variant: the page after the loaded one is taken to be erased.
FirstAfter(t, b, p) == p + 1

\* The first page after p that cannot be read, or P.
FirstUnreadableFrom(t, b, p) ==
  CHOOSE i \in p + 1 .. P :
    /\ i = P \/ flash[t][b][i].st # "ok"
    /\ \A j \in p + 1 .. i - 1 : flash[t][b][j].st = "ok"

\* BDT_Init and HDI_Init: load the page the root points at (the code asserts
\* that it can be read), then look for the first page to write.
TableInit(t, call, place) ==
  /\ Calling(call)
  /\ rootPc = "idle"
  /\ flash[t][place[1]][place[2]].st = "ok"
  /\ version' = [version EXCEPT ![t] = flash[t][place[1]][place[2]].v]
  /\ current' = [current EXCEPT ![t] =
       [block |-> place[1], page |-> FirstUnreadableFrom(t, place[1], place[2])]]
  /\ NextCall
  /\ UNCHANGED <<rootVars, flash, mounting, worn>>

BdtInit == TableInit("bdt", "bdtInit", root_table.body.bdt)
HdiInit == TableInit("hdi", "hdiInit", root_table.body.hdi)

MetaNext ==
  \/ HostWrite
  \/ DataCommit
  \/ \E t \in Tables :
       TableErase(t) \/ TableEraseFails(t) \/ TableWrite(t) \/ PowerLossInTableWrite(t)
  \/ RootCommitCall \/ RootCommitErase \/ RootCommitEraseFails \/ RootCommitWrite
  \/ MetaPowerLoss
  \/ PowerLossInRootWrite
  \/ FtlInit
  \/ BdtInit
  \/ HdiInit

MetaSpec == MetaInit /\ [][MetaNext]_vars
-----------------------------------------------------------------------------
(* Properties *)

PageAt(t, place) == flash[t][place[1]][place[2]]

\* Whatever the moment of the power loss, the root ROOT_Init would load points
\* at a readable BDT page and a readable HDI page, and the three are of the
\* same DATA_Commit: the asserts of BDT_Init and HDI_Init cannot fail and no
\* table is newer or older than the others.
MetaConsistent ==
  LET r == Recovered.body
  IN  \A t \in Tables :
        PageAt(t, IF t = "bdt" THEN r.bdt ELSE r.hdi) = [st |-> "ok", v |-> r.v]

\* When neither a commit nor a mount is running, the tables in RAM are of one
\* version, and no older than the last acknowledged commit.
RamConsistent ==
  Up /\ todo = <<>> =>
    /\ \A t \in Tables : version[t] = root_table.body.v
    /\ acked.v <= root_table.body.v

\* BDT_Commit and HDI_Commit program only erased pages.
TablesProgramErased ==
  \A t \in Tables :
    Calling(t) /\ current[t].page < P
      => flash[t][current[t].block][current[t].page].st = "erased"
=============================================================================
