------------------------------ MODULE MCGuiParts ------------------------------
(* The parts of the GUI that share no state, one of them in each behaviour. *)
EXTENDS ExplorePage, InstalledPage, CheckClient

VARIABLE part

guiVars == <<exploreVars, installedVars, clientVars, part>>

-------------------------------------------------------------------------------
(* Explore: three databases, names 1 to 3, texts that differ in their blanks only *)

InSync(repository, name, version) == [repository |-> repository, name |-> name, version |-> version]

ThreeCatalogs ==
  {<<InSync("core", 3, 1), InSync("core", 2, 1), InSync("extra", 1, 1)>>,
   <<InSync("core", 1, 1), InSync("extra", 1, 1), InSync("extra", 2, 2)>>,
   <<InSync("core", 2, 2)>>}

FiveTexts == {"", " ", "k", "k ", "l"}
WithoutBlanks(text) == CASE text = " " -> "" [] text = "k " -> "k" [] OTHER -> text
RankOfName(query, package) == IF query = "k" THEN <<0, 1, 2>>[package.name] ELSE <<4, 3, 3>>[package.name]

-------------------------------------------------------------------------------
(* Installed: packages of every kind, equal sizes, one package in two repositories *)

InLocal(name, explicit, required, size) == [name |-> name, explicit |-> explicit, required |-> required, size |-> size]

TwoLocalDatabases ==
  {{InLocal(1, TRUE, FALSE, 5), InLocal(2, FALSE, FALSE, 5), InLocal(3, FALSE, TRUE, 7), InLocal(4, TRUE, TRUE, 2)},
   {InLocal(2, TRUE, FALSE, 9), InLocal(3, FALSE, FALSE, 7)}}

TwoRepositories == <<"core", "extra">>
TwoSyncs == {[r \in {"core", "extra"} |-> IF r = "core" THEN {1} ELSE {1, 2}],
             [r \in {"core", "extra"} |-> IF r = "core" THEN {3} ELSE {}]}
OddNames(name, text) == name \in {1, 3}

-------------------------------------------------------------------------------
GuiInit ==
  /\ part \in {"explore", "installed", "client"}
  /\ ExploreInit /\ InstalledInit /\ ClientInit
  /\ part # "explore" => databases.age = 0
  /\ part # "installed" => /\ local = CHOOSE any \in LocalDatabases : TRUE
                           /\ sync = CHOOSE any \in SyncDatabases : TRUE
  /\ part # "client" => ~service.up

ExploreMoves == part = "explore" /\ ExploreNext /\ UNCHANGED <<installedVars, clientVars, part>>
InstalledMoves == part = "installed" /\ InstalledNext /\ UNCHANGED <<exploreVars, clientVars, part>>
ClientMoves == part = "client" /\ ClientNext /\ UNCHANGED <<exploreVars, installedVars, part>>

GuiSpec ==
  /\ GuiInit /\ [][ExploreMoves \/ InstalledMoves \/ ClientMoves]_guiVars
  /\ ClientFairness
===============================================================================
