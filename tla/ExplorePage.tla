------------------------------ MODULE ExplorePage ------------------------------
(***************************************************************************)
(* The Explore page: ExploreModel, which searches an index of the packages *)
(* of all sync databases, and AlpmExploreSource, which builds it on a      *)
(* thread while the user types, selects and reloads and pacman syncs.      *)
(* A row of results_ is a position in the index; the page remembers the    *)
(* selected package by repository and name, across searches and reloads.   *)
(***************************************************************************)
EXTENDS Integers, Sequences, SequencesExt

CONSTANTS
  Texts,             \* what is typed into the search field
  Trimmed(_),        \* a text without surrounding blanks; "" is an empty query
  Rank(_, _),        \* of a query and a package: equal 0, prefix 1, part of the name 2, of the description 3, none 4
  Catalogs,          \* contents of the sync databases: sequences of packages
  kMaxSearchResults,
  MaxSyncs,          \* bound: changes of the databases
  None

\* Names are numbered in the order of their folded form.
Package == [repository : STRING, name : Int, version : Nat]

ASSUME ExploreAssumption ==
  /\ "" \in Texts /\ kMaxSearchResults \in Nat \ {0} /\ MaxSyncs \in Nat
  /\ Catalogs \subseteq Seq(Package)
  /\ None \notin Seq(Package) \cup Package \cup (STRING \X Int)
  /\ \A text \in Texts, c \in Catalogs : \A i \in DOMAIN c : Rank(Trimmed(text), c[i]) \in 0..4

VARIABLES
  databases,           \* the sync directory: age of the oldest file and packages, age 0 without a database
  syncs,
  reading,             \* the thread of a load: its step and what it returns; loading_ unless "idle"
  index_,              \* the packages searched, None without an index
  index_age,           \* history: the age the databases had when the packages were read
  results_,
  match_count_,
  search_text_,
  applied_query_,
  search_timer_,       \* the debounce runs
  state_,
  error_message_,
  reload_error_message_,
  data_as_of_,
  current_row_,
  selected_identity_,
  current_package_

source    == <<databases, syncs>>
rows      == <<index_, index_age, results_, match_count_, applied_query_, state_>>
messages  == <<error_message_, reload_error_message_, data_as_of_>>
selection == <<current_row_, selected_identity_, current_package_>>
exploreVars == <<source, reading, search_text_, search_timer_, rows, messages, selection>>

Idle == [step |-> "idle", result |-> "none", age |-> 0, packages |-> <<>>, read |-> 0]
Identity(package) == <<package.repository, package.name>>

\* The constructor starts the first load.
ExploreInit ==
  /\ \E c \in Catalogs, found \in {0, 1} : databases = [age |-> found, packages |-> IF found = 0 THEN <<>> ELSE c]
  /\ syncs = 0
  /\ reading = [Idle EXCEPT !.step = "begun"]
  /\ index_ = None /\ index_age = 0 /\ results_ = <<>> /\ match_count_ = 0 /\ applied_query_ = ""
  /\ state_ = "Loading"
  /\ search_text_ = "" /\ search_timer_ = FALSE
  /\ error_message_ = FALSE /\ reload_error_message_ = FALSE /\ data_as_of_ = 0
  /\ current_row_ = -1 /\ selected_identity_ = None /\ current_package_ = None

ExploreTypeOK ==
  /\ databases.age \in Nat /\ syncs \in 0..MaxSyncs
  /\ reading.step \in {"idle", "begun", "aged", "finished"} /\ reading.result \in {"ok", "none", "error"}
  /\ index_ \in Catalogs \cup {<<>>, None} /\ results_ \in Seq(Nat) /\ match_count_ \in Nat
  /\ search_text_ \in Texts /\ search_timer_ \in BOOLEAN
  /\ state_ \in {"Loading", "NoDatabases", "Error", "Hint", "NoMatches", "Results"}
  /\ error_message_ \in BOOLEAN /\ reload_error_message_ \in BOOLEAN /\ data_as_of_ \in Nat
  /\ current_row_ \in Nat \cup {-1}

-------------------------------------------------------------------------------
(* searchPackages() *)

Hits(index, query) == {row \in DOMAIN index : Rank(query, index[row]) < 4}

\* Better rank first, then the folded name, then the position in the index.
Before(index, query, left, right) ==
  LET ranks == <<Rank(query, index[left]), Rank(query, index[right])>>
  IN \/ ranks[1] < ranks[2]
     \/ ranks[1] = ranks[2] /\ index[left].name < index[right].name
     \/ ranks[1] = ranks[2] /\ index[left].name = index[right].name /\ left < right

Sorted(index, query, found) ==
  CHOOSE s \in SetToSeqs(found) : \A i, j \in DOMAIN s : i < j => Before(index, query, s[i], s[j])

ShownCount(hits) == IF hits < kMaxSearchResults THEN hits ELSE kMaxSearchResults

\* Mutant: the first hits of the index are sorted instead of the best ones taken.
FirstHits(index, query) ==
  LET found == Hits(index, query)
  IN Sorted(index, query, {row \in found : Cardinality({r \in found : r <= row}) <= kMaxSearchResults})

\* The best hits, at most kMaxSearchResults of them.
Search(index, query) ==
  LET found == Hits(index, query)
  IN SubSeq(Sorted(index, query, found), 1, ShownCount(Cardinality(found)))

-------------------------------------------------------------------------------
(* Selection *)

Select(index, found, row) ==
  LET package == IF row = -1 THEN None ELSE index[found[row + 1]]
  IN /\ current_row_' = row
     /\ current_package_' = package
     /\ selected_identity_' = IF row = -1 THEN None ELSE Identity(package)

RowsOf(index, found, identity) == {row \in 0..Len(found) - 1 : Identity(index[found[row + 1]]) = identity}

\* Mutant: a row that stays where it is keeps the details read before.
ReconcileRowOnly(index, found) ==
  LET same == IF index = None THEN {} ELSE RowsOf(index, found, selected_identity_)
  IN IF selected_identity_ = None \/ current_row_ \in same THEN UNCHANGED selection
     ELSE Select(index, found, IF same = {} THEN -1 ELSE CHOOSE row \in same : \A r \in same : row <= r)

\* reconcileSelection: the selected package is looked up in the new rows, and its details are
\* read again; without it nothing is selected.
Reconcile(index, found) ==
  LET same == IF index = None THEN {} ELSE RowsOf(index, found, selected_identity_)
  IN IF selected_identity_ = None THEN UNCHANGED selection
     ELSE Select(index, found, IF same = {} THEN -1 ELSE CHOOSE row \in same : \A r \in same : row <= r)

\* setResults
SetResults(index, age, found) ==
  /\ index_' = index /\ index_age' = age /\ results_' = found
  /\ Reconcile(index, found)

\* runQuery: the trimmed text is searched in the given index; an empty one shows a hint.
RunQuery(index, age) ==
  LET query == Trimmed(search_text_)
      found == IF query = "" THEN <<>> ELSE Search(index, query)
      count == IF query = "" THEN 0 ELSE Cardinality(Hits(index, query))
  IN /\ search_timer_' = FALSE
     /\ applied_query_' = query
     /\ match_count_' = count
     /\ SetResults(index, age, found)
     /\ state_' = IF query = "" THEN "Hint" ELSE IF count > 0 THEN "Results" ELSE "NoMatches"

\* The page without an index.
ShowNothing(state) ==
  /\ search_timer_' = FALSE
  /\ SetResults(None, 0, <<>>)
  /\ match_count_' = 0 /\ applied_query_' = "" /\ data_as_of_' = 0
  /\ state_' = state

-------------------------------------------------------------------------------
(* The user and the timer *)

SetSearchText(text) ==
  /\ text # search_text_
  /\ search_text_' = text /\ search_timer_' = TRUE
  /\ UNCHANGED <<source, reading, rows, messages, selection>>

\* The debounce ends; without an index its query waits for the load.
SearchTimer ==
  /\ search_timer_
  /\ IF index_ = None THEN search_timer_' = FALSE /\ UNCHANGED <<rows, selection>> ELSE RunQuery(index_, index_age)
  /\ UNCHANGED <<source, reading, search_text_, messages>>

\* A row that does not exist selects nothing.
SetCurrentRow(row) ==
  /\ Select(index_, results_, IF index_ # None /\ row \in 0..Len(results_) - 1 THEN row ELSE -1)
  /\ UNCHANGED <<source, reading, search_text_, search_timer_, rows, messages>>

\* reload() is ignored during a load.
Reload ==
  /\ reading.step = "idle"
  /\ reading' = [Idle EXCEPT !.step = "begun"]
  /\ state_' = IF index_ = None THEN "Loading" ELSE state_
  /\ UNCHANGED <<source, search_text_, search_timer_, index_, index_age, results_, match_count_, applied_query_,
                 messages, selection>>

-------------------------------------------------------------------------------
(* The load *)

\* pacman syncs: the databases are replaced by younger ones, appear or disappear.
Sync ==
  /\ syncs < MaxSyncs /\ syncs' = syncs + 1
  /\ \/ \E c \in Catalogs : databases' = [age |-> syncs + 2, packages |-> c]
     \/ databases' = [age |-> 0, packages |-> <<>>]
  /\ UNCHANGED <<reading, search_text_, search_timer_, rows, messages, selection>>

\* loadPackages first takes the time of the oldest database; there may be none, or an error.
ReadAge ==
  /\ reading.step = "begun"
  /\ \/ reading' = [reading EXCEPT !.step = IF databases.age = 0 THEN "finished" ELSE "aged", !.age = databases.age]
     \/ reading' = [reading EXCEPT !.step = "finished", !.result = "error"]
  /\ UNCHANGED <<source, search_text_, search_timer_, rows, messages, selection>>

\* Then the packages are read through the cached connection.  Databases removed since are an index
\* without packages.
ReadPackages ==
  /\ reading.step = "aged"
  /\ \/ reading' = [reading EXCEPT !.step = "finished", !.result = "ok", !.packages = databases.packages,
                                   !.read = IF databases.age = 0 THEN reading.age ELSE databases.age]
     \/ reading' = [reading EXCEPT !.step = "finished", !.result = "error"]
  /\ UNCHANGED <<source, search_text_, search_timer_, rows, messages, selection>>

\* applyLoaded: the current text is searched in the new index.
ApplyLoaded ==
  /\ reading.result \in {"ok", "none"}
  /\ error_message_' = FALSE /\ reload_error_message_' = FALSE
  /\ IF reading.result = "none" THEN ShowNothing("NoDatabases")
     ELSE data_as_of_' = reading.age /\ RunQuery(reading.packages, reading.read)

\* applyFailure: an index that exists stays in use.
ApplyFailure ==
  /\ reading.result = "error"
  /\ IF index_ # None
     THEN /\ reload_error_message_' = TRUE
          /\ UNCHANGED <<rows, search_timer_, selection, error_message_, data_as_of_>>
     ELSE ShowNothing("Error") /\ error_message_' = TRUE /\ reload_error_message_' = FALSE

LoadFinished ==
  /\ reading.step = "finished"
  /\ reading' = Idle
  /\ ApplyLoaded \/ ApplyFailure
  /\ UNCHANGED <<source, search_text_>>

ExploreNext ==
  \/ \E text \in Texts : SetSearchText(text)
  \/ SearchTimer
  \/ \E row \in -1..Len(results_) : SetCurrentRow(row)
  \/ Reload \/ Sync \/ ReadAge \/ ReadPackages \/ LoadFinished

ExploreSpec == ExploreInit /\ [][ExploreNext]_exploreVars

-------------------------------------------------------------------------------
(* Properties *)

\* The details shown are those of the selected row in the index that is searched now, in every
\* order of typing, selecting, reloading and failing: not of a package that was at that row, nor
\* of the selected package as an earlier load read it (ExploreModel.cpp:299-339).
SelectionIsShown ==
  IF current_row_ = -1 THEN selected_identity_ = None /\ current_package_ = None
  ELSE /\ index_ # None /\ current_row_ < Len(results_)
       /\ current_package_ = index_[results_[current_row_ + 1]]
       /\ selected_identity_ = Identity(current_package_)

BestRows(index, query, found) ==
  /\ \A i, j \in DOMAIN found : i < j => Before(index, query, found[i], found[j])
  /\ ToSet(found) \subseteq Hits(index, query)
  /\ \A row \in Hits(index, query) \ ToSet(found) :
       Len(found) = kMaxSearchResults /\ \A i \in DOMAIN found : Before(index, query, found[i], row)

\* The rows are the best hits of the query that the page calls applied, in the index it has; that
\* query is the typed text unless the debounce or the first index is still to come; the state is
\* the one of these rows; and the data is never called newer than what was read.
RowsAnswerTheText ==
  /\ index_ = None => results_ = <<>> /\ applied_query_ = "" /\ state_ \in {"Loading", "NoDatabases", "Error"}
  /\ index_ # None =>
       /\ applied_query_ # Trimmed(search_text_) => search_timer_
       /\ IF applied_query_ = "" THEN results_ = <<>> /\ state_ = "Hint"
          ELSE BestRows(index_, applied_query_, results_) /\ state_ = (IF results_ = <<>> THEN "NoMatches" ELSE "Results")
       /\ data_as_of_ <= index_age
===============================================================================
