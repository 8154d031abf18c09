----------------------------- MODULE InstalledPage -----------------------------
(***************************************************************************)
(* The Installed page: InstalledPackagesModel, which enumerates the        *)
(* installed packages on a thread through PackageListUseCase and           *)
(* AlpmPackageSource, and InstalledPackagesFilterModel, a                  *)
(* QSortFilterProxyModel that filters and sorts them and keeps one package *)
(* active, by name, while rows come and go.                                *)
(***************************************************************************)
EXTENDS Integers, FiniteSets, Sequences, SequencesExt

CONSTANTS
  LocalDatabases,    \* what may be installed: sets of [name, explicit, required, size]
  SyncDatabases,     \* what the repositories may offer: functions from repositories to sets of names
  RepositoryOrder,   \* the repositories in the order of registration
  SearchTexts,       \* what is typed into the search field; "" is no search
  NameHas(_, _),    \* a name contains a text, whatever the case
  MaxInstalls,       \* bound: changes by pacman
  NoPackage

Repositories == ToSet(RepositoryOrder)

\* Names are numbered in their order.  An enumerated package has a repository; "" is none.
LocalPackage == [name : Int, explicit : BOOLEAN, required : BOOLEAN, size : Nat]
ListedPackage == [name : Int, explicit : BOOLEAN, required : BOOLEAN, size : Nat,
                  repository : Repositories \cup {""}]

ASSUME InstalledAssumption ==
  /\ MaxInstalls \in Nat /\ "" \in SearchTexts
  /\ \A installed \in LocalDatabases :
       /\ IsFiniteSet(installed) /\ installed \subseteq LocalPackage
       /\ \A p, q \in installed : p.name = q.name => p = q
  /\ RepositoryOrder \in Seq(STRING)
  /\ NoPackage \notin Int \cup ListedPackage

Tabs == {"Explicit", "Dependencies", "Foreign", "Orphans"}

VARIABLES
  local, sync,               \* the local database and the sync databases
  installs,
  enumeration,               \* the thread: its step and what it returns; load_in_progress_ unless "idle"
  packages_, status_, aggregates_,
  filters,                   \* tab_filter_, search_text_, repository_filter_ of the filter model
  order,                     \* sort_field_, sort_descending_
  shown_rows,                \* the rows of the filter model: positions in packages_
  active_row_, active_package_, active_package_identity_

system    == <<local, sync, installs>>
packages  == <<packages_, status_, aggregates_>>
active    == <<active_row_, active_package_, active_package_identity_>>
installedVars == <<system, enumeration, packages, filters, order, shown_rows, active>>

NotEnumerating == [step |-> "idle", result |-> "error", sync |-> <<>>, packages |-> <<>>]
Nobody == [total |-> 0, explicit |-> 0, dependency |-> 0, foreign |-> 0, orphan |-> 0, reclaimable |-> 0]

-------------------------------------------------------------------------------
(* Enumeration: toPackage(), PackageListUseCase *)

\* A package is official if a sync database has its name; the first one that does is its repository.
ToPackage(p, offered) ==
  LET having == {i \in DOMAIN RepositoryOrder : p.name \in offered[RepositoryOrder[i]]}
  IN [name |-> p.name, explicit |-> p.explicit, required |-> p.required, size |-> p.size,
      repository |-> IF having = {} THEN ""
                     ELSE RepositoryOrder[CHOOSE i \in having : \A j \in having : i <= j]]

\* The use case sorts by name.
Enumerated(installed, offered) ==
  CHOOSE list \in SetToSeqs({ToPackage(p, offered) : p \in installed}) :
    \A i, j \in DOMAIN list : i < j => list[i].name < list[j].name

IsForeign(p) == p.repository = ""

\* orphan_package_filter.cpp
IsOrphan(p) == ~p.explicit /\ ~p.required

Positions(list, Test(_)) == {row \in DOMAIN list : Test(list[row])}
Sizes(list, positions) == FoldLeftDomain(LAMBDA sum, row : IF row \in positions THEN sum + list[row].size ELSE sum, 0, list)

\* recomputeAggregates
Aggregates(list) ==
  [total       |-> Sizes(list, DOMAIN list),
   explicit    |-> Cardinality(Positions(list, LAMBDA p : p.explicit)),
   dependency  |-> Cardinality(Positions(list, LAMBDA p : ~p.explicit)),
   foreign     |-> Cardinality(Positions(list, IsForeign)),
   orphan      |-> Cardinality(Positions(list, IsOrphan)),
   reclaimable |-> Sizes(list, Positions(list, IsOrphan))]

-------------------------------------------------------------------------------
(* Filter and order *)

InTab(p, tab) ==
  \/ tab = "Explicit" /\ p.explicit
  \/ tab = "Dependencies" /\ ~p.explicit
  \/ tab = "Foreign" /\ IsForeign(p)
  \/ tab = "Orphans" /\ IsOrphan(p)

\* filterAcceptsRow
Accepts(p, f) ==
  /\ InTab(p, f.tab)
  /\ f.text # "" => NameHas(p.name, f.text)
  /\ f.repository # "" => p.repository = f.repository

\* lessThan
LessThan(l, r, field) == IF field = "Name" THEN l.name < r.name ELSE l.size < r.size

InOrder(list, rows, o) ==
  \A i, j \in DOMAIN rows : i < j =>
    IF o.descending THEN ~LessThan(list[rows[i]], list[rows[j]], o.field)
    ELSE ~LessThan(list[rows[j]], list[rows[i]], o.field)

\* What QSortFilterProxyModel may show: the accepted rows in order.  Rows that compare equal may
\* come in any order, since rows that are filtered in are inserted among the others.
Arrangements(list, f, o) == {s \in SetToSeqs(Positions(list, LAMBDA p : Accepts(p, f))) : InOrder(list, s, o)}

-------------------------------------------------------------------------------
(* The active package *)

RowOf(list, rows, name) ==
  LET same == {row \in DOMAIN rows : list[rows[row]].name = name}
  IN IF name # NoPackage /\ same # {} THEN (CHOOSE row \in same : \A r \in same : row <= r) - 1
     ELSE IF rows # <<>> THEN 0 ELSE -1

\* Mutant: a row that stays where it is keeps the details read before.
ActivateRowOnly(list, rows, row) ==
  LET package == IF row \in 0..Len(rows) - 1 THEN list[rows[row + 1]] ELSE NoPackage
  IN IF active_row_ = row THEN UNCHANGED active
     ELSE /\ active_row_' = (IF package = NoPackage THEN -1 ELSE row)
          /\ active_package_' = package
          /\ active_package_identity_' = IF package = NoPackage THEN NoPackage ELSE package.name

\* setCurrentRow
Activate(list, rows, row) ==
  LET package == IF row \in 0..Len(rows) - 1 THEN list[rows[row + 1]] ELSE NoPackage
  IN /\ active_row_' = (IF package = NoPackage THEN -1 ELSE row)
     /\ active_package_' = package
     /\ active_package_identity_' = IF package = NoPackage THEN NoPackage ELSE package.name

\* Mutant: without filter_change_in_progress_ the rows that a filter removes are acted on before
\* the rows that it adds are there.
ReconcileActiveTwice(list, removed, rows) ==
  LET row  == RowOf(list, removed, active_package_identity_)
      name == IF row = -1 THEN NoPackage ELSE list[removed[row + 1]].name
  IN Activate(list, rows, RowOf(list, rows, name))

\* reconcileCurrentRow: the active package if it is shown, else the first row.  During a change of
\* filters, "removed" is what is left of the old rows; filter_change_in_progress_ hides it.
ReconcileActive(list, removed, rows) == Activate(list, rows, RowOf(list, rows, active_package_identity_))

Show(list, f, o) ==
  \E rows \in Arrangements(list, f, o) :
    /\ shown_rows' = rows
    /\ ReconcileActive(list, SelectSeq(shown_rows, LAMBDA row : row \in ToSet(rows)), rows)

\* The constructors: the enumeration starts, the filter model shows explicit packages by name.
InstalledInit ==
  /\ local \in LocalDatabases /\ sync \in SyncDatabases /\ installs = 0
  /\ enumeration = [NotEnumerating EXCEPT !.step = "begun"]
  /\ packages_ = <<>> /\ status_ = "Loading" /\ aggregates_ = Nobody
  /\ filters = [tab |-> "Explicit", text |-> "", repository |-> ""]
  /\ order = [field |-> "Name", descending |-> FALSE]
  /\ shown_rows = <<>> /\ active_row_ = -1 /\ active_package_ = NoPackage /\ active_package_identity_ = NoPackage

InstalledTypeOK ==
  /\ local \in LocalDatabases /\ sync \in SyncDatabases /\ installs \in 0..MaxInstalls
  /\ enumeration.step \in {"idle", "begun", "connected", "finished"} /\ enumeration.result \in {"ok", "error"}
  /\ status_ \in {"Loading", "Loaded", "Error"}
  /\ filters \in [tab : Tabs, text : SearchTexts, repository : Repositories \cup {""}]
  /\ order \in [field : {"Name", "Size"}, descending : BOOLEAN]
  /\ active_row_ \in Nat \cup {-1}

-------------------------------------------------------------------------------
(* Actions *)

\* pacman installs, removes or syncs.
Pacman ==
  /\ installs < MaxInstalls /\ installs' = installs + 1
  /\ \/ local' \in LocalDatabases /\ UNCHANGED sync
     \/ sync' \in SyncDatabases /\ UNCHANGED local
  /\ UNCHANGED <<enumeration, packages, filters, order, shown_rows, active>>

\* refresh() is ignored during a load; the old list stays.
Refresh ==
  /\ enumeration.step = "idle"
  /\ enumeration' = [NotEnumerating EXCEPT !.step = "begun"]
  /\ status_' = "Loading"
  /\ UNCHANGED <<system, packages_, aggregates_, filters, order, shown_rows, active>>

\* The cached connection to the sync databases, then the local database through a new handle.
Connect ==
  /\ enumeration.step = "begun"
  /\ \/ enumeration' = [enumeration EXCEPT !.step = "connected", !.sync = sync]
     \/ enumeration' = [enumeration EXCEPT !.step = "finished"]
  /\ UNCHANGED <<system, packages, filters, order, shown_rows, active>>

ReadLocal ==
  /\ enumeration.step = "connected"
  /\ \/ enumeration' = [enumeration EXCEPT !.step = "finished", !.result = "ok",
                                           !.packages = Enumerated(local, enumeration.sync)]
     \/ enumeration' = [enumeration EXCEPT !.step = "finished"]
  /\ UNCHANGED <<system, packages, filters, order, shown_rows, active>>

\* onEnumerationFinished: an error leaves an empty list.
EnumerationFinished ==
  /\ enumeration.step = "finished"
  /\ enumeration' = NotEnumerating
  /\ packages_' = enumeration.packages
  /\ status_' = IF enumeration.result = "ok" THEN "Loaded" ELSE "Error"
  /\ aggregates_' = Aggregates(enumeration.packages)
  /\ Show(enumeration.packages, filters, order)
  /\ UNCHANGED <<system, filters, order>>

ChangeFilter(f) ==
  /\ f # filters
  /\ filters' = f
  /\ Show(packages_, f, order)
  /\ UNCHANGED <<system, enumeration, packages, order>>

\* setTabFilter, setSearchText and setRepositoryFilter change one part; the repositories offered
\* are those of the list.
SetTabFilter == \E tab \in Tabs : ChangeFilter([filters EXCEPT !.tab = tab])
SetSearchTextFilter == \E text \in SearchTexts : ChangeFilter([filters EXCEPT !.text = text])
AvailableRepositories == {packages_[row].repository : row \in DOMAIN packages_} \ {""}
SetRepositoryFilter == \E r \in AvailableRepositories \cup {""} : ChangeFilter([filters EXCEPT !.repository = r])

\* setSortField and setSortDescending
SetOrder ==
  /\ \E o \in [field : {"Name", "Size"}, descending : BOOLEAN] :
       /\ (o.field = order.field) # (o.descending = order.descending)
       /\ order' = o
       /\ Show(packages_, filters, o)
  /\ UNCHANGED <<system, enumeration, packages, filters>>

\* setCurrentRow: the view asks for one of its rows; without rows it asks for row -1.
SetActiveRow ==
  /\ \E row \in -1..Len(shown_rows) - 1 :
       /\ row = -1 => shown_rows = <<>>
       /\ Activate(packages_, shown_rows, row)
  /\ UNCHANGED <<system, enumeration, packages, filters, order, shown_rows>>

InstalledNext ==
  \/ Pacman \/ Refresh \/ Connect \/ ReadLocal \/ EnumerationFinished
  \/ SetTabFilter \/ SetSearchTextFilter \/ SetRepositoryFilter \/ SetOrder \/ SetActiveRow

InstalledSpec == InstalledInit /\ [][InstalledNext]_installedVars

-------------------------------------------------------------------------------
(* Properties *)

\* A package is active whenever rows are shown, and its row, details and name belong together in
\* the list as it was last loaded; each badge is the number of rows its tab shows without further
\* filters, and the footer's sum that of the orphans among them
\* (InstalledPackagesFilterModel.cpp:121-136, InstalledPackagesModel.cpp:191).
ActiveIsShown ==
  /\ active_row_ = -1 <=> shown_rows = <<>>
  /\ active_row_ = -1 => active_package_ = NoPackage /\ active_package_identity_ = NoPackage
  /\ active_row_ # -1 =>
       /\ active_row_ < Len(shown_rows)
       /\ active_package_ = packages_[shown_rows[active_row_ + 1]]
       /\ active_package_identity_ = active_package_.name
  /\ filters.text = "" /\ filters.repository = "" =>
       LET count == aggregates_ IN
       /\ filters.tab = "Explicit"     => count.explicit = Len(shown_rows)
       /\ filters.tab = "Dependencies" => count.dependency = Len(shown_rows)
       /\ filters.tab = "Foreign"      => count.foreign = Len(shown_rows)
       /\ filters.tab = "Orphans"      => count.orphan = Len(shown_rows) /\ count.reclaimable = Sizes(packages_, ToSet(shown_rows))

IsShown(name, list, rows) == \E row \in DOMAIN rows : list[rows[row]].name = name

\* When rows change, the active package stays active if it is still shown, also while a filter
\* removes some rows and adds others; if it is not, the first of the new rows is active, and not
\* one that was first in between (SPEC REQ-F-112).
ActiveStays ==
  [][<<packages_, shown_rows>>' # <<packages_, shown_rows>> =>
       IF active_package_identity_ # NoPackage /\ IsShown(active_package_identity_, packages_', shown_rows')
       THEN active_package_identity_' = active_package_identity_
       ELSE active_row_' = (IF shown_rows' = <<>> THEN -1 ELSE 0)]_installedVars
===============================================================================
