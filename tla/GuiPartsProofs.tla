---------------------------- MODULE GuiPartsProofs ----------------------------
(***************************************************************************)
(* Proofs about the parts of the GUI that share no state, each under its   *)
(* own specification: the Explore page, the Installed page and the client  *)
(* of the check service.                                                   *)
(***************************************************************************)
EXTENDS ExplorePage, InstalledPage, CheckClient, FiniteSetTheorems, TLAPS

-------------------------------------------------------------------------------
(* Sorting.  Both pages sort what they show: a finite set that is ordered strictly has an ascending
   enumeration, and an enumeration leaves nothing out. *)

\* R orders S strictly and totally.
OrdersStrictly(R, S) ==
  /\ \A a \in S : <<a, a>> \notin R
  /\ \A a, b, c \in S : <<a, b>> \in R /\ <<b, c>> \in R => <<a, c>> \in R
  /\ \A a, b \in S : a # b => <<a, b>> \in R \/ <<b, a>> \in R

Ascending(R, s) == \A i, j \in DOMAIN s : i < j => <<s[i], s[j]>> \in R

\* Among subsets of a finite set one contains no other: the form of induction that is used here.
LEMMA SmallestSubset ==
  ASSUME NEW S, IsFiniteSet(S), NEW F, F \subseteq SUBSET S, F # {}
  PROVE  \E T \in F : \A U \in F : U \subseteq T => U = T
<1>1. FiniteSubsetsOf(S) = SUBSET S
  BY FS_FiniteSubsetsOfFinite
<1>2. IsWellFoundedOn(StrictSubsetOrdering(S), SUBSET S)
  BY <1>1, FS_StrictSubsetOrderingWellFounded
<1>3. PICK T \in F : \A U \in F : <<U, T>> \notin StrictSubsetOrdering(S)
  BY <1>2, WFMin, Zenon
<1>4. QED
  BY <1>3 DEF StrictSubsetOrdering

LEMMA GreatestMember ==
  ASSUME NEW S, IsFiniteSet(S), NEW R, OrdersStrictly(R, S), S # {}
  PROVE  \E top \in S : \A a \in S \ {top} : <<a, top>> \in R
<1> DEFINE Above(a) == {b \in S : <<a, b>> \in R}
<1>1. PICK top \in S : \A a \in S : Above(a) \subseteq Above(top) => Above(a) = Above(top)
  <2> DEFINE Family == {Above(a) : a \in S}
  <2>1. Family \subseteq SUBSET S /\ Family # {}
    OBVIOUS
  <2> HIDE DEF Family
  <2>2. PICK T \in Family : \A U \in Family : U \subseteq T => U = T
    BY <2>1, SmallestSubset
  <2>3. PICK top \in S : T = Above(top)
    BY DEF Family
  <2>4. \A a \in S : Above(a) \in Family
    BY DEF Family
  <2> HIDE DEF Above
  <2>5. QED
    BY <2>2, <2>3, <2>4
<1>2. Above(top) = {}
  <2> SUFFICES ASSUME NEW a \in Above(top) PROVE FALSE
    OBVIOUS
  <2>1. a \notin Above(a)
    BY DEF OrdersStrictly
  <2>2. Above(a) \subseteq Above(top)
    BY DEF OrdersStrictly
  <2>3. QED
    BY <1>1, <2>1, <2>2
<1>3. QED
  BY <1>2 DEF OrdersStrictly

LEMMA SeqOfMore ==
  ASSUME NEW S, NEW T, S \subseteq T, NEW s \in Seq(S)
  PROVE  s \in Seq(T)
OBVIOUS

LEMMA LeastMember ==
  ASSUME NEW S, IsFiniteSet(S), S \subseteq Int, S # {}
  PROVE  \E least \in S : \A a \in S : least <= a
<1> DEFINE R == {pair \in S \X S : pair[1] > pair[2]}
<1>1. \A a, b : <<a, b>> \in R <=> a \in S /\ b \in S /\ a > b
  OBVIOUS
<1> HIDE DEF R
<1>2. OrdersStrictly(R, S)
  BY <1>1 DEF OrdersStrictly
<1>3. PICK least \in S : \A a \in S \ {least} : <<a, least>> \in R
  BY <1>2, GreatestMember
<1>4. ASSUME NEW a \in S PROVE least <= a
  <2>1. a \in Int /\ least \in Int
    OBVIOUS
  <2>2. CASE a = least
    BY <2>1, <2>2
  <2>3. CASE a # least
    <3>1. a > least
      BY <1>1, <1>3, <2>3
    <3>2. QED
      BY <2>1, <3>1
  <2>4. QED
    BY <2>2, <2>3
<1>5. QED
  BY <1>4

LEMMA Sortable ==
  ASSUME NEW S, IsFiniteSet(S), NEW R, OrdersStrictly(R, S)
  PROVE  \E s \in SetToSeqs(S) : Ascending(R, s)
<1> DEFINE Unsortable == {T \in SUBSET S : ~ \E s \in SetToSeqs(T) : Ascending(R, s)}
<1>1. SUFFICES ASSUME Unsortable # {} PROVE FALSE
  OBVIOUS
<1>2. PICK T \in Unsortable : \A U \in Unsortable : U \subseteq T => U = T
  <2>1. Unsortable \subseteq SUBSET S
    OBVIOUS
  <2> HIDE DEF Unsortable
  <2>2. QED
    BY <1>1, <2>1, SmallestSubset
<1>3. IsFiniteSet(T) /\ OrdersStrictly(R, T)
  BY FS_Subset DEF OrdersStrictly
<1>4. T # {}
  <2>1. Cardinality({}) = 0
    BY FS_EmptySet
  <2>2. <<>> \in SetToSeqs({}) /\ Ascending(R, <<>>)
    BY <2>1 DEF SetToSeqs, Ascending
  <2>3. QED
    BY <1>2, <2>2
<1>5. PICK top \in T : \A a \in T \ {top} : <<a, top>> \in R
  BY <1>3, <1>4, GreatestMember
<1> DEFINE Rest == T \ {top}
           n == Cardinality(T)
<1>6. n \in Nat \ {0} /\ Cardinality(Rest) = n - 1
  BY <1>3, <1>5, FS_RemoveElement, FS_CardinalityType, FS_EmptySet
<1>7. PICK r \in SetToSeqs(Rest) : Ascending(R, r)
  BY <1>2, <1>5
<1>8. r \in [1..n - 1 -> Rest] /\ \A i, j \in 1..n - 1 : i # j => r[i] # r[j]
  BY <1>6, <1>7 DEF SetToSeqs
<1> DEFINE s == [i \in 1..n |-> IF i = n THEN top ELSE r[i]]
<1>9. s \in [1..n -> T] /\ \A i, j \in 1..n : i # j => s[i] # s[j]
  BY <1>6, <1>8
<1>10. Ascending(R, s)
  <2> SUFFICES ASSUME NEW i \in 1..n, NEW j \in 1..n, i < j PROVE <<s[i], s[j]>> \in R
    BY DEF Ascending
  <2>1. i \in 1..n - 1 /\ s[i] = r[i]
    BY <1>6
  <2>2. CASE j = n
    BY <1>5, <1>8, <2>1, <2>2
  <2>3. CASE j # n
    BY <1>6, <1>7, <1>8, <2>1, <2>3 DEF Ascending
  <2>4. QED
    BY <2>2, <2>3
<1>11. s \in SetToSeqs(T)
  BY <1>9 DEF SetToSeqs
<1>12. QED
  BY <1>2, <1>10, <1>11

\* An enumeration of a finite set leaves nothing out.
LEMMA SeqsCover ==
  ASSUME NEW S, IsFiniteSet(S), NEW s \in SetToSeqs(S)
  PROVE  /\ s \in Seq(S) /\ Len(s) = Cardinality(S) /\ Cardinality(S) \in Nat
         /\ DOMAIN s = 1..Cardinality(S)
         /\ \A i, j \in DOMAIN s : i # j => s[i] # s[j]
         /\ ToSet(s) = S
<1> DEFINE n == Cardinality(S)
<1>1. n \in Nat
  BY FS_CardinalityType
<1>2. s \in [1..n -> S] /\ \A i, j \in 1..n : i # j => s[i] # s[j]
  BY DEF SetToSeqs
<1>3. ASSUME NEW a \in S, \A i \in 1..n : s[i] # a PROVE FALSE
  <2>1. IsFiniteSet(S \ {a}) /\ Cardinality(S \ {a}) = n - 1
    BY FS_RemoveElement
  <2>2. s \in [1..n -> S \ {a}]
    BY <1>2, <1>3
  <2>3. IsFiniteSet(1..n) /\ Cardinality(1..n) = n
    BY <1>1, FS_Interval
  <2>4. \E i, j \in 1..n : i # j /\ s[i] = s[j]
    BY <1>1, <2>1, <2>2, <2>3, FS_PigeonHole
  <2>5. QED
    BY <1>2, <2>4
<1>4. ToSet(s) = S
  BY <1>2, <1>3 DEF ToSet
<1>5. QED
  BY <1>1, <1>2, <1>4

-------------------------------------------------------------------------------
(* The Explore page: the search *)

\* The positions of the packages that match, each before those that Before puts after it.
HitOrder(index, query) ==
  {pair \in Hits(index, query) \X Hits(index, query) : Before(index, query, pair[1], pair[2])}

LEMMA IndexIsSequence ==
  ASSUME NEW index \in Catalogs \cup {<<>>}
  PROVE  index \in Seq(Package) /\ Len(index) \in Nat /\ DOMAIN index = 1..Len(index)
<1>1. <<>> \in Seq(Package)
  OBVIOUS
<1>2. Catalogs \subseteq Seq(Package)
  BY ExploreAssumption
<1>3. index \in Seq(Package)
  BY <1>1, <1>2
<1>4. QED
  BY <1>3

LEMMA HitsAreFinite ==
  ASSUME NEW index \in Catalogs \cup {<<>>}, NEW query
  PROVE  IsFiniteSet(Hits(index, query)) /\ Hits(index, query) \subseteq DOMAIN index
<1>1. IsFiniteSet(1..Len(index))
  BY IndexIsSequence, FS_Interval
<1>2. Hits(index, query) \subseteq 1..Len(index)
  BY IndexIsSequence DEF Hits
<1>3. QED
  BY <1>1, <1>2, FS_Subset, IndexIsSequence

LEMMA HitsAreOrdered ==
  ASSUME NEW text \in Texts, NEW index \in Catalogs \cup {<<>>}
  PROVE  OrdersStrictly(HitOrder(index, Trimmed(text)), Hits(index, Trimmed(text)))
<1> DEFINE query == Trimmed(text)
           hits  == Hits(index, query)
           rank(row) == Rank(query, index[row])
<1>1. \A row \in hits : row \in Int /\ rank(row) \in Int /\ index[row].name \in Int
  <2> SUFFICES ASSUME NEW row \in hits
               PROVE  row \in Int /\ rank(row) \in Int /\ index[row].name \in Int
    OBVIOUS
  <2>1. index \in Seq(Package) /\ row \in 1..Len(index) /\ row \in DOMAIN index
    BY IndexIsSequence DEF Hits
  <2>2. index[row] \in Package
    BY <2>1
  <2>3. index \in Catalogs
    <3>1. DOMAIN <<>> = {}
      OBVIOUS
    <3>2. QED
      BY <2>1, <3>1
  <2>4. Rank(query, index[row]) \in 0..4
    BY <2>1, <2>3, ExploreAssumption
  <2>5. QED
    BY <2>1, <2>2, <2>4 DEF Package
<1>2. \A l, r \in hits : <<l, r>> \in HitOrder(index, query)
                           <=> \/ rank(l) < rank(r)
                               \/ rank(l) = rank(r) /\ index[l].name < index[r].name
                               \/ rank(l) = rank(r) /\ index[l].name = index[r].name /\ l < r
  BY DEF HitOrder, Before
<1> HIDE DEF rank, hits, query
<1>4. OrdersStrictly(HitOrder(index, query), hits)
  <2> DEFINE R == HitOrder(index, query)
  <2> HIDE DEF R
  <2>1. \A a \in hits : <<a, a>> \notin R
    BY <1>1, <1>2 DEF R
  <2>2. ASSUME NEW a \in hits, NEW b \in hits, NEW c \in hits, <<a, b>> \in R, <<b, c>> \in R PROVE <<a, c>> \in R
    BY <1>1, <1>2, <2>2 DEF R
  <2>3. ASSUME NEW a \in hits, NEW b \in hits, a # b PROVE <<a, b>> \in R \/ <<b, a>> \in R
    BY <1>1, <1>2, <2>3 DEF R
  <2>4. QED
    BY <2>1, <2>2, <2>3 DEF OrdersStrictly, R
<1>5. QED
  BY <1>4 DEF hits, query

\* The rows of a search are the best hits, and there are none only if there is no hit.
THEOREM SearchIsBest ==
  ASSUME NEW text \in Texts, NEW index \in Catalogs \cup {<<>>}
  PROVE  /\ Search(index, Trimmed(text)) \in Seq(DOMAIN index)
         /\ BestRows(index, Trimmed(text), Search(index, Trimmed(text)))
         /\ Cardinality(Hits(index, Trimmed(text))) \in Nat
         /\ Search(index, Trimmed(text)) = <<>> <=> Cardinality(Hits(index, Trimmed(text))) = 0
<1> DEFINE query == Trimmed(text)
           hits  == Hits(index, query)
           s     == Sorted(index, query, hits)
           n     == Cardinality(hits)
           found == Search(index, query)
<1>1. IsFiniteSet(hits) /\ hits \subseteq DOMAIN index
  BY HitsAreFinite
<1>2. \E t \in SetToSeqs(hits) : Ascending(HitOrder(index, query), t)
  BY <1>1, HitsAreOrdered, Sortable
<1>3. \E t \in SetToSeqs(hits) : \A i, j \in DOMAIN t : i < j => Before(index, query, t[i], t[j])
  BY <1>2 DEF Ascending, HitOrder
<1>4. s \in SetToSeqs(hits) /\ \A i, j \in DOMAIN s : i < j => Before(index, query, s[i], s[j])
  BY <1>3 DEF Sorted
<1>5. s \in Seq(hits) /\ Len(s) = n /\ n \in Nat /\ ToSet(s) = hits /\ DOMAIN s = 1..n
  BY <1>1, <1>4, SeqsCover
<1>6. kMaxSearchResults \in Nat \ {0}
  BY ExploreAssumption
<1> DEFINE shown == ShownCount(n)
<1>7. /\ shown \in 0..n /\ (shown = 0 <=> n = 0)
      /\ shown # n => shown = kMaxSearchResults
  BY <1>5, <1>6 DEF ShownCount
<1>8. found = SubSeq(s, 1, shown)
  BY DEF Search
<1> HIDE DEF query, hits, s, n, found, shown
<1>9. found \in Seq(hits) /\ Len(found) = shown /\ \A i \in 1..shown : found[i] = s[i]
  BY <1>5, <1>7, <1>8
<1>10. found \in Seq(DOMAIN index)
  BY <1>1, <1>9
<1>11. DOMAIN found = 1..shown /\ 1..shown \subseteq DOMAIN s
  BY <1>5, <1>7, <1>9
<1>12. BestRows(index, query, found)
  <2>1. \A i, j \in DOMAIN found : i < j => Before(index, query, found[i], found[j])
    BY <1>4, <1>9, <1>11
  <2>2. ToSet(found) \subseteq Hits(index, query)
    BY <1>9, <1>11 DEF ToSet, hits
  <2>3. ASSUME NEW row \in Hits(index, query) \ ToSet(found)
        PROVE  Len(found) = kMaxSearchResults /\ \A i \in DOMAIN found : Before(index, query, found[i], row)
    <3>1. PICK j \in 1..n : row = s[j]
      BY <1>5 DEF ToSet, hits
    <3>2. j \notin 1..shown
      BY <1>9, <1>11, <3>1 DEF ToSet
    <3>3. QED
      BY <1>4, <1>5, <1>7, <1>9, <1>11, <3>1, <3>2
  <2>4. QED
    BY <2>1, <2>2, <2>3 DEF BestRows
<1>13. found = <<>> <=> n = 0
  BY <1>7, <1>9
<1>14. QED
  BY <1>5, <1>10, <1>12, <1>13 DEF found, n, hits, query

-------------------------------------------------------------------------------
(* The Explore page: the inductive invariant *)

\* Databases only get younger, so that what a load reads is no older than its date.
LoadInv ==
  /\ databases \in [age : Nat, packages : Catalogs \cup {<<>>}] /\ syncs \in 0..MaxSyncs
  /\ reading \in [step : {"idle", "begun", "aged", "finished"}, result : {"ok", "none", "error"}, age : Nat,
                  packages : Catalogs \cup {<<>>}, read : Nat]
  /\ databases.age <= syncs + 1
  /\ reading.step \in {"begun", "aged"} => reading.result = "none"
  /\ reading.step = "aged" => reading.age <= syncs + 1 /\ (databases.age = 0 \/ reading.age <= databases.age)
  /\ reading.result = "ok" => reading.age <= reading.read

\* The rows are positions of the index.
RowsInv ==
  /\ index_ \in Catalogs \cup {<<>>, None} /\ index_age \in Nat
  /\ index_ # None => results_ \in Seq(DOMAIN index_)

PageInv == ExploreTypeOK /\ RowsInv /\ SelectionIsShown /\ RowsAnswerTheText

ExploreInv == LoadInv /\ PageInv

-------------------------------------------------------------------------------
(* The Explore page: selection *)

LEMMA PackagesAreNotNone ==
  ASSUME NEW index \in Catalogs \cup {<<>>}, NEW found \in Seq(DOMAIN index), NEW row \in 0..Len(found) - 1
  PROVE  index # None /\ index[found[row + 1]] # None /\ Identity(index[found[row + 1]]) # None
<1>1. index \in Seq(Package) /\ found[row + 1] \in DOMAIN index
  BY IndexIsSequence
<1>2. index[found[row + 1]] \in Package
  BY <1>1
<1>3. Identity(index[found[row + 1]]) \in STRING \X Int
  BY <1>2 DEF Package, Identity
<1>4. QED
  BY <1>1, <1>2, <1>3, ExploreAssumption

\* What Select leaves behind, in the index and the rows it is given.
LEMMA SelectShows ==
  ASSUME NEW index \in Catalogs \cup {<<>>, None}, NEW found,
         index # None => found \in Seq(DOMAIN index),
         NEW row \in {-1} \cup (IF index = None THEN {} ELSE 0..Len(found) - 1),
         index_' = index, results_' = found, Select(index, found, row)
  PROVE  SelectionIsShown' /\ current_row_' \in Nat \cup {-1}
<1>1. CASE row = -1
  BY <1>1 DEF Select, SelectionIsShown
<1>2. CASE row # -1
  <2>1. index \in Catalogs \cup {<<>>} /\ index # None /\ found \in Seq(DOMAIN index) /\ row \in 0..Len(found) - 1
    BY <1>2
  <2>2. row \in Nat /\ row < Len(found)
    BY <2>1
  <2>3. QED
    BY <1>2, <2>1, <2>2 DEF Select, SelectionIsShown
<1>3. QED
  BY <1>1, <1>2

LEMMA ReconcileShows ==
  ASSUME NEW index \in Catalogs \cup {<<>>, None}, NEW found, NEW age,
         index # None => found \in Seq(DOMAIN index),
         RowsInv, SelectionIsShown, current_row_ \in Nat \cup {-1}, SetResults(index, age, found)
  PROVE  SelectionIsShown' /\ current_row_' \in Nat \cup {-1}
<1> DEFINE same == IF index = None THEN {} ELSE RowsOf(index, found, selected_identity_)
<1>1. index_' = index /\ results_' = found /\ Reconcile(index, found)
  BY DEF SetResults
<1>2. CASE selected_identity_ = None
  <2>1. UNCHANGED selection
    BY <1>1, <1>2 DEF Reconcile
  <2>2. current_row_ = -1 /\ current_package_ = None
    <3>1. ASSUME current_row_ # -1 PROVE FALSE
      <4>1. /\ index_ \in Catalogs \cup {<<>>} /\ results_ \in Seq(DOMAIN index_)
            /\ current_row_ \in 0..Len(results_) - 1
            /\ selected_identity_ = Identity(index_[results_[current_row_ + 1]])
        BY <3>1 DEF SelectionIsShown, RowsInv
      <4>2. QED
        BY <1>2, <4>1, PackagesAreNotNone
    <3>2. QED
      BY <3>1 DEF SelectionIsShown
  <2>3. QED
    BY <1>2, <2>1, <2>2 DEF selection, SelectionIsShown
<1>3. CASE selected_identity_ # None
  <2> DEFINE row == IF same = {} THEN -1 ELSE CHOOSE r \in same : \A other \in same : r <= other
  <2>1. Select(index, found, row)
    BY <1>1, <1>3 DEF Reconcile
  <2>2. row \in {-1} \cup (IF index = None THEN {} ELSE 0..Len(found) - 1)
    <3>1. CASE same = {}
      BY <3>1
    <3>2. CASE same # {}
      <4>1. index # None /\ Len(found) \in Nat /\ same \subseteq 0..Len(found) - 1
        BY <3>2 DEF RowsOf
      <4>2. IsFiniteSet(same)
        <5>1. IsFiniteSet(0..Len(found) - 1)
          BY <4>1, FS_Interval
        <5> HIDE DEF same
        <5>2. QED
          BY <4>1, <5>1, FS_Subset
      <4>3. \E r \in same : \A other \in same : r <= other
        <5>1. same \subseteq Int
          BY <4>1
        <5> HIDE DEF same
        <5>2. QED
          BY <3>2, <4>2, <5>1, LeastMember
      <4>4. row \in same
        BY <3>2, <4>3
      <4>5. QED
        BY <4>1, <4>4
    <3>3. QED
      BY <3>1, <3>2
  <2> HIDE DEF row
  <2>3. QED
    BY <1>1, <2>1, <2>2, SelectShows
<1>4. QED
  BY <1>2, <1>3

-------------------------------------------------------------------------------
(* The Explore page: what is shown *)

PageTypes ==
  /\ results_ \in Seq(Nat) /\ match_count_ \in Nat /\ search_timer_ \in BOOLEAN
  /\ state_ \in {"Loading", "NoDatabases", "Error", "Hint", "NoMatches", "Results"}
  /\ current_row_ \in Nat \cup {-1}

Shows == PageTypes /\ RowsInv /\ SelectionIsShown /\ RowsAnswerTheText

LEMMA RunQueryShows ==
  ASSUME NEW index \in Catalogs \cup {<<>>}, NEW age \in Nat, Shows, search_text_ \in Texts,
         RunQuery(index, age), search_text_' = search_text_, data_as_of_' <= age
  PROVE  Shows'
<1> DEFINE query == Trimmed(search_text_)
           found == IF query = "" THEN <<>> ELSE Search(index, query)
           count == IF query = "" THEN 0 ELSE Cardinality(Hits(index, query))
<1>1. /\ search_timer_' = FALSE /\ applied_query_' = query /\ match_count_' = count
      /\ SetResults(index, age, found)
      /\ state_' = IF query = "" THEN "Hint" ELSE IF count > 0 THEN "Results" ELSE "NoMatches"
  BY DEF RunQuery
<1>2. /\ found \in Seq(DOMAIN index) /\ count \in Nat /\ (found = <<>> <=> count = 0)
      /\ query # "" => BestRows(index, query, found)
  <2>1. CASE query = ""
    <3>1. found = <<>> /\ count = 0
      BY <2>1
    <3>2. <<>> \in Seq(DOMAIN index)
      OBVIOUS
    <3>3. QED
      BY <2>1, <3>1, <3>2
  <2>2. CASE query # ""
    BY <2>2, SearchIsBest
  <2>3. QED
    BY <2>1, <2>2
<1>3. index # None /\ DOMAIN index \subseteq Nat
  <2>1. index \in Seq(Package) /\ DOMAIN index = 1..Len(index) /\ Len(index) \in Nat
    BY IndexIsSequence
  <2>2. None \notin Seq(Package)
    BY ExploreAssumption
  <2>3. QED
    BY <2>1, <2>2
<1>4. index_' = index /\ index_age' = age /\ results_' = found
  BY <1>1 DEF SetResults
<1> HIDE DEF found, count
<1>5. SelectionIsShown' /\ current_row_' \in Nat \cup {-1}
  BY <1>1, <1>2, ReconcileShows DEF Shows, PageTypes
<1>6. RowsInv'
  BY <1>2, <1>4 DEF RowsInv
<1>7. PageTypes'
  <2>1. found \in Seq(Nat)
    <3>1. found \in Seq(DOMAIN index) /\ DOMAIN index \subseteq Nat
      BY <1>2, <1>3
    <3>2. QED
      BY <3>1, SeqOfMore
  <2>2. QED
    BY <1>1, <1>2, <1>4, <1>5, <2>1 DEF PageTypes
<1>8. RowsAnswerTheText'
  <2>1. applied_query_' = query /\ query = Trimmed(search_text_')
    BY <1>1
  <2>2. CASE query = ""
    BY <1>1, <1>3, <1>4, <2>1, <2>2 DEF RowsAnswerTheText, found
  <2>3. CASE query # ""
    <3>1. BestRows(index_', query, results_')
      BY <1>2, <1>4, <2>3
    <3>2. state_' = (IF results_' = <<>> THEN "NoMatches" ELSE "Results")
      <4>1. state_' = (IF count > 0 THEN "Results" ELSE "NoMatches")
        BY <1>1, <2>3
      <4>2. count > 0 <=> found # <<>>
        <5>1. count \in Nat /\ (found = <<>> <=> count = 0)
          BY <1>2
        <5>2. count \in Nat => (count > 0 <=> count # 0)
          OBVIOUS
        <5>3. QED
          BY <5>1, <5>2
      <4>3. QED
        BY <1>4, <4>1, <4>2
    <3> HIDE DEF query
    <3>3. QED
      BY <1>3, <1>4, <2>1, <2>3, <3>1, <3>2 DEF RowsAnswerTheText
  <2>4. QED
    BY <2>2, <2>3
<1>9. QED
  BY <1>5, <1>6, <1>7, <1>8 DEF Shows

LEMMA ShowNothingShows ==
  ASSUME NEW state \in {"NoDatabases", "Error"}, Shows, ShowNothing(state)
  PROVE  Shows' /\ data_as_of_' = 0
<1>1. /\ search_timer_' = FALSE /\ applied_query_' = "" /\ match_count_' = 0 /\ state_' = state
      /\ SetResults(None, 0, <<>>) /\ data_as_of_' = 0
  BY DEF ShowNothing
<1>2. index_' = None /\ index_age' = 0 /\ results_' = <<>>
  BY <1>1 DEF SetResults
<1>3. SelectionIsShown' /\ current_row_' \in Nat \cup {-1}
  BY <1>1, ReconcileShows DEF Shows, PageTypes
<1>4. RowsInv'
  BY <1>2 DEF RowsInv
<1>5. PageTypes'
  <2>1. <<>> \in Seq(Nat)
    OBVIOUS
  <2>2. QED
    BY <1>1, <1>2, <1>3, <2>1 DEF PageTypes
<1>6. RowsAnswerTheText'
  BY <1>1, <1>2 DEF RowsAnswerTheText
<1>7. QED
  BY <1>1, <1>3, <1>4, <1>5, <1>6 DEF Shows

-------------------------------------------------------------------------------
(* The Explore page: the steps *)

LEMMA ExploreInitInv == ExploreInit => ExploreInv
<1> SUFFICES ASSUME ExploreInit PROVE ExploreInv
  OBVIOUS
<1>1. PICK c \in Catalogs, age \in {0, 1} : databases = [age |-> age, packages |-> IF age = 0 THEN <<>> ELSE c]
  BY DEF ExploreInit
<1>2. LoadInv
  <2>1. databases \in [age : Nat, packages : Catalogs \cup {<<>>}] /\ databases.age \in {0, 1}
    BY <1>1
  <2>2. reading = [step |-> "begun", result |-> "none", age |-> 0, packages |-> <<>>, read |-> 0]
    BY DEF ExploreInit, Idle
  <2>3. reading \in [step : {"idle", "begun", "aged", "finished"}, result : {"ok", "none", "error"}, age : Nat,
                     packages : Catalogs \cup {<<>>}, read : Nat]
    BY <2>2
  <2>4. reading.step = "begun" /\ reading.result = "none"
    BY <2>2
  <2>5. syncs = 0 /\ MaxSyncs \in Nat
    BY ExploreAssumption DEF ExploreInit
  <2>6. QED
    BY <2>1, <2>3, <2>4, <2>5 DEF LoadInv
<1>3. SelectionIsShown /\ RowsInv /\ RowsAnswerTheText
  BY DEF ExploreInit, SelectionIsShown, RowsInv, RowsAnswerTheText
<1>4. ExploreTypeOK
  <2>1. <<>> \in Seq(Nat)
    OBVIOUS
  <2>2. "" \in Texts
    BY ExploreAssumption
  <2>3. QED
    BY <1>2, <2>1, <2>2 DEF ExploreInit, ExploreTypeOK, LoadInv
<1>5. QED
  BY <1>2, <1>3, <1>4 DEF ExploreInv, PageInv

LEMMA LoadStep == ExploreInv /\ [ExploreNext]_exploreVars => LoadInv'
<1> SUFFICES ASSUME ExploreInv, [ExploreNext]_exploreVars PROVE LoadInv'
  OBVIOUS
<1> USE DEF ExploreInv, LoadInv
<1>1. CASE UNCHANGED <<source, reading>>
  BY <1>1 DEF source
<1>2. CASE Reload \/ LoadFinished
  BY <1>2 DEF Reload, LoadFinished, Idle, source
<1>3. CASE Sync
  <2>1. reading' = reading /\ syncs' = syncs + 1 /\ syncs' \in 0..MaxSyncs
    <3>1. reading' = reading /\ syncs' = syncs + 1 /\ syncs < MaxSyncs
      BY <1>3 DEF Sync
    <3>2. MaxSyncs \in Nat /\ syncs \in 0..MaxSyncs
      BY ExploreAssumption
    <3>3. QED
      BY <3>1, <3>2
  <2>2. databases' \in [age : Nat, packages : Catalogs \cup {<<>>}] /\ databases'.age \in {0, syncs + 2}
    BY <1>3 DEF Sync
  <2>3. syncs \in Nat /\ reading.age \in Nat /\ databases'.age \in Nat
    BY <2>2
  <2>4. QED
    BY <2>1, <2>2, <2>3
<1>4. CASE ReadAge
  <2>1. databases' = databases /\ syncs' = syncs /\ databases.age \in Nat
    BY <1>4 DEF ReadAge, source
  <2>2. CASE reading' = [reading EXCEPT !.step = IF databases.age = 0 THEN "finished" ELSE "aged", !.age = databases.age]
    <3>1. reading'.result = reading.result /\ reading'.age = databases.age
      BY <2>2
    <3>3. reading' \in [step : {"idle", "begun", "aged", "finished"}, result : {"ok", "none", "error"}, age : Nat,
                        packages : Catalogs \cup {<<>>}, read : Nat]
      BY <2>1, <2>2
    <3>4. reading'.result = "none" /\ "none" # "ok"
      BY <1>4, <3>1 DEF ReadAge
    <3>5. databases'.age <= syncs' + 1 /\ syncs' \in 0..MaxSyncs
          /\ databases' \in [age : Nat, packages : Catalogs \cup {<<>>}]
      BY <2>1
    <3>6. reading'.age <= syncs' + 1 /\ reading'.age <= databases'.age
      BY <2>1, <3>1
    <3>7. QED
      BY <3>3, <3>4, <3>5, <3>6
  <2>3. CASE reading' = [reading EXCEPT !.step = "finished", !.result = "error"]
    BY <2>1, <2>3
  <2>4. QED
    BY <1>4, <2>2, <2>3 DEF ReadAge
<1>5. CASE ReadPackages
  <2>1. databases' = databases /\ syncs' = syncs /\ databases.age \in Nat /\ databases.packages \in Catalogs \cup {<<>>}
    BY <1>5 DEF ReadPackages, source
  <2>2. /\ reading'.step = "finished" /\ reading'.result \in {"ok", "error"}
        /\ reading' \in [step : {"idle", "begun", "aged", "finished"}, result : {"ok", "none", "error"}, age : Nat,
                         packages : Catalogs \cup {<<>>}, read : Nat]
    BY <1>5, <2>1 DEF ReadPackages
  <2>3. ASSUME reading'.result = "ok" PROVE reading'.age <= reading'.read
    <3>1. reading.step = "aged" /\ reading.age \in Nat
      BY <1>5 DEF ReadPackages
    <3>2. reading'.age = reading.age /\ reading'.read = IF databases.age = 0 THEN reading.age ELSE databases.age
      BY <1>5, <2>3 DEF ReadPackages
    <3>3. QED
      BY <2>1, <3>1, <3>2
  <2>4. QED
    BY <2>1, <2>2, <2>3
<1>6. QED
  BY <1>1, <1>2, <1>3, <1>4, <1>5
     DEF ExploreNext, exploreVars, SetSearchText, SearchTimer, SetCurrentRow

\* What the user, the timer and a finished load may change.
LEMMA PageStep == ExploreInv /\ [ExploreNext]_exploreVars => Shows'
<1> SUFFICES ASSUME ExploreInv, [ExploreNext]_exploreVars PROVE Shows'
  OBVIOUS
<1>1. Shows /\ search_text_ \in Texts
  BY DEF ExploreInv, PageInv, ExploreTypeOK, Shows, PageTypes
<1>2. CASE UNCHANGED <<rows, selection, search_text_, search_timer_, data_as_of_>>
  BY <1>1, <1>2 DEF rows, selection, Shows, PageTypes, RowsInv, SelectionIsShown, RowsAnswerTheText
<1>3. CASE \E text \in Texts : SetSearchText(text)
  BY <1>1, <1>3 DEF SetSearchText, rows, selection, messages, Shows, PageTypes, RowsInv, SelectionIsShown, RowsAnswerTheText
<1>4. CASE SearchTimer
  <2>1. CASE index_ = None
    BY <1>1, <1>4, <2>1 DEF SearchTimer, rows, selection, messages, Shows, PageTypes, RowsInv, SelectionIsShown, RowsAnswerTheText
  <2>2. CASE index_ # None
    <3>1. RunQuery(index_, index_age) /\ search_text_' = search_text_ /\ data_as_of_' = data_as_of_
      BY <1>4, <2>2 DEF SearchTimer, messages
    <3>2. index_ \in Catalogs \cup {<<>>} /\ index_age \in Nat /\ data_as_of_ <= index_age
      BY <1>1, <2>2 DEF Shows, RowsInv, RowsAnswerTheText
    <3>3. QED
      BY <1>1, <3>1, <3>2, RunQueryShows
  <2>3. QED
    BY <2>1, <2>2
<1>5. CASE \E row \in -1..Len(results_) : SetCurrentRow(row)
  <2>1. PICK wanted \in -1..Len(results_) : SetCurrentRow(wanted)
    BY <1>5
  <2> DEFINE row == IF index_ # None /\ wanted \in 0..Len(results_) - 1 THEN wanted ELSE -1
  <2>2. /\ Select(index_, results_, row)
        /\ UNCHANGED <<rows, search_text_, search_timer_, data_as_of_>>
    BY <2>1 DEF SetCurrentRow, messages
  <2>3. row \in {-1} \cup (IF index_ = None THEN {} ELSE 0..Len(results_) - 1)
    OBVIOUS
  <2> HIDE DEF row
  <2>4. SelectionIsShown' /\ current_row_' \in Nat \cup {-1}
    BY <1>1, <2>2, <2>3, SelectShows DEF Shows, RowsInv, rows
  <2>5. QED
    BY <1>1, <2>2, <2>4 DEF rows, Shows, PageTypes, RowsInv, RowsAnswerTheText
<1>6. CASE Reload
  BY <1>1, <1>6 DEF Reload, selection, messages, Shows, PageTypes, RowsInv, SelectionIsShown, RowsAnswerTheText
<1>7. CASE LoadFinished
  <2>1. search_text_' = search_text_
    BY <1>7 DEF LoadFinished
  <2>2. CASE ApplyLoaded
    <3>1. CASE reading.result = "none"
      BY <1>1, <2>2, <3>1, ShowNothingShows DEF ApplyLoaded
    <3>2. CASE reading.result = "ok"
      <4>1. data_as_of_' = reading.age /\ RunQuery(reading.packages, reading.read)
        BY <2>2, <3>2 DEF ApplyLoaded
      <4>2. reading.packages \in Catalogs \cup {<<>>} /\ reading.read \in Nat /\ reading.age <= reading.read
        BY <3>2 DEF ExploreInv, LoadInv
      <4>3. QED
        BY <1>1, <2>1, <4>1, <4>2, RunQueryShows
    <3>3. QED
      BY <2>2, <3>1, <3>2 DEF ApplyLoaded
  <2>3. CASE ApplyFailure
    <3>1. CASE index_ # None
      BY <1>2, <2>1, <2>3, <3>1 DEF ApplyFailure
    <3>2. CASE index_ = None
      BY <1>1, <2>3, <3>2, ShowNothingShows DEF ApplyFailure
    <3>3. QED
      BY <3>1, <3>2
  <2>4. QED
    BY <1>7, <2>2, <2>3 DEF LoadFinished
<1>8. QED
  BY <1>2, <1>3, <1>4, <1>5, <1>6, <1>7
     DEF ExploreNext, exploreVars, messages, Sync, ReadAge, ReadPackages

LEMMA MessagesStep ==
  ASSUME ExploreInv, [ExploreNext]_exploreVars
  PROVE  /\ search_text_' \in Texts /\ data_as_of_' \in Nat
         /\ error_message_' \in BOOLEAN /\ reload_error_message_' \in BOOLEAN
<1>1. /\ search_text_ \in Texts /\ data_as_of_ \in Nat /\ reading.age \in Nat
      /\ error_message_ \in BOOLEAN /\ reload_error_message_ \in BOOLEAN
  BY DEF ExploreInv, PageInv, ExploreTypeOK, LoadInv
<1>2. CASE UNCHANGED <<messages, search_text_>>
  BY <1>1, <1>2 DEF messages
<1>3. CASE \E text \in Texts : SetSearchText(text)
  BY <1>1, <1>3 DEF SetSearchText, messages
<1>4. CASE LoadFinished
  <2>1. search_text_' = search_text_
    BY <1>4 DEF LoadFinished
  <2>2. data_as_of_' \in {data_as_of_, 0, reading.age}
    BY <1>4 DEF LoadFinished, ApplyLoaded, ApplyFailure, ShowNothing
  <2>3. error_message_' \in BOOLEAN /\ reload_error_message_' \in BOOLEAN
    BY <1>1, <1>4 DEF LoadFinished, ApplyLoaded, ApplyFailure
  <2>4. QED
    BY <1>1, <2>1, <2>2, <2>3
<1>5. QED
  BY <1>2, <1>3, <1>4
     DEF ExploreNext, exploreVars, SearchTimer, SetCurrentRow, Reload, Sync, ReadAge, ReadPackages

LEMMA ExploreStep == ExploreInv /\ [ExploreNext]_exploreVars => ExploreInv'
<1> SUFFICES ASSUME ExploreInv, [ExploreNext]_exploreVars PROVE ExploreInv'
  OBVIOUS
<1>1. LoadInv' /\ Shows'
  BY LoadStep, PageStep
<1>2. ExploreTypeOK'
  BY <1>1, MessagesStep DEF LoadInv, Shows, PageTypes, RowsInv, ExploreTypeOK
<1>3. QED
  BY <1>1, <1>2 DEF ExploreInv, PageInv, Shows

\* Every variable of ExploreModel and of its worker keeps its type.
THEOREM ExploreTypes == ExploreSpec => []ExploreTypeOK
<1>1. ExploreInv => ExploreTypeOK
  BY DEF ExploreInv, PageInv
<1>2. QED
  BY <1>1, ExploreInitInv, ExploreStep, PTL DEF ExploreSpec

\* The selected package is the one in the current row, through searches, reloads and failures
\* (setSelection, reconcileSelection).
THEOREM SelectionIsAlwaysShown == ExploreSpec => []SelectionIsShown
<1>1. ExploreInv => SelectionIsShown
  BY DEF ExploreInv, PageInv
<1>2. QED
  BY <1>1, ExploreInitInv, ExploreStep, PTL DEF ExploreSpec

\* The rows are the best hits, in order, of the query that is applied to the catalog that is loaded,
\* and only a running search timer excuses an older query (runQuery, searchPackages).
THEOREM RowsAlwaysAnswer == ExploreSpec => []RowsAnswerTheText
<1>1. ExploreInv => RowsAnswerTheText
  BY DEF ExploreInv, PageInv
<1>2. QED
  BY <1>1, ExploreInitInv, ExploreStep, PTL DEF ExploreSpec

-------------------------------------------------------------------------------
(* The Installed page: lists and rows *)

LEMMA ToPackageIsListed ==
  ASSUME NEW p \in LocalPackage, NEW offered
  PROVE  ToPackage(p, offered) \in ListedPackage /\ ToPackage(p, offered).name = p.name
<1> DEFINE having == {i \in DOMAIN RepositoryOrder : p.name \in offered[RepositoryOrder[i]]}
           repository == IF having = {} THEN "" ELSE RepositoryOrder[CHOOSE i \in having : \A j \in having : i <= j]
<1>1. ToPackage(p, offered) = [name |-> p.name, explicit |-> p.explicit, required |-> p.required, size |-> p.size,
                               repository |-> repository]
  BY DEF ToPackage
<1>2. RepositoryOrder \in Seq(STRING) /\ Len(RepositoryOrder) \in Nat /\ DOMAIN RepositoryOrder = 1..Len(RepositoryOrder)
  <2>1. RepositoryOrder \in Seq(STRING)
    BY InstalledAssumption
  <2>2. QED
    BY <2>1
<1>3. repository \in Repositories \cup {""}
  <2>1. CASE having = {}
    BY <2>1
  <2>2. CASE having # {}
    <3>1. IsFiniteSet(1..Len(RepositoryOrder))
      BY <1>2, FS_Interval
    <3>2. having \subseteq 1..Len(RepositoryOrder) /\ having \subseteq Int
      BY <1>2
    <3> DEFINE first == CHOOSE i \in having : \A j \in having : i <= j
    <3>3. \E i \in having : \A j \in having : i <= j
      <4> HIDE DEF having
      <4>1. IsFiniteSet(having)
        BY <3>1, <3>2, FS_Subset
      <4>2. QED
        BY <2>2, <3>2, <4>1, LeastMember
    <3>4. first \in having
      BY <3>3
    <3>5. RepositoryOrder[first] \in Repositories
      BY <1>2, <3>2, <3>4 DEF Repositories, ToSet
    <3>6. QED
      BY <2>2, <3>5
  <2>3. QED
    BY <2>1, <2>2
<1> HIDE DEF repository
<1>4. p.name \in Int /\ p.explicit \in BOOLEAN /\ p.required \in BOOLEAN /\ p.size \in Nat
  BY Zenon DEF LocalPackage
<1>5. ToPackage(p, offered) \in ListedPackage
  <2>1. ASSUME NEW n \in Int, NEW B, NEW e \in B, NEW r \in B, NEW s \in Nat, NEW from \in Repositories \cup {""}
        PROVE  [name |-> n, explicit |-> e, required |-> r, size |-> s, repository |-> from]
                 \in [name : Int, explicit : B, required : B, size : Nat, repository : Repositories \cup {""}]
    OBVIOUS
  <2>2. [name |-> p.name, explicit |-> p.explicit, required |-> p.required, size |-> p.size, repository |-> repository]
          \in [name : Int, explicit : BOOLEAN, required : BOOLEAN, size : Nat, repository : Repositories \cup {""}]
    BY <1>3, <1>4, <2>1, Zenon
  <2>3. QED
    BY <1>1, <2>2, Zenon DEF ListedPackage
<1>6. ToPackage(p, offered).name = p.name
  BY <1>1
<1>7. QED
  BY <1>5, <1>6

\* The use case returns every installed package once, by ascending name.
THEOREM EnumeratedIsSorted ==
  ASSUME NEW installed \in LocalDatabases, NEW offered
  PROVE  LET list == Enumerated(installed, offered) IN
         /\ list \in Seq(ListedPackage)
         /\ ToSet(list) = {ToPackage(p, offered) : p \in installed}
         /\ \A i, j \in DOMAIN list : i < j => list[i].name < list[j].name
<1> DEFINE listed == {ToPackage(p, offered) : p \in installed}
           R == {pair \in listed \X listed : pair[1].name < pair[2].name}
           list == Enumerated(installed, offered)
<1>1. IsFiniteSet(installed) /\ installed \subseteq LocalPackage
      /\ \A p, q \in installed : p.name = q.name => p = q
  BY InstalledAssumption
<1>2. IsFiniteSet(listed)
  <2> DEFINE f == [p \in installed |-> ToPackage(p, offered)]
  <2>1. f \in Surjection(installed, listed)
    BY DEF Surjection
  <2> HIDE DEF f, listed
  <2>2. QED
    BY <1>1, <2>1, FS_Surjection
<1>3. listed \subseteq ListedPackage /\ \A l, r \in listed : l.name = r.name => l = r
  BY <1>1, ToPackageIsListed
<1>4. \A l, r : <<l, r>> \in R <=> l \in listed /\ r \in listed /\ l.name < r.name
  OBVIOUS
<1>5. \A l \in listed : l.name \in Int
  BY <1>3 DEF ListedPackage
<1> HIDE DEF R, listed
<1>6. OrdersStrictly(R, listed)
  BY <1>3, <1>4, <1>5 DEF OrdersStrictly
<1>7. \E s \in SetToSeqs(listed) : Ascending(R, s)
  BY <1>2, <1>6, Sortable
<1>8. \E s \in SetToSeqs(listed) : \A i, j \in DOMAIN s : i < j => s[i].name < s[j].name
  BY <1>4, <1>7 DEF Ascending
<1>9. list \in SetToSeqs(listed) /\ \A i, j \in DOMAIN list : i < j => list[i].name < list[j].name
  BY <1>8 DEF Enumerated, listed
<1> HIDE DEF list
<1>10. list \in Seq(listed) /\ ToSet(list) = listed
  BY <1>2, <1>9, SeqsCover
<1>11. list \in Seq(ListedPackage)
  BY <1>3, <1>10
<1>12. QED
  BY <1>9, <1>10, <1>11 DEF list, listed

LEMMA RowsAreListed ==
  ASSUME NEW list \in Seq(ListedPackage), NEW row \in DOMAIN list
  PROVE  list[row] \in ListedPackage
OBVIOUS

LEMMA PositionsAreFinite ==
  ASSUME NEW list \in Seq(ListedPackage), NEW f
  PROVE  LET accepted == {row \in DOMAIN list : Accepts(list[row], f)} IN
         IsFiniteSet(accepted) /\ accepted \subseteq DOMAIN list
<1>1. IsFiniteSet(1..Len(list)) /\ DOMAIN list = 1..Len(list)
  BY FS_Interval
<1> DEFINE accepted == {row \in DOMAIN list : Accepts(list[row], f)}
<1>2. accepted \subseteq 1..Len(list)
  BY <1>1
<1> HIDE DEF accepted
<1>3. IsFiniteSet(accepted)
  BY <1>1, <1>2, FS_Subset
<1>4. QED
  BY <1>1, <1>2, <1>3 DEF accepted

\* The rows shown are all accepted ones, each once.
LEMMA ArrangementsShowAll ==
  ASSUME NEW list \in Seq(ListedPackage), NEW f, NEW o, NEW shown \in Arrangements(list, f, o)
  PROVE  LET accepted == {row \in DOMAIN list : Accepts(list[row], f)} IN
         /\ shown \in Seq(DOMAIN list)
         /\ Len(shown) = Cardinality(accepted) /\ ToSet(shown) = accepted
<1> DEFINE accepted == {row \in DOMAIN list : Accepts(list[row], f)}
<1>1. shown \in SetToSeqs(accepted)
  BY DEF Arrangements, Positions
<1>2. IsFiniteSet(accepted) /\ accepted \subseteq DOMAIN list
  BY PositionsAreFinite
<1> HIDE DEF accepted
<1>3. shown \in Seq(accepted) /\ Len(shown) = Cardinality(accepted) /\ ToSet(shown) = accepted
  BY <1>1, <1>2, SeqsCover
<1>4. shown \in Seq(DOMAIN list)
  BY <1>2, <1>3
<1>5. QED
  BY <1>3, <1>4 DEF accepted

\* The sum over no package: the recursion of the fold is not entered.
LEMMA EmptySizes == Sizes(<<>>, {}) = 0
<1> DEFINE none == [i \in DOMAIN <<>> |-> i]
           Body(f) == [s \in SUBSET (DOMAIN none) |->
                         IF s = {} THEN 0
                         ELSE LET x == Max(s) IN IF none[x] \in {} THEN f[s \ {x}] + <<>>[none[x]].size ELSE f[s \ {x}]]
           zero == [s \in SUBSET {} |-> 0]
<1>1. Sizes(<<>>, {}) = (CHOOSE f : f = Body(f))[{}]
  BY DEF Sizes, FoldLeftDomain, FoldLeft, MapThenFoldSet
<1>2. SUBSET (DOMAIN none) = SUBSET {}
  OBVIOUS
<1>3. \A f : Body(f) = zero
  BY <1>2
<1> HIDE DEF Body
<1>4. (CHOOSE f : f = Body(f)) = zero
  BY <1>3
<1>5. QED
  BY <1>1, <1>4

-------------------------------------------------------------------------------
(* The Installed page: the inductive invariant *)

\* The active row, its package and its name belong together.
ActiveTogether ==
  /\ active_row_ \in Nat \cup {-1}
  /\ active_row_ = -1 <=> shown_rows = <<>>
  /\ active_row_ = -1 => active_package_ = NoPackage /\ active_package_identity_ = NoPackage
  /\ active_row_ # -1 =>
       /\ active_row_ < Len(shown_rows)
       /\ active_package_ = packages_[shown_rows[active_row_ + 1]]
       /\ active_package_identity_ = active_package_.name

\* The rows are the accepted positions of the list, and the badges count that list.
ListInv ==
  /\ packages_ \in Seq(ListedPackage) /\ aggregates_ = Aggregates(packages_)
  /\ shown_rows \in Arrangements(packages_, filters, order)

EnumerationInv ==
  enumeration \in [step : {"idle", "begun", "connected", "finished"}, result : {"ok", "error"},
                   sync : SyncDatabases \cup {<<>>}, packages : Seq(ListedPackage)]

InstalledInv == InstalledTypeOK /\ EnumerationInv /\ ListInv /\ ActiveTogether

-------------------------------------------------------------------------------
(* The Installed page: the active package *)

LEMMA ListedIsSomebody ==
  ASSUME NEW p \in ListedPackage
  PROVE  p # NoPackage /\ p.name # NoPackage
<1>1. p.name \in Int
  BY DEF ListedPackage
<1>2. QED
  BY <1>1, InstalledAssumption

\* The row of the package with that name if it is shown, else the first row if there is one.
LEMMA RowOfIsShown ==
  ASSUME NEW list, NEW shown \in Seq(DOMAIN list), NEW name
  PROVE  /\ shown = <<>> => RowOf(list, shown, name) = -1
         /\ shown # <<>> => RowOf(list, shown, name) \in 0..Len(shown) - 1
         /\ IF name # NoPackage /\ IsShown(name, list, shown)
            THEN shown # <<>> /\ list[shown[RowOf(list, shown, name) + 1]].name = name
            ELSE RowOf(list, shown, name) = (IF shown = <<>> THEN -1 ELSE 0)
<1> DEFINE same  == {row \in DOMAIN shown : list[shown[row]].name = name}
           first == CHOOSE row \in same : \A r \in same : row <= r
<1>1. Len(shown) \in Nat /\ DOMAIN shown = 1..Len(shown) /\ (shown = <<>> <=> Len(shown) = 0)
  OBVIOUS
<1>2. RowOf(list, shown, name) = IF name # NoPackage /\ same # {} THEN first - 1
                                ELSE IF shown # <<>> THEN 0 ELSE -1
  BY DEF RowOf
<1>3. same # {} <=> IsShown(name, list, shown)
  BY DEF IsShown
<1>4. ASSUME same # {} PROVE first \in 1..Len(shown) /\ list[shown[first]].name = name
  <2>1. IsFiniteSet(1..Len(shown)) /\ same \subseteq 1..Len(shown)
    BY <1>1, FS_Interval
  <2>2. \E row \in same : \A r \in same : row <= r
    <3> HIDE DEF same
    <3>1. IsFiniteSet(same)
      BY <2>1, FS_Subset
    <3>2. same \subseteq Int
      BY <2>1
    <3>3. QED
      BY <1>4, <3>1, <3>2, LeastMember
  <2>3. first \in same
    BY <2>2
  <2>4. QED
    BY <2>1, <2>3
<1> HIDE DEF same, first
<1>5. CASE name # NoPackage /\ same # {}
  BY <1>1, <1>2, <1>3, <1>4, <1>5
<1>6. CASE ~(name # NoPackage /\ same # {})
  BY <1>1, <1>2, <1>3, <1>6
<1>7. QED
  BY <1>5, <1>6

LEMMA ActivateTogether ==
  ASSUME NEW list \in Seq(ListedPackage), NEW shown \in Seq(DOMAIN list), NEW row \in Int,
         shown = <<>> => row = -1, shown # <<>> => row \in 0..Len(shown) - 1,
         Activate(list, shown, row), packages_' = list, shown_rows' = shown
  PROVE  ActiveTogether' /\ active_row_' = row
<1>1. Len(shown) \in Nat /\ (shown = <<>> <=> Len(shown) = 0)
  OBVIOUS
<1>2. CASE shown = <<>>
  <2>1. row \notin 0..Len(shown) - 1 /\ row = -1
    BY <1>1, <1>2
  <2>2. active_row_' = -1 /\ active_package_' = NoPackage /\ active_package_identity_' = NoPackage
    BY <2>1 DEF Activate
  <2>3. QED
    BY <1>2, <2>1, <2>2 DEF ActiveTogether
<1>3. CASE shown # <<>>
  <2>1. row \in 0..Len(shown) - 1 /\ row \in Nat /\ row < Len(shown) /\ row # -1
    BY <1>1, <1>3
  <2>2. shown[row + 1] \in DOMAIN list
    BY <2>1
  <2>3. list[shown[row + 1]] \in ListedPackage
    BY <2>2
  <2>4. list[shown[row + 1]] # NoPackage
    BY <2>3, ListedIsSomebody
  <2>5. /\ active_row_' = row /\ active_package_' = list[shown[row + 1]]
        /\ active_package_identity_' = list[shown[row + 1]].name
    BY <2>1, <2>4 DEF Activate
  <2>6. QED
    BY <1>3, <2>1, <2>5 DEF ActiveTogether
<1>4. QED
  BY <1>2, <1>3

Stays(list, shown) ==
  IF active_package_identity_ # NoPackage /\ IsShown(active_package_identity_, list, shown)
  THEN active_package_identity_' = active_package_identity_
  ELSE active_row_' = (IF shown = <<>> THEN -1 ELSE 0)

LEMMA ShowStays ==
  ASSUME NEW list \in Seq(ListedPackage), NEW f, NEW o, Show(list, f, o), packages_' = list
  PROVE  shown_rows' \in Arrangements(list, f, o) /\ ActiveTogether' /\ Stays(list, shown_rows')
<1>1. PICK shown \in Arrangements(list, f, o) :
        /\ shown_rows' = shown
        /\ Activate(list, shown, RowOf(list, shown, active_package_identity_))
  BY DEF Show, ReconcileActive
<1> DEFINE row == RowOf(list, shown, active_package_identity_)
<1>2. shown \in Seq(DOMAIN list)
  BY ArrangementsShowAll
<1>3. /\ shown = <<>> => row = -1
      /\ shown # <<>> => row \in 0..Len(shown) - 1
      /\ IF active_package_identity_ # NoPackage /\ IsShown(active_package_identity_, list, shown)
         THEN shown # <<>> /\ list[shown[row + 1]].name = active_package_identity_
         ELSE row = (IF shown = <<>> THEN -1 ELSE 0)
  BY <1>2, RowOfIsShown
<1>4. row \in Int
  BY <1>2, <1>3
<1> HIDE DEF row
<1>5. ActiveTogether' /\ active_row_' = row
  BY <1>1, <1>2, <1>3, <1>4, ActivateTogether DEF row
<1>6. Stays(list, shown)
  <2>1. CASE active_package_identity_ # NoPackage /\ IsShown(active_package_identity_, list, shown)
    <3>1. shown # <<>> /\ list[shown[row + 1]].name = active_package_identity_ /\ row \in 0..Len(shown) - 1
      BY <1>3, <2>1
    <3>2. row # -1
      BY <1>2, <3>1
    <3>3. active_package_identity_' = list[shown[row + 1]].name
      BY <1>1, <1>5, <3>2 DEF ActiveTogether
    <3>4. QED
      BY <2>1, <3>1, <3>3 DEF Stays
  <2>2. CASE ~(active_package_identity_ # NoPackage /\ IsShown(active_package_identity_, list, shown))
    BY <1>3, <1>5, <2>2 DEF Stays
  <2>3. QED
    BY <2>1, <2>2
<1>7. QED
  BY <1>1, <1>5, <1>6

-------------------------------------------------------------------------------
(* The Installed page: the steps *)

LEMMA AggregatesOfNothing == Aggregates(<<>>) = Nobody
<1>1. Cardinality({}) = 0
  BY FS_EmptySet
<1>2. DOMAIN <<>> = {} /\ \A P : {row \in {} : P} = {}
  OBVIOUS
<1>3. /\ Positions(<<>>, LAMBDA p : p.explicit) = {} /\ Positions(<<>>, LAMBDA p : ~p.explicit) = {}
      /\ Positions(<<>>, IsForeign) = {} /\ Positions(<<>>, IsOrphan) = {}
  BY DEF Positions
<1>4. QED
  BY <1>1, <1>2, <1>3, EmptySizes DEF Aggregates, Nobody

LEMMA InstalledInitInv == InstalledInit => InstalledInv
<1> SUFFICES ASSUME InstalledInit PROVE InstalledInv
  OBVIOUS
<1>1. <<>> \in Seq(ListedPackage)
  OBVIOUS
<1>2. enumeration = [step |-> "begun", result |-> "error", sync |-> <<>>, packages |-> <<>>]
  BY DEF InstalledInit, NotEnumerating
<1>3. EnumerationInv
  BY <1>1, <1>2 DEF EnumerationInv
<1>4. shown_rows \in Arrangements(packages_, filters, order)
  <2>1. Positions(<<>>, LAMBDA p : Accepts(p, filters)) = {}
    BY DEF Positions
  <2>2. <<>> \in SetToSeqs({}) /\ InOrder(<<>>, <<>>, order)
    BY FS_EmptySet DEF SetToSeqs, InOrder
  <2>3. packages_ = <<>> /\ shown_rows = <<>>
    BY DEF InstalledInit
  <2>4. QED
    BY <2>1, <2>2, <2>3 DEF Arrangements
<1>5. ListInv
  BY <1>1, <1>4, AggregatesOfNothing DEF InstalledInit, ListInv
<1>6. ActiveTogether
  BY DEF InstalledInit, ActiveTogether
<1>7. InstalledTypeOK
  <2>1. "" \in SearchTexts
    BY InstalledAssumption
  <2>2. filters \in [tab : Tabs, text : SearchTexts, repository : Repositories \cup {""}]
    BY <2>1 DEF InstalledInit, Tabs
  <2>3. order \in [field : {"Name", "Size"}, descending : BOOLEAN]
    BY DEF InstalledInit
  <2>4. /\ local \in LocalDatabases /\ sync \in SyncDatabases /\ status_ = "Loading"
        /\ active_row_ = -1
    BY DEF InstalledInit
  <2>5. installs \in 0..MaxInstalls
    <3>1. installs = 0
      BY DEF InstalledInit
    <3>2. MaxInstalls \in Nat
      BY InstalledAssumption
    <3>3. QED
      BY <3>1, <3>2
  <2>6. enumeration.step = "begun" /\ enumeration.result = "error"
    BY <1>2
  <2>7. QED
    BY <2>2, <2>3, <2>4, <2>5, <2>6, Zenon DEF InstalledTypeOK
<1>8. QED
  BY <1>3, <1>5, <1>6, <1>7 DEF InstalledInv

\* The thread.
LEMMA EnumerationStep == InstalledInv /\ [InstalledNext]_installedVars => EnumerationInv'
<1> SUFFICES ASSUME InstalledInv, [InstalledNext]_installedVars PROVE EnumerationInv'
  OBVIOUS
<1>1. /\ enumeration.result \in {"ok", "error"} /\ enumeration.sync \in SyncDatabases \cup {<<>>}
      /\ enumeration.packages \in Seq(ListedPackage) /\ local \in LocalDatabases /\ sync \in SyncDatabases
      /\ enumeration = [step |-> enumeration.step, result |-> enumeration.result, sync |-> enumeration.sync,
                        packages |-> enumeration.packages]
  BY DEF InstalledInv, EnumerationInv, InstalledTypeOK
<1>2. CASE UNCHANGED enumeration
  BY <1>2 DEF InstalledInv, EnumerationInv
<1>3. CASE Refresh \/ EnumerationFinished
  <2>1. <<>> \in Seq(ListedPackage)
    OBVIOUS
  <2>2. enumeration'.step \in {"idle", "begun"}
        /\ enumeration' = [step |-> enumeration'.step, result |-> "error", sync |-> <<>>, packages |-> <<>>]
    BY <1>3 DEF Refresh, EnumerationFinished, NotEnumerating
  <2>3. \A step \in {"idle", "begun"} :
          [step |-> step, result |-> "error", sync |-> <<>>, packages |-> <<>>]
            \in [step : {"idle", "begun", "connected", "finished"}, result : {"ok", "error"},
                 sync : SyncDatabases \cup {<<>>}, packages : Seq(ListedPackage)]
    BY <2>1
  <2>4. QED
    BY <2>2, <2>3 DEF EnumerationInv
<1>4. CASE Connect
  BY <1>1, <1>4 DEF Connect, EnumerationInv
<1>5. CASE ReadLocal
  <2>1. Enumerated(local, enumeration.sync) \in Seq(ListedPackage)
    BY <1>1, EnumeratedIsSorted
  <2>2. QED
    BY <1>1, <1>5, <2>1 DEF ReadLocal, EnumerationInv
<1>6. QED
  BY <1>2, <1>3, <1>4, <1>5
     DEF InstalledNext, installedVars, Pacman, SetTabFilter, SetSearchTextFilter, SetRepositoryFilter, ChangeFilter,
         SetOrder, SetActiveRow

\* A step that shows a list, under a filter and in an order.
ShowsList(list) ==
  /\ packages_' = list /\ list \in Seq(ListedPackage) /\ aggregates_' = Aggregates(list)
  /\ Show(list, filters', order')

LEMMA ShowingSteps ==
  ASSUME InstalledInv, [InstalledNext]_installedVars
  PROVE  \/ ShowsList(packages_) \/ ShowsList(enumeration.packages)
         \/ SetActiveRow
         \/ UNCHANGED <<packages_, aggregates_, shown_rows, filters, order, active>>
<1>1. packages_ \in Seq(ListedPackage) /\ enumeration.packages \in Seq(ListedPackage) /\ aggregates_ = Aggregates(packages_)
  BY DEF InstalledInv, ListInv, EnumerationInv
<1>2. CASE EnumerationFinished
  BY <1>1, <1>2 DEF EnumerationFinished, ShowsList
<1>3. ASSUME NEW f, ChangeFilter(f) PROVE ShowsList(packages_)
  BY <1>1, <1>3 DEF ChangeFilter, ShowsList, packages
<1>4. CASE SetOrder
  BY <1>1, <1>4 DEF SetOrder, ShowsList, packages
<1>5. QED
  BY <1>2, <1>3, <1>4
     DEF InstalledNext, installedVars, packages, Pacman, Refresh, Connect, ReadLocal,
         SetTabFilter, SetSearchTextFilter, SetRepositoryFilter

LEMMA ListStep == InstalledInv /\ [InstalledNext]_installedVars => ListInv' /\ ActiveTogether'
<1> SUFFICES ASSUME InstalledInv, [InstalledNext]_installedVars PROVE ListInv' /\ ActiveTogether'
  OBVIOUS
<1>1. ASSUME NEW list, ShowsList(list) PROVE ListInv' /\ ActiveTogether'
  BY <1>1, ShowStays DEF ShowsList, ListInv
<1>2. CASE SetActiveRow
  <2>1. PICK row \in -1..Len(shown_rows) - 1 :
          (row = -1 => shown_rows = <<>>) /\ Activate(packages_, shown_rows, row)
    BY <1>2 DEF SetActiveRow
  <2>2. UNCHANGED <<packages_, aggregates_, shown_rows, filters, order>>
    BY <1>2 DEF SetActiveRow, packages
  <2>3. shown_rows \in Seq(DOMAIN packages_) /\ packages_ \in Seq(ListedPackage)
    BY ArrangementsShowAll DEF InstalledInv, ListInv
  <2>4. Len(shown_rows) \in Nat /\ (shown_rows = <<>> <=> Len(shown_rows) = 0)
    BY <2>3
  <2>5. row \in Int /\ (shown_rows = <<>> => row = -1) /\ (shown_rows # <<>> => row \in 0..Len(shown_rows) - 1)
    BY <2>1, <2>4
  <2>6. ActiveTogether'
    BY <2>1, <2>2, <2>3, <2>5, ActivateTogether
  <2>7. ListInv'
    BY <2>2 DEF InstalledInv, ListInv
  <2>8. QED
    BY <2>6, <2>7
<1>3. CASE UNCHANGED <<packages_, aggregates_, shown_rows, filters, order, active>>
  BY <1>3 DEF InstalledInv, ListInv, ActiveTogether, active
<1>4. QED
  BY <1>1, <1>2, <1>3, ShowingSteps

LEMMA InstalledTypeStep == InstalledInv /\ [InstalledNext]_installedVars => InstalledTypeOK'
<1> SUFFICES ASSUME InstalledInv, [InstalledNext]_installedVars PROVE InstalledTypeOK'
  OBVIOUS
<1>1. /\ local \in LocalDatabases /\ sync \in SyncDatabases
      /\ status_ \in {"Loading", "Loaded", "Error"}
      /\ filters \in [tab : Tabs, text : SearchTexts, repository : Repositories \cup {""}]
      /\ order \in [field : {"Name", "Size"}, descending : BOOLEAN]
  BY DEF InstalledInv, InstalledTypeOK
<1>2. local' \in LocalDatabases /\ sync' \in SyncDatabases
  BY <1>1 DEF InstalledNext, installedVars, system, Pacman, Refresh, Connect, ReadLocal, EnumerationFinished,
              SetTabFilter, SetSearchTextFilter, SetRepositoryFilter, ChangeFilter, SetOrder, SetActiveRow
<1>3. installs' \in 0..MaxInstalls
  <2>1. installs \in 0..MaxInstalls
    BY DEF InstalledInv, InstalledTypeOK
  <2>2. MaxInstalls \in Nat
    BY InstalledAssumption
  <2>3. installs' = installs \/ (installs < MaxInstalls /\ installs' = installs + 1)
    BY DEF InstalledNext, installedVars, system, Pacman, Refresh, Connect, ReadLocal, EnumerationFinished,
           SetTabFilter, SetSearchTextFilter, SetRepositoryFilter, ChangeFilter, SetOrder, SetActiveRow
  <2>4. QED
    BY <2>1, <2>2, <2>3
<1>4. status_' \in {"Loading", "Loaded", "Error"}
  BY <1>1 DEF InstalledNext, installedVars, packages, Pacman, Refresh, Connect, ReadLocal, EnumerationFinished,
              SetTabFilter, SetSearchTextFilter, SetRepositoryFilter, ChangeFilter, SetOrder, SetActiveRow
<1>5. order' \in [field : {"Name", "Size"}, descending : BOOLEAN]
  BY <1>1 DEF InstalledNext, installedVars, Pacman, Refresh, Connect, ReadLocal, EnumerationFinished,
              SetTabFilter, SetSearchTextFilter, SetRepositoryFilter, ChangeFilter, SetOrder, SetActiveRow
<1>6. filters' \in [tab : Tabs, text : SearchTexts, repository : Repositories \cup {""}]
  <2>1. CASE SetTabFilter
    BY <1>1, <2>1 DEF SetTabFilter, ChangeFilter
  <2>2. CASE SetSearchTextFilter
    BY <1>1, <2>2 DEF SetSearchTextFilter, ChangeFilter
  <2>3. CASE SetRepositoryFilter
    <3>1. PICK r \in AvailableRepositories \cup {""} : filters' = [filters EXCEPT !.repository = r]
      BY <2>3 DEF SetRepositoryFilter, ChangeFilter
    <3>2. AvailableRepositories \subseteq Repositories \cup {""}
      <4>1. \A row \in DOMAIN packages_ : packages_[row] \in ListedPackage
        BY RowsAreListed DEF InstalledInv, ListInv
      <4>2. \A p \in ListedPackage : p.repository \in Repositories \cup {""}
        BY DEF ListedPackage
      <4>3. QED
        BY <4>1, <4>2 DEF AvailableRepositories
    <3>3. QED
      BY <1>1, <3>1, <3>2
  <2>4. QED
    BY <1>1, <2>1, <2>2, <2>3
       DEF InstalledNext, installedVars, Pacman, Refresh, Connect, ReadLocal, EnumerationFinished, SetOrder, SetActiveRow
<1>7. enumeration'.step \in {"idle", "begun", "connected", "finished"} /\ enumeration'.result \in {"ok", "error"}
  BY EnumerationStep DEF EnumerationInv
<1>8. active_row_' \in Nat \cup {-1}
  BY ListStep DEF ActiveTogether
<1>9. QED
  BY <1>2, <1>3, <1>4, <1>5, <1>6, <1>7, <1>8, Zenon DEF InstalledTypeOK

LEMMA InstalledStep == InstalledInv /\ [InstalledNext]_installedVars => InstalledInv'
BY InstalledTypeStep, EnumerationStep, ListStep DEF InstalledInv

\* Without further filters a tab shows the positions that its badge counts.
LEMMA BadgesCountTheRows ==
  ASSUME InstalledInv, filters.text = "", filters.repository = ""
  PROVE  /\ filters.tab = "Explicit"     => aggregates_.explicit = Len(shown_rows)
         /\ filters.tab = "Dependencies" => aggregates_.dependency = Len(shown_rows)
         /\ filters.tab = "Foreign"      => aggregates_.foreign = Len(shown_rows)
         /\ filters.tab = "Orphans"      => aggregates_.orphan = Len(shown_rows)
                                            /\ aggregates_.reclaimable = Sizes(packages_, ToSet(shown_rows))
<1> DEFINE accepted == {row \in DOMAIN packages_ : Accepts(packages_[row], filters)}
<1>1. Len(shown_rows) = Cardinality(accepted) /\ ToSet(shown_rows) = accepted
  BY ArrangementsShowAll DEF InstalledInv, ListInv
<1>2. accepted = {row \in DOMAIN packages_ : InTab(packages_[row], filters.tab)}
  BY DEF Accepts
<1>3. aggregates_ = Aggregates(packages_)
  BY DEF InstalledInv, ListInv
<1>4. CASE filters.tab = "Explicit"
  <2>1. accepted = Positions(packages_, LAMBDA p : p.explicit)
    BY <1>2, <1>4 DEF InTab, Positions
  <2>2. QED
    BY <1>1, <1>3, <1>4, <2>1 DEF Aggregates
<1>5. CASE filters.tab = "Dependencies"
  <2>1. accepted = Positions(packages_, LAMBDA p : ~p.explicit)
    BY <1>2, <1>5 DEF InTab, Positions
  <2>2. QED
    BY <1>1, <1>3, <1>5, <2>1 DEF Aggregates
<1>6. CASE filters.tab = "Foreign"
  <2>1. accepted = Positions(packages_, IsForeign)
    BY <1>2, <1>6 DEF InTab, Positions
  <2>2. QED
    BY <1>1, <1>3, <1>6, <2>1 DEF Aggregates
<1>7. CASE filters.tab = "Orphans"
  <2>1. accepted = Positions(packages_, IsOrphan)
    BY <1>2, <1>7 DEF InTab, Positions
  <2>2. QED
    BY <1>1, <1>3, <1>7, <2>1 DEF Aggregates
<1>8. QED
  BY <1>4, <1>5, <1>6, <1>7

\* Every variable of the model and of its filter keeps its type.
THEOREM InstalledTypes == InstalledSpec => []InstalledTypeOK
<1>1. InstalledInv => InstalledTypeOK
  BY DEF InstalledInv
<1>2. QED
  BY <1>1, InstalledInitInv, InstalledStep, PTL DEF InstalledSpec

\* The active row and the active package belong together, whatever is filtered, sorted and refreshed
\* (setCurrentRow, reconcileCurrentRow), and the badges count what their tabs show.
THEOREM ActiveIsAlwaysShown == InstalledSpec => []ActiveIsShown
<1>1. InstalledInv => ActiveIsShown
  BY BadgesCountTheRows DEF InstalledInv, ActiveTogether, ActiveIsShown
<1>2. QED
  BY <1>1, InstalledInitInv, InstalledStep, PTL DEF InstalledSpec

\* A package that is still shown stays active when rows move or are reloaded (reconcileCurrentRow).
THEOREM ActivePackageStays == InstalledSpec => ActiveStays
<1> DEFINE Stay == <<packages_, shown_rows>>' # <<packages_, shown_rows>> => Stays(packages_', shown_rows')
<1>1. InstalledInv /\ [InstalledNext]_installedVars => [Stay]_installedVars
  <2> SUFFICES ASSUME InstalledInv, [InstalledNext]_installedVars PROVE Stay
    OBVIOUS
  <2>1. ASSUME NEW list, ShowsList(list) PROVE Stay
    BY <2>1, ShowStays DEF ShowsList
  <2>2. CASE SetActiveRow
    BY <2>2 DEF SetActiveRow, packages
  <2>3. QED
    BY <2>1, <2>2, ShowingSteps
<1>2. [][Stay]_installedVars => ActiveStays
  BY PTL DEF ActiveStays, Stays
<1>3. QED
  BY <1>1, <1>2, InstalledInitInv, InstalledStep, PTL DEF InstalledSpec

-------------------------------------------------------------------------------
(* The client of the check service, for any number of checks, starts and calls, and queues of any
   length.  What the queues hold is described by their last message of certain kinds: it decides
   what the client and the bus arrive at, whatever came before it. *)

Kinds == {"appeared", "gone", "properties", "reply", "completed", "answer", "error"}
Saying == [checking : BOOLEAN, time : Nat, fetched : Nat]
Messages == [kind : Kinds, id : Nat, says : Saying]
Requests == [kind : {"match", "unmatch", "getall", "check"}, id : Nat]

Presence == {"appeared", "gone"}
Sayings == {"properties", "reply"}
Matching == {"match", "unmatch"}

\* No message of the queue is of these kinds; the last one that is of these kinds is in a set.
Free(queue, kinds) == \A i \in DOMAIN queue : queue[i].kind \notin kinds
LastIs(queue, allowed, kinds) ==
  \E i \in DOMAIN queue : /\ queue[i] \in allowed
                          /\ \A j \in DOMAIN queue : j > i => queue[j].kind \notin kinds

\* The messages of the queue name no later snapshot.
Named(queue, bound) == \A i \in DOMAIN queue : queue[i].says.fetched <= bound

ClientTypes ==
  /\ ClientTypeOK
  /\ toClient \in Seq(Messages) /\ toBus \in Seq(Requests)

\* The times of snapshots: what a message or a property names is on disk.
Times ==
  /\ stored.fetched <= begun /\ service.fetched <= stored.fetched
  /\ worker = "saved" => stored.fetched = begun
  /\ Named(toClient, stored.fetched)
  /\ client_status_.fetched <= snapshot_read /\ snapshot_read <= stored.fetched

Words(kind) == {m \in Messages : m.kind = kind}
RequestsOf(kind) == {r \in Requests : r.kind = kind}
Reports(s) == {m \in Messages : m.kind \in Sayings /\ m.says = Properties(s)}

\* Without a service: the client is going to hear of its end, or has and withdraws its match rules.
Forgets(q, r, m, c) ==
  \/ LastIs(q, Words("gone"), Presence \cup Sayings)
  \/ /\ Free(q, Presence \cup Sayings) /\ ~c.reachable /\ ~c.checking
     /\ LastIs(r, RequestsOf("unmatch"), Matching) \/ (Free(r, Matching) /\ ~m)

\* The client asks for the properties, and has or is going to have the signals.
Asks(r, m) ==
  /\ LastIs(r, RequestsOf("getall"), Matching \cup {"getall"})
  /\ LastIs(r, RequestsOf("match"), Matching) \/ (m /\ Free(r, Matching))

\* What it was told last is what the service says.
IsTold(q, c, s) == LastIs(q, Reports(s), Sayings) \/ (Free(q, Sayings) /\ Properties(c) = Properties(s))

\* With a service: the client is going to hear of it, or asks, or is told.
Knows(q, r, m, c, s) ==
  \/ LastIs(q, Words("appeared"), Presence)
  \/ /\ Free(q, Presence) /\ c.reachable
     /\ Asks(r, m) \/ (m /\ Free(r, Matching \cup {"getall"}) /\ IsTold(q, c, s))

Bus ==
  /\ ~service.up => service = Down /\ worker = "none" /\ Forgets(toClient, toBus, matched, client_status_)
  /\ service.up => Knows(toClient, toBus, matched, client_status_, service)

ClientInv == ClientTypes /\ Times /\ Bus

-------------------------------------------------------------------------------
(* Queues *)

LEMMA FreeAppend ==
  ASSUME NEW S, NEW q \in Seq(S), NEW x \in S, NEW K, Free(q, K), x.kind \notin K
  PROVE  Free(Append(q, x), K)
BY DEF Free

LEMMA LastIsKept ==
  ASSUME NEW S, NEW q \in Seq(S), NEW x \in S, NEW M, NEW K, LastIs(q, M, K), x.kind \notin K
  PROVE  LastIs(Append(q, x), M, K)
<1> PICK i \in DOMAIN q : q[i] \in M /\ \A j \in DOMAIN q : j > i => q[j].kind \notin K
  BY DEF LastIs
<1>1. i \in DOMAIN Append(q, x) /\ Append(q, x)[i] \in M
  OBVIOUS
<1>2. \A j \in DOMAIN Append(q, x) : j > i => Append(q, x)[j].kind \notin K
  OBVIOUS
<1>3. QED
  BY <1>1, <1>2 DEF LastIs

LEMMA LastIsNew ==
  ASSUME NEW S, NEW q \in Seq(S), NEW x \in S, NEW M, NEW K, x \in M
  PROVE  LastIs(Append(q, x), M, K)
<1>1. Len(q) + 1 \in DOMAIN Append(q, x) /\ Append(q, x)[Len(q) + 1] = x
  OBVIOUS
<1>2. \A j \in DOMAIN Append(q, x) : ~(j > Len(q) + 1)
  OBVIOUS
<1>3. QED
  BY <1>1, <1>2 DEF LastIs

LEMMA HeadAndTail ==
  ASSUME NEW S, NEW q \in Seq(S), q # <<>>
  PROVE  /\ Head(q) \in S /\ Tail(q) \in Seq(S) /\ 1 \in DOMAIN q /\ Head(q) = q[1]
         /\ \A i \in DOMAIN Tail(q) : i + 1 \in DOMAIN q /\ Tail(q)[i] = q[i + 1] /\ i \in Nat
         /\ \A i \in DOMAIN q : i # 1 => i - 1 \in DOMAIN Tail(q) /\ i \in Nat
OBVIOUS

LEMMA FreeTail ==
  ASSUME NEW S, NEW q \in Seq(S), q # <<>>, NEW K, Free(q, K)
  PROVE  Free(Tail(q), K) /\ Head(q).kind \notin K
BY HeadAndTail DEF Free

\* The head is the last one of its kinds, or has a later one behind it.
LEMMA LastIsTail ==
  ASSUME NEW S, NEW q \in Seq(S), q # <<>>, NEW M, NEW K, LastIs(q, M, K)
  PROVE  LastIs(Tail(q), M, K) \/ (Head(q) \in M /\ Free(Tail(q), K))
<1> PICK i \in DOMAIN q : q[i] \in M /\ \A j \in DOMAIN q : j > i => q[j].kind \notin K
  BY DEF LastIs
<1>1. \A j \in DOMAIN Tail(q) : j + 1 \in DOMAIN q /\ Tail(q)[j] = q[j + 1] /\ j \in Nat /\ j >= 1
  OBVIOUS
<1>2. CASE i = 1
  <2>1. \A j \in DOMAIN Tail(q) : Tail(q)[j].kind \notin K
    BY <1>1, <1>2
  <2>2. QED
    BY <1>2, <2>1 DEF Free
<1>3. CASE i # 1
  <2> DEFINE k == i - 1
  <2>1. k \in DOMAIN Tail(q) /\ Tail(q)[k] = q[i] /\ i \in Nat
    BY <1>3
  <2>2. \A j \in DOMAIN Tail(q) : j > k => Tail(q)[j].kind \notin K
    BY <1>1, <2>1
  <2> HIDE DEF k
  <2>3. Tail(q)[k] \in M
    BY <2>1
  <2>4. QED
    BY <2>1, <2>2, <2>3 DEF LastIs
<1>4. QED
  BY <1>2, <1>3

LEMMA LastIsNotFree ==
  ASSUME NEW q, NEW M, NEW K, LastIs(q, M, K), \A m \in M : m.kind \in K
  PROVE  ~Free(q, K)
BY DEF LastIs, Free

LEMMA FreeSmaller ==
  ASSUME NEW q, NEW K, NEW L \in SUBSET K, Free(q, K)
  PROVE  Free(q, L)
BY DEF Free

LEMMA Appends ==
  ASSUME NEW S, NEW q \in Seq(S), NEW x \in S, NEW y \in S
  PROVE  /\ q \o <<>> = q
         /\ Append(q, x) \in Seq(S) /\ q \o <<x>> = Append(q, x)
         /\ Append(Append(q, x), y) \in Seq(S) /\ q \o <<x, y>> = Append(Append(q, x), y)
OBVIOUS

LEMMA NamedAppend ==
  ASSUME NEW q \in Seq(Messages), NEW bound, Named(q, bound), NEW x \in Messages, x.says.fetched <= bound
  PROVE  Named(Append(q, x), bound)
BY DEF Named

LEMMA NamedTail ==
  ASSUME NEW q \in Seq(Messages), q # <<>>, NEW bound, Named(q, bound)
  PROVE  Named(Tail(q), bound) /\ Head(q).says.fetched <= bound
BY HeadAndTail DEF Named

LEMMA NamedMore ==
  ASSUME NEW q \in Seq(Messages), NEW bound \in Nat, NEW more \in Nat, bound <= more, Named(q, bound)
  PROVE  Named(q, more)
<1> SUFFICES ASSUME NEW i \in DOMAIN q PROVE q[i].says.fetched <= more
  BY DEF Named
<1>1. q[i] \in Messages /\ q[i].says.fetched <= bound
  BY DEF Named
<1>2. q[i].says.fetched \in Nat
  BY <1>1 DEF Messages, Saying
<1>3. QED
  BY <1>1, <1>2

-------------------------------------------------------------------------------
(* What messages do to what the client knows *)

Quiet == {"completed", "answer", "error"}

LEMMA MarkKinds ==
  /\ \A k : \A m \in Words(k) : m.kind = k
  /\ \A k : \A r \in RequestsOf(k) : r.kind = k
  /\ \A s : \A m \in Reports(s) : m.kind \in Sayings
BY DEF Words, RequestsOf, Reports

LEMMA ForgetsQuiet ==
  ASSUME NEW q \in Seq(Messages), NEW r, NEW m, NEW c, Forgets(q, r, m, c), NEW x \in Messages, x.kind \in Quiet
  PROVE  Forgets(Append(q, x), r, m, c)
<1>1. x.kind \notin Presence \cup Sayings
  BY DEF Quiet, Presence, Sayings
<1>2. QED
  BY <1>1, LastIsKept, FreeAppend DEF Forgets

LEMMA ForgetsCheck ==
  ASSUME NEW q, NEW r \in Seq(Requests), NEW m, NEW c, Forgets(q, r, m, c),
         NEW x \in Requests, x.kind \in {"check", "getall"}
  PROVE  Forgets(q, Append(r, x), m, c)
<1>1. x.kind \notin Matching
  BY DEF Matching
<1>2. QED
  BY <1>1, LastIsKept, FreeAppend DEF Forgets

LEMMA ForgetsBus ==
  ASSUME NEW q, NEW r \in Seq(Requests), r # <<>>, NEW m, NEW n, NEW c, Forgets(q, r, m, c),
         \/ Head(r).kind \in {"check", "getall"} /\ n = m
         \/ Head(r).kind = "match" /\ n = TRUE
         \/ Head(r).kind = "unmatch" /\ n = FALSE
  PROVE  Forgets(q, Tail(r), n, c)
<1> SUFFICES ASSUME LastIs(r, RequestsOf("unmatch"), Matching) \/ (Free(r, Matching) /\ ~m)
             PROVE  LastIs(Tail(r), RequestsOf("unmatch"), Matching) \/ (Free(Tail(r), Matching) /\ ~n)
  BY Zenon DEF Forgets
<1>1. CASE LastIs(r, RequestsOf("unmatch"), Matching)
  <2>1. LastIs(Tail(r), RequestsOf("unmatch"), Matching) \/ (Head(r) \in RequestsOf("unmatch") /\ Free(Tail(r), Matching))
    BY <1>1, LastIsTail
  <2>2. CASE Head(r) \in RequestsOf("unmatch") /\ Free(Tail(r), Matching)
    <3>1. n = FALSE
      BY <2>2, MarkKinds
    <3>2. QED
      BY <2>2, <3>1
  <2>3. QED
    BY <2>1, <2>2
<1>2. CASE Free(r, Matching) /\ ~m
  <2>1. Free(Tail(r), Matching) /\ Head(r).kind \notin Matching
    BY <1>2, FreeTail
  <2>2. n = m
    BY <2>1 DEF Matching
  <2>3. QED
    BY <1>2, <2>1, <2>2
<1>3. QED
  BY <1>1, <1>2

LEMMA ForgetsClient ==
  ASSUME NEW q \in Seq(Messages), q # <<>>, NEW r \in Seq(Requests), NEW t \in Seq(Requests), NEW m, NEW c, NEW d,
         Forgets(q, r, m, c),
         \/ Head(q).kind \in Quiet /\ t = r /\ d = c
         \/ Head(q).kind \in Sayings \cup {"appeared"}
         \/ Head(q).kind = "gone" /\ t = Append(r, Request("unmatch", 0)) /\ ~d.reachable /\ ~d.checking
  PROVE  Forgets(Tail(q), t, m, d)
<1>1. CASE LastIs(q, Words("gone"), Presence \cup Sayings)
  <2>1. \/ LastIs(Tail(q), Words("gone"), Presence \cup Sayings)
        \/ Head(q).kind = "gone" /\ Free(Tail(q), Presence \cup Sayings)
    BY <1>1, LastIsTail, MarkKinds
  <2>2. Request("unmatch", 0) \in RequestsOf("unmatch") /\ Request("unmatch", 0) \in Requests
    BY DEF Request, RequestsOf, Requests
  <2>3. LastIs(Append(r, Request("unmatch", 0)), RequestsOf("unmatch"), Matching)
    BY <2>2, LastIsNew
  <2>4. CASE LastIs(Tail(q), Words("gone"), Presence \cup Sayings)
    BY <2>4 DEF Forgets
  <2>5. CASE Head(q).kind = "gone" /\ Free(Tail(q), Presence \cup Sayings)
    <3>1. t = Append(r, Request("unmatch", 0)) /\ ~d.reachable /\ ~d.checking
      BY <2>5 DEF Quiet, Sayings
    <3>2. QED
      BY <2>3, <2>5, <3>1 DEF Forgets
  <2>6. QED
    BY <2>1, <2>4, <2>5
<1>2. CASE /\ Free(q, Presence \cup Sayings) /\ ~c.reachable /\ ~c.checking
           /\ LastIs(r, RequestsOf("unmatch"), Matching) \/ (Free(r, Matching) /\ ~m)
  <2>1. Free(Tail(q), Presence \cup Sayings) /\ Head(q).kind \notin Presence \cup Sayings
    BY <1>2, FreeTail
  <2>2. QED
    BY <1>2, <2>1 DEF Forgets, Presence
<1>3. QED
  BY <1>1, <1>2 DEF Forgets

LEMMA KnowsQuiet ==
  ASSUME NEW q \in Seq(Messages), NEW r, NEW m, NEW c, NEW s, Knows(q, r, m, c, s),
         NEW x \in Messages, x.kind \in Quiet
  PROVE  Knows(Append(q, x), r, m, c, s)
<1>1. x.kind \notin Presence /\ x.kind \notin Sayings
  BY DEF Quiet, Presence, Sayings
<1>2. LastIs(q, Words("appeared"), Presence) => LastIs(Append(q, x), Words("appeared"), Presence)
  BY <1>1, LastIsKept
<1>3. Free(q, Presence) => Free(Append(q, x), Presence)
  BY <1>1, FreeAppend
<1>4. IsTold(q, c, s) => IsTold(Append(q, x), c, s)
  BY <1>1, LastIsKept, FreeAppend DEF IsTold
<1>5. QED
  BY <1>2, <1>3, <1>4, Zenon DEF Knows

\* What the service says with its match set is what the client is told last.
LEMMA KnowsSaying ==
  ASSUME NEW q \in Seq(Messages), NEW r, NEW m \in BOOLEAN, NEW c, NEW s, NEW t, Knows(q, r, m, c, s),
         NEW x \in Messages, x.kind \in Sayings, x.says = Properties(t)
  PROVE  Knows(Append(q, x), r, m, c, t)
<1>1. x.kind \notin Presence /\ x \in Reports(t)
  BY DEF Presence, Sayings, Reports
<1>2. LastIs(q, Words("appeared"), Presence) => LastIs(Append(q, x), Words("appeared"), Presence)
  BY <1>1, LastIsKept
<1>3. Free(q, Presence) => Free(Append(q, x), Presence)
  BY <1>1, FreeAppend
<1>4. IsTold(Append(q, x), c, t)
  BY <1>1, LastIsNew DEF IsTold
<1>5. QED
  BY <1>2, <1>3, <1>4, Zenon DEF Knows

\* Without its match rules the client is still going to ask.
LEMMA KnowsUnwatched ==
  ASSUME NEW q, NEW r, NEW m, ~m, NEW c, NEW s, NEW t, Knows(q, r, m, c, s)
  PROVE  Knows(q, r, m, c, t)
BY Zenon DEF Knows

LEMMA KnowsCheck ==
  ASSUME NEW q, NEW r \in Seq(Requests), NEW m, NEW c, NEW s, Knows(q, r, m, c, s),
         NEW x \in Requests, x.kind = "check"
  PROVE  Knows(q, Append(r, x), m, c, s)
<1>1. x.kind \notin Matching \cup {"getall"} /\ x.kind \notin Matching
  BY DEF Matching
<1>2. Asks(r, m) => Asks(Append(r, x), m)
  BY <1>1, LastIsKept, FreeAppend DEF Asks
<1>3. Free(r, Matching \cup {"getall"}) => Free(Append(r, x), Matching \cup {"getall"})
  BY <1>1, FreeAppend
<1>4. QED
  BY <1>2, <1>3, Zenon DEF Knows

\* The bus handles a request: rules, or a question that is answered with what the service says.
LEMMA KnowsBus ==
  ASSUME NEW q \in Seq(Messages), NEW r \in Seq(Requests), r # <<>>, NEW m, NEW n, NEW c, NEW s, NEW p,
         Knows(q, r, m, c, s),
         NEW x \in Messages, x.kind = "reply", x.says = Properties(s),
         \/ Head(r).kind = "check" /\ n = m /\ p = q
         \/ Head(r).kind = "getall" /\ n = m /\ p = Append(q, x)
         \/ Head(r).kind = "match" /\ n = TRUE /\ p = q
         \/ Head(r).kind = "unmatch" /\ n = FALSE /\ p = q
  PROVE  Knows(p, Tail(r), n, c, s)
<1>1. x.kind \notin Presence /\ x \in Reports(s)
  BY DEF Presence, Sayings, Reports
<1>2. LastIs(q, Words("appeared"), Presence) => LastIs(p, Words("appeared"), Presence)
  BY <1>1, LastIsKept
<1>3. Free(q, Presence) => Free(p, Presence)
  BY <1>1, FreeAppend
<1>4. CASE LastIs(q, Words("appeared"), Presence)
  BY <1>2, <1>4 DEF Knows
<1>5. CASE Free(q, Presence) /\ c.reachable /\ Asks(r, m)
  <2> SUFFICES Asks(Tail(r), n) \/ (n /\ Free(Tail(r), Matching \cup {"getall"}) /\ IsTold(p, c, s))
    BY <1>3, <1>5, Zenon DEF Knows
  <2>1. \/ LastIs(Tail(r), RequestsOf("getall"), Matching \cup {"getall"})
        \/ Head(r) \in RequestsOf("getall") /\ Free(Tail(r), Matching \cup {"getall"})
    BY <1>5, LastIsTail DEF Asks
  <2>2. CASE LastIs(r, RequestsOf("match"), Matching)
    <3>1. LastIs(Tail(r), RequestsOf("match"), Matching) \/ (Head(r) \in RequestsOf("match") /\ Free(Tail(r), Matching))
      BY <2>2, LastIsTail
    <3>2. Head(r) \in RequestsOf("match") => n = TRUE /\ LastIs(Tail(r), RequestsOf("getall"), Matching \cup {"getall"})
      BY <2>1, MarkKinds
    <3>3. LastIs(Tail(r), RequestsOf("match"), Matching) => ~Free(Tail(r), Matching \cup {"getall"})
      <4>1. \A k \in RequestsOf("match") : k.kind \in Matching
        BY MarkKinds DEF Matching
      <4>2. SUFFICES ASSUME LastIs(Tail(r), RequestsOf("match"), Matching), Free(Tail(r), Matching \cup {"getall"})
                     PROVE  FALSE
        OBVIOUS
      <4>3. Free(Tail(r), Matching)
        BY <4>2, FreeSmaller
      <4>4. QED
        BY <4>1, <4>2, <4>3, LastIsNotFree
    <3>4. CASE Head(r) \in RequestsOf("match") /\ Free(Tail(r), Matching)
      BY <3>2, <3>4 DEF Asks
    <3>5. CASE LastIs(Tail(r), RequestsOf("match"), Matching)
      BY <2>1, <3>3, <3>5 DEF Asks
    <3>6. QED
      BY <3>1, <3>4, <3>5
  <2>3. CASE m /\ Free(r, Matching)
    <3>1. Free(Tail(r), Matching) /\ Head(r).kind \notin Matching
      BY <2>3, FreeTail
    <3>2. n = m
      BY <3>1 DEF Matching
    <3>3. CASE LastIs(Tail(r), RequestsOf("getall"), Matching \cup {"getall"})
      BY <2>3, <3>1, <3>2, <3>3, Zenon DEF Asks
    <3>4. CASE Head(r) \in RequestsOf("getall") /\ Free(Tail(r), Matching \cup {"getall"})
      <4>1. p = Append(q, x)
        BY <3>4, MarkKinds
      <4>2. IsTold(p, c, s)
        BY <1>1, <4>1, LastIsNew DEF IsTold
      <4>3. QED
        BY <2>3, <3>2, <3>4, <4>2, Zenon
    <3>5. QED
      BY <2>1, <3>3, <3>4
  <2>4. QED
    BY <1>5, <2>2, <2>3 DEF Asks
<1>6. CASE Free(q, Presence) /\ c.reachable /\ m /\ Free(r, Matching \cup {"getall"}) /\ IsTold(q, c, s)
  <2>1. Free(Tail(r), Matching \cup {"getall"}) /\ Head(r).kind \notin Matching \cup {"getall"}
    BY <1>6, FreeTail
  <2>2. n = m /\ p = q
    BY <2>1 DEF Matching
  <2>3. QED
    BY <1>6, <2>1, <2>2, Zenon DEF Knows
<1>7. QED
  BY <1>4, <1>5, <1>6, Zenon DEF Knows

\* The client handles a message.
LEMMA KnowsClient ==
  ASSUME NEW q \in Seq(Messages), q # <<>>, NEW r \in Seq(Requests), NEW t, NEW m, NEW c, NEW d, NEW s,
         Knows(q, r, m, c, s),
         \/ Head(q).kind \in Quiet /\ t = r /\ d = c
         \/ Head(q).kind \in Sayings /\ t = r /\ d.reachable /\ Properties(d) = Head(q).says
         \/ Head(q).kind = "gone"
         \/ Head(q).kind = "appeared" /\ t = r \o WatchThenFetch /\ d.reachable
  PROVE  Knows(Tail(q), t, m, d, s)
<1>1. CASE LastIs(q, Words("appeared"), Presence)
  <2>1. \/ LastIs(Tail(q), Words("appeared"), Presence)
        \/ Head(q).kind = "appeared" /\ Free(Tail(q), Presence)
    BY <1>1, LastIsTail, MarkKinds
  <2>2. CASE LastIs(Tail(q), Words("appeared"), Presence)
    BY <2>2 DEF Knows
  <2>3. CASE Head(q).kind = "appeared" /\ Free(Tail(q), Presence)
    <3> DEFINE watch == Request("match", 0)
               fetch == Request("getall", 0)
    <3>1. t = r \o WatchThenFetch /\ d.reachable
      BY <2>3 DEF Quiet, Sayings
    <3>2. watch \in RequestsOf("match") /\ watch \in Requests /\ fetch \in RequestsOf("getall") /\ fetch \in Requests
          /\ fetch.kind \notin Matching
      BY DEF Request, RequestsOf, Requests, Matching
    <3>3. t = Append(Append(r, watch), fetch) /\ Append(r, watch) \in Seq(Requests)
      BY <3>1, <3>2, Appends DEF WatchThenFetch
    <3> HIDE DEF watch, fetch
    <3>4. LastIs(Append(r, watch), RequestsOf("match"), Matching)
      BY <3>2, LastIsNew
    <3>5. LastIs(t, RequestsOf("match"), Matching)
      BY <3>2, <3>3, <3>4, LastIsKept
    <3>6. LastIs(t, RequestsOf("getall"), Matching \cup {"getall"})
      BY <3>2, <3>3, LastIsNew
    <3>7. QED
      BY <2>3, <3>1, <3>5, <3>6 DEF Knows, Asks
  <2>4. QED
    BY <2>1, <2>2, <2>3
<1>2. CASE Free(q, Presence) /\ c.reachable
  <2>1. Free(Tail(q), Presence) /\ Head(q).kind \notin Presence
    BY <1>2, FreeTail
  <2>2. t = r /\ d.reachable
    BY <1>2, <2>1 DEF Presence
  <2>3. IsTold(q, c, s) => IsTold(Tail(q), d, s)
    <3>1. CASE LastIs(q, Reports(s), Sayings)
      <4>1. LastIs(Tail(q), Reports(s), Sayings) \/ (Head(q) \in Reports(s) /\ Free(Tail(q), Sayings))
        BY <3>1, LastIsTail
      <4>2. CASE Head(q) \in Reports(s) /\ Free(Tail(q), Sayings)
        <5>1. Properties(d) = Properties(s)
          BY <4>2 DEF Reports, Quiet, Sayings
        <5>2. QED
          BY <4>2, <5>1 DEF IsTold
      <4>3. QED
        BY <4>1, <4>2 DEF IsTold
    <3>2. CASE Free(q, Sayings) /\ Properties(c) = Properties(s)
      <4>1. Free(Tail(q), Sayings) /\ Head(q).kind \notin Sayings
        BY <3>2, FreeTail
      <4>2. d = c
        BY <2>1, <4>1 DEF Presence
      <4>3. QED
        BY <3>2, <4>1, <4>2 DEF IsTold
    <3>3. QED
      BY <3>1, <3>2 DEF IsTold
  <2>4. CASE Asks(r, m)
    BY <2>1, <2>2, <2>4 DEF Knows
  <2>5. CASE m /\ Free(r, Matching \cup {"getall"}) /\ IsTold(q, c, s)
    BY <2>1, <2>2, <2>3, <2>5, Zenon DEF Knows
  <2>6. QED
    BY <1>1, <2>4, <2>5, Zenon DEF Knows
<1>3. QED
  BY <1>1, <1>2 DEF Knows

\* The service's properties become those of t: it says so to a client that watches.
LEMMA KnowsChange ==
  ASSUME NEW q \in Seq(Messages), NEW r, NEW m \in BOOLEAN, NEW c, NEW s, NEW t, Knows(q, r, m, c, s),
         NEW x \in Messages, x.kind \in Sayings, x.says = Properties(t)
  PROVE  Knows(IF m THEN Append(q, x) ELSE q, r, m, c, t)
<1>1. CASE m
  BY <1>1, KnowsSaying
<1>2. CASE ~m
  BY <1>2, KnowsUnwatched
<1>3. QED
  BY <1>1, <1>2

-------------------------------------------------------------------------------
(* The steps of the service *)

ServiceStates == [up : BOOLEAN, checking : BOOLEAN, time : Nat, fetched : Nat]

LEMMA MakeWord ==
  ASSUME NEW kind \in Kinds
  PROVE  Word(kind) \in Messages /\ Word(kind).kind = kind /\ Word(kind).says.fetched = 0
BY DEF Word, Message, Messages, Unknown, Saying

LEMMA MakeSays ==
  ASSUME NEW kind \in Kinds, NEW s \in ServiceStates
  PROVE  /\ Says(kind, s) \in Messages /\ Says(kind, s).kind = kind
         /\ Says(kind, s).says = Properties(s) /\ Says(kind, s).says.fetched = s.fetched
BY DEF Says, Message, Messages, Properties, Saying, ServiceStates

\* The types of the parts, one by one.
LEMMA Typed ==
  ASSUME ClientInv
  PROVE  /\ service \in ServiceStates /\ service.fetched \in Nat /\ worker \in {"none", "running", "saved", "failed"}
         /\ stored \in [time : Nat, fetched : Nat] /\ stored.time \in Nat /\ stored.fetched \in Nat
         /\ begun \in Nat /\ starts \in Nat
         /\ matched \in BOOLEAN /\ client_status_ \in Status /\ service_unavailable_ \in BOOLEAN
         /\ calls \in SUBSET Nat /\ asked \in Nat /\ snapshot_read \in Nat
         /\ toClient \in Seq(Messages) /\ toBus \in Seq(Requests)
         /\ Times /\ Bus
BY DEF ClientInv, ClientTypes, ClientTypeOK, ServiceStates

LEMMA StartsPreserves == ClientInv /\ ServiceStarts => ClientInv'
<1> SUFFICES ASSUME ClientInv, ServiceStarts PROVE ClientInv'
  OBVIOUS
<1>1. /\ service' = [up |-> TRUE, checking |-> FALSE, time |-> stored.time, fetched |-> stored.fetched]
      /\ toClient' = Append(toClient, Word("appeared")) /\ starts' = starts + 1
      /\ UNCHANGED <<worker, stored, begun, matched, toBus, client_status_, service_unavailable_, calls, asked, snapshot_read>>
  BY DEF ServiceStarts, Running, model
<1>2. Word("appeared") \in Messages /\ Word("appeared").kind = "appeared" /\ Word("appeared").says.fetched = 0
  BY MakeWord DEF Kinds
<1>3. ClientTypes'
  BY <1>1, <1>2, Typed, Appends DEF ClientTypes, ClientTypeOK
<1>4. Named(toClient', stored.fetched)
  BY <1>1, <1>2, Typed, NamedAppend DEF Times
<1>5. Times'
  BY <1>1, <1>4, Typed DEF Times, Named
<1>6. LastIs(toClient', Words("appeared"), Presence)
  BY <1>1, <1>2, Typed, LastIsNew DEF Words
<1>7. Bus'
  BY <1>1, <1>6 DEF Bus, Knows
<1>8. QED
  BY <1>3, <1>5, <1>7 DEF ClientInv

LEMMA StopsPreserves == ClientInv /\ ServiceStops => ClientInv'
<1> SUFFICES ASSUME ClientInv, ServiceStops PROVE ClientInv'
  OBVIOUS
<1>1. /\ service' = Down /\ worker' = "none" /\ toClient' = Append(toClient, Word("gone"))
      /\ UNCHANGED <<stored, begun, starts, matched, toBus, client_status_, service_unavailable_, calls, asked, snapshot_read>>
  BY DEF ServiceStops, model
<1>2. Word("gone") \in Messages /\ Word("gone").kind = "gone" /\ Word("gone").says.fetched = 0
  BY MakeWord DEF Kinds
<1>3. ClientTypes'
  BY <1>1, <1>2, Typed, Appends DEF ClientTypes, ClientTypeOK, Down
<1>4. Named(toClient', stored.fetched)
  BY <1>1, <1>2, Typed, NamedAppend DEF Times
<1>5. Times'
  BY <1>1, <1>4, Typed DEF Times, Named, Down
<1>6. LastIs(toClient', Words("gone"), Presence \cup Sayings)
  BY <1>1, <1>2, Typed, LastIsNew DEF Words
<1>7. Bus'
  BY <1>1, <1>6 DEF Bus, Forgets, Down
<1>8. QED
  BY <1>3, <1>5, <1>7 DEF ClientInv

\* What a beginning check changes.
LEMMA Beginning ==
  ASSUME ClientInv, Begin
  PROVE  /\ service.up /\ service'.up /\ service' \in ServiceStates /\ service'.fetched = service.fetched
         /\ worker' = "running" /\ begun' = begun + 1 /\ UNCHANGED <<stored, starts>>
BY Typed DEF Begin, CanBegin, ServiceStates

LEMMA ScheduledPreserves == ClientInv /\ ScheduledCheck => ClientInv'
<1> SUFFICES ASSUME ClientInv, ScheduledCheck PROVE ClientInv'
  OBVIOUS
<1> DEFINE x == Says("properties", service')
<1>1. /\ service.up /\ service'.up /\ service' \in ServiceStates /\ service'.fetched = service.fetched
      /\ worker' = "running" /\ begun' = begun + 1
      /\ UNCHANGED <<stored, starts, matched, toBus, client_status_, service_unavailable_, calls, asked, snapshot_read>>
  BY Beginning DEF ScheduledCheck, model
<1>2. x \in Messages /\ x.kind = "properties" /\ x.says = Properties(service') /\ x.says.fetched = service.fetched
  BY <1>1, MakeSays DEF Kinds
<1>3. toClient' = IF matched THEN Append(toClient, x) ELSE toClient
  BY <1>2, Typed, Appends DEF ScheduledCheck, Emit
<1> HIDE DEF x
<1>4. toClient' \in Seq(Messages)
  BY <1>2, <1>3, Typed, Appends
<1>5. ClientTypes'
  BY <1>1, <1>4, Typed DEF ClientTypes, ClientTypeOK, ServiceStates
<1>6. Named(toClient', stored.fetched)
  BY <1>2, <1>3, Typed, NamedAppend DEF Times
<1>7. Times'
  BY <1>1, <1>6, Typed DEF Times, Named
<1>8. Knows(toClient', toBus, matched, client_status_, service')
  BY <1>1, <1>2, <1>3, Typed, KnowsChange DEF Bus, Sayings
<1>9. Bus'
  BY <1>1, <1>8 DEF Bus
<1>10. QED
  BY <1>5, <1>7, <1>9 DEF ClientInv

LEMMA EndsPreserves == ClientInv /\ WorkerEnds => ClientInv'
<1> SUFFICES ASSUME ClientInv, WorkerEnds PROVE ClientInv'
  OBVIOUS
<1>1. /\ UNCHANGED <<service, begun, starts, matched, toBus, toClient, client_status_, service_unavailable_, calls, asked, snapshot_read>>
      /\ (worker' = "saved" /\ stored' = [stored EXCEPT !.fetched = begun]) \/ (worker' = "failed" /\ stored' = stored)
  BY DEF WorkerEnds, model
<1>2. ClientTypes'
  <2>1. stored' \in [time : Nat, fetched : Nat]
    BY <1>1, Typed
  <2>2. worker' \in {"none", "running", "saved", "failed"}
    BY <1>1
  <2>3. QED
    BY <1>1, <2>1, <2>2 DEF ClientTypes, ClientTypeOK, ClientInv
<1>3. stored'.fetched \in Nat /\ stored.fetched <= stored'.fetched /\ stored'.fetched <= begun
      /\ (worker' = "saved" => stored'.fetched = begun)
  BY <1>1, Typed DEF Times
<1>4. Named(toClient, stored'.fetched)
  BY <1>3, Typed, NamedMore DEF Times
<1>5. Times'
  <2>1. service.fetched <= stored'.fetched /\ snapshot_read <= stored'.fetched
    BY <1>3, Typed DEF Times
  <2>2. QED
    BY <1>1, <1>3, <1>4, <2>1, Typed DEF Times, Named
<1>6. Bus'
  <2>1. worker = "running"
    BY DEF WorkerEnds
  <2>2. QED
    BY <1>1, <2>1, Typed DEF Bus
<1>7. QED
  BY <1>2, <1>5, <1>6 DEF ClientInv

\* The properties of the ended check, then the word that it is completed.
LEMMA AnnouncePreserves == ClientInv /\ Announce => ClientInv'
<1> SUFFICES ASSUME ClientInv, Announce PROVE ClientInv'
  OBVIOUS
<1> DEFINE x == Says("properties", service')
           fetched == IF worker = "saved" THEN begun ELSE service.fetched
<1>1. /\ worker \in {"saved", "failed"} /\ worker' = "none"
      /\ service' = [up |-> TRUE, checking |-> FALSE, time |-> begun, fetched |-> fetched]
      /\ stored' = [stored EXCEPT !.time = begun] \/ stored' = stored
      /\ UNCHANGED <<begun, starts, matched, toBus, client_status_, service_unavailable_, calls, asked, snapshot_read>>
  BY DEF Announce, Running, model
<1>2. service.up
  BY <1>1, Typed DEF Bus
<1>3. fetched \in Nat /\ fetched <= stored.fetched
  BY Typed DEF Times
<1> HIDE DEF fetched
<1>4. service' \in ServiceStates /\ service'.up /\ service'.fetched = fetched
  BY <1>1, <1>3, Typed DEF ServiceStates
<1>5. stored' \in [time : Nat, fetched : Nat] /\ stored'.fetched = stored.fetched
  BY <1>1, Typed
<1>6. x \in Messages /\ x.kind = "properties" /\ x.says = Properties(service') /\ x.says.fetched = fetched
  BY <1>4, MakeSays DEF Kinds
<1>7. Word("completed") \in Messages /\ Word("completed").kind = "completed" /\ Word("completed").says.fetched = 0
  BY MakeWord DEF Kinds
<1> DEFINE said == IF matched THEN Append(toClient, x) ELSE toClient
<1>8. toClient' = IF matched THEN Append(said, Word("completed")) ELSE said
  <2>1. toClient' = toClient \o (IF matched THEN <<x, Word("completed")>> ELSE <<>>)
    BY DEF Announce, Emit
  <2> HIDE DEF x
  <2>2. /\ toClient \o <<x, Word("completed")>> = Append(Append(toClient, x), Word("completed"))
        /\ toClient \o <<>> = toClient
    BY <1>6, <1>7, Typed, Appends
  <2>3. QED
    BY <2>1, <2>2
<1> HIDE DEF x
<1>9. said \in Seq(Messages) /\ toClient' \in Seq(Messages)
  BY <1>6, <1>7, <1>8, Typed, Appends
<1>10. ClientTypes'
  BY <1>1, <1>4, <1>5, <1>9 DEF ClientTypes, ClientTypeOK, ServiceStates, ClientInv
<1>11. Named(said, stored.fetched)
  BY <1>3, <1>6, Typed, NamedAppend DEF Times
<1>12. Knows(said, toBus, matched, client_status_, service')
  BY <1>2, <1>6, Typed, KnowsChange DEF Bus, Sayings
<1> HIDE DEF said
<1>13. Named(toClient', stored.fetched)
  BY <1>7, <1>8, <1>9, <1>11, Typed, NamedAppend
<1>14. Times'
  BY <1>1, <1>3, <1>4, <1>5, <1>13, Typed DEF Times, Named
<1>15. Knows(toClient', toBus, matched, client_status_, service')
  BY <1>7, <1>8, <1>9, <1>12, KnowsQuiet DEF Quiet
<1>16. Bus'
  BY <1>1, <1>4, <1>15 DEF Bus
<1>17. QED
  BY <1>10, <1>14, <1>16 DEF ClientInv

-------------------------------------------------------------------------------
(* The steps of the bus and of the client *)

\* The bus handles a request of the client; the service answers, and may begin a check.
LEMMA BusPreserves == ClientInv /\ BusHandles => ClientInv'
<1> SUFFICES ASSUME ClientInv, BusHandles PROVE ClientInv'
  OBVIOUS
<1> DEFINE request == Head(toBus)
           reply == Says("reply", service)
           said == Says("properties", service')
           answer == Message("answer", request.id, Unknown)
           error == Message("error", request.id, Unknown)
<1>1. /\ toBus # <<>> /\ toBus' = Tail(toBus)
      /\ UNCHANGED <<client_status_, service_unavailable_, calls, asked, snapshot_read>>
  BY DEF BusHandles, model
<1>2. request \in Requests /\ toBus' \in Seq(Requests)
  BY <1>1, Typed, HeadAndTail
<1>3. request.id \in Nat /\ request.kind \in {"match", "unmatch", "getall", "check"}
  BY <1>2 DEF Requests
<1>4. /\ reply \in Messages /\ reply.kind = "reply" /\ reply.says = Properties(service)
      /\ reply.says.fetched = service.fetched
  BY Typed, MakeSays DEF Kinds
<1>5. /\ answer \in Messages /\ answer.kind = "answer" /\ answer.says.fetched = 0
      /\ error \in Messages /\ error.kind = "error" /\ error.says.fetched = 0
  BY <1>3 DEF Message, Messages, Kinds, Saying, Unknown
<1> HIDE DEF reply, answer, error
<1>6. CASE request.kind \in {"match", "unmatch"}
  <2>1. matched' = (request.kind = "match") /\ UNCHANGED <<serviceVars, toClient>>
    BY <1>6 DEF BusHandles
  <2>2. ClientTypes' /\ Times'
    BY <1>1, <1>2, <2>1, Typed DEF ClientTypes, ClientTypeOK, ClientInv, Times, serviceVars, Named
  <2>3. ASSUME service.up PROVE Knows(toClient, toBus', matched', client_status_, service)
    <3>1. (request.kind = "match" /\ matched' = TRUE) \/ (request.kind = "unmatch" /\ matched' = FALSE)
      BY <1>6, <2>1
    <3>2. Knows(toClient, toBus, matched, client_status_, service)
      BY <2>3, Typed DEF Bus
    <3>3. QED
      BY <1>1, <1>4, <3>1, <3>2, Typed, KnowsBus
  <2>4. ASSUME ~service.up PROVE Forgets(toClient, toBus', matched', client_status_)
    <3>1. (request.kind = "match" /\ matched' = TRUE) \/ (request.kind = "unmatch" /\ matched' = FALSE)
      BY <1>6, <2>1
    <3>2. Forgets(toClient, toBus, matched, client_status_)
      BY <2>4, Typed DEF Bus
    <3>3. QED
      BY <1>1, <3>1, <3>2, Typed, ForgetsBus
  <2>5. Bus'
    BY <1>1, <2>1, <2>3, <2>4, Typed DEF Bus, serviceVars
  <2>6. QED
    BY <2>2, <2>5 DEF ClientInv
<1>7. CASE request.kind \in {"getall", "check"} /\ ~service.up
  <2>1. UNCHANGED <<serviceVars, matched>> /\ toClient' = IF request.kind = "check" THEN Append(toClient, error) ELSE toClient
    BY <1>7 DEF BusHandles, Refuse, error
  <2>2. toClient' \in Seq(Messages) /\ Named(toClient', stored.fetched)
    BY <1>5, <2>1, Typed, Appends, NamedAppend DEF Times
  <2>3. ClientTypes' /\ Times'
    BY <1>1, <1>2, <2>1, <2>2, Typed DEF ClientTypes, ClientTypeOK, ClientInv, Times, serviceVars, Named
  <2>4. Forgets(toClient, toBus', matched, client_status_)
    BY <1>1, <1>7, Typed, ForgetsBus DEF Bus
  <2>5. Forgets(toClient', toBus', matched, client_status_)
    BY <1>5, <2>1, <2>4, Typed, ForgetsQuiet DEF Quiet
  <2>6. Bus'
    BY <1>1, <1>7, <2>1, <2>5, Typed DEF Bus, serviceVars
  <2>7. QED
    BY <2>3, <2>6 DEF ClientInv
<1>8. CASE request.kind = "getall" /\ service.up
  <2>1. UNCHANGED <<serviceVars, matched>> /\ toClient' = Append(toClient, reply)
    BY <1>8 DEF BusHandles, Answer, reply
  <2>2. toClient' \in Seq(Messages) /\ Named(toClient', stored.fetched)
    BY <1>4, <2>1, Typed, Appends, NamedAppend DEF Times
  <2>3. ClientTypes' /\ Times'
    BY <1>1, <1>2, <2>1, <2>2, Typed DEF ClientTypes, ClientTypeOK, ClientInv, Times, serviceVars, Named
  <2>4. Knows(toClient, toBus, matched, client_status_, service)
    BY <1>8, Typed DEF Bus
  <2>5. Knows(Append(toClient, reply), Tail(toBus), matched, client_status_, service)
    BY <1>1, <1>4, <1>8, <2>4, Typed, KnowsBus
  <2>6. Bus'
    BY <1>1, <1>8, <2>1, <2>5 DEF Bus, serviceVars
  <2>7. QED
    BY <2>3, <2>6 DEF ClientInv
<1>9. CASE request.kind = "check" /\ service.up
  <2>1. Knows(toClient, toBus, matched, client_status_, service)
    BY <1>9, Typed DEF Bus
  <2>2. Knows(toClient, toBus', matched, client_status_, service)
    BY <1>1, <1>4, <1>9, <2>1, Typed, KnowsBus
  <2>3. CASE UNCHANGED <<serviceVars, matched>> /\ toClient' = Append(toClient, answer)
    <3>1. toClient' \in Seq(Messages) /\ Named(toClient', stored.fetched)
      BY <1>5, <2>3, Typed, Appends, NamedAppend DEF Times
    <3>2. ClientTypes' /\ Times'
      BY <1>1, <1>2, <2>3, <3>1, Typed DEF ClientTypes, ClientTypeOK, ClientInv, Times, serviceVars, Named
    <3>3. Knows(toClient', toBus', matched, client_status_, service)
      BY <1>5, <2>2, <2>3, Typed, KnowsQuiet DEF Quiet
    <3>4. Bus'
      BY <1>1, <1>9, <2>3, <3>3 DEF Bus, serviceVars
    <3>5. QED
      BY <3>2, <3>4 DEF ClientInv
  <2>4. CASE /\ Begin /\ UNCHANGED matched
             /\ toClient' = toClient \o (IF matched THEN <<said>> ELSE <<>>) \o <<answer>>
    <3> DEFINE queue == IF matched THEN Append(toClient, said) ELSE toClient
    <3>1. /\ service.up /\ service'.up /\ service' \in ServiceStates /\ service'.fetched = service.fetched
          /\ worker' = "running" /\ begun' = begun + 1 /\ UNCHANGED <<stored, starts, matched>>
      BY <2>4, Beginning
    <3>2. said \in Messages /\ said.kind = "properties" /\ said.says = Properties(service') /\ said.says.fetched = service.fetched
      BY <3>1, MakeSays DEF Kinds
    <3> HIDE DEF said
    <3>3. queue \in Seq(Messages) /\ toClient \o (IF matched THEN <<said>> ELSE <<>>) = queue
      BY <3>2, Typed, Appends
    <3>4. Named(queue, stored.fetched)
      BY <3>2, Typed, NamedAppend DEF Times
    <3>5. Knows(queue, toBus', matched, client_status_, service')
      BY <2>2, <3>2, Typed, KnowsChange DEF Sayings
    <3> HIDE DEF queue
    <3>6. toClient' = Append(queue, answer) /\ toClient' \in Seq(Messages)
      <4>1. toClient' = queue \o <<answer>>
        BY <2>4, <3>3
      <4>2. QED
        BY <1>5, <3>3, <4>1, Appends
    <3>7. Named(toClient', stored.fetched)
      BY <1>5, <3>3, <3>4, <3>6, Typed, NamedAppend
    <3>8. ClientTypes'
      BY <1>1, <1>2, <3>1, <3>6, Typed DEF ClientTypes, ClientTypeOK, ServiceStates
    <3>9. Times'
      BY <1>1, <3>1, <3>7, Typed DEF Times, Named
    <3>10. Knows(toClient', toBus', matched, client_status_, service')
      BY <1>5, <3>3, <3>5, <3>6, KnowsQuiet DEF Quiet
    <3>11. Bus'
      BY <1>1, <3>1, <3>10 DEF Bus
    <3>12. QED
      BY <3>8, <3>9, <3>11 DEF ClientInv
  <2>5. QED
    BY <1>9, <2>3, <2>4 DEF BusHandles, Answer, answer
<1>10. QED
  BY <1>3, <1>6, <1>7, <1>8, <1>9

LEMMA SettingStatus ==
  ASSUME ClientInv, NEW new \in Status, SetStatus(new), new.fetched <= stored.fetched
  PROVE  /\ client_status_' = new /\ service_unavailable_' \in BOOLEAN /\ snapshot_read' \in Nat
         /\ new.fetched <= snapshot_read' /\ snapshot_read' <= stored.fetched
<1>1. new.fetched \in Nat
  BY DEF Status
<1>2. CASE new = client_status_
  BY <1>2, Typed DEF SetStatus, Times
<1>3. CASE new # client_status_
  <2>1. client_status_' = new /\ service_unavailable_' = FALSE /\ snapshot_read' = stored.fetched
    BY <1>3, Zenon DEF SetStatus
  <2>2. stored.fetched \in Nat
    BY Typed
  <2>3. snapshot_read' \in Nat /\ new.fetched <= snapshot_read' /\ snapshot_read' <= stored.fetched
    BY <2>1, <2>2
  <2>4. QED
    BY <2>1, <2>3
<1>4. QED
  BY <1>2, <1>3

\* What the client makes of a message: its status, and what it asks of the bus.
Handled(message) ==
  \/ message.kind \in Quiet /\ toBus' = toBus /\ client_status_' = client_status_
  \/ /\ message.kind \in Sayings /\ toBus' = toBus
     /\ client_status_'.reachable /\ Properties(client_status_)' = message.says
  \/ /\ message.kind = "gone" /\ toBus' = Append(toBus, Request("unmatch", 0))
     /\ ~client_status_'.reachable /\ ~client_status_'.checking
  \/ message.kind = "appeared" /\ toBus' = toBus \o WatchThenFetch /\ client_status_'.reachable

LEMMA Handling ==
  ASSUME ClientInv, ClientHandles
  PROVE  /\ toClient # <<>> /\ toClient' = Tail(toClient) /\ UNCHANGED <<serviceVars, matched, asked>>
         /\ Handled(Head(toClient)) /\ toBus' \in Seq(Requests)
         /\ client_status_' \in Status /\ service_unavailable_' \in BOOLEAN /\ calls' \in SUBSET Nat
         /\ snapshot_read' \in Nat
         /\ client_status_'.fetched <= snapshot_read' /\ snapshot_read' <= stored.fetched
<1> DEFINE message == Head(toClient)
<1>1. toClient # <<>> /\ toClient' = Tail(toClient) /\ UNCHANGED <<serviceVars, matched, asked>>
  BY DEF ClientHandles
<1>2. message \in Messages /\ message.says.fetched <= stored.fetched
  BY <1>1, Typed, HeadAndTail, NamedTail DEF Times
<1> HIDE DEF message
<1>3. message.says \in Saying
  BY <1>2 DEF Messages
<1>4. /\ client_status_.fetched \in Nat /\ client_status_.checking \in BOOLEAN /\ client_status_.time \in Nat
      /\ client_status_.fetched <= snapshot_read /\ snapshot_read <= stored.fetched
      /\ client_status_.fetched <= stored.fetched
  BY Typed DEF Status, Times
<1>5. Request("match", 0) \in Requests /\ Request("getall", 0) \in Requests /\ Request("unmatch", 0) \in Requests
  BY DEF Request, Requests
<1>6. CASE message.kind = "appeared" /\ OnServiceAppeared /\ UNCHANGED calls
  <2> DEFINE new == [client_status_ EXCEPT !.reachable = TRUE]
  <2>1. new \in Status /\ new.fetched = client_status_.fetched /\ new.reachable
    BY Typed DEF Status
  <2>2. SetStatus(new) /\ toBus' = toBus \o WatchThenFetch
    BY <1>6 DEF OnServiceAppeared
  <2> HIDE DEF new
  <2>3. toBus' \in Seq(Requests)
    BY <1>5, <2>2, Typed, Appends DEF WatchThenFetch
  <2>4. /\ client_status_' = new /\ service_unavailable_' \in BOOLEAN /\ snapshot_read' \in Nat
        /\ new.fetched <= snapshot_read' /\ snapshot_read' <= stored.fetched
    BY <1>4, <2>1, <2>2, SettingStatus
  <2>5. QED
    BY <1>1, <1>6, <2>1, <2>2, <2>3, <2>4, Typed DEF Handled, message
<1>7. CASE message.kind = "gone" /\ OnServiceGone /\ UNCHANGED calls
  <2>1. GoneStatus \in Status /\ GoneStatus.fetched = client_status_.fetched /\ ~GoneStatus.reachable /\ ~GoneStatus.checking
    BY Typed DEF Status, GoneStatus
  <2>2. SetStatus(GoneStatus) /\ toBus' = Append(toBus, Request("unmatch", 0))
    BY <1>7 DEF OnServiceGone
  <2>3. toBus' \in Seq(Requests)
    BY <1>5, <2>2, Typed, Appends
  <2>4. /\ client_status_' = GoneStatus /\ service_unavailable_' \in BOOLEAN /\ snapshot_read' \in Nat
        /\ GoneStatus.fetched <= snapshot_read' /\ snapshot_read' <= stored.fetched
    BY <1>4, <2>1, <2>2, SettingStatus
  <2>5. QED
    BY <1>1, <1>7, <2>1, <2>2, <2>3, <2>4, Typed DEF Handled, message
<1>8. CASE message.kind \in Sayings /\ Apply(message.says) /\ UNCHANGED calls
  <2> DEFINE says == message.says
             new == [reachable |-> TRUE, checking |-> says.checking, time |-> says.time, fetched |-> says.fetched]
  <2>1. new \in Status /\ new.reachable /\ new.fetched <= stored.fetched /\ Properties(new) = says
    BY <1>2, <1>3 DEF Status, Saying, Properties
  <2>2. SetStatus(new) /\ UNCHANGED toBus
    BY <1>8 DEF Apply
  <2> HIDE DEF new
  <2>3. /\ client_status_' = new /\ service_unavailable_' \in BOOLEAN /\ snapshot_read' \in Nat
        /\ new.fetched <= snapshot_read' /\ snapshot_read' <= stored.fetched
    BY <2>1, <2>2, SettingStatus
  <2>4. Properties(client_status_)' = says
    BY <2>1, <2>3 DEF Properties
  <2>5. QED
    BY <1>1, <1>8, <2>1, <2>2, <2>3, <2>4, Typed DEF Handled, message
<1>9. CASE message.kind = "completed" /\ OnCompleted /\ UNCHANGED calls
  <2>1. service_unavailable_' = FALSE /\ snapshot_read' = stored.fetched /\ UNCHANGED <<client_status_, toBus, calls>>
    BY <1>9 DEF OnCompleted
  <2>2. Handled(Head(toClient))
    BY <1>9, <2>1 DEF Handled, message, Quiet
  <2>3. client_status_'.fetched <= snapshot_read' /\ snapshot_read' <= stored.fetched
    BY <1>4, <2>1, Typed
  <2>4. QED
    BY <1>1, <2>1, <2>2, <2>3, Typed
<1>10. CASE /\ message.kind \in {"answer", "error"}
            /\ calls' = calls \ {message.id}
            /\ service_unavailable_' = IF message.id \in calls THEN message.kind = "error" ELSE service_unavailable_
            /\ UNCHANGED <<client_status_, snapshot_read, toBus>>
  <2>1. service_unavailable_' \in BOOLEAN
    BY <1>10, Typed
  <2>2. QED
    BY <1>1, <1>4, <1>10, <2>1, Typed DEF Handled, message, Quiet
<1>11. QED
  BY <1>6, <1>7, <1>8, <1>9, <1>10 DEF ClientHandles, message, Sayings

LEMMA ClientPreserves == ClientInv /\ ClientHandles => ClientInv'
<1> SUFFICES ASSUME ClientInv, ClientHandles PROVE ClientInv'
  OBVIOUS
<1>1. toClient # <<>> /\ toClient' = Tail(toClient) /\ UNCHANGED <<serviceVars, matched, asked>>
  BY Handling
<1>2. toClient' \in Seq(Messages) /\ Named(toClient', stored.fetched)
  BY <1>1, Typed, HeadAndTail, NamedTail DEF Times
<1>3. ClientTypes'
  BY <1>1, <1>2, Handling, Typed DEF ClientTypes, ClientTypeOK, ClientInv, serviceVars
<1>4. Times'
  BY <1>1, <1>2, Handling, Typed DEF Times, serviceVars, Named
<1>5. service.up => Knows(toClient', toBus', matched, client_status_', service)
  <2> SUFFICES ASSUME service.up PROVE Knows(Tail(toClient), toBus', matched, client_status_', service)
    BY <1>1
  <2>1. Knows(toClient, toBus, matched, client_status_, service)
    BY Typed DEF Bus
  <2>2. \/ Head(toClient).kind \in Quiet /\ toBus' = toBus /\ client_status_' = client_status_
        \/ Head(toClient).kind \in Sayings /\ toBus' = toBus /\ client_status_'.reachable
           /\ Properties(client_status_') = Head(toClient).says
        \/ Head(toClient).kind = "gone"
        \/ Head(toClient).kind = "appeared" /\ toBus' = toBus \o WatchThenFetch /\ client_status_'.reachable
    BY Handling DEF Handled, Properties
  <2>3. QED
    BY <1>1, <2>1, <2>2, Typed, KnowsClient
<1>6. ~service.up => Forgets(toClient', toBus', matched, client_status_')
  <2> SUFFICES ASSUME ~service.up PROVE Forgets(Tail(toClient), toBus', matched, client_status_')
    BY <1>1
  <2>1. Forgets(toClient, toBus, matched, client_status_)
    BY Typed DEF Bus
  <2>2. \/ Head(toClient).kind \in Quiet /\ toBus' = toBus /\ client_status_' = client_status_
        \/ Head(toClient).kind \in Sayings \cup {"appeared"}
        \/ Head(toClient).kind = "gone" /\ toBus' = Append(toBus, Request("unmatch", 0))
           /\ ~client_status_'.reachable /\ ~client_status_'.checking
    BY Handling DEF Handled
  <2>3. toBus' \in Seq(Requests)
    BY Handling
  <2>4. QED
    BY <1>1, <2>1, <2>2, <2>3, Typed, ForgetsClient
<1>7. Bus'
  BY <1>1, <1>5, <1>6, Typed DEF Bus, serviceVars
<1>8. QED
  BY <1>3, <1>4, <1>7 DEF ClientInv

LEMMA CheckNowPreserves == ClientInv /\ CheckNow => ClientInv'
<1> SUFFICES ASSUME ClientInv, CheckNow PROVE ClientInv'
  OBVIOUS
<1> DEFINE request == Request("check", asked')
<1>1. /\ asked' = asked + 1 /\ calls' = calls \cup {asked'} /\ toBus' = Append(toBus, request)
      /\ UNCHANGED <<serviceVars, matched, toClient, client_status_, service_unavailable_, snapshot_read>>
  BY DEF CheckNow
<1>2. request \in Requests /\ request.kind = "check"
  BY <1>1, Typed DEF Request, Requests
<1> HIDE DEF request
<1>3. ClientTypes' /\ Times'
  BY <1>1, <1>2, Typed, Appends DEF ClientTypes, ClientTypeOK, ClientInv, Times, serviceVars, Named
<1>4. service.up => Knows(toClient, toBus', matched, client_status_, service)
  BY <1>1, <1>2, Typed, KnowsCheck DEF Bus
<1>5. ~service.up => Forgets(toClient, toBus', matched, client_status_)
  BY <1>1, <1>2, Typed, ForgetsCheck DEF Bus
<1>6. Bus'
  BY <1>1, <1>4, <1>5, Typed DEF Bus, serviceVars
<1>7. QED
  BY <1>3, <1>6 DEF ClientInv

LEMMA TimesOutPreserves == ClientInv /\ CallTimesOut => ClientInv'
<1> SUFFICES ASSUME ClientInv, CallTimesOut PROVE ClientInv'
  OBVIOUS
<1>1. /\ calls' \in SUBSET Nat /\ service_unavailable_' = TRUE
      /\ UNCHANGED <<serviceVars, matched, toBus, toClient, client_status_, asked, snapshot_read>>
  BY Typed DEF CallTimesOut
<1>2. ClientTypes' /\ Times'
  BY <1>1, Typed DEF ClientTypes, ClientTypeOK, ClientInv, Times, serviceVars, Named
<1>3. Bus'
  BY <1>1, Typed DEF Bus, serviceVars
<1>4. QED
  BY <1>2, <1>3 DEF ClientInv

-------------------------------------------------------------------------------
(* The theorems *)

LEMMA InitClientInv == ClientInit => ClientInv
<1> SUFFICES ASSUME ClientInit PROVE ClientInv
  OBVIOUS
<1>1. stored = [time |-> 0, fetched |-> 0] /\ worker = "none" /\ begun = 0 /\ snapshot_read = 0 /\ asked = 0
      /\ calls = {} /\ matched = FALSE /\ service_unavailable_ = FALSE
  BY DEF ClientInit
<1>2. Word("appeared") \in Messages /\ Word("appeared").kind = "appeared" /\ Word("appeared").says.fetched = 0
  BY MakeWord DEF Kinds
<1>3. /\ <<>> \in Seq(Messages) /\ <<>> \in Seq(Requests)
      /\ <<Word("appeared")>> = Append(<<>>, Word("appeared")) /\ <<Word("appeared")>> \in Seq(Messages)
  BY <1>2
<1>4. CASE /\ service = Down /\ starts = 0 /\ toBus = <<>> /\ toClient = <<>>
           /\ client_status_ = [reachable |-> FALSE, checking |-> FALSE, time |-> 0, fetched |-> 0]
  <2>1. ClientTypes
    BY <1>1, <1>3, <1>4 DEF ClientTypes, ClientTypeOK, Status, Down
  <2>2. Times
    BY <1>1, <1>4 DEF Times, Named, Down
  <2>3. Free(toClient, Presence \cup Sayings) /\ Free(toBus, Matching)
    BY <1>4 DEF Free
  <2>4. Bus
    BY <1>1, <1>4, <2>3 DEF Bus, Forgets, Down
  <2>5. QED
    BY <2>1, <2>2, <2>4 DEF ClientInv
<1>5. CASE /\ service = Running(FALSE, stored) /\ starts = 1
           /\ toBus = WatchThenFetch /\ toClient \in {<<>>, <<Word("appeared")>>}
           /\ client_status_ = [reachable |-> TRUE, checking |-> FALSE, time |-> 0, fetched |-> 0]
  <2> DEFINE watch == Request("match", 0)
             fetch == Request("getall", 0)
  <2>1. watch \in RequestsOf("match") /\ watch \in Requests /\ fetch \in RequestsOf("getall") /\ fetch \in Requests
        /\ fetch.kind \notin Matching
    BY DEF Request, RequestsOf, Requests, Matching
  <2>2. toBus = Append(Append(<<>>, watch), fetch) /\ Append(<<>>, watch) \in Seq(Requests) /\ toBus \in Seq(Requests)
    BY <1>5, <2>1 DEF WatchThenFetch
  <2> HIDE DEF watch, fetch
  <2>3. LastIs(Append(<<>>, watch), RequestsOf("match"), Matching)
    BY <1>3, <2>1, LastIsNew
  <2>4. Asks(toBus, matched)
    BY <2>1, <2>2, <2>3, LastIsKept, LastIsNew DEF Asks
  <2>5. /\ service = [up |-> TRUE, checking |-> FALSE, time |-> 0, fetched |-> 0]
        /\ client_status_ = [reachable |-> TRUE, checking |-> FALSE, time |-> 0, fetched |-> 0] /\ starts = 1
    BY <1>1, <1>5 DEF Running
  <2>6. toClient \in Seq(Messages) /\ Named(toClient, 0)
    <3>1. CASE toClient = <<>>
      BY <1>3, <3>1 DEF Named
    <3>2. CASE toClient = <<Word("appeared")>>
      <4> DEFINE word == Word("appeared")
      <4>1. word \in Messages /\ word.says.fetched = 0 /\ toClient = <<word>>
        BY <1>2, <3>2
      <4> HIDE DEF word
      <4>2. \A i \in DOMAIN toClient : toClient[i] = word
        BY <4>1
      <4>3. QED
        BY <4>1, <4>2 DEF Named
    <3>3. QED
      BY <1>5, <3>1, <3>2
  <2>7. ClientTypes /\ Times
    <3>1. service \in ServiceStates /\ client_status_ \in Status /\ stored \in [time : Nat, fetched : Nat]
      BY <1>1, <2>5 DEF ServiceStates, Status
    <3>2. ClientTypes
      BY <1>1, <2>2, <2>5, <2>6, <3>1 DEF ClientTypes, ClientTypeOK, ServiceStates
    <3>3. Times
      BY <1>1, <2>5, <2>6 DEF Times
    <3>4. QED
      BY <3>2, <3>3
  <2>8. CASE toClient = <<>>
    <3>1. Free(toClient, Presence)
      BY <2>8 DEF Free
    <3>2. service.up /\ client_status_.reachable
      BY <2>5
    <3>3. Bus
      BY <2>4, <3>1, <3>2, Zenon DEF Bus, Knows
    <3>4. QED
      BY <2>7, <3>3 DEF ClientInv
  <2>9. CASE toClient = <<Word("appeared")>>
    <3>1. LastIs(toClient, Words("appeared"), Presence)
      BY <1>2, <1>3, <2>9, LastIsNew DEF Words
    <3>2. Bus
      BY <2>5, <3>1 DEF Bus, Knows
    <3>3. QED
      BY <2>7, <3>2 DEF ClientInv
  <2>10. QED
    BY <1>5, <2>8, <2>9
<1>6. QED
  BY <1>4, <1>5 DEF ClientInit

LEMMA ClientStepPreserves == ClientInv /\ [ClientNext]_clientVars => ClientInv'
<1> SUFFICES ASSUME ClientInv, [ClientNext]_clientVars PROVE ClientInv'
  OBVIOUS
<1>1. CASE UNCHANGED clientVars
  <2>1. UNCHANGED <<service, worker, stored, begun, starts, matched, toBus, toClient, client_status_,
                    service_unavailable_, calls, asked, snapshot_read>>
    BY <1>1 DEF clientVars, serviceVars, model
  <2>2. ClientTypes' /\ Times' /\ Bus'
    BY <2>1, Typed DEF ClientTypes, ClientTypeOK, ClientInv, Times, Named, Bus
  <2>3. QED
    BY <2>2 DEF ClientInv
<1>2. CASE ClientNext
  BY <1>2, StartsPreserves, StopsPreserves, ScheduledPreserves, EndsPreserves, AnnouncePreserves, BusPreserves,
     ClientPreserves, CheckNowPreserves, TimesOutPreserves DEF ClientNext
<1>3. QED
  BY <1>1, <1>2

LEMMA ClientInvHolds == ClientSpec => []ClientInv
BY InitClientInv, ClientStepPreserves, PTL DEF ClientSpec

\* NothingLost: whatever checks, starts, crashes and calls there were, when both queues are empty
\* the page shows what the service says, or that nothing checks.
THEOREM StatusArrives == ClientSpec => []NothingLost
<1>1. ClientInv => NothingLost
  <2> SUFFICES ASSUME ClientInv, toBus = <<>>, toClient = <<>>
               PROVE  /\ matched = service.up /\ client_status_.reachable = service.up
                      /\ client_status_.checking = service.checking
                      /\ service.up => Properties(client_status_) = Properties(service)
    BY DEF NothingLost
  <2>1. \A M, K : ~LastIs(toBus, M, K) /\ ~LastIs(toClient, M, K)
    BY DEF LastIs
  <2>2. matched \in BOOLEAN /\ client_status_ \in Status /\ service \in ServiceStates
    BY Typed
  <2>3. CASE service.up
    <3>1. matched /\ client_status_.reachable /\ IsTold(toClient, client_status_, service)
      BY <2>1, <2>3, Typed, Zenon DEF Bus, Knows, Asks
    <3>2. Properties(client_status_) = Properties(service)
      BY <2>1, <3>1, Zenon DEF IsTold
    <3>3. client_status_.checking = service.checking
      BY <3>2 DEF Properties
    <3>4. QED
      BY <2>2, <2>3, <3>1, <3>2, <3>3 DEF Status, ServiceStates
  <2>4. CASE ~service.up
    <3>1. service = Down /\ ~matched /\ ~client_status_.reachable /\ ~client_status_.checking
      BY <2>1, <2>4, Typed, Zenon DEF Bus, Forgets
    <3>2. QED
      BY <2>2, <2>4, <3>1 DEF Status, Down
  <2>5. QED
    BY <2>3, <2>4
<1>2. QED
  BY <1>1, ClientInvHolds, PTL

\* AnnouncedIsRead: the page never shows the time of a snapshot it has not read, for any order of
\* the messages, the saves and the readings.
THEOREM ShownTimesAreRead == ClientSpec => []AnnouncedIsRead
<1>1. ClientInv => AnnouncedIsRead
  BY DEF ClientInv, Times, AnnouncedIsRead
<1>2. QED
  BY <1>1, ClientInvHolds, PTL

\* ClientTypeOK: what the service says and what the client believes keep their types, for queues of
\* any length.
THEOREM ClientIsTyped == ClientSpec => []ClientTypeOK
<1>1. ClientInv => ClientTypeOK
  BY DEF ClientInv, ClientTypes
<1>2. QED
  BY <1>1, ClientInvHolds, PTL
===============================================================================
