-------------------------- MODULE ItemQueriesProofs --------------------------
(***************************************************************************)
(* Proofs about ItemQueries, for every table, every query and every size   *)
(* of the pages.                                                           *)
(***************************************************************************)
EXTENDS ItemQueries, NumberLemmas, SequenceTheorems, FiniteSetTheorems

USE QueriesAssumption

(* The order of a list. *)

\* Whether a comes before b, ties included.
Before(table, a, b, q) ==
    \/ Precedes(table, a, b, q)
    \/ ~Precedes(table, b, a, q) /\ a < b

LEMMA TableIs ==
    ASSUME NEW t \in Tables
    PROVE  /\ DOMAIN t \subseteq 1 .. MaxItems
           /\ \A id \in DOMAIN t :
                 t[id] \in [name: 1 .. Len(NameTexts), quality: Qualities \cup {Null}]
  <1>. DEFINE R == [name: 1 .. Len(NameTexts), quality: Qualities \cup {Null}]
  <1>1. PICK ids \in SUBSET (1 .. MaxItems) : t \in [ids -> R]
    BY DEF Tables, Rows
  <1>. HIDE DEF R
  <1>2. DOMAIN t = ids /\ \A id \in ids : t[id] \in R
    BY <1>1
  <1>. QED
    BY <1>2 DEF R

LEMMA QualitiesAreNumbers == Qualities \subseteq Int
  <1>1. Qualities \subseteq 0 .. 4
    BY Zenon
  <1>. HIDE QueriesAssumption
  <1>. QED
    BY <1>1

LEMMA SortedByNumbers ==
    ASSUME NEW t \in Tables, NEW q \in Queries, NEW id \in DOMAIN t
    PROVE  SortColumn(t, id, q.sort) \in Int
  <1>1. q.sort \in {"name", "quality", "game_id"}
    BY DEF Queries
  <1>2. id \in Int /\ t[id].name \in Int /\ t[id].quality \in Qualities \cup {Null}
    BY TableIs
  <1>3. ASSUME NEW v \in Qualities PROVE v \in Int
    BY QualitiesAreNumbers
  <1>. QED
    BY <1>1, <1>2, <1>3 DEF SortColumn

\* Two rows have one order.
LEMMA OrderIsStrict ==
    ASSUME NEW t \in Tables, NEW q \in Queries, NEW a \in DOMAIN t, NEW b \in DOMAIN t
    PROVE  Before(t, a, b, q) => a # b /\ ~Before(t, b, a, q)
  <1>1. SortColumn(t, a, q.sort) \in Int /\ SortColumn(t, b, q.sort) \in Int
    BY SortedByNumbers
  <1>2. a \in Int /\ b \in Int
    BY TableIs
  <1>. QED
    BY <1>1, <1>2 DEF Before, Precedes

LEMMA SelectedAreItems ==
    ASSUME items \in Tables, NEW q
    PROVE  /\ Selected(q) \subseteq DOMAIN items /\ Selected(q) \subseteq 1 .. MaxItems
           /\ IsFiniteSet(Selected(q)) /\ IsFiniteSet(DOMAIN items)
  <1>1. IsFiniteSet(1 .. MaxItems)
    BY FS_Interval
  <1>. QED
    BY <1>1, TableIs, FS_Subset DEF Selected

\* What ORDER BY may answer has each match once.
LEMMA ResultsAre ==
    ASSUME items \in Tables, NEW q \in Queries, NEW s \in Results(q)
    PROVE  /\ s \in Seq(Selected(q)) /\ Len(s) = Cardinality(Selected(q))
           /\ \A i, j \in 1 .. Len(s) : i < j => Before(items, s[i], s[j], q)
           /\ \A x \in Selected(q) : \E i \in 1 .. Len(s) : s[i] = x
           /\ \A i, j \in 1 .. Len(s) : i # j => s[i] # s[j]
  <1>. DEFINE M == Selected(q)
  <1>1. Len(s) = Cardinality(M) /\ s \in SetToAllKPermutations(M) /\ Ordered(s, q)
    BY DEF Results
  <1>2. IsFiniteSet(M)
    BY SelectedAreItems
  <1>. HIDE DEF M
  <1>3. PICK T \in SUBSET M : s \in SetToSeqs(T)
    BY <1>1 DEF SetToAllKPermutations
  <1>. DEFINE n == Cardinality(T)
  <1>4. n \in Nat /\ IsFiniteSet(T)
    BY <1>2, <1>3, FS_Subset, FS_CardinalityType
  <1>5. s \in [1 .. n -> T] /\ \A i, j \in 1 .. n : i # j => s[i] # s[j]
    BY <1>3 DEF SetToSeqs
  <1>. HIDE DEF n
  <1>6. s \in Seq(T) /\ Len(s) = n
    BY <1>4, <1>5
  <1>7. T = M
    BY <1>1, <1>2, <1>3, <1>6, FS_Subset DEF n
  <1>8. \A x \in T : \E i \in 1 .. n : s[i] = x
    <2>1. s \in Injection(1 .. n, T)
      BY <1>5 DEF Injection, IsInjective
    <2>2. Cardinality(1 .. n) = Cardinality(T)
      BY <1>4, FS_Interval DEF n
    <2>3. s \in Surjection(1 .. n, T)
      BY <1>4, <2>1, <2>2, FS_Injection
    <2>. QED
      BY <2>3 DEF Surjection
  <1>. QED
    BY <1>1, <1>5, <1>6, <1>7, <1>8 DEF M, Ordered, Before

\* Where an item comes among the matches: behind those before it.
Rank(table, matches, id, q) == Cardinality({x \in matches : x = id \/ Before(table, x, id, q)})

LEMMA RankOfResult ==
    ASSUME items \in Tables, NEW q \in Queries, NEW s \in Results(q), NEW i \in 1 .. Len(s)
    PROVE  Rank(items, Selected(q), s[i], q) = i
  <1>. DEFINE F == {x \in Selected(q) : x = s[i] \/ Before(items, x, s[i], q)}
              f == [k \in 1 .. i |-> s[k]]
  <1>1. /\ s \in Seq(Selected(q)) /\ Len(s) \in Nat
        /\ \A k, l \in 1 .. Len(s) : k < l => Before(items, s[k], s[l], q)
        /\ \A x \in Selected(q) : \E k \in 1 .. Len(s) : s[k] = x
        /\ \A k, l \in 1 .. Len(s) : k # l => s[k] # s[l]
    <2>. HIDE DEF F, f
    <2>1. s \in Seq(Selected(q))
      BY ResultsAre
    <2>2. Len(s) \in Nat
      BY <2>1, LenProperties
    <2>. QED
      BY <2>1, <2>2, ResultsAre
  <1>2. \A k \in 1 .. Len(s) : s[k] \in Selected(q) /\ s[k] \in DOMAIN items
    <2>1. Selected(q) \subseteq DOMAIN items
      BY SelectedAreItems
    <2>2. \A k \in 1 .. Len(s) : s[k] \in Selected(q)
      BY <1>1, ElementOfSeq
    <2>. QED
      BY <2>1, <2>2
  <1>3. \A k \in 1 .. i : k \in 1 .. Len(s)
    BY <1>1
  <1>4. ASSUME NEW k \in 1 .. i PROVE s[k] \in F
    <2>1. k \in 1 .. Len(s) /\ i \in 1 .. Len(s) /\ (k = i \/ k < i)
      BY <1>1
    <2>2. k < i => Before(items, s[k], s[i], q)
      BY <1>1, <2>1
    <2>3. s[k] \in Selected(q)
      BY <1>2, <2>1
    <2>. QED
      BY <2>1, <2>2, <2>3
  <1>5. ASSUME NEW x \in F PROVE \E k \in 1 .. i : s[k] = x
    <2>1. PICK k \in 1 .. Len(s) : s[k] = x
      BY <1>1
    <2>2. CASE k <= i
      BY <2>1, <2>2
    <2>3. CASE i < k
      <3>1. Before(items, s[i], s[k], q)
        BY <1>1, <2>3
      <3>2. s[i] # s[k] /\ ~Before(items, s[k], s[i], q)
        BY <1>2, <3>1, OrderIsStrict
      <3>. QED
        BY <2>1, <3>2
    <2>. QED
      BY <2>2, <2>3, <1>1
  <1>6. f \in Bijection(1 .. i, F)
    <2>. HIDE DEF F
    <2>1. f \in [1 .. i -> F]
      BY <1>4
    <2>2. \A k, l \in 1 .. i : f[k] = f[l] => k = l
      BY <1>1, <1>3
    <2>3. \A x \in F : \E k \in 1 .. i : f[k] = x
      BY <1>5
    <2>. QED
      BY <2>1, <2>2, <2>3 DEF Bijection, Injection, Surjection, IsInjective
  <1>. HIDE DEF f, F
  <1>7. Cardinality(F) = i
    <2>1. ExistsBijection(1 .. i, F)
      BY <1>6 DEF ExistsBijection
    <2>. QED
      BY <2>1, FS_CountingElements
  <1>. QED
    BY <1>7 DEF Rank, F

\* Ties are decided, so that a list has one answer.
LEMMA OneResult ==
    ASSUME items \in Tables, NEW q \in Queries, NEW s \in Results(q), NEW t \in Results(q)
    PROVE  s = t
  <1>1. /\ s \in Seq(Selected(q)) /\ t \in Seq(Selected(q)) /\ Len(s) = Len(t)
        /\ \A x \in Selected(q) : \E i \in 1 .. Len(t) : t[i] = x
    BY ResultsAre
  <1>2. ASSUME NEW i \in 1 .. Len(s) PROVE s[i] = t[i]
    <2>1. PICK k \in 1 .. Len(t) : t[k] = s[i]
      BY <1>1
    <2>2. Rank(items, Selected(q), s[i], q) = i /\ Rank(items, Selected(q), t[k], q) = k
      BY RankOfResult
    <2>. QED
      BY <2>1, <2>2
  <1>. QED
    BY <1>1, <1>2, SeqEqual

(* The walk through the pages. *)

LEMMA LesserIs ==
    ASSUME NEW a \in Nat, NEW b \in Nat
    PROVE  /\ Min({a, b}) = IF a <= b THEN a ELSE b
           /\ Min({a, b}) \in Nat /\ Min({a, b}) <= a /\ Min({a, b}) <= b
  <1>1. Min({a, b}) = IF a <= b THEN a ELSE b
    BY DEF Min
  <1>. QED
    BY <1>1

\* A page goes on where the pages before it ended.
LEMMA PageContinues ==
    ASSUME NEW S, NEW s \in Seq(S), NEW q \in Queries, offset \in Nat, offset <= Len(s)
    PROVE  SubSeq(s, 1, offset) \o Page(s, q) = SubSeq(s, 1, Min({offset + q.limit, Len(s)}))
  <1>1. Len(s) \in Nat /\ q.limit \in Nat
    <2>1. q.limit \in 1 .. MaxLimit
      BY DEF Queries
    <2>. QED
      BY <2>1, LenProperties
  <1>. DEFINE n == Min({offset + q.limit, Len(s)})
  <1>2. n \in Nat /\ n <= Len(s) /\ offset <= n
    <2>1. offset + q.limit \in Nat /\ offset <= offset + q.limit
      BY <1>1
    <2>2. n = IF offset + q.limit <= Len(s) THEN offset + q.limit ELSE Len(s)
      BY <1>1, <2>1, LesserIs
    <2>. HIDE DEF n
    <2>. QED
      BY <1>1, <2>1, <2>2
  <1>. HIDE DEF n
  <1>3. SubSeq(s, 1, offset) \o SubSeq(s, offset + 1, n) = SubSeq(s, 1, n)
    <2>1. 1 \in 1 .. Len(s) + 1 /\ offset \in 1 - 1 .. Len(s) /\ n \in offset .. Len(s)
      BY <1>1, <1>2
    <2>. QED
      BY <2>1, ConcatAdjacentSubSeq
  <1>. QED
    BY <1>3 DEF Page, n

\* A page is of matches.
LEMMA PageIsOfMatches ==
    ASSUME items \in Tables, NEW q \in Queries, NEW s \in Results(q), offset \in Nat
    PROVE  Page(s, q) \in Seq(1 .. MaxItems)
  <1>1. s \in Seq(1 .. MaxItems)
    BY ResultsAre, SelectedAreItems, SeqMonotonic
  <1>2. Len(s) \in Nat /\ q.limit \in Nat
    <2>1. q.limit \in 1 .. MaxLimit
      BY DEF Queries
    <2>. QED
      BY <1>1, <2>1, LenProperties
  <1>. DEFINE n == Min({offset + q.limit, Len(s)})
  <1>3. n \in Nat /\ n <= Len(s)
    <2>1. offset + q.limit \in Nat
      BY <1>2
    <2>. QED
      BY <1>2, <2>1, LesserIs
  <1>. HIDE DEF n
  <1>4. \A i \in offset + 1 .. n : s[i] \in 1 .. MaxItems
    BY <1>1, <1>2, <1>3, ElementOfSeq
  <1>5. offset + 1 \in Int /\ n \in Int
    BY <1>3
  <1>6. SubSeq(s, offset + 1, n) \in Seq(1 .. MaxItems)
    BY <1>4, <1>5, SubSeqProperties
  <1>. QED
    BY <1>6 DEF Page, n

LEMMA SameMatches ==
    ASSUME UNCHANGED <<items, query>>
    PROVE  Selected(query)' = Selected(query) /\ Results(query)' = Results(query)
  BY DEF Selected, Searched, Results, Ordered, Precedes, SortColumn

\* Publishing adds items and takes none away.
LEMMA PublishAdds ==
    ASSUME NEW table \in Tables, NEW id \in 1 .. MaxItems, NEW rows \in Rows({id})
    PROVE  /\ Upserted(table, rows) \in Tables
           /\ DOMAIN Upserted(table, rows) = DOMAIN table \cup {id}
  <1>. DEFINE R == [name: 1 .. Len(NameTexts), quality: Qualities \cup {Null}]
              u == Upserted(table, rows)
  <1>1. DOMAIN table \subseteq 1 .. MaxItems /\ \A x \in DOMAIN table : table[x] \in R
    BY TableIs
  <1>2. rows \in [{id} -> R]
    BY DEF Rows
  <1>. HIDE DEF R
  <1>3. u = [x \in {id} \cup DOMAIN table |-> IF x \in {id} THEN rows[x] ELSE table[x]]
    BY <1>2 DEF Upserted
  <1>. HIDE DEF u
  <1>4. u \in [{id} \cup DOMAIN table -> R]
    BY <1>1, <1>2, <1>3
  <1>5. {id} \cup DOMAIN table \in SUBSET (1 .. MaxItems)
    BY <1>1
  <1>. QED
    BY <1>4, <1>5 DEF Tables, Rows, u, R

(* Every match is met once while nothing is published. *)

WalkBegins == at = "start" => offset = 0 /\ collected = <<>> /\ publications = 0

PagesBounded == at \in {"list", "count"} => offset <= MaxItems

Matched ==
    publications = 0 =>
        /\ at = "list" => \E s \in Results(query) :
               offset < Len(s) /\ collected = SubSeq(s, 1, offset)
        /\ at = "count" => \E s \in Results(query) :
               /\ offset <= Len(s)
               /\ collected = SubSeq(s, 1, Min({offset + query.limit, Len(s)}))
        /\ Walked => collected \in Results(query) /\ total = Len(collected)

LEMMA ResultLength ==
    ASSUME items \in Tables, NEW q \in Queries
    PROVE  /\ Cardinality(Selected(q)) \in 0 .. MaxItems
           /\ \A s \in Results(q) : Len(s) = Cardinality(Selected(q))
  <1>1. IsFiniteSet(1 .. MaxItems) /\ Cardinality(1 .. MaxItems) = MaxItems
    <2>1. IF 1 > MaxItems THEN MaxItems = 0 ELSE MaxItems - 1 + 1 = MaxItems
      OBVIOUS
    <2>. QED
      BY <2>1, FS_Interval
  <1>2. Cardinality(Selected(q)) \in Nat /\ Cardinality(Selected(q)) <= MaxItems
    BY <1>1, SelectedAreItems, FS_Subset, FS_CardinalityType
  <1>. QED
    BY <1>2, ResultsAre

WalkInv == TypeOK /\ WalkBegins /\ PagesBounded /\ Matched

LEMMA MatchedBySteps ==
    ASSUME WalkInv, [Next]_vars
    PROVE  WalkBegins' /\ PagesBounded' /\ Matched'
  <1>. USE DEF WalkInv
  <1>0. /\ items \in Tables /\ query \in Queries /\ offset \in Nat
        /\ query.limit \in Nat /\ query.limit > 0
    BY DEF TypeOK, Queries
  <1>1. CASE ListItems
    <2>1. PICK s \in Results(query) : collected' = collected \o Page(s, query)
      BY <1>1 DEF ListItems
    <2>2. s \in Seq(Selected(query)) /\ Len(s) \in Nat /\ Len(s) = Cardinality(Selected(query))
      BY <1>0, <2>1, ResultsAre, LenProperties
    <2>3. WalkBegins' /\ PagesBounded'
      BY <1>1 DEF ListItems, WalkBegins, PagesBounded
    <2>4. ASSUME publications' = 0
          PROVE  /\ offset <= Len(s)
                 /\ collected' = SubSeq(s, 1, Min({offset + query.limit, Len(s)}))
      <3>1. offset <= Len(s) /\ collected = SubSeq(s, 1, offset)
        <4>1. CASE at = "start"
          <5>1. SubSeq(s, 1, 0) = <<>>
            BY SubSeqEmpty
          <5>. QED
            BY <4>1, <5>1, <2>2 DEF WalkBegins
        <4>2. CASE at = "list"
          <5>1. publications = 0
            BY <1>1, <2>4, <4>2 DEF ListItems
          <5>2. PICK t \in Results(query) : offset < Len(t) /\ collected = SubSeq(t, 1, offset)
            BY <4>2, <5>1 DEF Matched
          <5>3. s = t
            BY <1>0, <2>1, <5>2, OneResult
          <5>. QED
            BY <1>0, <2>2, <5>2, <5>3
        <4>. QED
          BY <1>1, <4>1, <4>2 DEF ListItems
      <3>. QED
        BY <1>0, <2>1, <2>2, <3>1, PageContinues
    <2>5. Matched'
      <3>1. Results(query)' = Results(query) /\ query' = query /\ offset' = offset /\ at' = "count"
        BY <1>1, SameMatches DEF ListItems
      <3>. QED
        BY <2>1, <2>4, <3>1 DEF Matched, Walked
    <2>. QED
      BY <2>3, <2>5
  <1>2. CASE CountItems
    <2>1. /\ at = "count" /\ total' = Cardinality(Selected(query))
          /\ offset' = offset + query.limit
          /\ at' = IF offset' < total' THEN "list" ELSE "end"
          /\ UNCHANGED <<items, query, collected, began, publications, answer>>
      BY <1>2 DEF CountItems
    <2>2. WalkBegins' /\ PagesBounded'
      BY <1>0, <2>1, ResultLength DEF WalkBegins, PagesBounded
    <2>3. Results(query)' = Results(query)
      BY <2>1, SameMatches
    <2>4. ASSUME publications' = 0
          PROVE  /\ at' = "list" => \E s \in Results(query) :
                        offset' < Len(s) /\ collected = SubSeq(s, 1, offset')
                 /\ at' = "end" => collected \in Results(query) /\ total' = Len(collected)
      <3>1. PICK s \in Results(query) :
                /\ offset <= Len(s)
                /\ collected = SubSeq(s, 1, Min({offset + query.limit, Len(s)}))
        BY <2>1, <2>4 DEF Matched
      <3>2. s \in Seq(Selected(query)) /\ Len(s) \in Nat /\ Len(s) = total'
        BY <1>0, <2>1, <3>1, ResultsAre, LenProperties
      <3>3. CASE offset' < total'
        <4>1. Min({offset + query.limit, Len(s)}) = offset'
          BY <1>0, <2>1, <3>2, <3>3, LesserIs
        <4>. QED
          BY <2>1, <3>1, <3>2, <3>3, <4>1
      <3>4. CASE ~(offset' < total')
        <4>1. Min({offset + query.limit, Len(s)}) = Len(s)
          BY <1>0, <2>1, <3>2, <3>4, LesserIs
        <4>2. collected = s
          BY <3>1, <3>2, <4>1, SubSeqFull
        <4>. QED
          BY <2>1, <3>1, <3>2, <3>4, <4>2
      <3>. QED
        BY <3>3, <3>4
    <2>5. Matched'
      BY <2>1, <2>3, <2>4 DEF Matched, Walked
    <2>. QED
      BY <2>2, <2>5
  <1>3. ASSUME NEW id \in 0 .. MaxInteger + 1, GetItem(id)
        PROVE  WalkBegins' /\ PagesBounded' /\ Matched'
    <2>1. at' = "end" /\ answer' # Null
      BY <1>3 DEF GetItem
    <2>. QED
      BY <2>1 DEF WalkBegins, PagesBounded, Matched, Walked
  <1>4. ASSUME NEW id \in 1 .. MaxItems, NEW rows \in Rows({id}),
               at \in {"list", "count"}, Publish(rows)
        PROVE  WalkBegins' /\ PagesBounded' /\ Matched'
    <2>1. publications' = publications + 1 /\ publications \in Nat /\ UNCHANGED <<at, offset>>
      BY <1>4 DEF Publish, TypeOK
    <2>2. publications' # 0
      BY <2>1
    <2>. QED
      BY <1>4, <2>1, <2>2 DEF WalkBegins, PagesBounded, Matched
  <1>5. CASE UNCHANGED vars
    BY <1>5, SameMatches DEF vars, WalkBegins, PagesBounded, Matched, Walked
  <1>. QED
    BY <1>1, <1>2, <1>3, <1>4, <1>5 DEF Next

\* The values of the variables.
LEMMA TypesBySteps ==
    ASSUME WalkInv, [Next]_vars
    PROVE  TypeOK'
  <1>. USE DEF WalkInv
  <1>0. /\ items \in Tables /\ began \in Tables /\ query \in Queries
        /\ offset \in Nat /\ offset <= MaxItems + MaxLimit /\ query.limit \in 1 .. MaxLimit
        /\ collected \in Seq(1 .. MaxItems)
        /\ publications \in 0 .. MaxPublications /\ total \in 0 .. MaxItems
        /\ answer \in {Null, "200", "404", "503"} /\ at \in {"start", "list", "count", "end"}
    BY DEF TypeOK, Queries
  <1>1. (at = "list" /\ publications = 0 => Len(collected) = offset)'
    <2>. SUFFICES ASSUME at' = "list", publications' = 0 PROVE Len(collected') = offset'
      OBVIOUS
    <2>1. CASE CountItems
      <3>1. /\ at = "count" /\ offset' = offset + query.limit /\ collected' = collected
            /\ publications = 0 /\ offset' < Cardinality(Selected(query))
        BY <2>1 DEF CountItems
      <3>2. PICK s \in Results(query) :
                /\ offset <= Len(s)
                /\ collected = SubSeq(s, 1, Min({offset + query.limit, Len(s)}))
        BY <3>1 DEF Matched
      <3>3. s \in Seq(Selected(query)) /\ Len(s) = Cardinality(Selected(query)) /\ Len(s) \in Nat
        BY <1>0, <3>2, ResultsAre, LenProperties
      <3>4. Min({offset + query.limit, Len(s)}) = offset' /\ offset' \in Nat /\ offset' < Len(s)
        <4>1. offset' \in Nat /\ offset' < Len(s) /\ offset' = offset + query.limit
          BY <1>0, <3>1, <3>3
        <4>2. ASSUME NEW o \in Nat, o < Len(s) PROVE Min({o, Len(s)}) = o
          BY <3>3, <4>2, LesserIs
        <4>. QED
          BY <4>1, <4>2
      <3>5. ASSUME NEW i \in 1 .. offset' PROVE s[i] \in Selected(query)
        <4>1. i \in 1 .. Len(s)
          BY <3>3, <3>4
        <4>. QED
          BY <3>3, <4>1, ElementOfSeq
      <3>6. Len(SubSeq(s, 1, offset')) = offset'
        <4>1. ASSUME NEW o \in Nat, \A i \in 1 .. o : s[i] \in Selected(query)
              PROVE  Len(SubSeq(s, 1, o)) = o
          BY <4>1, SubSeqProperties
        <4>. QED
          BY <3>4, <3>5, <4>1
      <3>. QED
        BY <3>1, <3>2, <3>4, <3>6
    <2>2. CASE ListItems
      BY <2>2 DEF ListItems
    <2>3. ASSUME NEW id \in 0 .. MaxInteger + 1, GetItem(id) PROVE FALSE
      BY <2>3 DEF GetItem
    <2>4. ASSUME NEW id \in 1 .. MaxItems, NEW rows \in Rows({id}), Publish(rows) PROVE FALSE
      BY <1>0, <2>4 DEF Publish
    <2>5. CASE UNCHANGED vars
      BY <2>5 DEF vars, TypeOK
    <2>. QED
      BY <2>1, <2>2, <2>3, <2>4, <2>5 DEF Next
  <1>2. CASE ListItems
    <2>1. PICK s \in Results(query) : collected' = collected \o Page(s, query)
      BY <1>2 DEF ListItems
    <2>2. collected' \in Seq(1 .. MaxItems)
      BY <1>0, <2>1, PageIsOfMatches, ConcatProperties
    <2>3. /\ at' = "count" /\ UNCHANGED <<items, query, offset, total, answer>>
          /\ began' \in Tables /\ publications' \in 0 .. MaxPublications
      BY <1>0, <1>2 DEF ListItems
    <2>. QED
      BY <1>0, <1>1, <2>2, <2>3 DEF TypeOK
  <1>3. CASE CountItems
    <2>1. /\ at = "count" /\ total' = Cardinality(Selected(query))
          /\ offset' = offset + query.limit /\ at' \in {"list", "end"}
          /\ UNCHANGED <<items, query, collected, began, publications, answer>>
      BY <1>3 DEF CountItems
    <2>2. total' \in 0 .. MaxItems
      BY <1>0, <2>1, ResultLength
    <2>3. offset' \in 0 .. MaxItems + MaxLimit
      BY <1>0, <2>1 DEF PagesBounded
    <2>. QED
      BY <1>0, <1>1, <2>1, <2>2, <2>3 DEF TypeOK
  <1>4. ASSUME NEW id \in 0 .. MaxInteger + 1, GetItem(id) PROVE TypeOK'
    <2>1. /\ at' = "end" /\ answer' \in {"200", "404", "503"}
          /\ UNCHANGED <<items, query, offset, collected, total, began, publications>>
      BY <1>4 DEF GetItem
    <2>. QED
      BY <1>0, <1>1, <2>1 DEF TypeOK
  <1>5. ASSUME NEW id \in 1 .. MaxItems, NEW rows \in Rows({id}), Publish(rows) PROVE TypeOK'
    <2>1. /\ publications < MaxPublications /\ publications' = publications + 1
          /\ items' = Upserted(items, rows)
          /\ UNCHANGED <<at, query, offset, collected, total, began, answer>>
      BY <1>5 DEF Publish
    <2>2. items' \in Tables
      BY <1>0, <2>1, PublishAdds
    <2>3. publications' \in 0 .. MaxPublications
      BY <1>0, <2>1
    <2>. QED
      BY <1>0, <1>1, <2>1, <2>2, <2>3 DEF TypeOK
  <1>6. CASE UNCHANGED vars
    BY <1>6 DEF vars, TypeOK
  <1>. QED
    BY <1>2, <1>3, <1>4, <1>5, <1>6 DEF Next

LEMMA WalkBeginsSo == Init => WalkInv
  <1>. SUFFICES ASSUME Init PROVE WalkInv
    OBVIOUS
  <1>1. TypeOK
    <2>1. <<>> \in Seq(1 .. MaxItems) /\ 0 \in 0 .. MaxItems + MaxLimit
      BY EmptySeq
    <2>. QED
      BY <2>1 DEF Init, TypeOK
  <1>. QED
    BY <1>1 DEF Init, WalkInv, WalkBegins, PagesBounded, Matched, Walked

LEMMA WalkInductive == Spec => []WalkInv
  <1>1. ASSUME WalkInv, [Next]_vars PROVE WalkInv'
    BY <1>1, MatchedBySteps, TypesBySteps DEF WalkInv
  <1>. QED
    BY <1>1, WalkBeginsSo, PTL DEF Spec

\* The variables have the values named for them: no page begins behind the end
\* of the largest catalog by more than a page.
THEOREM TypeCorrect == Spec => []TypeOK
  <1>1. WalkInv => TypeOK
    BY DEF WalkInv
  <1>. QED
    BY <1>1, WalkInductive, PTL

\* EachMatchOnce holds for every sort, filter, search and page size, and every
\* table, however many of its rows compare equal.
THEOREM PagesPartitionMatches == Spec => []EachMatchOnce
  <1>1. ASSUME WalkInv PROVE EachMatchOnce
    <2>. SUFFICES ASSUME Walked, publications = 0
                  PROVE  /\ Range(collected) = Selected(query)
                         /\ Len(collected) = Cardinality(Selected(query))
                         /\ total = Len(collected)
      BY DEF EachMatchOnce
    <2>1. collected \in Results(query) /\ total = Len(collected)
      BY <1>1 DEF WalkInv, Matched
    <2>2. items \in Tables /\ query \in Queries
      BY <1>1 DEF WalkInv, TypeOK
    <2>3. /\ collected \in Seq(Selected(query)) /\ Len(collected) = Cardinality(Selected(query))
          /\ \A x \in Selected(query) : \E i \in 1 .. Len(collected) : collected[i] = x
      BY <2>1, <2>2, ResultsAre
    <2>4. Range(collected) = {collected[i] : i \in 1 .. Len(collected)}
      BY <2>3, RangeEquality
    <2>5. \A i \in 1 .. Len(collected) : collected[i] \in Selected(query)
      BY <2>3, ElementOfSeq
    <2>. QED
      BY <2>1, <2>3, <2>4, <2>5
  <1>. QED
    BY <1>1, WalkInductive, PTL

(* What a walk by game id meets while snapshots are published. *)

Place(id) == Rank(items, DOMAIN items, id, query)

\* An item there from the beginning is met, or comes behind the pages so far.
Kept ==
    /\ DOMAIN began \subseteq DOMAIN items
    /\ query.sort = "game_id" /\ query.search = Null /\ query.quality = Null =>
        /\ at = "list" => \A id \in DOMAIN began : id \in Range(collected) \/ offset < Place(id)
        /\ at = "count" => \A id \in DOMAIN began :
               id \in Range(collected) \/ offset + query.limit < Place(id)
        /\ Walked => DOMAIN began \subseteq Range(collected)

LEMMA PlaceIs ==
    ASSUME items \in Tables, NEW id \in DOMAIN items
    PROVE  Place(id) \in Nat /\ 1 <= Place(id) /\ Place(id) <= Cardinality(DOMAIN items)
  <1>. DEFINE F == {x \in DOMAIN items : x = id \/ Before(items, x, id, query)}
  <1>1. IsFiniteSet(DOMAIN items) /\ F \in SUBSET (DOMAIN items) /\ {id} \in SUBSET F
    BY SelectedAreItems
  <1>2. Place(id) = Cardinality(F)
    BY DEF Place, Rank
  <1>. HIDE DEF F
  <1>3. IsFiniteSet(F) /\ Cardinality(F) <= Cardinality(DOMAIN items)
    BY <1>1, FS_Subset
  <1>4. Cardinality({id}) <= Cardinality(F) /\ Cardinality({id}) = 1
    BY <1>1, <1>3, FS_Subset, FS_Singleton
  <1>. QED
    BY <1>2, <1>3, <1>4, FS_CardinalityType

\* By game id, the place of an item does not fall when items are added.
LEMMA PlaceGrows ==
    ASSUME items' \in Tables, DOMAIN items \subseteq DOMAIN items', query' = query,
           query.sort = "game_id", NEW id \in DOMAIN items
    PROVE  /\ Place(id) <= Place(id)'
  <1>. DEFINE F == {x \in DOMAIN items : x = id \/ Before(items, x, id, query)}
              G == {x \in DOMAIN items' : x = id \/ Before(items', x, id, query)}
  <1>1. Place(id) = Cardinality(F) /\ Place(id)' = Cardinality(G)
    BY DEF Place, Rank, Before, Precedes, SortColumn
  <1>2. \A x : Before(items, x, id, query) <=> Before(items', x, id, query)
    BY DEF Before, Precedes, SortColumn
  <1>3. F \in SUBSET G
    BY <1>2
  <1>4. G \in SUBSET (DOMAIN items')
    OBVIOUS
  <1>. HIDE DEF F, G
  <1>5. IsFiniteSet(DOMAIN items')
    <2>1. IsFiniteSet(1 .. MaxItems)
      BY FS_Interval
    <2>. QED
      BY <2>1, TableIs, FS_Subset
  <1>6. IsFiniteSet(G)
    BY <1>4, <1>5, FS_Subset
  <1>. QED
    BY <1>1, <1>3, <1>6, FS_Subset

LEMMA KeptBySteps ==
    ASSUME WalkInv, Kept, [Next]_vars
    PROVE  Kept'
  <1>0. /\ items \in Tables /\ query \in Queries /\ offset \in Nat
        /\ query.limit \in Nat /\ query.limit > 0 /\ collected \in Seq(1 .. MaxItems)
    BY DEF WalkInv, TypeOK, Queries
  <1>1. CASE ListItems
    <2>1. PICK s \in Results(query) : collected' = collected \o Page(s, query)
      BY <1>1 DEF ListItems
    <2>2. /\ at \in {"start", "list"} /\ at' = "count" /\ began' = (IF at = "start" THEN items ELSE began)
          /\ UNCHANGED <<items, query, offset>>
      BY <1>1 DEF ListItems
    <2>3. DOMAIN began' \subseteq DOMAIN items'
      BY <2>2 DEF Kept
    <2>4. ASSUME query.sort = "game_id", query.search = Null, query.quality = Null,
                 NEW id \in DOMAIN began'
          PROVE  id \in Range(collected') \/ offset + query.limit < Place(id)
      <3>1. id \in Selected(query) /\ Selected(query) = DOMAIN items
        BY <2>2, <2>3, <2>4 DEF Selected
      <3>2. /\ s \in Seq(Selected(query)) /\ Len(s) \in Nat
            /\ \E i \in 1 .. Len(s) : s[i] = id
        BY <1>0, <2>1, <3>1, ResultsAre, LenProperties
      <3>3. PICK i \in 1 .. Len(s) : s[i] = id
        BY <3>2
      <3>4. Place(id) = i
        BY <1>0, <2>1, <3>1, <3>3, RankOfResult DEF Place
      <3>5. Page(s, query) \in Seq(1 .. MaxItems)
        BY <1>0, <2>1, PageIsOfMatches
      <3>6. Range(collected') = Range(collected) \cup Range(Page(s, query))
        BY <1>0, <2>1, <3>5, RangeConcatenation
      <3>7. CASE i <= offset
        <4>1. at = "list"
          BY <1>0, <2>2, <3>3, <3>7 DEF WalkInv, WalkBegins
        <4>2. id \in Range(collected) \/ offset < Place(id)
          BY <2>2, <2>4, <4>1 DEF Kept
        <4>. QED
          BY <1>0, <3>4, <3>6, <3>7, <4>2
      <3>8. CASE offset < i /\ i <= offset + query.limit
        <4>. DEFINE n == Min({offset + query.limit, Len(s)})
        <4>1. n \in Nat /\ i <= n /\ n <= Len(s)
          <5>1. offset + query.limit \in Nat
            BY <1>0
          <5>2. n = IF offset + query.limit <= Len(s) THEN offset + query.limit ELSE Len(s)
            BY <3>2, <5>1, LesserIs
          <5>. HIDE DEF n
          <5>. QED
            BY <1>0, <3>2, <3>3, <3>8, <5>1, <5>2
        <4>. HIDE DEF n
        <4>2. \A j \in offset + 1 .. n : s[j] \in Selected(query)
          BY <1>0, <3>2, <4>1, ElementOfSeq
        <4>3. /\ offset + 1 \in Int /\ n \in Int /\ offset + 1 <= n
              /\ i - offset \in 1 .. n - (offset + 1) + 1
              /\ offset + 1 + (i - offset) - 1 = i
          BY <1>0, <3>3, <3>8, <4>1
        <4>4. /\ SubSeq(s, offset + 1, n)[i - offset] = s[i]
              /\ Len(SubSeq(s, offset + 1, n)) = n - (offset + 1) + 1
          BY <4>2, <4>3, SubSeqProperties
        <4>5. Page(s, query)[i - offset] = id /\ i - offset \in 1 .. Len(Page(s, query))
          BY <3>3, <4>3, <4>4 DEF Page, n
        <4>6. id \in Range(Page(s, query))
          BY <3>5, <4>5, RangeEquality
        <4>. QED
          BY <3>6, <4>6
      <3>9. CASE offset + query.limit < i
        BY <3>4, <3>9
      <3>. QED
        BY <1>0, <3>3, <3>7, <3>8, <3>9
    <2>5. \A id : Place(id)' = Place(id)
      BY <2>2 DEF Place, Rank, Before, Precedes, SortColumn
    <2>. QED
      BY <2>2, <2>3, <2>4, <2>5 DEF Kept, Walked
  <1>2. CASE CountItems
    <2>1. /\ at = "count" /\ total' = Cardinality(Selected(query))
          /\ offset' = offset + query.limit
          /\ at' = IF offset' < total' THEN "list" ELSE "end"
          /\ UNCHANGED <<items, query, collected, began, publications, answer>>
      BY <1>2 DEF CountItems
    <2>2. ASSUME query.sort = "game_id", query.search = Null, query.quality = Null,
                 NEW id \in DOMAIN began
          PROVE  id \in Range(collected) \/ (offset' < Place(id) /\ offset' < total')
      <3>1. id \in Range(collected) \/ offset' < Place(id)
        BY <2>1, <2>2 DEF Kept
      <3>2. id \in DOMAIN items /\ total' = Cardinality(DOMAIN items)
        <4>1. Selected(query) = DOMAIN items
          BY <2>2 DEF Selected
        <4>. QED
          BY <2>1, <2>2, <4>1 DEF Kept
      <3>3. Cardinality(DOMAIN items) \in Nat
        BY <1>0, SelectedAreItems, FS_CardinalityType
      <3>4. Place(id) \in Nat /\ Place(id) <= Cardinality(DOMAIN items)
        BY <1>0, <3>2, PlaceIs
      <3>5. offset' \in Nat
        BY <1>0, <2>1
      <3>6. offset' < Place(id) => offset' < total'
        BY <3>2, <3>3, <3>4, <3>5
      <3>. QED
        BY <3>1, <3>6
    <2>3. \A id : Place(id)' = Place(id)
      BY <2>1 DEF Place, Rank, Before, Precedes, SortColumn
    <2>. QED
      BY <2>1, <2>2, <2>3 DEF Kept, Walked
  <1>3. ASSUME NEW id \in 0 .. MaxInteger + 1, GetItem(id) PROVE Kept'
    <2>1. at' = "end" /\ answer' # Null /\ UNCHANGED <<items, query, began>>
      BY <1>3 DEF GetItem
    <2>. QED
      BY <2>1 DEF Kept, Walked
  <1>4. ASSUME NEW new \in 1 .. MaxItems, NEW rows \in Rows({new}),
               at \in {"list", "count"}, Publish(rows)
        PROVE  Kept'
    <2>1. /\ items' = Upserted(items, rows)
          /\ UNCHANGED <<at, query, offset, collected, total, began, answer>>
      BY <1>4 DEF Publish
    <2>2. items' \in Tables /\ DOMAIN items \subseteq DOMAIN items'
      <3>1. /\ Upserted(items, rows) \in Tables
            /\ DOMAIN Upserted(items, rows) = DOMAIN items \cup {new}
        BY <1>0, PublishAdds
      <3>. QED
        BY <2>1, <3>1
    <2>3. ASSUME query.sort = "game_id", NEW id \in DOMAIN began
          PROVE  /\ Place(id) \in Nat /\ Place(id)' \in Nat /\ Place(id) <= Place(id)'
      <3>1. id \in DOMAIN items /\ id \in DOMAIN items'
        BY <2>2 DEF Kept
      <3>2. Place(id) \in Nat
        BY <1>0, <3>1, PlaceIs
      <3>3. Place(id) <= Place(id)'
        BY <2>1, <2>2, <2>3, <3>1, PlaceGrows
      <3>4. Place(id)' \in Nat
        <4>1. IsFiniteSet(DOMAIN items')
          <5>1. IsFiniteSet(1 .. MaxItems)
            BY FS_Interval
          <5>. QED
            BY <2>2, <5>1, TableIs, FS_Subset
        <4>. DEFINE G == {x \in DOMAIN items' : x = id \/ Before(items', x, id, query')}
        <4>2. Place(id)' = Cardinality(G)
          BY DEF Place, Rank, Before, Precedes, SortColumn
        <4>3. G \in SUBSET (DOMAIN items')
          OBVIOUS
        <4>. HIDE DEF G
        <4>. QED
          BY <4>1, <4>2, <4>3, FS_Subset, FS_CardinalityType
      <3>. QED
        BY <3>2, <3>3, <3>4
    <2>. QED
      BY <1>0, <1>4, <2>1, <2>2, <2>3 DEF Kept, Walked
  <1>5. CASE UNCHANGED vars
    <2>1. UNCHANGED <<at, items, query, offset, collected, began, answer>>
      BY <1>5 DEF vars
    <2>2. \A id : Place(id)' = Place(id)
      BY <2>1 DEF Place, Rank, Before, Precedes, SortColumn
    <2>. QED
      BY <2>1, <2>2 DEF Kept, Walked
  <1>. QED
    BY <1>1, <1>2, <1>3, <1>4, <1>5 DEF Next

\* NothingSkipped holds however many snapshots are published between which
\* pages.
THEOREM PagesSkipNothing == Spec => []NothingSkipped
  <1>1. Init => Kept
    BY DEF Init, Kept, Walked
  <1>2. WalkInv /\ Kept /\ [Next]_vars => Kept'
    BY KeptBySteps
  <1>3. Kept => NothingSkipped
    BY DEF Kept, NothingSkipped
  <1>. QED
    BY <1>1, <1>2, <1>3, WalkInductive, PTL DEF Spec

(* What escaping does. *)

\* One step of the recursion FlattenSeq is defined by.
Joined(f, ss, i) == IF i = 1 THEN ss[i] ELSE f[i - 1] \o ss[i]

IsJoining(f, ss, n) == f = [i \in 1 .. n |-> Joined(f, ss, i)]

LEMMA JoinsExist ==
    ASSUME NEW ss, NEW n \in Nat
    PROVE  \E f : IsJoining(f, ss, n)
  <1>. DEFINE S == {k \in Nat : \E f : IsJoining(f, ss, k)}
  <1>1. 0 \in S
    <2>. DEFINE f == [i \in 1 .. 0 |-> 0]
    <2>1. IsJoining(f, ss, 0)
      BY DEF IsJoining
    <2>. QED
      BY <2>1
  <1>2. ASSUME NEW k \in Nat, k \in S PROVE k + 1 \in S
    <2>1. PICK f : IsJoining(f, ss, k)
      BY <1>2
    <2>. DEFINE g == [i \in 1 .. k + 1 |-> IF i = k + 1 THEN Joined(f, ss, i) ELSE f[i]]
    <2>2. ASSUME NEW i \in 1 .. k + 1 PROVE g[i] = Joined(g, ss, i)
      <3>1. g[i] = Joined(f, ss, i)
        BY <2>1 DEF IsJoining
      <3>2. i # 1 => f[i - 1] = g[i - 1]
        OBVIOUS
      <3>. HIDE DEF g
      <3>. QED
        BY <3>1, <3>2 DEF Joined
    <2>3. IsJoining(g, ss, k + 1)
      <3>. DEFINE h == [i \in 1 .. k + 1 |-> Joined(g, ss, i)]
      <3>1. \A i \in 1 .. k + 1 : g[i] = h[i]
        BY <2>2
      <3>. QED
        BY <3>1 DEF IsJoining
    <2>. HIDE DEF g
    <2>. QED
      BY <2>3
  <1>. HIDE DEF S
  <1>3. Nat \subseteq S
    BY <1>1, <1>2, Induction
  <1>. QED
    BY <1>3 DEF S

Joining(ss) == CHOOSE f : IsJoining(f, ss, Len(ss))

\* f joins ss one by one.
Joins(f, ss) ==
    /\ f[1] = ss[1]
    /\ \A i \in 2 .. Len(ss) : f[i] = f[i - 1] \o ss[i]

LEMMA FlattenIs ==
    ASSUME NEW S, NEW ss \in Seq(Seq(S)), ss # <<>>
    PROVE  \E f : /\ FlattenSeq(ss) = f[Len(ss)] /\ Joins(f, ss)
                  /\ \A i \in 1 .. Len(ss) : f[i] \in Seq(S)
  <1>1. Len(ss) \in Nat /\ Len(ss) # 0 /\ \A i \in 1 .. Len(ss) : ss[i] \in Seq(S)
    BY EmptySeq, LenProperties, ElementOfSeq
  <1>. DEFINE f == Joining(ss)
  <1>2. f = [i \in 1 .. Len(ss) |-> Joined(f, ss, i)]
    <2>1. \E g : IsJoining(g, ss, Len(ss))
      BY <1>1, JoinsExist
    <2>2. IsJoining(f, ss, Len(ss))
      BY <2>1 DEF Joining
    <2>. QED
      BY <2>2 DEF IsJoining
  <1>3. FlattenSeq(ss) = f[Len(ss)]
    BY <1>1 DEF FlattenSeq, Joined, Joining, IsJoining
  <1>. HIDE DEF f
  <1>4. ASSUME NEW i \in 1 .. Len(ss) PROVE f[i] = IF i = 1 THEN ss[i] ELSE f[i - 1] \o ss[i]
    <2>1. f[i] = Joined(f, ss, i)
      BY <1>2
    <2>. QED
      BY <2>1 DEF Joined
  <1>5. Joins(f, ss)
    <2>1. 1 \in 1 .. Len(ss) /\ \A i \in 2 .. Len(ss) : i \in 1 .. Len(ss) /\ i # 1
      BY <1>1
    <2>. QED
      BY <1>4, <2>1 DEF Joins
  <1>6. ASSUME NEW i \in 1 .. Len(ss) PROVE f[i] \in Seq(S)
    <2>. DEFINE T == {k \in Nat : k + 1 \in 1 .. Len(ss) => f[k + 1] \in Seq(S)}
    <2>1. 0 \in T
      BY <1>1, <1>5 DEF Joins
    <2>2. ASSUME NEW k \in Nat, k \in T PROVE k + 1 \in T
      <3>. SUFFICES ASSUME k + 2 \in 1 .. Len(ss) PROVE f[k + 2] \in Seq(S)
        OBVIOUS
      <3>1. k + 2 \in 2 .. Len(ss) /\ k + 1 \in 1 .. Len(ss) /\ k + 2 - 1 = k + 1
        BY <1>1
      <3>2. f[k + 2] = f[k + 1] \o ss[k + 2]
        <4>1. \A l \in 2 .. Len(ss) : f[l] = f[l - 1] \o ss[l]
          BY <1>5 DEF Joins
        <4>. HIDE DEF T
        <4>2. PICK j \in 2 .. Len(ss) : j = k + 2 /\ j - 1 = k + 1
          BY <3>1
        <4>3. f[j] = f[j - 1] \o ss[j]
          BY <4>1
        <4>. QED
          BY <4>2, <4>3
      <3>. QED
        BY <1>1, <2>2, <3>1, <3>2, ConcatProperties
    <2>. HIDE DEF T
    <2>3. Nat \subseteq T
      BY <2>1, <2>2, Induction
    <2>4. i - 1 \in T /\ i - 1 + 1 = i
      BY <2>3
    <2>. QED
      BY <2>4 DEF T
  <1>. QED
    BY <1>3, <1>5, <1>6

LEMMA FlattenInSeq ==
    ASSUME NEW S, NEW ss \in Seq(Seq(S))
    PROVE  FlattenSeq(ss) \in Seq(S) /\ FlattenSeq(<<>>) = <<>>
  <1>1. FlattenSeq(<<>>) = <<>>
    BY EmptySeq DEF FlattenSeq
  <1>2. ss # <<>> => Len(ss) \in 1 .. Len(ss)
    BY EmptySeq
  <1>3. ss # <<>> => FlattenSeq(ss) \in Seq(S)
    BY <1>2, FlattenIs
  <1>. QED
    BY <1>1, <1>3, EmptySeq

\* What is joined last comes last.
LEMMA FlattenLast ==
    ASSUME NEW S, NEW ss \in Seq(Seq(S)), NEW tt \in Seq(Seq(S)), Len(tt) = Len(ss) + 1,
           \A i \in 1 .. Len(ss) : tt[i] = ss[i]
    PROVE  FlattenSeq(tt) = FlattenSeq(ss) \o tt[Len(tt)]
  <1>1. Len(ss) \in Nat /\ tt # <<>> /\ tt[Len(tt)] \in Seq(S)
    BY EmptySeq, LenProperties, ElementOfSeq
  <1>2. PICK g : FlattenSeq(tt) = g[Len(tt)] /\ Joins(g, tt)
    BY <1>1, FlattenIs
  <1>3. CASE ss = <<>>
    <2>1. Len(tt) = 1 /\ FlattenSeq(ss) = <<>>
      BY <1>3, EmptySeq, FlattenInSeq
    <2>. QED
      BY <1>1, <1>2, <2>1, ConcatEmptySeq DEF Joins
  <1>4. CASE ss # <<>>
    <2>1. PICK f : FlattenSeq(ss) = f[Len(ss)] /\ Joins(f, ss)
      BY <1>4, FlattenIs
    <2>2. Len(ss) # 0
      BY <1>4, EmptySeq
    <2>. DEFINE T == {k \in Nat : k + 1 \in 1 .. Len(ss) => f[k + 1] = g[k + 1]}
    <2>3. 0 \in T
      BY <1>2, <2>1 DEF Joins
    <2>4. ASSUME NEW k \in Nat, k \in T PROVE k + 1 \in T
      <3>. SUFFICES ASSUME k + 2 \in 1 .. Len(ss) PROVE f[k + 2] = g[k + 2]
        OBVIOUS
      <3>1. /\ k + 2 \in 2 .. Len(ss) /\ k + 2 \in 2 .. Len(tt) /\ k + 1 \in 1 .. Len(ss)
            /\ k + 2 - 1 = k + 1
        BY <1>1
      <3>2. f[k + 2] = f[k + 1] \o ss[k + 2] /\ g[k + 2] = g[k + 1] \o tt[k + 2]
        <4>1. /\ \A i \in 2 .. Len(ss) : f[i] = f[i - 1] \o ss[i]
              /\ \A i \in 2 .. Len(tt) : g[i] = g[i - 1] \o tt[i]
          BY <1>2, <2>1 DEF Joins
        <4>. HIDE DEF T
        <4>2. PICK j \in 2 .. Len(ss) : j = k + 2 /\ j - 1 = k + 1 /\ j \in 2 .. Len(tt)
          BY <3>1
        <4>3. f[j] = f[j - 1] \o ss[j] /\ g[j] = g[j - 1] \o tt[j]
          BY <4>1, <4>2
        <4>. QED
          BY <4>2, <4>3
      <3>. QED
        BY <2>4, <3>1, <3>2
    <2>. HIDE DEF T
    <2>5. Nat \subseteq T
      BY <2>3, <2>4, Induction
    <2>6. Len(ss) - 1 \in T /\ Len(ss) - 1 + 1 = Len(ss)
      BY <1>1, <2>2, <2>5
    <2>7. f[Len(ss)] = g[Len(ss)]
      BY <1>1, <2>2, <2>6 DEF T
    <2>8. Len(tt) \in 2 .. Len(tt) /\ Len(tt) - 1 = Len(ss)
      BY <1>1, <2>2
    <2>9. g[Len(tt)] = g[Len(ss)] \o tt[Len(tt)]
      BY <1>2, <2>8 DEF Joins
    <2>. QED
      BY <1>2, <2>1, <2>7, <2>9
  <1>. QED
    BY <1>3, <1>4

\* The characters, with those that are written out: the provers neither know
\* that these are strings nor take every one of them as it stands.
Backslash == "\\"
Percent == "%"
Underscore == "_"
Special == {Backslash, Percent, Underscore}

Characters == STRING \cup Special \cup {"a"}

LEMMA SpecialAre ==
    /\ Backslash \in Characters /\ Percent \in Characters /\ Underscore \in Characters
    /\ Backslash # Percent /\ Backslash # Underscore /\ Percent # Underscore
  <1>1. Backslash # Percent
    BY Zenon DEF Backslash, Percent
  <1>2. Backslash # Underscore
    BY Zenon DEF Backslash, Underscore
  <1>3. Percent # Underscore
    BY Zenon DEF Percent, Underscore
  <1>. QED
    BY <1>1, <1>2, <1>3 DEF Characters, Special

LEMMA FunctionIsSeq ==
    ASSUME NEW S, NEW n \in Nat, NEW f \in [1 .. n -> S]
    PROVE  f \in Seq(S) /\ Len(f) = n
  OBVIOUS

\* What stands in for one character.
Instead(x, c, by) == IF x = c THEN by ELSE <<x>>

LEMMA ReplaceIs ==
    ASSUME NEW c \in Characters, NEW by \in Seq(Characters),
           NEW s \in Seq(Characters), NEW x \in Characters
    PROVE  /\ Replace(s, c, by) \in Seq(Characters)
           /\ Replace(<<>>, c, by) = <<>>
           /\ Replace(Append(s, x), c, by) = Replace(s, c, by) \o Instead(x, c, by)
  <1>. DEFINE R(u) == [i \in 1 .. Len(u) |-> IF u[i] = c THEN by ELSE <<u[i]>>]
  <1>1. ASSUME NEW u \in Seq(Characters)
        PROVE  /\ R(u) \in Seq(Seq(Characters)) /\ Len(R(u)) = Len(u)
               /\ Replace(u, c, by) = FlattenSeq(R(u))
    <2>1. Len(u) \in Nat /\ \A i \in 1 .. Len(u) : u[i] \in Characters
      BY LenProperties, ElementOfSeq
    <2>2. \A y \in Characters : <<y>> \in Seq(Characters)
      OBVIOUS
    <2>3. R(u) \in [1 .. Len(u) -> Seq(Characters)]
      BY <2>1, <2>2
    <2>4. Replace(u, c, by) = FlattenSeq(R(u))
      BY DEF Replace
    <2>5. R(u) \in Seq(Seq(Characters)) /\ Len(R(u)) = Len(u)
      <3>. HIDE DEF R
      <3>. QED
        BY <2>1, <2>3, FunctionIsSeq
    <2>. QED
      BY <2>4, <2>5
  <1>2. Replace(s, c, by) \in Seq(Characters)
    <2>. HIDE DEF R
    <2>. QED
      BY <1>1, FlattenInSeq
  <1>3. Replace(<<>>, c, by) = <<>>
    <2>1. <<>> \in Seq(Characters) /\ Len(<<>>) = 0
      BY EmptySeq
    <2>2. R(<<>>) = <<>>
      BY <2>1
    <2>3. <<>> \in Seq(Seq(Characters))
      BY EmptySeq
    <2>. HIDE DEF R
    <2>. QED
      BY <1>1, <2>1, <2>2, <2>3, FlattenInSeq
  <1>4. /\ Append(s, x) \in Seq(Characters) /\ Len(Append(s, x)) = Len(s) + 1 /\ Len(s) \in Nat
        /\ \A i \in 1 .. Len(s) : Append(s, x)[i] = s[i]
        /\ Append(s, x)[Len(s) + 1] = x
    BY AppendProperties, LenProperties
  <1>5. \A i \in 1 .. Len(s) : R(Append(s, x))[i] = R(s)[i]
    BY <1>4
  <1>6. R(Append(s, x))[Len(s) + 1] = IF x = c THEN by ELSE <<x>>
    BY <1>4
  <1>7. Replace(Append(s, x), c, by) = Replace(s, c, by) \o (IF x = c THEN by ELSE <<x>>)
    <2>. HIDE DEF R
    <2>1. /\ R(s) \in Seq(Seq(Characters)) /\ R(Append(s, x)) \in Seq(Seq(Characters))
          /\ Len(R(s)) = Len(s) /\ Len(R(Append(s, x))) = Len(s) + 1
          /\ Replace(s, c, by) = FlattenSeq(R(s))
          /\ Replace(Append(s, x), c, by) = FlattenSeq(R(Append(s, x)))
      BY <1>1, <1>4
    <2>2. FlattenSeq(R(Append(s, x))) = FlattenSeq(R(s)) \o R(Append(s, x))[Len(R(Append(s, x)))]
      BY <1>5, <2>1, FlattenLast
    <2>. QED
      BY <1>6, <2>1, <2>2
  <1>. QED
    BY <1>2, <1>3, <1>7 DEF Instead

LEMMA ReplaceSame ==
    ASSUME NEW c \in Characters, NEW by \in Seq(Characters), NEW s \in Seq(Characters)
    PROVE  Replace(Append(s, c), c, by) = Replace(s, c, by) \o by
  <1>1. Replace(Append(s, c), c, by) = Replace(s, c, by) \o Instead(c, c, by)
    BY ReplaceIs
  <1>. QED
    BY <1>1 DEF Instead

LEMMA ReplaceOther ==
    ASSUME NEW c \in Characters, NEW by \in Seq(Characters),
           NEW s \in Seq(Characters), NEW x \in Characters, x # c
    PROVE  Replace(Append(s, x), c, by) = Append(Replace(s, c, by), x)
  <1>1. Replace(Append(s, x), c, by) = Replace(s, c, by) \o Instead(x, c, by)
    BY ReplaceIs
  <1>2. Append(Replace(s, c, by), x) = Replace(s, c, by) \o <<x>>
    <2>1. Replace(s, c, by) \in Seq(Characters)
      BY ReplaceIs
    <2>. QED
      BY <2>1, AppendIsConcat
  <1>. QED
    BY <1>1, <1>2 DEF Instead


\* A character behind the escaped ones.
Escaped(u, c) == IF c \in Special THEN Append(Append(u, Backslash), c) ELSE Append(u, c)

LEMMA AppendTwo ==
    ASSUME NEW u \in Seq(Characters), NEW a \in Characters, NEW b \in Characters
    PROVE  u \o <<a, b>> = Append(Append(u, a), b)
  <1>1. <<a, b>> \in Seq(Characters) /\ Len(<<a, b>>) = 2 /\ <<a, b>>[1] = a /\ <<a, b>>[2] = b
    OBVIOUS
  <1>. DEFINE v == Append(Append(u, a), b)
              w == u \o <<a, b>>
  <1>2. /\ Append(u, a) \in Seq(Characters) /\ Len(Append(u, a)) = Len(u) + 1 /\ Len(u) \in Nat
        /\ \A i \in 1 .. Len(u) : Append(u, a)[i] = u[i]
        /\ Append(u, a)[Len(u) + 1] = a
    BY AppendProperties, LenProperties
  <1>3. /\ v \in Seq(Characters) /\ Len(v) = Len(u) + 2
        /\ \A i \in 1 .. Len(u) + 1 : v[i] = Append(u, a)[i]
        /\ v[Len(u) + 2] = b
    BY <1>2, AppendProperties
  <1>4. /\ w \in Seq(Characters) /\ Len(w) = Len(u) + 2
        /\ \A i \in 1 .. Len(u) + 2 : w[i] = IF i <= Len(u) THEN u[i] ELSE <<a, b>>[i - Len(u)]
    BY <1>1, <1>2, ConcatProperties
  <1>. HIDE DEF v, w
  <1>5. ASSUME NEW i \in 1 .. Len(u) + 2 PROVE v[i] = w[i]
    <2>1. CASE i \in 1 .. Len(u)
      <3>1. v[i] = u[i]
        BY <1>2, <1>3, <2>1
      <3>2. w[i] = u[i]
        BY <1>2, <1>4, <2>1
      <3>. QED
        BY <3>1, <3>2
    <2>2. CASE i = Len(u) + 1
      <3>1. v[i] = a
        BY <1>2, <1>3, <2>2
      <3>2. w[i] = <<a, b>>[1]
        BY <1>2, <1>4, <2>2
      <3>. QED
        BY <1>1, <3>1, <3>2
    <2>3. CASE i = Len(u) + 2
      <3>1. w[i] = <<a, b>>[2]
        BY <1>2, <1>4, <2>3
      <3>. QED
        BY <1>1, <1>3, <2>3, <3>1
    <2>. QED
      BY <1>2, <2>1, <2>2, <2>3
  <1>6. v = w
    BY <1>3, <1>4, <1>5, SeqEqual
  <1>. QED
    BY <1>6 DEF v, w

LEMMA OthersStay ==
    ASSUME NEW u \in Seq(Characters), NEW x \in Characters, NEW special \in Special, x # special
    PROVE  Replace(Append(u, x), special, <<Backslash, special>>) =
              Append(Replace(u, special, <<Backslash, special>>), x)
  <1>1. special \in Characters /\ <<Backslash, special>> \in Seq(Characters)
    BY SpecialAre DEF Special
  <1>. QED
    BY <1>1, ReplaceOther

\* Each character that means something is escaped, the escape character only
\* for itself.
LEMMA EscapeIs ==
    ASSUME NEW s \in Seq(Characters), NEW c \in Characters
    PROVE  /\ Escape(s) \in Seq(Characters) /\ Escape(<<>>) = <<>>
           /\ Escape(Append(s, c)) = Escaped(Escape(s), c)
  <1>. DEFINE B(u) == Replace(u, Backslash, <<Backslash, Backslash>>)
              P(u) == Replace(u, Percent, <<Backslash, Percent>>)
              U(u) == Replace(u, Underscore, <<Backslash, Underscore>>)
  <1>1. ASSUME NEW x \in Characters PROVE <<Backslash, x>> \in Seq(Characters)
    BY SpecialAre
  <1>2. ASSUME NEW u \in Seq(Characters)
        PROVE  B(u) \in Seq(Characters) /\ P(u) \in Seq(Characters) /\ U(u) \in Seq(Characters)
    BY <1>1, SpecialAre, ReplaceIs
  <1>3. B(<<>>) = <<>> /\ P(<<>>) = <<>> /\ U(<<>>) = <<>>
    BY <1>1, SpecialAre, ReplaceIs
  <1>4. \A u : Escape(u) = U(P(B(u)))
    BY Zenon DEF Escape, Backslash, Percent, Underscore
  <1>5. ASSUME NEW u \in Seq(Characters)
        PROVE  /\ B(Append(u, Backslash)) = Append(Append(B(u), Backslash), Backslash)
               /\ P(Append(u, Percent)) = Append(Append(P(u), Backslash), Percent)
               /\ U(Append(u, Underscore)) = Append(Append(U(u), Backslash), Underscore)
    <2>1. /\ B(Append(u, Backslash)) = B(u) \o <<Backslash, Backslash>>
          /\ P(Append(u, Percent)) = P(u) \o <<Backslash, Percent>>
          /\ U(Append(u, Underscore)) = U(u) \o <<Backslash, Underscore>>
      BY <1>1, SpecialAre, ReplaceSame
    <2>. HIDE DEF B, P, U
    <2>2. B(u) \o <<Backslash, Backslash>> = Append(Append(B(u), Backslash), Backslash)
      BY <1>2, SpecialAre, AppendTwo
    <2>3. P(u) \o <<Backslash, Percent>> = Append(Append(P(u), Backslash), Percent)
      BY <1>2, SpecialAre, AppendTwo
    <2>4. U(u) \o <<Backslash, Underscore>> = Append(Append(U(u), Backslash), Underscore)
      BY <1>2, SpecialAre, AppendTwo
    <2>. QED
      BY <2>1, <2>2, <2>3, <2>4
  <1>6. ASSUME NEW u \in Seq(Characters), NEW x \in Characters
        PROVE  /\ x # Backslash => B(Append(u, x)) = Append(B(u), x)
               /\ x # Percent => P(Append(u, x)) = Append(P(u), x)
               /\ x # Underscore => U(Append(u, x)) = Append(U(u), x)
    <2>1. Backslash \in Special /\ Percent \in Special /\ Underscore \in Special
      BY DEF Special
    <2>. QED
      BY <2>1, OthersStay
  <1>. HIDE DEF B, P, U
  <1>7. ASSUME NEW u \in Seq(Characters), NEW x \in Characters PROVE Append(u, x) \in Seq(Characters)
    BY AppendProperties
  <1>. DEFINE b == B(s)
              p == P(B(s))
  <1>8. b \in Seq(Characters) /\ p \in Seq(Characters) /\ U(p) \in Seq(Characters)
    BY <1>2
  <1>9. U(P(B(Append(s, c)))) = Escaped(U(p), c)
    <2>1. CASE c = Backslash
      <3>1. B(Append(s, c)) = Append(Append(b, c), c)
        BY <1>5, <2>1
      <3>2. P(Append(Append(b, c), c)) = Append(Append(p, c), c)
        <4>1. P(Append(b, c)) = Append(p, c)
          BY <1>6, <1>8, <2>1, SpecialAre
        <4>2. P(Append(Append(b, c), c)) = Append(P(Append(b, c)), c)
          BY <1>6, <1>7, <1>8, <2>1, SpecialAre
        <4>. QED
          BY <4>1, <4>2
      <3>3. U(Append(Append(p, c), c)) = Append(Append(U(p), c), c)
        <4>1. U(Append(p, c)) = Append(U(p), c)
          BY <1>6, <1>8, <2>1, SpecialAre
        <4>2. U(Append(Append(p, c), c)) = Append(U(Append(p, c)), c)
          BY <1>6, <1>7, <1>8, <2>1, SpecialAre
        <4>. QED
          BY <4>1, <4>2
      <3>. QED
        BY <2>1, <3>1, <3>2, <3>3 DEF Escaped, Special
    <2>2. CASE c = Percent
      <3>1. B(Append(s, c)) = Append(b, c)
        BY <1>6, <2>2, SpecialAre
      <3>2. P(Append(b, c)) = Append(Append(p, Backslash), c)
        BY <1>5, <1>8, <2>2
      <3>3. U(Append(Append(p, Backslash), c)) = Append(Append(U(p), Backslash), c)
        <4>1. U(Append(p, Backslash)) = Append(U(p), Backslash)
          BY <1>6, <1>8, SpecialAre
        <4>2. U(Append(Append(p, Backslash), c)) = Append(U(Append(p, Backslash)), c)
          BY <1>6, <1>7, <1>8, <2>2, SpecialAre
        <4>. QED
          BY <4>1, <4>2
      <3>. QED
        BY <2>2, <3>1, <3>2, <3>3 DEF Escaped, Special
    <2>3. CASE c = Underscore
      <3>1. B(Append(s, c)) = Append(b, c)
        BY <1>6, <2>3, SpecialAre
      <3>2. P(Append(b, c)) = Append(p, c)
        BY <1>6, <1>8, <2>3, SpecialAre
      <3>3. U(Append(p, c)) = Append(Append(U(p), Backslash), c)
        BY <1>5, <1>8, <2>3
      <3>. QED
        BY <2>3, <3>1, <3>2, <3>3 DEF Escaped, Special
    <2>4. CASE c \notin Special
      <3>1. B(Append(s, c)) = Append(b, c) /\ P(Append(b, c)) = Append(p, c)
        BY <1>6, <1>8, <2>4 DEF Special
      <3>2. U(Append(p, c)) = Append(U(p), c)
        BY <1>6, <1>8, <2>4 DEF Special
      <3>. QED
        BY <2>4, <3>1, <3>2 DEF Escaped
    <2>. QED
      BY <2>1, <2>2, <2>3, <2>4 DEF Special
  <1>. QED
    BY <1>3, <1>4, <1>8, <1>9

(* How a pattern is matched. *)

\* One step of the recursion Like is defined by.
Matching(p, t, f, i) ==
    IF i > Len(p) THEN {Len(t) + 1}
    ELSE IF p[i] = Percent THEN {j \in 1 .. Len(t) + 1 : \E k \in f[i + 1] : j <= k}
    ELSE IF p[i] = Backslash THEN {j \in 1 .. Len(t) : p[i + 1] = t[j] /\ j + 1 \in f[i + 2]}
    ELSE {j \in 1 .. Len(t) : p[i] \in {Underscore, t[j]} /\ j + 1 \in f[i + 1]}

IsMatching(f, p, t, m) == f = [i \in m .. Len(p) + 1 |-> Matching(p, t, f, i)]

\* No escape character comes last.
Paired(p) == \A i \in 1 .. Len(p) : p[i] = Backslash => i < Len(p)

LEMMA MatchingExists ==
    ASSUME NEW p, Len(p) \in Nat, Paired(p), NEW t
    PROVE  \E f : IsMatching(f, p, t, 1)
  <1>. DEFINE n == Len(p)
              S == {d \in Nat : d <= n => \E f : IsMatching(f, p, t, n + 1 - d)}
  <1>1. 0 \in S
    <2>. DEFINE f == [i \in n + 1 .. n + 1 |-> {Len(t) + 1}]
    <2>1. \A i \in n + 1 .. n + 1 : Matching(p, t, f, i) = {Len(t) + 1}
      BY DEF Matching
    <2>2. IsMatching(f, p, t, n + 1)
      BY <2>1 DEF IsMatching
    <2>. HIDE DEF f
    <2>. QED
      BY <2>2
  <1>2. ASSUME NEW d \in Nat, d \in S PROVE d + 1 \in S
    <2>. SUFFICES ASSUME d + 1 <= n PROVE \E f : IsMatching(f, p, t, n + 1 - (d + 1))
      OBVIOUS
    <2>. DEFINE m == n - d
    <2>1. m \in 1 .. n /\ n + 1 - (d + 1) = m /\ n + 1 - d = m + 1
      OBVIOUS
    <2>2. PICK f : IsMatching(f, p, t, m + 1)
      BY <1>2, <2>1
    <2>. HIDE DEF m
    <2>. DEFINE g == [i \in m .. n + 1 |-> IF i = m THEN Matching(p, t, f, i) ELSE f[i]]
    <2>3. ASSUME NEW i \in m .. n + 1 PROVE g[i] = Matching(p, t, g, i)
      <3>1. g[i] = Matching(p, t, f, i)
        <4>1. i = m \/ i \in m + 1 .. n + 1
          BY <2>1
        <4>. QED
          BY <2>2, <4>1 DEF IsMatching
      <3>2. i <= n => g[i + 1] = f[i + 1]
        BY <2>1
      <3>3. i < n => g[i + 2] = f[i + 2]
        BY <2>1
      <3>4. i <= n /\ p[i] = Backslash => i < n
        BY <2>1 DEF Paired
      <3>. HIDE DEF g
      <3>5. Matching(p, t, g, i) = Matching(p, t, f, i)
        <4>1. CASE i > n
          BY <4>1 DEF Matching
        <4>2. CASE i <= n /\ p[i] = Percent
          BY <2>1, <3>2, <4>2 DEF Matching
        <4>3. CASE i <= n /\ p[i] # Percent /\ p[i] = Backslash
          BY <2>1, <3>3, <3>4, <4>3 DEF Matching
        <4>4. CASE i <= n /\ p[i] # Percent /\ p[i] # Backslash
          BY <2>1, <3>2, <4>4 DEF Matching
        <4>. QED
          BY <2>1, <4>1, <4>2, <4>3, <4>4
      <3>. QED
        BY <3>1, <3>5
    <2>4. IsMatching(g, p, t, m)
      <3>. DEFINE h == [i \in m .. n + 1 |-> Matching(p, t, g, i)]
      <3>1. \A i \in m .. n + 1 : g[i] = h[i]
        BY <2>3
      <3>. QED
        BY <3>1 DEF IsMatching
    <2>. HIDE DEF g
    <2>. QED
      BY <2>1, <2>4
  <1>. HIDE DEF S
  <1>3. Nat \subseteq S
    BY <1>1, <1>2, Induction
  <1>4. n \in S /\ n + 1 - n = 1
    BY <1>3
  <1>. QED
    BY <1>4 DEF S

\* f follows from the pattern, position by position.
Follows(f, p, t) == \A i \in 1 .. Len(p) + 1 : f[i] = Matching(p, t, f, i)

LEMMA LikeIs ==
    ASSUME NEW pattern, Len(Lower(pattern)) \in Nat, Paired(Lower(pattern)), NEW text
    PROVE  \E f : /\ Like(pattern, text) <=> 1 \in f[1]
                  /\ Follows(f, Lower(pattern), Lower(text))
  <1>. DEFINE p == Lower(pattern)
              t == Lower(text)
              f == CHOOSE g : IsMatching(g, p, t, 1)
  <1>1. IsMatching(f, p, t, 1)
    <2>. HIDE DEF p, t
    <2>1. \E g : IsMatching(g, p, t, 1)
      BY MatchingExists DEF p, t
    <2>. QED
      BY <2>1
  <1>2. Like(pattern, text) <=> 1 \in f[1]
    BY Zenon DEF Like, IsMatching, Matching, Percent, Backslash, Underscore
  <1>. HIDE DEF f, p, t
  <1>3. Follows(f, p, t)
    BY <1>1 DEF IsMatching, Follows
  <1>. QED
    BY <1>2, <1>3 DEF p, t

(* The pattern of a search. *)

Low(c) == IF c = "A" THEN "a" ELSE c

LEMMA LowKeeps ==
    /\ \A c \in Special : Low(c) = c
    /\ \A c : c \notin Special => Low(c) \notin Special
    /\ \A c \in Characters : Low(c) \in Characters
  <1>1. Backslash # "A" /\ Percent # "A" /\ Underscore # "A"
    <2>1. Backslash # "A"
      BY Zenon DEF Backslash
    <2>2. Percent # "A"
      BY Zenon DEF Percent
    <2>3. Underscore # "A"
      BY Zenon DEF Underscore
    <2>. QED
      BY <2>1, <2>2, <2>3
  <1>2. "a" \notin Special
    <2>1. Backslash # "a"
      BY Zenon DEF Backslash
    <2>2. Percent # "a"
      BY Zenon DEF Percent
    <2>3. Underscore # "a"
      BY Zenon DEF Underscore
    <2>. QED
      BY <2>1, <2>2, <2>3 DEF Special
  <1>3. \A c \in Special : Low(c) = c
    BY <1>1 DEF Special, Low
  <1>4. \A c : c \notin Special => Low(c) \notin Special
    BY <1>2 DEF Low
  <1>5. \A c \in Characters : Low(c) \in Characters
    BY DEF Low, Characters
  <1>. QED
    BY <1>3, <1>4, <1>5

LEMMA LowerIs ==
    ASSUME NEW u \in Seq(Characters)
    PROVE  /\ Lower(u) \in Seq(Characters) /\ Len(Lower(u)) = Len(u) /\ Len(u) \in Nat
           /\ \A i \in 1 .. Len(u) : Lower(u)[i] = Low(u[i])
  <1>1. Len(u) \in Nat /\ \A i \in 1 .. Len(u) : u[i] \in Characters
    BY LenProperties, ElementOfSeq
  <1>2. Lower(u) = [i \in 1 .. Len(u) |-> Low(u[i])]
    BY DEF Lower, Low
  <1>3. Lower(u) \in [1 .. Len(u) -> Characters]
    BY <1>1, <1>2, LowKeeps
  <1>4. Lower(u) \in Seq(Characters) /\ Len(Lower(u)) = Len(u)
    BY <1>1, <1>3, FunctionIsSeq
  <1>. QED
    BY <1>1, <1>2, <1>4

LEMMA EscapedIs ==
    ASSUME NEW u \in Seq(Characters), NEW c \in Characters
    PROVE  /\ Escaped(u, c) \in Seq(Characters) /\ Len(u) \in Nat
           /\ \A i \in 1 .. Len(u) : Escaped(u, c)[i] = u[i]
           /\ c \in Special => /\ Len(Escaped(u, c)) = Len(u) + 2
                               /\ Escaped(u, c)[Len(u) + 1] = Backslash
                               /\ Escaped(u, c)[Len(u) + 2] = c
           /\ c \notin Special => /\ Len(Escaped(u, c)) = Len(u) + 1
                                  /\ Escaped(u, c)[Len(u) + 1] = c
  <1>1. Len(u) \in Nat
    BY LenProperties
  <1>2. CASE c \notin Special
    <2>1. Escaped(u, c) = Append(u, c)
      BY <1>2 DEF Escaped
    <2>. QED
      BY <1>1, <1>2, <2>1, AppendProperties
  <1>3. CASE c \in Special
    <2>. DEFINE v == Append(u, Backslash)
                w == Append(v, c)
    <2>1. Escaped(u, c) = w
      BY <1>3 DEF Escaped
    <2>2. /\ v \in Seq(Characters) /\ Len(v) = Len(u) + 1
          /\ \A i \in 1 .. Len(u) : v[i] = u[i]
          /\ v[Len(u) + 1] = Backslash
      BY SpecialAre, AppendProperties
    <2>3. /\ w \in Seq(Characters) /\ Len(w) = Len(v) + 1
          /\ \A i \in 1 .. Len(v) : w[i] = v[i]
          /\ w[Len(v) + 1] = c
      BY <2>2, AppendProperties
    <2>. HIDE DEF v, w
    <2>4. Len(w) = Len(u) + 2 /\ w[Len(u) + 2] = c
      BY <1>1, <2>2, <2>3
    <2>5. w[Len(u) + 1] = Backslash /\ \A i \in 1 .. Len(u) : w[i] = u[i]
      BY <1>1, <2>2, <2>3
    <2>. QED
      BY <1>1, <1>3, <2>1, <2>3, <2>4, <2>5
  <1>. QED
    BY <1>2, <1>3

\* What the first k characters of a search become, and where in the pattern
\* what comes behind them begins.
Part(s, k) == Escape(SubSeq(s, 1, k))
Behind(s, k) == Len(Part(s, k)) + 2

LEMMA PartIs ==
    ASSUME NEW s \in Seq(Characters)
    PROVE  /\ Len(s) \in Nat /\ Part(s, 0) = <<>> /\ Part(s, Len(s)) = Escape(s)
           /\ \A k \in 0 .. Len(s) : Part(s, k) \in Seq(Characters)
           /\ \A k \in 1 .. Len(s) :
                 s[k] \in Characters /\ Part(s, k) = Escaped(Part(s, k - 1), s[k])
  <1>1. Len(s) \in Nat /\ \A k \in 1 .. Len(s) : s[k] \in Characters
    BY LenProperties, ElementOfSeq
  <1>2. SubSeq(s, 1, 0) = <<>> /\ SubSeq(s, 1, Len(s)) = s
    BY SubSeqEmpty, SubSeqFull
  <1>3. ASSUME NEW k \in 0 .. Len(s) PROVE SubSeq(s, 1, k) \in Seq(Characters)
    <2>1. k \in Int /\ \A i \in 1 .. k : s[i] \in Characters
      BY <1>1
    <2>. QED
      BY <2>1, SubSeqProperties
  <1>4. ASSUME NEW k \in 1 .. Len(s)
        PROVE  SubSeq(s, 1, k) = Append(SubSeq(s, 1, k - 1), s[k])
    <2>1. 1 \in 1 .. Len(s) /\ k - 1 \in 0 .. Len(s)
      BY <1>1
    <2>2. SubSeq(s, 1, k) = SubSeq(s, 1, k - 1) \o <<s[k]>>
      BY <2>1, SubSeqRecursiveSecond
    <2>3. SubSeq(s, 1, k - 1) \in Seq(Characters)
      BY <1>3, <2>1
    <2>. QED
      BY <1>1, <2>2, <2>3, AppendIsConcat
  <1>5. Part(s, 0) = <<>> /\ Part(s, Len(s)) = Escape(s)
    <2>1. <<>> \in Seq(Characters)
      BY EmptySeq
    <2>2. Escape(<<>>) = <<>>
      BY <2>1, SpecialAre, EscapeIs
    <2>. QED
      BY <1>2, <2>2 DEF Part
  <1>6. ASSUME NEW k \in 0 .. Len(s) PROVE Part(s, k) \in Seq(Characters)
    BY <1>3, SpecialAre, EscapeIs DEF Part
  <1>7. ASSUME NEW k \in 1 .. Len(s) PROVE Part(s, k) = Escaped(Part(s, k - 1), s[k])
    <2>1. SubSeq(s, 1, k - 1) \in Seq(Characters)
      BY <1>1, <1>3
    <2>2. Escape(Append(SubSeq(s, 1, k - 1), s[k])) = Escaped(Escape(SubSeq(s, 1, k - 1)), s[k])
      BY <1>1, <2>1, EscapeIs
    <2>. QED
      BY <1>4, <2>2 DEF Part
  <1>. QED
    BY <1>1, <1>5, <1>6, <1>7

\* The whole begins with the part.
Begins(s, k) ==
    /\ Len(Part(s, k)) \in Nat /\ Len(Escape(s)) \in Nat
    /\ Len(Part(s, k)) <= Len(Escape(s))
    /\ \A i \in 1 .. Len(Part(s, k)) : Escape(s)[i] = Part(s, k)[i]

LEMMA PartBegins ==
    ASSUME NEW s \in Seq(Characters), NEW k \in 0 .. Len(s)
    PROVE  Begins(s, k)
  <1>. DEFINE n == Len(s)
              S == {d \in Nat : \A m \in 0 .. n : m + d = n => Begins(s, m)}
  <1>0. n \in Nat
    BY PartIs
  <1>1. 0 \in S
    <2>1. Part(s, n) = Escape(s) /\ Len(Escape(s)) \in Nat
      BY <1>0, PartIs, LenProperties
    <2>2. Begins(s, n)
      BY <2>1 DEF Begins
    <2>3. \A m \in 0 .. n : m + 0 = n => m = n
      BY <1>0
    <2>. HIDE DEF n
    <2>. QED
      BY <2>2, <2>3
  <1>2. ASSUME NEW d \in Nat, d \in S PROVE d + 1 \in S
    <2>. SUFFICES ASSUME NEW l \in 0 .. n, l + (d + 1) = n PROVE Begins(s, l)
      BY <1>0
    <2>1. PICK m \in 1 .. n : m + d = n /\ l = m - 1
      <3>1. l + 1 \in 1 .. n /\ (l + 1) + d = n /\ l = (l + 1) - 1
        BY <1>0
      <3>. QED
        BY <3>1
    <2>. DEFINE u == Part(s, m - 1)
                v == Part(s, m)
    <2>2. m - 1 \in 0 .. n
      BY <1>0, <2>1
    <2>3. Begins(s, m)
      <3>1. m \in 0 .. n
        BY <1>0
      <3>. QED
        BY <1>2, <2>1, <3>1
    <2>4. u \in Seq(Characters) /\ s[m] \in Characters /\ v = Escaped(u, s[m])
      BY <2>2, PartIs
    <2>. HIDE DEF u, v
    <2>5. Len(u) \in Nat /\ Len(u) <= Len(v) /\ \A i \in 1 .. Len(u) : v[i] = u[i]
      <3>1. Len(u) \in Nat /\ \A i \in 1 .. Len(u) : v[i] = u[i]
        <4>1. \A i \in 1 .. Len(u) : Escaped(u, s[m])[i] = u[i]
          BY <2>4, EscapedIs
        <4>. QED
          BY <2>4, <4>1, LenProperties
      <3>2. Len(v) = Len(u) + 1 \/ Len(v) = Len(u) + 2
        BY <2>4, EscapedIs
      <3>. QED
        BY <3>1, <3>2
    <2>6. /\ Len(v) \in Nat /\ Len(Escape(s)) \in Nat /\ Len(v) <= Len(Escape(s))
          /\ \A i \in 1 .. Len(v) : Escape(s)[i] = v[i]
      BY <2>3 DEF v, Begins
    <2>7. Begins(s, m - 1)
      <3>1. Len(u) <= Len(Escape(s)) /\ \A i \in 1 .. Len(u) : i \in 1 .. Len(v)
        BY <2>5, <2>6
      <3>2. \A i \in 1 .. Len(u) : Escape(s)[i] = u[i]
        BY <2>5, <2>6, <3>1
      <3>. QED
        BY <2>5, <2>6, <3>1, <3>2 DEF u, Begins
    <2>. QED
      BY <2>1, <2>7
  <1>. HIDE DEF S
  <1>3. Nat \subseteq S
    BY <1>1, <1>2, Induction
  <1>4. n - k \in S /\ k + (n - k) = n
    BY <1>0, <1>3
  <1>. QED
    BY <1>4 DEF S

\* The characters of a pattern: those of the search, each behind its escape
\* character if it needs one, between two that match anything.
LEMMA PatternIs ==
    ASSUME NEW s \in Seq(Characters), NEW p, p = Lower(<<"%">> \o Escape(s) \o <<"%">>)
    PROVE  /\ Len(p) = Behind(s, Len(s)) /\ Len(p) \in Nat /\ Len(p) >= 2 /\ Behind(s, 0) = 2
           /\ p[1] = Percent /\ p[Len(p)] = Percent
           /\ \A i \in 1 .. Len(Escape(s)) : p[i + 1] = Low(Escape(s)[i])
  <1>. DEFINE e == Escape(s)
              w == <<Percent>> \o e
              v == w \o <<Percent>>
  <1>1. e \in Seq(Characters) /\ Len(e) \in Nat /\ Part(s, Len(s)) = e /\ Part(s, 0) = <<>>
    <2>1. e \in Seq(Characters)
      BY SpecialAre, EscapeIs
    <2>. HIDE DEF e
    <2>2. Len(e) \in Nat
      BY <2>1, LenProperties
    <2>3. Part(s, Len(s)) = e /\ Part(s, 0) = <<>>
      BY PartIs DEF e
    <2>. QED
      BY <2>1, <2>2, <2>3
  <1>2. <<Percent>> \in Seq(Characters) /\ Len(<<Percent>>) = 1 /\ <<Percent>>[1] = Percent
    BY SpecialAre
  <1>3. p = Lower(v)
    BY Zenon DEF Percent
  <1>. HIDE DEF e
  <1>4. /\ w \in Seq(Characters) /\ Len(w) = Len(e) + 1
        /\ \A i \in 1 .. Len(e) + 1 : w[i] = IF i <= 1 THEN <<Percent>>[i] ELSE e[i - 1]
    <2>1. 1 + Len(e) = Len(e) + 1
      BY <1>1
    <2>. QED
      BY <1>1, <1>2, <2>1, ConcatProperties
  <1>. HIDE DEF w
  <1>5. /\ v \in Seq(Characters) /\ Len(v) = Len(e) + 2
        /\ \A i \in 1 .. Len(e) + 2 : v[i] = IF i <= Len(e) + 1 THEN w[i] ELSE <<Percent>>[i - (Len(e) + 1)]
    <2>1. Len(w) + 1 = Len(e) + 2
      BY <1>1, <1>4
    <2>. QED
      BY <1>1, <1>2, <1>4, <2>1, ConcatProperties
  <1>. HIDE DEF v
  <1>6. /\ Len(p) = Len(e) + 2 /\ Len(p) \in Nat /\ Len(p) >= 2
        /\ \A i \in 1 .. Len(e) + 2 : p[i] = Low(v[i])
    BY <1>1, <1>3, <1>5, LowerIs
  <1>7. Low(Percent) = Percent
    BY LowKeeps DEF Special
  <1>8. p[1] = Percent
    <2>1. v[1] = Percent
      BY <1>1, <1>2, <1>4, <1>5
    <2>. QED
      BY <1>1, <1>6, <1>7, <2>1
  <1>9. p[Len(p)] = Percent
    <2>1. Len(e) + 2 - (Len(e) + 1) = 1 /\ Len(e) + 2 \in 1 .. Len(e) + 2
      BY <1>1
    <2>2. v[Len(e) + 2] = Percent
      BY <1>1, <1>2, <1>5, <2>1
    <2>. QED
      BY <1>6, <1>7, <2>1, <2>2
  <1>10. ASSUME NEW i \in 1 .. Len(e) PROVE p[i + 1] = Low(e[i])
    <2>1. PICK j \in 1 .. Len(e) + 2 : j = i + 1 /\ j > 1 /\ j <= Len(e) + 1 /\ j - 1 = i
      <3>1. i + 1 \in 1 .. Len(e) + 2 /\ i + 1 > 1 /\ i + 1 <= Len(e) + 1 /\ i + 1 - 1 = i
        BY <1>1
      <3>. QED
        BY <3>1
    <2>2. v[j] = w[j] /\ p[j] = Low(v[j])
      BY <1>5, <1>6, <2>1
    <2>3. w[j] = e[j - 1]
      BY <1>1, <1>4, <2>1
    <2>. QED
      BY <2>1, <2>2, <2>3
  <1>11. Behind(s, Len(s)) = Len(e) + 2 /\ Behind(s, 0) = 2
    BY <1>1, EmptySeq DEF Behind
  <1>. QED
    BY <1>6, <1>8, <1>9, <1>10, <1>11 DEF e

\* How the pattern goes on at one character of the search.
LEMMA PatternStep ==
    ASSUME NEW s \in Seq(Characters), NEW p, p = Lower(<<"%">> \o Escape(s) \o <<"%">>),
           NEW k \in 1 .. Len(s),
           NEW a, a = Behind(s, k - 1), NEW b, b = Behind(s, k)
    PROVE  /\ a \in 2 .. Len(p) - 1 /\ b \in a + 1 .. Len(p)
           /\ s[k] \in Special => b = a + 2 /\ p[a] = Backslash /\ p[a + 1] = Low(s[k])
           /\ s[k] \notin Special => b = a + 1 /\ p[a] = Low(s[k])
  <1>. DEFINE u == Part(s, k - 1)
              v == Part(s, k)
              c == s[k]
              e == Escape(s)
  <1>0. Len(s) \in Nat /\ k - 1 \in 0 .. Len(s) /\ k \in 0 .. Len(s)
    BY PartIs
  <1>1. u \in Seq(Characters) /\ c \in Characters /\ v = Escaped(u, c)
    BY <1>0, PartIs
  <1>2. Begins(s, k) /\ Begins(s, k - 1)
    BY <1>0, PartBegins
  <1>3. /\ Len(p) = Len(e) + 2
        /\ \A i \in 1 .. Len(e) : p[i + 1] = Low(e[i])
    <2>1. Len(p) = Behind(s, Len(s)) /\ \A i \in 1 .. Len(Escape(s)) : p[i + 1] = Low(Escape(s)[i])
      BY PatternIs
    <2>2. Part(s, Len(s)) = Escape(s)
      BY PartIs
    <2>. QED
      BY <2>1, <2>2 DEF Behind
  <1>4. a = Len(u) + 2 /\ b = Len(v) + 2
    BY DEF Behind
  <1>5. /\ Len(v) \in Nat /\ Len(e) \in Nat /\ Len(v) <= Len(e)
        /\ \A i \in 1 .. Len(v) : e[i] = v[i]
    BY <1>2 DEF Begins
  <1>. HIDE DEF u, v, c, e
  <1>6. ASSUME NEW i \in 1 .. Len(v) PROVE p[i + 1] = Low(v[i])
    <2>1. i \in 1 .. Len(e)
      BY <1>5
    <2>. QED
      BY <1>3, <1>5, <2>1
  <1>7. CASE c \in Special
    <2>1. /\ Len(v) = Len(u) + 2 /\ Len(u) \in Nat
          /\ v[Len(u) + 1] = Backslash /\ v[Len(u) + 2] = c
      BY <1>1, <1>7, EscapedIs
    <2>2. /\ Len(u) + 1 \in 1 .. Len(v) /\ Len(u) + 2 \in 1 .. Len(v)
          /\ Len(u) + 1 + 1 = a /\ Len(u) + 2 + 1 = a + 1
      <3>1. Len(v) = Len(u) + 2 /\ Len(u) \in Nat
        BY <2>1
      <3>. QED
        BY <1>4, <3>1
    <2>3. p[a] = Low(v[Len(u) + 1]) /\ p[a + 1] = Low(v[Len(u) + 2])
      <3>1. p[Len(u) + 1 + 1] = Low(v[Len(u) + 1]) /\ p[Len(u) + 2 + 1] = Low(v[Len(u) + 2])
        BY <1>6, <2>2
      <3>. QED
        BY <2>2, <3>1
    <2>4. Low(Backslash) = Backslash
      BY LowKeeps DEF Special
    <2>5. b = a + 2 /\ a \in 2 .. Len(p) - 1 /\ b \in a + 1 .. Len(p)
      BY <1>3, <1>4, <1>5, <2>1
    <2>. QED
      BY <1>7, <2>1, <2>3, <2>4, <2>5 DEF c
  <1>8. CASE c \notin Special
    <2>1. Len(v) = Len(u) + 1 /\ Len(u) \in Nat /\ v[Len(u) + 1] = c
      <3>1. Len(Escaped(u, c)) = Len(u) + 1 /\ Escaped(u, c)[Len(u) + 1] = c
        BY <1>1, <1>8, EscapedIs
      <3>2. Len(u) \in Nat
        BY <1>1, LenProperties
      <3>. QED
        BY <1>1, <3>1, <3>2
    <2>2. Len(u) + 1 \in 1 .. Len(v) /\ Len(u) + 1 + 1 = a
      BY <1>4, <2>1
    <2>3. p[a] = Low(v[Len(u) + 1])
      <3>1. p[Len(u) + 1 + 1] = Low(v[Len(u) + 1])
        BY <1>6, <2>2
      <3>. QED
        BY <2>2, <3>1
    <2>4. b = a + 1 /\ a \in 2 .. Len(p) - 1 /\ b \in a + 1 .. Len(p)
      BY <1>3, <1>4, <1>5, <2>1
    <2>. QED
      BY <1>8, <2>1, <2>3, <2>4 DEF c
  <1>. QED
    BY <1>7, <1>8

\* What is left of the search from its character k + 1 on is in t from j on.
Goes(t, low, k, j) ==
    /\ j + (Len(low) - k) <= Len(t) + 1
    /\ \A l \in k + 1 .. Len(low) : t[j + (l - k - 1)] = low[l]

LEMMA GoesOn ==
    ASSUME NEW t, Len(t) \in Nat, NEW low, Len(low) \in Nat,
           NEW k \in 1 .. Len(low), NEW j \in 1 .. Len(t) + 1
    PROVE  Goes(t, low, k - 1, j) <=> j <= Len(t) /\ low[k] = t[j] /\ Goes(t, low, k, j + 1)
  <1>1. j + (Len(low) - (k - 1)) <= Len(t) + 1 <=>
          j + 1 + (Len(low) - k) <= Len(t) + 1
    OBVIOUS
  <1>2. j + (Len(low) - (k - 1)) <= Len(t) + 1 => j <= Len(t)
    OBVIOUS
  <1>3. ASSUME Goes(t, low, k - 1, j)
        PROVE  low[k] = t[j] /\ \A l \in k + 1 .. Len(low) : t[j + 1 + (l - k - 1)] = low[l]
    <2>1. \A l \in k - 1 + 1 .. Len(low) : t[j + (l - (k - 1) - 1)] = low[l]
      BY <1>3 DEF Goes
    <2>2. k \in k - 1 + 1 .. Len(low) /\ j + (k - (k - 1) - 1) = j
      OBVIOUS
    <2>3. t[j + (k - (k - 1) - 1)] = low[k]
      BY <2>1, <2>2
    <2>4. ASSUME NEW l \in k + 1 .. Len(low) PROVE t[j + 1 + (l - k - 1)] = low[l]
      <3>1. l \in k - 1 + 1 .. Len(low) /\ j + 1 + (l - k - 1) = j + (l - (k - 1) - 1)
        OBVIOUS
      <3>. QED
        BY <2>1, <3>1
    <2>. QED
      BY <2>2, <2>3, <2>4
  <1>4. ASSUME low[k] = t[j], \A l \in k + 1 .. Len(low) : t[j + 1 + (l - k - 1)] = low[l]
        PROVE  \A l \in k - 1 + 1 .. Len(low) : t[j + (l - (k - 1) - 1)] = low[l]
    <2>. SUFFICES ASSUME NEW l \in k - 1 + 1 .. Len(low) PROVE t[j + (l - (k - 1) - 1)] = low[l]
      OBVIOUS
    <2>1. CASE l = k
      <3>1. j + (l - (k - 1) - 1) = j
        BY <2>1
      <3>. QED
        BY <1>4, <2>1, <3>1
    <2>2. CASE l # k
      <3>1. l \in k + 1 .. Len(low) /\ j + 1 + (l - k - 1) = j + (l - (k - 1) - 1)
        BY <2>2
      <3>. QED
        BY <1>4, <3>1
    <2>. QED
      BY <2>1, <2>2
  <1>. QED
    BY <1>1, <1>2, <1>3, <1>4 DEF Goes

\* The same, as a fact about every character of the search.
Stepped(s, p, k, a, b) ==
    /\ a \in 2 .. Len(p) - 1 /\ b \in a + 1 .. Len(p)
    /\ s[k] \in Special => b = a + 2 /\ p[a] = Backslash /\ p[a + 1] = Low(s[k])
    /\ s[k] \notin Special => b = a + 1 /\ p[a] = Low(s[k])

LEMMA PatternSteps ==
    ASSUME NEW s \in Seq(Characters), NEW p, p = Lower(<<"%">> \o Escape(s) \o <<"%">>)
    PROVE  \A k \in 1 .. Len(s) : Stepped(s, p, k, Behind(s, k - 1), Behind(s, k))
  <1>1. ASSUME NEW k \in 1 .. Len(s), NEW a, a = Behind(s, k - 1), NEW b, b = Behind(s, k)
        PROVE  Stepped(s, p, k, a, b)
    BY <1>1, PatternStep DEF Stepped
  <1>. QED
    BY <1>1

\* What a part of a sequence is.
LEMMA PartOfSeq ==
    ASSUME NEW S, NEW t \in Seq(S), NEW n \in Nat, NEW i \in 0 .. Len(t) - n
    PROVE  /\ SubSeq(t, i + 1, i + n) \in Seq(S)
           /\ Len(SubSeq(t, i + 1, i + n)) = n
           /\ \A l \in 1 .. n : SubSeq(t, i + 1, i + n)[l] = t[i + l]
  <1>0. Len(t) \in Nat /\ i \in Nat
    BY LenProperties
  <1>1. ASSUME NEW x, x = i + 1, NEW y, y = i + n
        PROVE  /\ SubSeq(t, x, y) \in Seq(S)
               /\ Len(SubSeq(t, x, y)) = n
               /\ \A l \in 1 .. n : SubSeq(t, x, y)[l] = t[i + l]
    <2>1. x \in Int /\ y \in Int /\ y - x + 1 = n
      BY <1>0, <1>1
    <2>2. ASSUME NEW l \in x .. y PROVE t[l] \in S
      <3>1. l \in 1 .. Len(t)
        BY <1>0, <1>1
      <3>. QED
        BY <3>1, ElementOfSeq
    <2>3. /\ SubSeq(t, x, y) \in Seq(S)
          /\ Len(SubSeq(t, x, y)) = IF x <= y THEN y - x + 1 ELSE 0
          /\ \A l \in 1 .. y - x + 1 : SubSeq(t, x, y)[l] = t[x + l - 1]
      BY <2>1, <2>2, SubSeqProperties
    <2>4. (IF x <= y THEN y - x + 1 ELSE 0) = n
      BY <1>0, <1>1
    <2>5. \A l \in 1 .. n : x + l - 1 = i + l
      BY <1>0, <1>1
    <2>. QED
      BY <2>1, <2>3, <2>4, <2>5
  <1>. QED
    BY <1>1

\* Where a text goes on with what is left of a search.
Reached(t, low, k) == {j \in 1 .. Len(t) + 1 : Goes(t, low, k, j)}

\* Where the pattern from the search's character k + 1 on matches the rest of t.
LEMMA StartsAre ==
    ASSUME NEW s \in Seq(Characters), NEW p, p = Lower(<<"%">> \o Escape(s) \o <<"%">>),
           NEW t, Len(t) \in Nat, NEW f,
           Follows(f, p, t),
           NEW k \in 0 .. Len(s)
    PROVE  f[Behind(s, k)] = Reached(t, Lower(s), k)
  <1>a. \A i \in 1 .. Len(s) : Stepped(s, p, i, Behind(s, i - 1), Behind(s, i))
    BY PatternSteps
  <1>. DEFINE n == Len(s)
              low == Lower(s)
              From(m) == {j \in 1 .. Len(t) + 1 : Goes(t, low, m, j)}
              S == {d \in Nat : \A m \in 0 .. n : m + d = n => f[Behind(s, m)] = From(m)}
  <1>0. /\ n \in Nat /\ Len(low) = n /\ \A i \in 1 .. n : low[i] = Low(s[i])
        /\ Len(p) \in Nat /\ Len(p) >= 2 /\ Len(p) = Behind(s, n) /\ p[Len(p)] = Percent
    BY LowerIs, PatternIs
  <1>1. 0 \in S
    <2>1. f[Len(p) + 1] = {Len(t) + 1}
      <3>1. Len(p) + 1 \in 1 .. Len(p) + 1 /\ Len(p) + 1 > Len(p)
        BY <1>0
      <3>. QED
        BY <3>1 DEF Matching, Follows
    <2>2. f[Len(p)] = 1 .. Len(t) + 1
      <3>1. Len(p) \in 1 .. Len(p) + 1 /\ ~(Len(p) > Len(p))
        BY <1>0
      <3>2. f[Len(p)] = {j \in 1 .. Len(t) + 1 : \E l \in f[Len(p) + 1] : j <= l}
        BY <1>0, <3>1 DEF Matching, Follows
      <3>3. \A j \in 1 .. Len(t) + 1 : j <= Len(t) + 1
        OBVIOUS
      <3>. QED
        BY <2>1, <3>2, <3>3
    <2>3. From(n) = 1 .. Len(t) + 1
      <3>1. ASSUME NEW j \in 1 .. Len(t) + 1 PROVE Goes(t, low, n, j)
        <4>. HIDE DEF low, n
        <4>. QED
          BY <1>0 DEF Goes
      <3>. QED
        BY <3>1
    <2>4. f[Behind(s, n)] = From(n)
      BY <1>0, <2>2, <2>3
    <2>5. \A m \in 0 .. n : m + 0 = n => m = n
      BY <1>0
    <2>. HIDE DEF n, From
    <2>. QED
      BY <2>4, <2>5
  <1>2. ASSUME NEW d \in Nat, d \in S PROVE d + 1 \in S
    <2>. SUFFICES ASSUME NEW l \in 0 .. n, l + (d + 1) = n PROVE f[Behind(s, l)] = From(l)
      BY <1>0
    <2>1. PICK m \in 1 .. n : m + d = n /\ l = m - 1
      <3>1. l + 1 \in 1 .. n /\ (l + 1) + d = n /\ l = (l + 1) - 1
        BY <1>0
      <3>. QED
        BY <3>1
    <2>2. f[Behind(s, m)] = From(m)
      <3>1. m \in 0 .. n
        BY <1>0
      <3>. HIDE DEF From, n
      <3>. QED
        BY <1>2, <2>1, <3>1
    <2>. DEFINE a == Behind(s, m - 1)
                b == Behind(s, m)
    <2>3. /\ a \in 2 .. Len(p) - 1 /\ b \in a + 1 .. Len(p)
          /\ s[m] \in Special => b = a + 2 /\ p[a] = Backslash /\ p[a + 1] = Low(s[m])
          /\ s[m] \notin Special => b = a + 1 /\ p[a] = Low(s[m])
      <3>1. ASSUME NEW x, x = Behind(s, m - 1), NEW y, y = Behind(s, m)
            PROVE  /\ x \in 2 .. Len(p) - 1 /\ y \in x + 1 .. Len(p)
                   /\ s[m] \in Special => y = x + 2 /\ p[x] = Backslash /\ p[x + 1] = Low(s[m])
                   /\ s[m] \notin Special => y = x + 1 /\ p[x] = Low(s[m])
        BY <1>a, <2>1, <3>1 DEF Stepped
      <3>2. a = Behind(s, m - 1) /\ b = Behind(s, m)
        OBVIOUS
      <3>. HIDE DEF a, b
      <3>. QED
        BY <3>1, <3>2
    <2>. HIDE DEF a, b
    <2>4. f[a] = {j \in 1 .. Len(t) : low[m] = t[j] /\ j + 1 \in f[b]}
      <3>1. a \in 1 .. Len(p) + 1 /\ ~(a > Len(p))
        BY <1>0, <2>3
      <3>2. low[m] = Low(s[m])
        BY <1>0
      <3>. HIDE DEF low, n
      <3>3. CASE s[m] \in Special
        <4>1. p[a] = Backslash /\ p[a] # Percent
          BY <2>3, <3>3, SpecialAre
        <4>2. f[a] = {j \in 1 .. Len(t) : p[a + 1] = t[j] /\ j + 1 \in f[a + 2]}
          BY <3>1, <4>1 DEF Matching, Follows
        <4>. QED
          BY <2>3, <3>2, <3>3, <4>2
      <3>4. CASE s[m] \notin Special
        <4>1. p[a] # Backslash /\ p[a] # Percent /\ p[a] # Underscore
          BY <2>3, <3>4, LowKeeps DEF Special
        <4>2. f[a] = {j \in 1 .. Len(t) : p[a] \in {Underscore, t[j]} /\ j + 1 \in f[a + 1]}
          BY <3>1, <4>1 DEF Matching, Follows
        <4>3. \A j \in 1 .. Len(t) : p[a] \in {Underscore, t[j]} <=> p[a] = t[j]
          BY <4>1
        <4>. QED
          BY <2>3, <3>2, <3>4, <4>2, <4>3
      <3>. QED
        BY <3>3, <3>4
    <2>5. ASSUME NEW j \in 1 .. Len(t) + 1
          PROVE  j \in f[a] <=> Goes(t, low, m - 1, j)
      <3>1. m \in 1 .. Len(low) /\ Len(low) \in Nat
        BY <1>0
      <3>. HIDE DEF low, n
      <3>2. Goes(t, low, m - 1, j) <=> j <= Len(t) /\ low[m] = t[j] /\ Goes(t, low, m, j + 1)
        BY <3>1, GoesOn
      <3>3. j <= Len(t) => j + 1 \in 1 .. Len(t) + 1 /\ j \in 1 .. Len(t)
        OBVIOUS
      <3>4. j \in 1 .. Len(t) => j <= Len(t)
        OBVIOUS
      <3>5. j + 1 \in f[b] <=> j + 1 \in 1 .. Len(t) + 1 /\ Goes(t, low, m, j + 1)
        BY <2>2 DEF b
      <3>. QED
        BY <2>4, <3>2, <3>3, <3>4, <3>5
    <2>6. f[a] \subseteq 1 .. Len(t) + 1
      BY <2>4
    <2>7. f[a] = From(m - 1)
      BY <2>5, <2>6
    <2>. HIDE DEF From
    <2>. QED
      BY <2>1, <2>7 DEF a
  <1>. HIDE DEF S
  <1>3. Nat \subseteq S
    BY <1>1, <1>2, Induction
  <1>4. n - k \in S /\ k + (n - k) = n
    BY <1>0, <1>3
  <1>. HIDE DEF From, n
  <1>5. f[Behind(s, k)] = From(k)
    BY <1>4 DEF S
  <1>. QED
    BY <1>5 DEF From, Reached

\* The pattern of a search matches the texts that contain it.
LEMMA LikeHasPart ==
    ASSUME NEW s \in Seq(Characters), NEW text \in Seq(Characters)
    PROVE  Like(<<"%">> \o Escape(s) \o <<"%">>, text) <=> HasPart(Lower(text), Lower(s))
  <1>. DEFINE pattern == <<"%">> \o Escape(s) \o <<"%">>
              p == Lower(pattern)
              t == Lower(text)
              low == Lower(s)
              n == Len(low)
  <1>1. /\ Len(p) \in Nat /\ Len(p) >= 2 /\ p[1] = Percent /\ p[Len(p)] = Percent
        /\ Behind(s, 0) = 2
    <2>1. p = Lower(<<"%">> \o Escape(s) \o <<"%">>)
      OBVIOUS
    <2>. HIDE DEF p
    <2>. QED
      BY <2>1, PatternIs
  <1>2. /\ t \in Seq(Characters) /\ Len(t) \in Nat /\ low \in Seq(Characters)
        /\ n \in Nat /\ Len(s) = n
    BY LowerIs
  <1>3. p = Lower(<<"%">> \o Escape(s) \o <<"%">>)
    OBVIOUS
  <1>. HIDE DEF pattern, p
  <1>4. Paired(p)
    <2>1. \A i \in 1 .. Len(p) : i = Len(p) \/ i < Len(p)
      BY <1>1
    <2>. QED
      BY <1>1, <2>1, SpecialAre DEF Paired
  <1>5. PICK f : /\ Like(pattern, text) <=> 1 \in f[1]
                 /\ Follows(f, p, t)
    BY <1>1, <1>4, LikeIs DEF p
  <1>. HIDE DEF t, low, n
  <1>6. f[2] = {j \in 1 .. Len(t) + 1 : Goes(t, low, 0, j)}
    <2>1. ASSUME NEW k \in 0 .. Len(s)
          PROVE  f[Behind(s, k)] = Reached(t, Lower(s), k)
      BY <1>2, <1>3, <1>5, StartsAre
    <2>2. f[Behind(s, 0)] = Reached(t, Lower(s), 0)
      BY <1>2, <2>1
    <2>. QED
      BY <1>1, <2>2 DEF low, Reached
  <1>7. 1 \in f[1] <=> \E j \in 1 .. Len(t) + 1 : Goes(t, low, 0, j)
    <2>1. 1 \in 1 .. Len(p) + 1 /\ ~(1 > Len(p))
      BY <1>1
    <2>2. f[1] = {j \in 1 .. Len(t) + 1 : \E l \in f[1 + 1] : j <= l}
      BY <1>1, <1>5, <2>1 DEF Matching, Follows
    <2>3. 1 \in 1 .. Len(t) + 1 /\ \A j \in 1 .. Len(t) + 1 : 1 <= j
      BY <1>2
    <2>4. 1 \in f[1] <=> \E l \in f[2] : 1 <= l
      BY <2>2, <2>3
    <2>. QED
      BY <1>6, <2>3, <2>4
  <1>8. ASSUME NEW j \in 1 .. Len(t) + 1, Goes(t, low, 0, j) PROVE HasPart(t, low)
    <2>1. j + (n - 0) <= Len(t) + 1 /\ \A l \in 0 + 1 .. n : t[j + (l - 0 - 1)] = low[l]
      BY <1>8 DEF Goes, n
    <2>2. PICK i \in 0 .. Len(t) - n : i + 1 = j
      <3>1. j - 1 \in 0 .. Len(t) - n /\ j - 1 + 1 = j
        BY <1>2, <2>1
      <3>. QED
        BY <3>1
    <2>. DEFINE part == SubSeq(t, i + 1, i + n)
    <2>3. part \in Seq(Characters) /\ Len(part) = n /\ \A l \in 1 .. n : part[l] = t[i + l]
      BY <1>2, PartOfSeq
    <2>. HIDE DEF part
    <2>4. ASSUME NEW l \in 1 .. n PROVE part[l] = low[l]
      <3>1. l \in 0 + 1 .. n /\ j + (l - 0 - 1) = i + l
        BY <1>2, <2>2
      <3>. QED
        BY <2>1, <2>3, <3>1
    <2>5. part = low
      BY <1>2, <2>3, <2>4, SeqEqual DEF n
    <2>. QED
      BY <2>5 DEF HasPart, part, n
  <1>9. ASSUME HasPart(t, low) PROVE \E j \in 1 .. Len(t) + 1 : Goes(t, low, 0, j)
    <2>1. PICK i \in 0 .. Len(t) - n : SubSeq(t, i + 1, i + n) = low
      BY <1>9 DEF HasPart, n
    <2>. DEFINE part == SubSeq(t, i + 1, i + n)
    <2>2. \A l \in 1 .. n : part[l] = t[i + l]
      BY <1>2, PartOfSeq
    <2>6. part = low
      BY <2>1
    <2>. HIDE DEF part
    <2>3. ASSUME NEW l \in 0 + 1 .. n PROVE t[i + 1 + (l - 0 - 1)] = low[l]
      <3>1. l \in 1 .. n /\ i + 1 + (l - 0 - 1) = i + l
        BY <1>2
      <3>. QED
        BY <2>2, <2>6, <3>1
    <2>4. i + 1 + (n - 0) <= Len(t) + 1 /\ i + 1 \in 1 .. Len(t) + 1
      BY <1>2
    <2>5. Goes(t, low, 0, i + 1)
      BY <2>3, <2>4 DEF Goes, n
    <2>. QED
      BY <2>4, <2>5
  <1>. QED
    BY <1>5, <1>7, <1>8, <1>9 DEF pattern, t, low

\* SearchIsSubstring holds for every search and all names: the escape
\* characters apply_filters adds leave LIKE nothing to interpret in a search.
THEOREM SearchesAreSubstrings == Spec => []SearchIsSubstring
  <1>1. ASSUME NEW table \in Tables, NEW id \in DOMAIN table, NEW search \in Searches,
               NEW text, text = NameTexts[table[id].name]
        PROVE  /\ search \in Seq(Characters)
               /\ text \in Seq(Characters)
    <2>1. STRING \subseteq Characters
      BY DEF Characters
    <2>. HIDE DEF Characters
    <2>2. Seq(STRING) \subseteq Seq(Characters)
      BY <2>1, SeqMonotonic
    <2>3. table[id].name \in 1 .. Len(NameTexts)
      BY TableIs
    <2>4. text \in Seq(STRING)
      BY <1>1, <2>3, ElementOfSeq
    <2>. QED
      BY <2>2, <2>4
  <1>2. ASSUME WalkInv, EachMatchOnce PROVE SearchIsSubstring
    <2>. DEFINE Holds(id) == HasPart(Lower(NameTexts[items[id].name]), Lower(query.search))
    <2>. SUFFICES ASSUME Walked, query.search # Null, query.quality = Null, publications = 0
                  PROVE  Range(collected) = {id \in DOMAIN items : Holds(id)}
      BY DEF SearchIsSubstring
    <2>1. Range(collected) = Selected(query)
      BY <1>2 DEF EachMatchOnce
    <2>2. items \in Tables /\ query.search \in Searches
      BY <1>2 DEF WalkInv, TypeOK, Queries
    <2>3. ASSUME NEW id \in DOMAIN items PROVE Searched(id, query.search) <=> Holds(id)
      <3>1. PICK text : text = NameTexts[items[id].name]
        OBVIOUS
      <3>2. PICK search \in Searches : search = query.search
        BY <2>2
      <3>3. search \in Seq(Characters) /\ text \in Seq(Characters)
        BY <1>1, <2>2, <3>1
      <3>4. Like(<<"%">> \o Escape(search) \o <<"%">>, text) <=> HasPart(Lower(text), Lower(search))
        BY <3>3, LikeHasPart
      <3>. QED
        BY <3>1, <3>2, <3>4, Zenon DEF Searched
    <2>. HIDE DEF Holds
    <2>4. Selected(query) = {id \in DOMAIN items : Searched(id, query.search)}
      BY DEF Selected
    <2>. QED
      BY <2>1, <2>3, <2>4
  <1>. QED
    BY <1>2, WalkInductive, PagesPartitionMatches, PTL
=============================================================================
