---------------------------- MODULE ItemQueries ----------------------------
(***************************************************************************)
(* What the item repository asks of PostgreSQL, by a client that walks the *)
(* pages of a list, each a statement for the items and one for the total,  *)
(* or asks for one item; and a snapshot published meanwhile.               *)
(*                                                                         *)
(* From PostgreSQL: ORDER BY leaves rows that compare equal in any order,  *)
(* NULL is larger than any value, a comparison with NULL selects nothing,  *)
(* and a value too large for its parameter's type is refused.              *)
(***************************************************************************)
EXTENDS Integers, SequencesExt

CONSTANTS
    NameTexts,        \* names, as sequences of characters, as they collate
    Searches,         \* texts searched for
    Qualities,        \* what items have, or Null
    MaxLimit,         \* the largest page
    MaxItems,         \* bound on the game ids
    MaxInteger,       \* the largest INTEGER
    MaxPublications,  \* bound on the snapshots published
    Null

ASSUME QueriesAssumption ==
    /\ NameTexts \in Seq(Seq(STRING)) /\ Searches \subseteq Seq(STRING)
    /\ Qualities \subseteq 0 .. 4
    /\ MaxLimit \in Nat \ {0}
    /\ MaxItems \in Nat /\ MaxInteger \in Nat /\ MaxItems <= MaxInteger /\ MaxPublications \in Nat
    /\ Null \notin Qualities /\ Null \notin {"200", "404", "503"}

VARIABLES
    at,            \* what the client does
    items,         \* the table, by game id
    query,         \* the parameters of the list
    offset,
    collected,     \* the items of the pages so far
    total,         \* as the last page told it
    began,         \* the table when the walk began
    publications,  \* the snapshots published since
    answer         \* what was answered about one item

vars == <<at, items, query, offset, collected, total, began, publications, answer>>

Rows(ids) ==
    [ids -> [name: 1 .. Len(NameTexts), quality: Qualities \cup {Null}]]
Tables == UNION {Rows(ids) : ids \in SUBSET (1 .. MaxItems)}

\* ItemListParams; type and version are filters like quality, of which a query
\* has one at most here.
Queries ==
    {q \in [search: Searches \cup {Null}, quality: Qualities \cup {Null},
            sort: {"name", "quality", "game_id"}, order: {"asc", "desc"}, limit: 1 .. MaxLimit] :
        Null \in {q.search, q.quality}}

TypeOK ==
    /\ at \in {"start", "list", "count", "end"}
    /\ items \in Tables /\ began \in Tables
    /\ query \in Queries
    /\ offset \in 0 .. MaxItems + MaxLimit
    /\ collected \in Seq(1 .. MaxItems)
    /\ total \in 0 .. MaxItems
    \* No page is asked for behind the last match.
    /\ at = "list" /\ publications = 0 => Len(collected) = offset
    /\ publications \in 0 .. MaxPublications
    /\ answer \in {Null, "200", "404", "503"}
-----------------------------------------------------------------------------
(* apply_filters. *)

Replace(s, c, by) == FlattenSeq([i \in 1 .. Len(s) |-> IF s[i] = c THEN by ELSE <<s[i]>>])

\* Mutant: the escape character is escaped last.
EscapeBackslashLast(s) ==
    Replace(Replace(Replace(s, "%", <<"\\", "%">>), "_", <<"\\", "_">>), "\\", <<"\\", "\\">>)

Escape(s) ==
    Replace(Replace(Replace(s, "\\", <<"\\", "\\">>), "%", <<"\\", "%">>), "_", <<"\\", "_">>)

Lower(t) == [i \in 1 .. Len(t) |-> IF t[i] = "A" THEN "a" ELSE t[i]]

\* ILIKE with the escape character \.
Like(pattern, text) ==
    LET p == Lower(pattern) t == Lower(text)
        \* Where in t what the pattern has from i on matches the rest of t.
        starts[i \in 1 .. Len(p) + 1] ==
            IF i > Len(p) THEN {Len(t) + 1}
            ELSE IF p[i] = "%" THEN {j \in 1 .. Len(t) + 1 : \E k \in starts[i + 1] : j <= k}
            ELSE IF p[i] = "\\" THEN {j \in 1 .. Len(t) : p[i + 1] = t[j] /\ j + 1 \in starts[i + 2]}
            ELSE {j \in 1 .. Len(t) : p[i] \in {"_", t[j]} /\ j + 1 \in starts[i + 1]}
    IN  1 \in starts[1]

Searched(id, search) == Like(<<"%">> \o Escape(search) \o <<"%">>, NameTexts[items[id].name])

Selected(q) ==
    {id \in DOMAIN items :
        /\ q.search # Null => Searched(id, q.search)
        /\ q.quality # Null => items[id].quality = q.quality}
-----------------------------------------------------------------------------
(* list_items, count_items, get_by_game_id. *)

SortColumn(table, id, sort) ==
    CASE sort = "name" -> table[id].name
      [] sort = "quality" -> IF table[id].quality = Null THEN 5 ELSE table[id].quality
      [] sort = "game_id" -> id

Precedes(table, a, b, q) ==
    LET x == SortColumn(table, a, q.sort) y == SortColumn(table, b, q.sort)
    IN  IF q.order = "asc" THEN x < y ELSE y < x

\* Mutant: ties are left to the database.
OrderedWithTies(s, q) == \A i, j \in 1 .. Len(s) : i < j => ~Precedes(items, s[j], s[i], q)

Ordered(s, q) ==
    \A i, j \in 1 .. Len(s) : i < j =>
        \/ Precedes(items, s[i], s[j], q)
        \/ ~Precedes(items, s[j], s[i], q) /\ s[i] < s[j]

Results(q) == {s \in SetToAllKPermutations(Selected(q)) :
                  Len(s) = Cardinality(Selected(q)) /\ Ordered(s, q)}

\* OFFSET and LIMIT.
Page(s, q) == SubSeq(s, offset + 1, Min({offset + q.limit, Len(s)}))

ListItems ==
    /\ at \in {"start", "list"} /\ at' = "count"
    /\ \E s \in Results(query) : collected' = collected \o Page(s, query)
    /\ began' = IF at = "start" THEN items ELSE began
    /\ publications' = IF at = "start" THEN 0 ELSE publications
    /\ UNCHANGED <<items, query, offset, total, answer>>

\* The client goes on to the next page while there is one.
CountItems ==
    /\ at = "count"
    /\ total' = Cardinality(Selected(query))
    /\ offset' = offset + query.limit
    /\ at' = IF offset' < total' THEN "list" ELSE "end"
    /\ UNCHANGED <<items, query, collected, began, publications, answer>>

\* Any integer is taken for an id; one that is no INTEGER is refused by the
\* driver, and that is called unavailable.
GetItem(id) ==
    /\ at = "start" /\ at' = "end"
    /\ answer' = IF id \notin -MaxInteger - 1 .. MaxInteger THEN "503"
                 ELSE IF id \in DOMAIN items THEN "200" ELSE "404"
    /\ UNCHANGED <<items, query, offset, collected, total, began, publications>>

\* Mutant: a snapshot replaces the table.
PublishReplacing(rows) ==
    /\ publications < MaxPublications
    /\ publications' = publications + 1
    /\ items' = rows
    /\ UNCHANGED <<at, query, offset, collected, total, began, answer>>

\* upsert_items: rows are inserted or updated, and none is deleted.
Upserted(table, rows) ==
    [id \in DOMAIN rows \cup DOMAIN table |-> IF id \in DOMAIN rows THEN rows[id] ELSE table[id]]

Publish(rows) ==
    /\ publications < MaxPublications
    /\ publications' = publications + 1
    /\ items' = Upserted(items, rows)
    /\ UNCHANGED <<at, query, offset, collected, total, began, answer>>

Init ==
    /\ at = "start"
    /\ items \in Tables /\ began = items
    /\ query \in Queries
    /\ offset = 0 /\ collected = <<>> /\ total = 0
    /\ publications = 0
    /\ answer = Null

Next ==
    \/ ListItems \/ CountItems
    \/ \E id \in 0 .. MaxInteger + 1 : GetItem(id)
    \/ \E id \in 1 .. MaxItems : \E rows \in Rows({id}) : at \in {"list", "count"} /\ Publish(rows)

Spec == Init /\ [][Next]_vars
-----------------------------------------------------------------------------
Walked == at = "end" /\ answer = Null

\* A walk through a catalog nobody changes meets each match once, whatever the
\* sort and the page size, however many items compare equal; and it was told
\* how many they are.
EachMatchOnce ==
    Walked /\ publications = 0 =>
        /\ Range(collected) = Selected(query)
        /\ Len(collected) = Cardinality(Selected(query))
        /\ total = Len(collected)

\* The search means "the name contains the text, in capitals or not", for every
\* character of it, those that mean something to LIKE included.
HasPart(text, part) ==
    \E i \in 0 .. Len(text) - Len(part) : SubSeq(text, i + 1, i + Len(part)) = part

SearchIsSubstring ==
    Walked /\ query.search # Null /\ query.quality = Null /\ publications = 0 =>
        Range(collected) =
            {id \in DOMAIN items :
                HasPart(Lower(NameTexts[items[id].name]), Lower(query.search))}

\* A walk by game id misses no item that was there when it began, though
\* snapshots are published between its pages: items are never deleted and game
\* ids never change, so a page can only repeat what an earlier one had.
NothingSkipped ==
    Walked /\ query.sort = "game_id" /\ query.search = Null /\ query.quality = Null =>
        DOMAIN began \subseteq Range(collected)
=============================================================================
