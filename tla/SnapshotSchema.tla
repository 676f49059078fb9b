--------------------------- MODULE SnapshotSchema ---------------------------
(***************************************************************************)
(* ItemSnapshot.model_validate: whether a document is a snapshot, and what *)
(* the tables are given of it.                                             *)
(*                                                                         *)
(* From pydantic: the errors of a model's fields are collected, a list     *)
(* with FailFast ends at its first item that is not valid, validators of   *)
(* the whole model run on valid fields only, and an exception other than   *)
(* ValueError goes through.  From PostgreSQL: text holds no NUL, btrim     *)
(* removes spaces and no other white space, and one INSERT ... ON CONFLICT *)
(* cannot meet a row twice.                                                *)
(***************************************************************************)
EXTENDS Integers, Sequences, FiniteSets

CONSTANTS
    MaxString,  \* MAX_SNAPSHOT_STRING_LENGTH
    MaxItems,   \* MAX_SNAPSHOT_ITEMS
    MaxInteger  \* the largest INTEGER of PostgreSQL, and MAX_GAME_ID

ASSUME SchemaAssumption ==
    MaxString \in Nat \ {0} /\ MaxItems \in Nat \ {0} /\ MaxInteger \in Nat \ {0}

\* A letter, its capital, a space, other white space, and NUL.
Characters == {"x", "X", " ", "tab", "NUL"}

Missing == [is |-> "missing"]
Null == [is |-> "null"]
Other == [is |-> "other"]
Text(t) == [is |-> "text", text |-> t]
Number(n) == [is |-> "number", number |-> n]

\* Of the fields that are treated alike, one: name for the required strings,
\* introduced_in_version for the optional ones but type.
Good(id) ==
    [known |-> TRUE, game_id |-> Number(id), name |-> Text(<<"x">>), quality |-> Null,
     item_type |-> Missing, introduced_in_version |-> Missing, image_url |-> TRUE]
-----------------------------------------------------------------------------
Strip(t) ==
    LET ink == {i \in 1 .. Len(t) : t[i] \notin {" ", "tab"}}
    IN  IF ink = {} THEN <<>>
        ELSE SubSeq(t, CHOOSE i \in ink : \A j \in ink : i <= j,
                       CHOOSE i \in ink : \A j \in ink : j <= i)

Lower(t) == [i \in 1 .. Len(t) |-> IF t[i] = "X" THEN "x" ELSE t[i]]

\* Mutant: nothing rejects NUL.
NonEmptyStringWithNul(v) ==
    v.is = "text" /\ Len(v.text) <= MaxString /\ Strip(v.text) # <<>>

NonEmptyString(v) ==
    /\ v.is = "text"
    /\ Len(v.text) <= MaxString
    /\ Strip(v.text) # <<>>
    /\ \A i \in 1 .. Len(v.text) : v.text[i] # "NUL"

OptionalString(v) == v \in {Missing, Null} \/ NonEmptyString(v)

StrictInt(v, low, high) == v.is = "number" /\ v.number \in low .. high

\* What item.type, optional though it is, does to null: None has no lower().
Breaks(item) == item.known /\ item.item_type = Null

ValidItem(item) ==
    /\ item.known /\ item.image_url
    /\ StrictInt(item.game_id, 1, MaxInteger)
    /\ NonEmptyString(item.name)
    /\ item.quality = Null \/ StrictInt(item.quality, 0, 4)
    /\ OptionalString(item.item_type) /\ item.item_type # Null
    /\ OptionalString(item.introduced_in_version)

\* reject_duplicate_game_ids.
Unique(items) == Cardinality({items[i].game_id : i \in 1 .. Len(items)}) = Len(items)

\* An item breaks the validation unless one before it ends it.
Verdict(s) ==
    IF s.known /\ \E i \in 1 .. Len(s.items) :
           Breaks(s.items[i]) /\ \A j \in 1 .. i - 1 : ValidItem(s.items[j])
      THEN "broken"
    ELSE IF /\ s.known
            /\ NonEmptyString(s.dataset_version) /\ OptionalString(s.game_version)
            /\ Len(s.items) \in 1 .. MaxItems
            /\ \A i \in 1 .. Len(s.items) : ValidItem(s.items[i])
            /\ Unique(s.items)
      THEN "accepted"
    ELSE "invalid"
-----------------------------------------------------------------------------
(* What upsert_items and upsert_metadata send, and what the tables hold. *)

Column(v) == IF v.is = "text" THEN Text(Strip(v.text)) ELSE IF v = Missing THEN Null ELSE v

TypeColumn(v) == IF v.is = "text" THEN Text(Lower(Strip(v.text))) ELSE Column(v)

TextColumn(v) == v.is = "text" /\ \A i \in 1 .. Len(v.text) : v.text[i] # "NUL"
NotBlank(v) == v.is = "text" => \E i \in 1 .. Len(v.text) : v.text[i] # " "

Storable(s) ==
    /\ TextColumn(Column(s.dataset_version)) /\ NotBlank(Column(s.dataset_version))
    /\ Column(s.game_version) = Null \/ TextColumn(Column(s.game_version))
    /\ NotBlank(Column(s.game_version))
    /\ Unique(s.items)
    /\ \A i \in 1 .. Len(s.items) : LET item == s.items[i] IN
        /\ StrictInt(item.game_id, -MaxInteger - 1, MaxInteger)
        /\ TextColumn(Column(item.name))
        /\ Column(item.quality) = Null \/ StrictInt(item.quality, 0, 4)
        /\ \A v \in {TypeColumn(item.item_type), Column(item.introduced_in_version)} :
               v = Null \/ TextColumn(v)
-----------------------------------------------------------------------------
(* The documents of the model: a good one with one field of any kind, and   *)
(* lists of items that are good, double, not valid or break the validation. *)

Strings == {Text(t) : t \in UNION {[1 .. n -> Characters] : n \in 0 .. MaxString + 1}}
StringValues == Strings \cup {Missing, Null, Other}
IntValues == {Number(n) : n \in {-1, 0, 1, 4, 5, MaxInteger, MaxInteger + 1}} \cup {Missing, Null, Other}

Items ==
    {[Good(1) EXCEPT !.game_id = v] : v \in IntValues}
    \cup {[Good(1) EXCEPT !.name = v] : v \in StringValues}
    \cup {[Good(1) EXCEPT !.quality = v] : v \in IntValues}
    \cup {[Good(1) EXCEPT !.item_type = v] : v \in StringValues}
    \cup {[Good(1) EXCEPT !.introduced_in_version = v] : v \in StringValues}
    \cup {[Good(1) EXCEPT !.known = FALSE], [Good(1) EXCEPT !.image_url = FALSE]}

FewItems == {Good(1), Good(2), [Good(3) EXCEPT !.item_type = Null], [Good(4) EXCEPT !.name = Null]}

Snapshot(items) ==
    [known |-> TRUE, dataset_version |-> Text(<<"x">>), game_version |-> Missing, items |-> items]

Documents ==
    {Snapshot(<<item>>) : item \in Items}
    \cup {Snapshot(items) : items \in UNION {[1 .. n -> FewItems] : n \in 0 .. MaxItems + 1}}
    \cup {[Snapshot(<<Good(1)>>) EXCEPT !.dataset_version = v] : v \in StringValues}
    \cup {[Snapshot(<<Good(1)>>) EXCEPT !.game_version = v] : v \in StringValues}
    \cup {[Snapshot(<<Good(1)>>) EXCEPT !.known = FALSE]}

\* What each document leads to.
Outcomes == {[verdict |-> Verdict(s), storable |-> Storable(s)] : s \in Documents}
=============================================================================
