------------------------- MODULE IngestCommandProofs -------------------------
(***************************************************************************)
(* Proofs about IngestCommand: what the loader promises on its own it      *)
(* promises within the command, the schema accepts what the tables hold,   *)
(* the settings protect what leaves the machine, and the operator is told  *)
(* the truth, wherever the command fails or is interrupted.                *)
(***************************************************************************)
EXTENDS IngestCommand, NumberLemmas, SequenceTheorems

\* A part of a sequence.
LEMMA Part ==
    ASSUME NEW S, NEW t \in Seq(S), NEW a \in 1 .. Len(t), NEW b \in 1 .. Len(t), a <= b,
           NEW p, p = SubSeq(t, a, b)
    PROVE  /\ p \in Seq(S)
           /\ Len(p) \in Nat \ {0}
           /\ p[1] = t[a]
  <1>. DEFINE n == Len(t)
  <1>1. n \in Nat /\ a \in 1 .. n /\ b \in 1 .. n /\ \A i \in 1 .. n : t[i] \in S
    BY LenProperties, ElementOfSeq
  <1>. HIDE DEF n
  <1>2. a \in Int /\ b \in Int /\ \A i \in a .. b : t[i] \in S
    BY <1>1
  <1>3. /\ p \in Seq(S)
        /\ Len(p) = IF a <= b THEN b - a + 1 ELSE 0
        /\ \A i \in 1 .. b - a + 1 : p[i] = t[a + i - 1]
    BY <1>2, SubSeqProperties
  <1>4. \A i \in 1 .. b - a + 1 : a + i - 1 \in 1 .. n
    BY <1>1
  <1>5. Len(p) = b - a + 1 /\ b - a + 1 \in Nat \ {0} /\ a + 1 - 1 = a
    BY <1>1, <1>3
  <1>. QED
    BY <1>3, <1>4, <1>5 DEF n

\* What is left of a text without the white space at its ends is a part of it,
\* and starts with a character that is none.
LEMMA StripLeavesInk ==
    ASSUME NEW S, NEW t \in Seq(S), Strip(t) # <<>>
    PROVE  /\ Strip(t) \in Seq(S)
           /\ Len(Strip(t)) \in Nat \ {0}
           /\ Strip(t)[1] # " "
  <1>. DEFINE ink == {i \in 1 .. Len(t) : t[i] \notin {" ", "tab"}}
              first == CHOOSE i \in ink : \A j \in ink : i <= j
              last == CHOOSE i \in ink : \A j \in ink : j <= i
  <1>1. Strip(t) = IF ink = {} THEN <<>> ELSE SubSeq(t, first, last)
    BY DEF Strip
  <1>2. Len(t) \in Nat /\ \A i \in ink : i \in 1 .. Len(t) /\ t[i] # " "
    <2>1. Len(t) \in Nat
      BY LenProperties
    <2>2. \A i \in ink : i \in 1 .. Len(t) /\ t[i] \notin {" ", "tab"}
      OBVIOUS
    <2>. QED
      BY <2>1, <2>2
  <1>3. \A i \in 1 .. Len(t) : t[i] \in S
    BY ElementOfSeq
  <1>. HIDE DEF ink
  <1>4. ink # {} /\ ink \in SUBSET (1 .. Len(t))
    BY <1>1, <1>2
  <1>5. (\E i \in ink : \A j \in ink : i <= j) /\ (\E i \in ink : \A j \in ink : j <= i)
    BY <1>2, <1>4, Extremes
  <1>6. /\ first \in ink /\ \A j \in ink : first <= j
        /\ last \in ink
    BY <1>5
  <1>. HIDE DEF first, last
  <1>7. Strip(t) = SubSeq(t, first, last)
    BY <1>1, <1>4
  <1>8. first \in 1 .. Len(t) /\ last \in 1 .. Len(t) /\ first <= last /\ t[first] # " "
    BY <1>2, <1>6
  <1>9. PICK a \in 1 .. Len(t), b \in 1 .. Len(t) :
            a <= b /\ t[a] # " " /\ Strip(t) = SubSeq(t, a, b)
    BY <1>7, <1>8
  <1>10. PICK p : p = Strip(t)
    OBVIOUS
  <1>11. p \in Seq(S) /\ Len(p) \in Nat \ {0} /\ p[1] = t[a]
    <2>1. a <= b /\ p = SubSeq(t, a, b)
      BY <1>9, <1>10
    <2>. QED
      BY ONLY <2>1, Part, t \in Seq(S), a \in 1 .. Len(t), b \in 1 .. Len(t)
  <1>. QED
    BY <1>9, <1>10, <1>11

\* Valid strings keep their characters, and NUL is none of them.
Printable == Characters \ {"NUL"}

LEMMA ValidText ==
    ASSUME NEW v, v.is = "text" => v.text \in Seq(Characters), NonEmptyString(v)
    PROVE  /\ v.is = "text" /\ v.text \in Seq(Printable)
           /\ Strip(v.text) \in Seq(Printable) /\ Len(Strip(v.text)) \in Nat \ {0}
           /\ Strip(v.text)[1] # " "
  <1>1. /\ v.is = "text" /\ v.text \in Seq(Characters) /\ Strip(v.text) # <<>>
        /\ \A i \in 1 .. Len(v.text) : v.text[i] # "NUL"
    BY DEF NonEmptyString
  <1>. DEFINE t == v.text
              n == Len(t)
  <1>2. n \in Nat /\ t \in [1 .. n -> Characters] /\ \A i \in 1 .. n : t[i] \in Characters
    BY <1>1, LenProperties, ElementOfSeq
  <1>3. t \in [1 .. n -> Printable]
    BY <1>1, <1>2 DEF Printable
  <1>4. t \in Seq(Printable)
    <2>. HIDE DEF n, t
    <2>. QED
      BY <1>2, <1>3, SeqDef
  <1>. QED
    BY <1>1, <1>4, StripLeavesInk

LEMMA ValidLower ==
    ASSUME NEW t \in Seq(Printable)
    PROVE  Lower(t) \in Seq(Printable)
  <1>. DEFINE n == Len(t)
  <1>1. n \in Nat /\ \A i \in 1 .. n : t[i] \in Printable
    BY LenProperties, ElementOfSeq
  <1>2. Lower(t) \in [1 .. n -> Printable]
    BY <1>1 DEF Lower, Printable, Characters
  <1>. HIDE DEF n
  <1>. QED
    BY <1>1, <1>2, SeqDef

\* So the columns of a valid string hold it.
LEMMA ValidColumn ==
    ASSUME NEW v, v.is = "text" => v.text \in Seq(Characters), NonEmptyString(v)
    PROVE  /\ TextColumn(Column(v)) /\ NotBlank(Column(v)) /\ TextColumn(TypeColumn(v))
  <1>1. PICK p \in Seq(Printable) : p = Strip(v.text) /\ v.is = "text" /\ Len(p) \in Nat \ {0} /\ p[1] # " "
    BY ValidText
  <1>2. Column(v) = Text(p) /\ TypeColumn(v) = Text(Lower(p))
    BY <1>1 DEF Column, TypeColumn
  <1>3. \A q : Text(q).is = "text" /\ Text(q).text = q
    BY DEF Text
  <1>4. \A q \in Seq(Printable) : TextColumn(Text(q))
    <2>. SUFFICES ASSUME NEW q \in Seq(Printable) PROVE TextColumn(Text(q))
      OBVIOUS
    <2>1. "NUL" \notin Printable
      BY DEF Printable
    <2>2. \A i \in 1 .. Len(q) : q[i] \in Printable
      BY ElementOfSeq
    <2>3. \A i \in 1 .. Len(q) : q[i] # "NUL"
      BY <2>1, <2>2
    <2>4. PICK c : c = Text(q) /\ c.is = "text" /\ c.text = q
      BY <1>3
    <2>5. \A i \in 1 .. Len(c.text) : c.text[i] # "NUL"
      BY <2>3, <2>4, Zenon
    <2>6. TextColumn(c)
      BY <2>4, <2>5, Zenon DEF TextColumn
    <2>. QED
      BY <2>4, <2>6
  <1>5. 1 \in 1 .. Len(p)
    <2>1. \A n \in Nat \ {0} : 1 \in 1 .. n
      OBVIOUS
    <2>. QED
      BY <1>1, <2>1, Zenon
  <1>6. TextColumn(Text(p)) /\ TextColumn(Text(Lower(p)))
    BY <1>4, ValidLower
  <1>7. NotBlank(Text(p))
    BY <1>1, <1>3, <1>5 DEF NotBlank
  <1>. QED
    BY <1>2, <1>6, <1>7

LEMMA OptionalColumn ==
    ASSUME NEW v, v.is = "text" => v.text \in Seq(Characters), OptionalString(v)
    PROVE  /\ Column(v) = Null \/ TextColumn(Column(v))
           /\ NotBlank(Column(v))
           /\ TypeColumn(v) = Null \/ TextColumn(TypeColumn(v))
  <1>1. CASE NonEmptyString(v)
    BY <1>1, ValidColumn
  <1>2. CASE v \in {Missing, Null}
    <2>1. v.is # "text" /\ Null.is # "text"
      BY <1>2 DEF Missing, Null
    <2>2. Column(v) = Null /\ TypeColumn(v) = Null
      BY <1>2, <2>1 DEF Column, TypeColumn
    <2>. QED
      BY <2>1, <2>2 DEF NotBlank
  <1>. QED
    BY <1>1, <1>2 DEF OptionalString

\* A document whose texts are texts, of any length, with items of any kind.
Readable(v) == v.is = "text" => v.text \in Seq(Characters)

ReadableItem(item) ==
    Readable(item.name) /\ Readable(item.item_type) /\ Readable(item.introduced_in_version)

ReadableDocument(s) ==
    /\ Readable(s.dataset_version) /\ Readable(s.game_version)
    /\ \A i \in 1 .. Len(s.items) : ReadableItem(s.items[i])

\* A valid item has a row.
LEMMA ValidItemStorable ==
    ASSUME NEW item, ValidItem(item), ReadableItem(item)
    PROVE  /\ StrictInt(item.game_id, -MaxInteger - 1, MaxInteger)
           /\ TextColumn(Column(item.name))
           /\ Column(item.quality) = Null \/ StrictInt(item.quality, 0, 4)
           /\ \A v \in {TypeColumn(item.item_type), Column(item.introduced_in_version)} :
                  v = Null \/ TextColumn(v)
  <1>1. StrictInt(item.game_id, -MaxInteger - 1, MaxInteger)
    BY SchemaAssumption DEF ValidItem, StrictInt
  <1>2. TextColumn(Column(item.name))
    BY ValidColumn DEF ValidItem, ReadableItem, Readable
  <1>3. Column(item.quality) = Null \/ StrictInt(item.quality, 0, 4)
    BY DEF ValidItem, Column, Null
  <1>4. TypeColumn(item.item_type) = Null \/ TextColumn(TypeColumn(item.item_type))
    BY OptionalColumn DEF ValidItem, ReadableItem, Readable
  <1>5. \/ Column(item.introduced_in_version) = Null
        \/ TextColumn(Column(item.introduced_in_version))
    BY OptionalColumn DEF ValidItem, ReadableItem, Readable
  <1>. QED
    BY <1>1, <1>2, <1>3, <1>4, <1>5

\* What the schema accepts, the tables hold, however long its strings may be.
LEMMA AcceptedStorable ==
    ASSUME NEW s, ReadableDocument(s), Verdict(s) = "accepted"
    PROVE  Storable(s)
  <1>1. /\ NonEmptyString(s.dataset_version) /\ OptionalString(s.game_version)
        /\ \A i \in 1 .. Len(s.items) : ValidItem(s.items[i])
        /\ Unique(s.items)
    BY DEF Verdict
  <1>2. TextColumn(Column(s.dataset_version)) /\ NotBlank(Column(s.dataset_version))
    BY <1>1, ValidColumn DEF ReadableDocument, Readable
  <1>3. /\ Column(s.game_version) = Null \/ TextColumn(Column(s.game_version))
        /\ NotBlank(Column(s.game_version))
    BY <1>1, OptionalColumn DEF ReadableDocument, Readable
  <1>. QED
    BY <1>1, <1>2, <1>3, ValidItemStorable DEF Storable, ReadableDocument

\* The documents of the model are such documents.
LEMMA StringsReadable == \A v \in StringValues : Readable(v)
  <1>1. \A t \in UNION {[1 .. n -> Characters] : n \in 0 .. MaxString + 1} : t \in Seq(Characters)
    BY SchemaAssumption
  <1>2. \A v \in Strings : Readable(v)
    BY <1>1 DEF Strings, Text, Readable
  <1>3. Readable(Missing) /\ Readable(Null) /\ Readable(Other)
    BY DEF Readable, Missing, Null, Other
  <1>. QED
    BY <1>2, <1>3 DEF StringValues

LEMMA GoodReadable == Readable(Text(<<"x">>)) /\ \A id : ReadableItem(Good(id))
  <1>1. Readable(Text(<<"x">>))
    BY DEF Readable, Text, Characters
  <1>2. Readable(Missing)
    BY DEF Readable, Missing
  <1>. QED
    BY <1>1, <1>2 DEF ReadableItem, Good

LEMMA ItemsReadable == \A item \in Items \cup FewItems : ReadableItem(item)
  <1>1. \A v \in StringValues :
            /\ ReadableItem([Good(1) EXCEPT !.name = v])
            /\ ReadableItem([Good(1) EXCEPT !.item_type = v])
            /\ ReadableItem([Good(1) EXCEPT !.introduced_in_version = v])
    BY GoodReadable, StringsReadable DEF ReadableItem, Good
  <1>2. \A v : /\ ReadableItem([Good(1) EXCEPT !.game_id = v])
               /\ ReadableItem([Good(1) EXCEPT !.quality = v])
               /\ ReadableItem([Good(1) EXCEPT !.known = v])
               /\ ReadableItem([Good(1) EXCEPT !.image_url = v])
    BY GoodReadable DEF ReadableItem, Good
  <1>3. \A item \in Items : ReadableItem(item)
    BY <1>1, <1>2 DEF Items
  <1>4. /\ ReadableItem([Good(3) EXCEPT !.item_type = Null])
        /\ ReadableItem([Good(4) EXCEPT !.name = Null])
    <2>1. Readable(Null)
      BY DEF Readable, Null
    <2>. QED
      BY <2>1, GoodReadable DEF ReadableItem, Good
  <1>. QED
    BY <1>3, <1>4, GoodReadable DEF FewItems

LEMMA DocumentsReadable == \A s \in Documents : ReadableDocument(s)
  <1>1. Readable(Missing) /\ \A v \in StringValues : Readable(v)
    BY StringsReadable DEF Readable, Missing
  <1>2. \A items : (\A i \in 1 .. Len(items) : ReadableItem(items[i])) =>
            ReadableDocument(Snapshot(items))
    BY <1>1, GoodReadable DEF ReadableDocument, Snapshot
  <1>3. \A item \in Items : ReadableDocument(Snapshot(<<item>>))
    <2>. SUFFICES ASSUME NEW item \in Items PROVE ReadableDocument(Snapshot(<<item>>))
      OBVIOUS
    <2>1. \A i \in 1 .. Len(<<item>>) : <<item>>[i] = item
      OBVIOUS
    <2>. QED
      BY <1>2, <2>1, ItemsReadable
  <1>4. \A n \in 0 .. MaxItems + 1 : \A items \in [1 .. n -> FewItems] :
            ReadableDocument(Snapshot(items))
    <2>. SUFFICES ASSUME NEW n \in 0 .. MaxItems + 1, NEW items \in [1 .. n -> FewItems]
                  PROVE  ReadableDocument(Snapshot(items))
      OBVIOUS
    <2>1. n \in Nat /\ Len(items) = n
      BY SchemaAssumption
    <2>2. \A i \in 1 .. Len(items) : ReadableItem(items[i])
      BY <2>1, ItemsReadable
    <2>. QED
      BY <1>2, <2>2
  <1>5. /\ \A v \in StringValues :
              /\ ReadableDocument([Snapshot(<<Good(1)>>) EXCEPT !.dataset_version = v])
              /\ ReadableDocument([Snapshot(<<Good(1)>>) EXCEPT !.game_version = v])
        /\ ReadableDocument([Snapshot(<<Good(1)>>) EXCEPT !.known = FALSE])
    <2>1. \A i \in 1 .. Len(<<Good(1)>>) : ReadableItem(<<Good(1)>>[i])
      BY GoodReadable
    <2>2. ReadableDocument(Snapshot(<<Good(1)>>))
      BY <1>2, <2>1
    <2>. QED
      BY <1>1, <2>2 DEF ReadableDocument, Snapshot
  <1>. SUFFICES ASSUME NEW s \in Documents PROVE ReadableDocument(s)
    OBVIOUS
  <1>6. CASE s \in {Snapshot(<<item>>) : item \in Items}
    BY <1>3, <1>6
  <1>7. CASE s \in {Snapshot(items) : items \in UNION {[1 .. n -> FewItems] : n \in 0 .. MaxItems + 1}}
    <2>1. PICK items \in UNION {[1 .. n -> FewItems] : n \in 0 .. MaxItems + 1} : s = Snapshot(items)
      BY <1>7
    <2>. QED
      BY <1>4, <2>1
  <1>8. CASE s \in {[Snapshot(<<Good(1)>>) EXCEPT !.dataset_version = v] : v \in StringValues}
    <2>1. PICK v \in StringValues : s = [Snapshot(<<Good(1)>>) EXCEPT !.dataset_version = v]
      BY <1>8
    <2>. QED
      BY <1>5, <2>1, Zenon
  <1>9. CASE s \in {[Snapshot(<<Good(1)>>) EXCEPT !.game_version = v] : v \in StringValues}
    <2>1. PICK v \in StringValues : s = [Snapshot(<<Good(1)>>) EXCEPT !.game_version = v]
      BY <1>9
    <2>. QED
      BY <1>5, <2>1, Zenon
  <1>10. CASE s = [Snapshot(<<Good(1)>>) EXCEPT !.known = FALSE]
    BY <1>5, <1>10
  <1>. QED
    BY <1>6, <1>7, <1>8, <1>9, <1>10 DEF Documents

LEMMA OutcomesStorable == \A o \in Outcomes : o.verdict = "accepted" => o.storable = TRUE
  BY DocumentsReadable, AcceptedStorable DEF Outcomes

LEMMA OutcomesInDetail ==
    \A o \in Outcomes : o.verdict \in {"accepted", "invalid", "broken"} /\ o.storable \in BOOLEAN
  <1>1. \A s : Verdict(s) \in {"accepted", "invalid", "broken"}
    BY Zenon DEF Verdict
  <1>2. \A s : Storable(s) \in BOOLEAN
    BY Zenon DEF Storable
  <1>. QED
    BY <1>1, <1>2 DEF Outcomes
-----------------------------------------------------------------------------
(* The settings. *)

\* A host parameter that is let through names a socket of this machine.
LEMMA ParametersAreSockets ==
    ASSUME NEW u \in DatabaseUrls, ValidDatabaseUrl(u), u.hosts # <<>>
    PROVE  /\ u.hostname = "none"
           /\ Values(u, {"host"}) # {} /\ Values(u, {"host"}) \subseteq {"approved", "socket"}
  <1>1. UnixSocket(u)
    BY DEF ValidDatabaseUrl
  <1>2. u.hostname = "none" /\ Len(u.hosts) = 1 /\ Keys(u) = {"host"}
        /\ Values(u, {"host"}) \subseteq {"approved", "socket"}
    BY <1>1 DEF UnixSocket
  <1>3. u.hosts[1].key \in {"host"} /\ 1 \in 1 .. Len(u.hosts)
    BY <1>2 DEF Keys
  <1>4. u.hosts[1].value \in Values(u, {"host"})
    BY <1>3 DEF Values
  <1>. QED
    BY <1>2, <1>4

\* What leaves the machine goes to the host of a URL that requires TLS, or to one
\* that only the environment of the process names.
LEMMA TargetsAreSafe ==
    ASSUME NEW c \in Configurations, ValidDatabaseUrl(c.database), "remote" \in Targets(c)
    PROVE  \/ DatabaseRequiresTls(c.database)
           \/ c.database.hostname = "none" /\ c.database.hosts = <<>> /\ c.pghost
  <1>. DEFINE u == c.database
              V == Values(u, {"host"})
  <1>1. u \in DatabaseUrls
    BY DEF Configurations
  <1>2. CASE u.hosts # <<>>
    BY <1>1, <1>2, ParametersAreSockets DEF Targets
  <1>3. CASE u.hosts = <<>>
    <2>1. V = {}
      BY <1>3 DEF Values
    <2>. QED
      BY <1>3, <2>1 DEF Targets, DatabaseRequiresTls
  <1>. QED
    BY <1>2, <1>3

LEMMA IngestionIsProtected ==
    ASSUME NEW n \in IngestionConnections
    PROVE  n.database # "unprotected" /\ (n.production => Protected(n))
  <1>1. PICK c \in Configurations : IngestionAccepts(c) /\ n = Connections(c)
    BY DEF IngestionConnections
  <1>2. "remote" \in Targets(c) => DatabaseRequiresTls(c.database)
    BY <1>1, TargetsAreSafe DEF IngestionAccepts, PostgresAccepts
  <1>3. c.environment = "production" /\ c.redis.hostname = "remote" =>
            c.redis.rediss /\ c.redis.password
    BY <1>1 DEF IngestionAccepts, RedisAccepts
  <1>. QED
    BY <1>1, <1>2, <1>3 DEF Connections, Reach, Protected
-----------------------------------------------------------------------------
(* The loader by itself, for a path of any length, however often its names  *)
(* are replaced.                                                           *)

\* While the path is walked, the descriptors held are those of the directory
\* the walk is in and of what it has just opened there; afterwards, the file's.
Held ==
    /\ ~wild
    /\ at \in {"walk", "close_parent", "close_directory"} =>
        directory_descriptor = part
    /\ at \in {"anchor", "walk", "close_parent"} => ~raised
    /\ at = "anchor" => open = {}
    /\ at = "walk" => open = {part}
    /\ at = "close_parent" => next_descriptor = part + 1 /\ open = {part, part + 1}
    /\ at = "close_directory" => open = IF raised THEN {part} ELSE {part, depth}
    /\ at = "close_directory" /\ ~raised => part + 1 = depth
    /\ at \in {"fstat", "read", "close_file"} => open = {depth}
    /\ at \in {"parse", "done"} => open = {}

\* A descriptor that has passed fstat is a regular file's.
Checked ==
    /\ at = "read" => file = "regular"
    /\ at \in {"close_file", "parse", "done"} /\ ~raised => file = "regular"
    /\ result = "snapshot" => at = "done" /\ ~raised

\* The walk starts at the beginning, and enters no directory at the end.
Typed ==
    /\ TypeOK
    /\ at = "anchor" => part = 0
    /\ at = "close_parent" => part + 1 < depth

Inductive ==
    /\ Typed
    /\ Checked
    /\ ~close_failed => Held

USE DEF vars, path, walk, descriptors, Descriptors, Kinds

LEMMA InductiveInit == Init => Inductive
  <1>. SUFFICES ASSUME Init PROVE Inductive
    OBVIOUS
  <1>1. 0 \in Descriptors /\ 0 \in 0 .. MaxChanges
    BY BoundsAssumption
  <1>2. TypeOK
    BY <1>1 DEF Init, TypeOK
  <1>3. Checked
    BY NoneAssumption DEF Init, Checked
  <1>4. Held
    BY DEF Init, Held
  <1>. QED
    BY <1>2, <1>3, <1>4 DEF Init, Inductive, Typed

\* Opening the anchor and the directories of the path.
LEMMA WalkingPreserves ==
    ASSUME Inductive,
           AnchorFails \/ OpenAnchor \/ OpenDirectory \/ CloseParent \/ CloseParentFails
    PROVE  Inductive'
  <1>. USE BoundsAssumption, NoneAssumption DEF Inductive, Typed, TypeOK, Checked, Held
  <1>1. CASE AnchorFails
    BY <1>1 DEF AnchorFails
  <1>2. CASE OpenAnchor
    <2>1. Typed'
      BY <1>2 DEF OpenAnchor
    <2>2. Checked'
      BY <1>2 DEF OpenAnchor
    <2>3. (~close_failed => Held)'
      BY <1>2 DEF OpenAnchor
    <2>. QED
      BY <2>1, <2>2, <2>3
  <1>3. CASE OpenDirectory
    <2>1. Typed'
      BY <1>3 DEF OpenDirectory, MoreParts
    <2>2. Checked'
      BY <1>3 DEF OpenDirectory, MoreParts
    <2>3. (~close_failed => Held)'
      BY <1>3 DEF OpenDirectory, MoreParts
    <2>. QED
      BY <2>1, <2>2, <2>3
  <1>4. CASE CloseParent
    BY <1>4 DEF CloseParent, Close, CloseReturns
  <1>5. CASE CloseParentFails
    BY <1>5 DEF CloseParentFails, Close, CloseRaises
  <1>. QED
    BY <1>1, <1>2, <1>3, <1>4, <1>5

\* Opening the file, and leaving its directory.
LEMMA OpeningPreserves ==
    ASSUME Inductive,
           OpenFile \/ OpenRefused \/ OpenBreaks \/ CloseDirectory \/ CloseDirectoryFails
    PROVE  Inductive'
  <1>. USE BoundsAssumption, NoneAssumption DEF Inductive, Typed, TypeOK, Checked, Held
  <1>1. CASE OpenFile
    <2>1. Typed'
      BY <1>1 DEF OpenFile, MoreParts
    <2>2. Checked'
      BY <1>1 DEF OpenFile, MoreParts
    <2>3. (~close_failed => Held)'
      BY <1>1 DEF OpenFile, MoreParts
    <2>. QED
      BY <2>1, <2>2, <2>3
  <1>2. CASE OpenRefused \/ OpenBreaks
    <2>1. Typed'
      BY <1>2 DEF OpenRefused, OpenBreaks, OpenFails
    <2>2. Checked'
      BY <1>2 DEF OpenRefused, OpenBreaks, OpenFails
    <2>3. (~close_failed => Held)'
      BY <1>2 DEF OpenRefused, OpenBreaks, OpenFails
    <2>. QED
      BY <2>1, <2>2, <2>3
  <1>3. CASE CloseDirectory
    <2>1. Typed'
      BY <1>3 DEF CloseDirectory, LeaveDirectory, Close, CloseReturns
    <2>2. Checked'
      BY <1>3 DEF CloseDirectory, LeaveDirectory, Close, CloseReturns
    <2>3. (~close_failed => Held)'
      BY <1>3 DEF CloseDirectory, LeaveDirectory, Close, CloseReturns
    <2>. QED
      BY <2>1, <2>2, <2>3
  <1>4. CASE CloseDirectoryFails
    <2>1. Typed'
      BY <1>4 DEF CloseDirectoryFails, LeaveDirectory, Close, CloseRaises
    <2>2. Checked'
      BY <1>4 DEF CloseDirectoryFails, LeaveDirectory, Close, CloseRaises
    <2>3. (~close_failed => Held)'
      BY <1>4 DEF CloseDirectoryFails, LeaveDirectory, Close, CloseRaises
    <2>. QED
      BY <2>1, <2>2, <2>3
  <1>. QED
    BY <1>1, <1>2, <1>3, <1>4

\* Checking, reading and closing the file, and judging what was read.
LEMMA ReadingPreserves ==
    ASSUME Inductive,
           \/ Fstat \/ FstatFails \/ Read \/ ReadFails
           \/ CloseFile \/ CloseFileFails \/ Reject \/ Accept
    PROVE  Inductive'
  <1>. USE BoundsAssumption, NoneAssumption DEF Inductive, Typed, TypeOK, Checked, Held
  <1>1. CASE Fstat \/ FstatFails
    <2>1. Typed'
      BY <1>1 DEF Fstat, FstatFails
    <2>2. Checked'
      BY <1>1 DEF Fstat, FstatFails
    <2>3. (~close_failed => Held)'
      BY <1>1 DEF Fstat, FstatFails
    <2>. QED
      BY <2>1, <2>2, <2>3
  <1>2. CASE Read \/ ReadFails
    <2>1. Typed'
      BY <1>2 DEF Read, ReadFails
    <2>2. Checked'
      BY <1>2 DEF Read, ReadFails
    <2>3. (~close_failed => Held)'
      BY <1>2 DEF Read, ReadFails
    <2>. QED
      BY <2>1, <2>2, <2>3
  <1>3. CASE CloseFile
    <2>1. Typed'
      BY <1>3 DEF CloseFile, LeaveFile, Close, CloseReturns
    <2>2. Checked'
      BY <1>3 DEF CloseFile, LeaveFile, Close, CloseReturns
    <2>3. (~close_failed => Held)'
      BY <1>3 DEF CloseFile, LeaveFile, Close, CloseReturns
    <2>. QED
      BY <2>1, <2>2, <2>3
  <1>4. CASE CloseFileFails
    <2>1. Typed'
      BY <1>4 DEF CloseFileFails, LeaveFile, Close, CloseRaises
    <2>2. Checked'
      BY <1>4 DEF CloseFileFails, LeaveFile, Close, CloseRaises
    <2>3. (~close_failed => Held)'
      BY <1>4 DEF CloseFileFails, LeaveFile, Close, CloseRaises
    <2>. QED
      BY <2>1, <2>2, <2>3
  <1>5. CASE Reject \/ Accept
    <2>1. Typed'
      BY <1>5 DEF Reject, Accept, Finish
    <2>2. Checked'
      BY <1>5 DEF Reject, Accept, Finish
    <2>3. (~close_failed => Held)'
      BY <1>5 DEF Reject, Accept, Finish
    <2>. QED
      BY <2>1, <2>2, <2>3
  <1>. QED
    BY <1>1, <1>2, <1>3, <1>4, <1>5

\* Nothing the loader holds depends on what the path names by now.
LEMMA ReplacingPreserves ==
    ASSUME Inductive, Replace
    PROVE  Inductive'
  BY BoundsAssumption DEF Replace, Inductive, Typed, TypeOK, Checked, Held

LEMMA InductivePreserved ==
    ASSUME Inductive, [Next]_vars
    PROVE  Inductive'
  <1>1. CASE Load \/ Break
    BY <1>1, WalkingPreserves, OpeningPreserves, ReadingPreserves DEF Load, Break
  <1>2. CASE Replace
    BY <1>2, ReplacingPreserves
  <1>3. CASE UNCHANGED vars
    BY <1>3 DEF Inductive, Typed, TypeOK, Checked, Held
  <1>. QED
    BY <1>1, <1>2, <1>3 DEF Next

LEMMA InductiveHolds == Spec => []Inductive
  BY InductiveInit, InductivePreserved, PTL DEF Spec

\* The loader stays within its types, and its walk within the path.
THEOREM TypeCorrect == Spec => []TypeOK
  <1>1. Inductive => TypeOK
    BY DEF Inductive, Typed
  <1>. QED
    BY <1>1, InductiveHolds, PTL

\* However the walk ends, every descriptor has been closed, and none twice.
THEOREM NoDescriptorLost == Spec => []DescriptorsReturned
  <1>1. Inductive => DescriptorsReturned
    BY DEF Inductive, Held, DescriptorsReturned, Ended
  <1>. QED
    BY <1>1, InductiveHolds, PTL

\* A walk holds two descriptors at most.
THEOREM TwoDescriptorsAtMost == Spec => []WalkIsNarrow
  <1>1. Inductive => WalkIsNarrow
    BY DEF Inductive, Typed, TypeOK, Held, WalkIsNarrow
  <1>. QED
    BY <1>1, InductiveHolds, PTL

\* What is accepted was read from a regular file.
THEOREM RegularFilesOnly == Spec => []OnlyRegularFilesAreRead
  <1>1. Inductive => OnlyRegularFilesAreRead
    BY DEF Inductive, Checked, OnlyRegularFilesAreRead
  <1>. QED
    BY <1>1, InductiveHolds, PTL

HIDE DEF vars, path, walk, descriptors, Descriptors, Kinds
-----------------------------------------------------------------------------
(* The command. *)

\* The exit stack grows and shrinks at its end.
LEMMA Pushed ==
    ASSUME NEW S, NEW s \in Seq(S), NEW c \in S
    PROVE  /\ Append(s, c) \in Seq(S)
           /\ Len(Append(s, c)) = Len(s) + 1
           /\ \A i \in 1 .. Len(s) : Append(s, c)[i] = s[i]
           /\ Append(s, c)[Len(s) + 1] = c
  OBVIOUS

LEMMA Popped ==
    ASSUME NEW S, NEW s \in Seq(S), s # <<>>
    PROVE  /\ SubSeq(s, 1, Len(s) - 1) \in Seq(S)
           /\ Len(SubSeq(s, 1, Len(s) - 1)) = Len(s) - 1
           /\ \A i \in 1 .. Len(s) - 1 : SubSeq(s, 1, Len(s) - 1)[i] = s[i]
           /\ s[Len(s)] \in S /\ Len(s) \in Nat \ {0}
  <1>. DEFINE n == Len(s) - 1
              t == SubSeq(s, 1, n)
  <1>1. Len(s) \in Nat \ {0} /\ n \in Int
    BY EmptySeq, s \in Seq(S), s # <<>>
  <1>2. /\ s[Len(s)] \in S
        /\ \A i \in 1 .. n : s[i] \in S
    BY <1>1
  <1>. HIDE DEF n
  <1>3. /\ t \in Seq(S)
        /\ Len(t) = IF 1 <= n THEN n - 1 + 1 ELSE 0
        /\ \A i \in 1 .. n - 1 + 1 : t[i] = s[1 + i - 1]
    BY <1>1, <1>2, SubSeqProperties
  <1>. HIDE DEF t
  <1>4. /\ t \in Seq(S) /\ Len(t) = n
        /\ \A i \in 1 .. n : t[i] = s[i]
    <2>1. n \in Nat /\ n - 1 + 1 = n /\ \A i \in 1 .. n : 1 + i - 1 = i
      BY <1>1 DEF n
    <2>2. Len(t) = n
      BY <1>3, <2>1
    <2>. QED
      BY <1>3, <2>1, <2>2
  <1>. QED
    BY <1>1, <1>2, <1>4 DEF n, t

Closing == {"unwind", "exit", "exited"}

\* The clients on the stack are those not yet closed, the older ones; closing
\* begins with the way out, and is over at the exit.
StackHoldsOpen ==
    /\ stack \in Seq({"engine", "redis"})
    /\ created \in Seq({"engine", "redis"}) /\ released \in Seq({"engine", "redis"})
    /\ Len(stack) + Len(released) = Len(created)
    /\ \A i \in 1 .. Len(stack) : stack[i] = created[i]
    /\ \A i \in 1 .. Len(released) : released[i] = created[Len(created) + 1 - i]
    /\ step \notin Closing => released = <<>>
    /\ step \notin Closing \cup {"redis", "ingest", "invalidate"} => created = <<>>
    /\ step = "redis" => Len(created) = 1
    /\ step \in {"ingest", "invalidate"} => Len(created) = 2
    /\ step \in {"exit", "exited"} => stack = <<>>

\* Where the command is on its way out, its error tells how far it got.
ErrorTells ==
    /\ step \notin Closing => error = "none" /\ ~invalidated
    /\ step \notin Closing \cup {"invalidate"} => published = "no"
    /\ step = "invalidate" => published # "no"
    /\ step = "unwind" => error \in {"none", "service", "internal", "interrupt", "invalidation"}
    /\ error \in {"help", "arguments", "load", "validation", "configuration"} =>
          created = <<>> /\ published = "no" /\ ~invalidated
    /\ step \in Closing /\ error = "none" => published # "no" /\ invalidated /\ Len(created) = 2
    /\ error = "invalidation" => published # "no"
    /\ status = IF step = "exited" THEN Status(error) ELSE None

CommandInductive ==
    /\ Inductive /\ CommandTypeOK
    /\ StackHoldsOpen /\ ErrorTells /\ AcceptedIsStorable

LEMMA CommandBegins == CommandInit => CommandInductive
  <1>. SUFFICES ASSUME CommandInit PROVE CommandInductive
    OBVIOUS
  <1>1. Inductive
    BY InductiveInit DEF CommandInit
  <1>2. <<>> \in Seq({"engine", "redis"}) /\ Len(<<>>) = 0
    BY EmptySeq
  <1>3. StackHoldsOpen /\ ErrorTells /\ AcceptedIsStorable
    BY <1>2 DEF CommandInit, StackHoldsOpen, ErrorTells, AcceptedIsStorable, Closing
  <1>4. CommandTypeOK
    BY <1>1, <1>2 DEF CommandInit, CommandTypeOK, Inductive, Typed, Errors
  <1>. QED
    BY <1>1, <1>3, <1>4 DEF CommandInductive

\* The loader, while the command waits for it.
LEMMA LoadingPreserves ==
    ASSUME CommandInductive, LoadStep(Next)
    PROVE  CommandInductive'
  <1>1. Inductive'
    BY InductivePreserved DEF CommandInductive, LoadStep
  <1>2. UNCHANGED commandVars
    BY DEF LoadStep
  <1>3. TypeOK'
    BY <1>1 DEF Inductive, Typed
  <1>. QED
    BY <1>1, <1>2, <1>3 DEF CommandInductive, CommandTypeOK, StackHoldsOpen, ErrorTells,
       AcceptedIsStorable, commandVars, clients, effects

\* What only the command changes.
LEMMA LoaderWaits ==
    ASSUME CommandInductive, UNCHANGED vars
    PROVE  Inductive' /\ TypeOK'
  <1>1. Inductive'
    BY InductivePreserved DEF CommandInductive
  <1>. QED
    BY <1>1 DEF Inductive, Typed

\* Up to the clients.
LEMMA PreparingPreserves ==
    ASSUME CommandInductive,
           \/ ParseArguments \/ RefuseArguments \/ Loaded \/ NotLoaded
           \/ Configure \/ ConfigurationInvalid \/ CreateEngineFails
    PROVE  CommandInductive'
  <1>1. UNCHANGED <<vars, clients, effects, status>>
    BY DEF ParseArguments, RefuseArguments, Loaded, NotLoaded, Configure,
       ConfigurationInvalid, CreateEngineFails, Do, Throw
  <1>2. Inductive' /\ TypeOK'
    BY <1>1, LoaderWaits
  <1>3. StackHoldsOpen'
    BY <1>1 DEF CommandInductive, StackHoldsOpen, Closing, clients, ParseArguments, RefuseArguments,
       Loaded, NotLoaded, Configure, ConfigurationInvalid, CreateEngineFails, Do, Throw
  <1>4. ErrorTells'
    BY <1>1, NoneAssumption DEF CommandInductive, StackHoldsOpen, ErrorTells, Closing, clients, effects,
       ParseArguments, RefuseArguments, Loaded, NotLoaded, Configure,
       ConfigurationInvalid, CreateEngineFails, Do, Throw
  <1>5. CommandTypeOK' /\ AcceptedIsStorable'
    BY <1>1, <1>2 DEF CommandInductive, CommandTypeOK, AcceptedIsStorable, clients, effects,
       ParseArguments, RefuseArguments, Loaded, NotLoaded, Configure, ConfigurationInvalid,
       CreateEngineFails, Do, Throw, Errors
  <1>. QED
    BY <1>2, <1>3, <1>4, <1>5 DEF CommandInductive

LEMMA ValidatingPreserves ==
    ASSUME CommandInductive, Validate
    PROVE  CommandInductive'
  <1>1. PICK o \in Outcomes :
            /\ verdict' = o.verdict /\ storable' = o.storable
            /\ CASE o.verdict = "accepted" -> Do("validate", "configure") /\ UNCHANGED error
                 [] o.verdict = "invalid" -> Do("validate", "exit") /\ error' = "validation"
                 [] o.verdict = "broken" -> Do("validate", "exit") /\ error' = "internal"
            /\ UNCHANGED <<connections, clients, effects>>
    BY DEF Validate
  <1>2. o.verdict \in {"accepted", "invalid", "broken"} /\ o.storable \in BOOLEAN
    BY OutcomesInDetail
  <1>3. /\ step = "validate" /\ UNCHANGED <<vars, status>>
        /\ \/ step' = "configure" /\ UNCHANGED error
           \/ step' = "exit" /\ error' \in {"validation", "internal"}
    BY <1>1, <1>2 DEF Do
  <1>4. verdict' = "accepted" => storable' = TRUE
    BY <1>1, OutcomesStorable
  <1>5. Inductive' /\ TypeOK'
    BY <1>3, LoaderWaits
  <1>6. StackHoldsOpen'
    BY <1>1, <1>3, EmptySeq DEF CommandInductive, StackHoldsOpen, Closing, clients
  <1>7. ErrorTells' /\ AcceptedIsStorable'
    BY <1>1, <1>3, <1>4 DEF CommandInductive, StackHoldsOpen, ErrorTells, AcceptedIsStorable,
       Closing, clients, effects
  <1>8. CommandTypeOK'
    BY <1>1, <1>2, <1>3, <1>5 DEF CommandInductive, CommandTypeOK, clients, effects, Errors
  <1>. QED
    BY <1>5, <1>6, <1>7, <1>8 DEF CommandInductive

\* The clients, each with its callback.
LEMMA CreatingPreserves ==
    ASSUME CommandInductive, CreateEngine \/ CreateRedis
    PROVE  CommandInductive'
  <1>1. PICK c \in {"engine", "redis"} :
            /\ stack' = Append(stack, c) /\ created' = Append(created, c) /\ released' = released
            /\ UNCHANGED <<vars, verdict, storable, connections, effects, error, status>>
            /\ step = c /\ step' = IF c = "engine" THEN "redis" ELSE "ingest"
    BY DEF CreateEngine, CreateRedis, Push, Do
  <1>2. Inductive' /\ TypeOK'
    BY <1>1, LoaderWaits
  <1>3. /\ released = <<>> /\ Len(stack) = Len(created)
        /\ stack \in Seq({"engine", "redis"}) /\ created \in Seq({"engine", "redis"})
        /\ \A i \in 1 .. Len(stack) : stack[i] = created[i]
        /\ Len(created) = IF c = "engine" THEN 0 ELSE 1
    BY <1>1, EmptySeq DEF CommandInductive, StackHoldsOpen, Closing
  <1>4. /\ stack' \in Seq({"engine", "redis"}) /\ created' \in Seq({"engine", "redis"})
        /\ Len(stack') = Len(stack) + 1 /\ Len(created') = Len(created) + 1
        /\ \A i \in 1 .. Len(stack) : stack'[i] = stack[i]
        /\ \A i \in 1 .. Len(created) : created'[i] = created[i]
        /\ stack'[Len(stack) + 1] = c /\ created'[Len(created) + 1] = c
    BY <1>1, <1>3, Pushed
  <1>5. \A i \in 1 .. Len(stack') : stack'[i] = created'[i]
    BY <1>3, <1>4
  <1>6. StackHoldsOpen'
    BY <1>1, <1>3, <1>4, <1>5, EmptySeq DEF StackHoldsOpen, Closing
  <1>7. ErrorTells' /\ CommandTypeOK' /\ AcceptedIsStorable'
    BY <1>1, <1>2, <1>3, <1>4 DEF CommandInductive, ErrorTells, CommandTypeOK, AcceptedIsStorable,
       Closing, effects
  <1>. QED
    BY <1>2, <1>6, <1>7 DEF CommandInductive

\* The transaction and the invalidation, as they succeed and as they fail.
LEMMA PublishingPreserves ==
    ASSUME CommandInductive,
           CreateRedisFails \/ Ingest \/ IngestFails \/ Invalidate \/ InvalidateFails
    PROVE  CommandInductive'
  <1>1. UNCHANGED <<vars, clients, verdict, storable, connections, status>>
    BY DEF CreateRedisFails, Ingest, IngestFails, Invalidate, InvalidateFails, Do, Throw
  <1>2. Inductive' /\ TypeOK'
    BY <1>1, LoaderWaits
  <1>. USE <1>1 DEF CommandInductive, Closing, clients, effects, CreateRedisFails, Ingest,
           IngestFails, Invalidate, InvalidateFails, Do, Throw
  <1>3. StackHoldsOpen'
    BY DEF StackHoldsOpen
  <1>4. ErrorTells'
    BY DEF ErrorTells, StackHoldsOpen
  <1>5. CommandTypeOK' /\ AcceptedIsStorable'
    <2>1. published' \in {"no", "yes", "newer"} /\ invalidated' \in BOOLEAN /\ error' \in Errors
      BY DEF CommandTypeOK, Errors
    <2>2. step' \in {"unwind", "invalidate"}
      OBVIOUS
    <2>. QED
      BY <1>2, <2>1, <2>2 DEF CommandTypeOK, AcceptedIsStorable
  <1>. QED
    BY <1>2, <1>3, <1>4, <1>5

\* The clean-up.
LEMMA ClosingPreserves ==
    ASSUME CommandInductive, CloseClient \/ CloseClientFails
    PROVE  CommandInductive'
  <1>1. /\ step = "unwind" /\ stack # <<>> /\ step' = step
        /\ stack' = SubSeq(stack, 1, Len(stack) - 1)
        /\ released' = Append(released, stack[Len(stack)])
        /\ UNCHANGED <<vars, verdict, storable, connections, created, effects, status>>
        /\ error' = error \/ error' \in {"service", "internal", "interrupt"}
    BY DEF CloseClient, CloseClientFails, Pop
  <1>2. Inductive' /\ TypeOK'
    BY <1>1, LoaderWaits
  <1>3. /\ stack \in Seq({"engine", "redis"}) /\ released \in Seq({"engine", "redis"})
        /\ created \in Seq({"engine", "redis"})
        /\ Len(stack) + Len(released) = Len(created)
        /\ \A i \in 1 .. Len(stack) : stack[i] = created[i]
        /\ \A i \in 1 .. Len(released) : released[i] = created[Len(created) + 1 - i]
    BY DEF CommandInductive, StackHoldsOpen
  <1>4. /\ stack' \in Seq({"engine", "redis"}) /\ Len(stack') = Len(stack) - 1
        /\ \A i \in 1 .. Len(stack') : stack'[i] = stack[i]
        /\ stack[Len(stack)] \in {"engine", "redis"} /\ Len(stack) \in Nat \ {0}
    BY <1>1, <1>3, Popped
  <1>5. /\ released' \in Seq({"engine", "redis"}) /\ Len(released') = Len(released) + 1
        /\ \A i \in 1 .. Len(released) : released'[i] = released[i]
        /\ released'[Len(released) + 1] = stack[Len(stack)]
    BY <1>1, <1>3, <1>4, Pushed
  <1>6. Len(stack) \in Nat /\ Len(released) \in Nat /\ Len(created) \in Nat
    BY <1>3, LenProperties
  <1>7. stack[Len(stack)] = created[Len(created) + 1 - (Len(released) + 1)]
    <2>1. stack[Len(stack)] = created[Len(stack)]
      BY <1>3, <1>4
    <2>2. Len(stack) = Len(created) + 1 - (Len(released) + 1)
      BY <1>3, <1>6
    <2>. QED
      BY <2>1, <2>2
  <1>8. \A i \in 1 .. Len(released') : released'[i] = created[Len(created) + 1 - i]
    <2>1. \A i \in 1 .. Len(released') : i \in 1 .. Len(released) \/ i = Len(released) + 1
      BY <1>5, <1>6
    <2>. QED
      BY <1>3, <1>5, <1>7, <2>1
  <1>9. Len(stack') + Len(released') = Len(created)
    <2>1. Len(stack') = Len(stack) - 1 /\ Len(released') = Len(released) + 1
      BY <1>4, <1>5
    <2>2. Len(stack) + Len(released) = Len(created)
      BY <1>3
    <2>. QED
      BY ONLY <1>6, <2>1, <2>2
  <1>10. \A i \in 1 .. Len(stack') : stack'[i] = created[i]
    <2>1. \A i \in 1 .. Len(stack') : i \in 1 .. Len(stack)
      BY <1>4, <1>6
    <2>. QED
      BY <1>3, <1>4, <2>1
  <1>11. StackHoldsOpen'
    BY <1>1, <1>3, <1>4, <1>5, <1>8, <1>9, <1>10 DEF StackHoldsOpen, Closing
  <1>12. ErrorTells' /\ AcceptedIsStorable'
    BY <1>1 DEF CommandInductive, ErrorTells, AcceptedIsStorable, Closing, effects
  <1>13. CommandTypeOK'
    BY <1>1, <1>2, <1>4, <1>5 DEF CommandInductive, CommandTypeOK, effects, Errors
  <1>. QED
    BY <1>2, <1>11, <1>12, <1>13 DEF CommandInductive

LEMMA LeavingPreserves ==
    ASSUME CommandInductive, Unwound \/ Exit
    PROVE  CommandInductive'
  <1>1. UNCHANGED <<vars, clients, effects, verdict, storable, connections, error>>
    BY DEF Unwound, Exit, Do
  <1>2. Inductive' /\ TypeOK'
    BY <1>1, LoaderWaits
  <1>. USE <1>1 DEF CommandInductive, Closing, clients, effects, Unwound, Exit, Do
  <1>3. StackHoldsOpen'
    BY DEF StackHoldsOpen
  <1>4. ErrorTells' /\ AcceptedIsStorable'
    BY DEF ErrorTells, AcceptedIsStorable, Status
  <1>5. CommandTypeOK'
    BY <1>2 DEF CommandTypeOK, Status
  <1>. QED
    BY <1>2, <1>3, <1>4, <1>5

LEMMA CommandHolds == CommandSpec => []CommandInductive
  <1>1. CommandInductive /\ [CommandNext]_allVars => CommandInductive'
    <2>. SUFFICES ASSUME CommandInductive, [CommandNext]_allVars PROVE CommandInductive'
      OBVIOUS
    <2>1. CASE LoadStep(Load) \/ LoadStep(Break) \/ LoadStep(Replace)
      <3>1. LoadStep(Next)
        BY <2>1 DEF LoadStep, Next
      <3>. QED
        BY <3>1, LoadingPreserves
    <2>2. CASE UNCHANGED allVars
      <3>1. Inductive' /\ TypeOK'
        BY <2>2, LoaderWaits DEF allVars
      <3>. QED
        BY <2>2, <3>1 DEF allVars, CommandInductive, CommandTypeOK, StackHoldsOpen, ErrorTells,
           AcceptedIsStorable, commandVars, clients, effects
    <2>. QED
      BY <2>1, <2>2, PreparingPreserves, ValidatingPreserves, CreatingPreserves, PublishingPreserves,
         ClosingPreserves, LeavingPreserves DEF CommandNext, Advance, Mishap
  <1>. QED
    BY <1>1, CommandBegins, PTL DEF CommandSpec
-----------------------------------------------------------------------------
\* StatusTellsTruth: wherever the command fails or is interrupted, what its exit
\* status says of PostgreSQL, of the cache and of its clients is so.
THEOREM OperatorToldTruth == CommandSpec => []StatusTellsTruth
  <1>1. CommandInductive => StatusTellsTruth
    <2>. SUFFICES ASSUME CommandInductive, Exited, error # "help" PROVE StatusTellsTruth
      BY DEF StatusTellsTruth
    <2>1. status = Status(error) /\ error \in Errors
      BY DEF CommandInductive, CommandTypeOK, ErrorTells, Exited
    <2>2. /\ status = 2 => error \in {"arguments", "load", "validation", "configuration"}
          /\ status = 0 => error = "none"
      BY <2>1 DEF Status, Errors
    <2>3. error = "none" => Len(released) = 2
      <3>1. stack = <<>> /\ Len(stack) = 0 /\ Len(released) \in Nat
        BY EmptySeq, LenProperties DEF CommandInductive, StackHoldsOpen, Exited
      <3>. QED
        BY <3>1 DEF CommandInductive, StackHoldsOpen, ErrorTells, Exited, Closing
    <2>. QED
      BY <2>2, <2>3 DEF CommandInductive, ErrorTells, StatusTellsTruth, Exited, Closing
  <1>. QED
    BY <1>1, CommandHolds, PTL

\* CommandClientsReleased: however the command ends, each client it created has
\* been closed, once, the last one first.
THEOREM ClientsClosed == CommandSpec => []CommandClientsReleased
  <1>1. CommandInductive => CommandClientsReleased
    BY EmptySeq DEF CommandInductive, StackHoldsOpen, CommandClientsReleased, Exited
  <1>. QED
    BY <1>1, CommandHolds, PTL

\* AcceptedIsStorable: no document the schema accepts fails in the tables.
THEOREM AcceptedFits == CommandSpec => []AcceptedIsStorable
  <1>1. CommandInductive => AcceptedIsStorable
    BY DEF CommandInductive
  <1>. QED
    BY <1>1, CommandHolds, PTL

\* IngestionProtected: no configuration the command accepts lets it write to
\* another machine but over verified TLS.
THEOREM IngestionStaysProtected == CommandSpec => []IngestionProtected
  <1>1. CommandInductive => IngestionProtected
    BY IngestionIsProtected
    DEF CommandInductive, CommandTypeOK, IngestionProtected, NoConnections
  <1>. QED
    BY <1>1, CommandHolds, PTL

\* The loader keeps its promises within the command.
THEOREM LoaderKeepsPromises == CommandSpec => [](DescriptorsReturned /\ OnlyRegularFilesAreRead)
  <1>1. CommandInductive => DescriptorsReturned /\ OnlyRegularFilesAreRead
    BY DEF CommandInductive, Inductive, Held, Checked, DescriptorsReturned, Ended,
       OnlyRegularFilesAreRead
  <1>. QED
    BY <1>1, CommandHolds, PTL
=============================================================================
