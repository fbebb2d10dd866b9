------------------------- MODULE ItemPayloadProofs -------------------------
(***************************************************************************)
(* What the readers of attributes return, for every payload, every page    *)
(* size and every offer of Playerok: the lemmas about ItemPayload that the *)
(* proofs about AdapterCall rest on.                                       *)
(***************************************************************************)
EXTENDS ItemPayload, SequenceFacts

----------------------------------------------------------------------------
(* Dictionaries.                                                            *)

\* What a place in a sequence of entries is worth: its name and its text.
Worth(entries, i) == <<entries[i].name, Text(entries[i].value)>>

\* A dictionary has the name and the text of the places it was made from: every pair
\* is one of them, and every name has one.
LEMMA LastWinsOf ==
    ASSUME NEW E, NEW entries \in Seq(E), NEW places, places \subseteq DOMAIN entries
    PROVE  LET values == LastWins(entries, places) IN
             /\ DOMAIN values = NamesAt(entries, places)
             /\ \A n \in DOMAIN values : \E i \in places : <<n, values[n]>> = Worth(entries, i)
<1> DEFINE values == LastWins(entries, places)
<1>1. DOMAIN values = NamesAt(entries, places)
  BY DEF LastWins
<1>2. ASSUME NEW n \in DOMAIN values
      PROVE  \E i \in places : <<n, values[n]>> = Worth(entries, i)
  <2> DEFINE T == Named(entries, places, n)
  <2>1. T \subseteq 1..Len(entries) /\ Len(entries) \in Nat /\ T # {}
    BY <1>1, <1>2 DEF Named, NamesAt
  <2>2. Max(T) \in T
    <3> HIDE DEF T
    <3> QED
      BY <2>1, MaxOf
  <2>3. values[n] = Text(entries[Max(T)].value)
    BY <1>1, <1>2 DEF LastWins
  <2>4. Max(T) \in places /\ entries[Max(T)].name = n
    BY <2>2 DEF Named
  <2> QED
    BY <2>3, <2>4 DEF Worth
<1> QED
  BY <1>1, <1>2

\* The same when the first entry wins.
LEMMA FirstWinsOf ==
    ASSUME NEW E, NEW entries \in Seq(E), NEW places, places \subseteq DOMAIN entries
    PROVE  LET values == FirstWins(entries, places) IN
             /\ DOMAIN values = NamesAt(entries, places)
             /\ \A n \in DOMAIN values : \E i \in places : <<n, values[n]>> = Worth(entries, i)
<1> DEFINE values == FirstWins(entries, places)
<1>1. DOMAIN values = NamesAt(entries, places)
  BY DEF FirstWins
<1>2. ASSUME NEW n \in DOMAIN values
      PROVE  \E i \in places : <<n, values[n]>> = Worth(entries, i)
  <2> DEFINE T == Named(entries, places, n)
  <2>1. T \subseteq 1..Len(entries) /\ Len(entries) \in Nat /\ T # {}
    BY <1>1, <1>2 DEF Named, NamesAt
  <2>2. Min(T) \in T
    <3> HIDE DEF T
    <3>1. T \subseteq Nat
      BY <2>1
    <3> QED
      BY <2>1, <3>1, MinOf
  <2>3. values[n] = Text(entries[Min(T)].value)
    BY <1>1, <1>2 DEF FirstWins
  <2>4. Min(T) \in places /\ entries[Min(T)].name = n
    BY <2>2 DEF Named
  <2> QED
    BY <2>3, <2>4 DEF Worth
<1> QED
  BY <1>1, <1>2

\* A dictionary of texts.
IsDictionary(values) ==
    /\ DOMAIN values \subseteq Texts
    /\ values = [n \in DOMAIN values |-> values[n]]
    /\ \A n \in DOMAIN values : values[n] \in Texts

\* The pairs of a dictionary have one text for a name.
LEMMA PairsOf ==
    ASSUME NEW values, IsDictionary(values)
    PROVE  /\ Pairs(values) \subseteq Texts \X Texts
           /\ \A o, p \in Pairs(values) : o[1] = p[1] => o = p
           /\ \A o \in Pairs(values) : o[1] \in DOMAIN values /\ o = <<o[1], values[o[1]]>>
  BY DEF IsDictionary, Pairs

\* The first parts of the pairs are the names.
LEMMA PairNames ==
    ASSUME NEW values
    PROVE  {o[1] : o \in Pairs(values)} = DOMAIN values
<1>1. \A n \in DOMAIN values : <<n, values[n]>>[1] = n
  OBVIOUS
<1> QED
  BY <1>1 DEF Pairs

\* attributes.options and dataFields read as entries: a sequence whatever is given.
LEMMA EntriesType ==
    ASSUME NEW E, NEW field \in Seq(E) \cup {None, Null, Malformed}
    PROVE  EntriesOf(field) \in Seq(E)
  BY DEF EntriesOf

\* The names at the places that are not blank, and have a value of some kind.
LEMMA NamesAtOf ==
    ASSUME NEW E, NEW entries \in Seq(E)
    PROVE  /\ NamesAt(entries, NonBlank(entries)) = NamesOf(ToSet(entries))
           /\ NamesAt(entries, {i \in NonBlank(entries) : entries[i].value \notin {Null, Malformed}})
                 = NamesOf({e \in ToSet(entries) : e.value \notin {Null, Malformed}})
  BY ToSetOf DEF NamesAt, NonBlank, NamesOf, ToSet

\* ReadEntries makes a dictionary of texts out of non-blank entries.
LEMMA ReadEntriesOf ==
    ASSUME NEW entries \in Seq(NamedEntries)
    PROVE  /\ IsDictionary(ReadEntries(entries))
           /\ \A p \in Pairs(ReadEntries(entries)) :
                 \E e \in ToSet(entries) : p = <<e.name, Text(e.value)>>
           /\ DOMAIN ReadEntries(entries) = NamesOf(ToSet(entries))
<1> DEFINE places == NonBlank(entries)
           values == ReadEntries(entries)
<1>1. places \subseteq DOMAIN entries
  BY DEF NonBlank
<1>2. /\ DOMAIN values = NamesAt(entries, places)
      /\ \A n \in DOMAIN values : \E i \in places : <<n, values[n]>> = Worth(entries, i)
  BY <1>1, LastWinsOf DEF ReadEntries
<1>3. \A i \in places : entries[i].name \in Texts /\ Text(entries[i].value) \in Texts
  <2>1. \A i \in places : entries[i] \in NamedEntries
    BY <1>1, ToSetOf
  <2> QED
    BY <2>1, TextAssumption DEF NonBlank, NamedEntries, Scalars, Text
<1>4. IsDictionary(values)
  <2>1. DOMAIN values \subseteq Texts
    BY <1>2, <1>3 DEF NamesAt
  <2>2. values = [n \in DOMAIN values |-> values[n]]
    BY <1>2 DEF ReadEntries, LastWins
  <2>3. \A n \in DOMAIN values : values[n] \in Texts
    BY <1>2, <1>3 DEF Worth
  <2> QED
    BY <2>1, <2>2, <2>3 DEF IsDictionary
<1>5. ASSUME NEW p \in Pairs(values)
      PROVE  \E e \in ToSet(entries) : p = <<e.name, Text(e.value)>>
  <2>1. PICK n \in DOMAIN values : p = <<n, values[n]>>
    BY DEF Pairs
  <2>2. PICK i \in places : p = Worth(entries, i)
    BY <1>2, <2>1
  <2> QED
    BY <1>1, <2>2, ToSetOf DEF Worth
<1>6. NamesAt(entries, places) = NamesOf(ToSet(entries))
  BY NamesAtOf
<1> QED
  BY <1>2, <1>4, <1>5, <1>6

\* ReadExtras makes one out of what is under other keys, and leaves out structures.
ExtraEntries == [name: Texts \cup {Blank}, value: Scalars \cup {Malformed}]

LEMMA ReadExtrasOf ==
    ASSUME NEW extras \in Seq(ExtraEntries)
    PROVE  /\ IsDictionary(ReadExtras(extras))
           /\ \A p \in Pairs(ReadExtras(extras)) :
                 \E e \in ToSet(extras) :
                    e.value \notin {Null, Malformed} /\ p = <<e.name, Text(e.value)>>
           /\ DOMAIN ReadExtras(extras)
                 = NamesOf({e \in ToSet(extras) : e.value \notin {Null, Malformed}})
<1> DEFINE places == {i \in NonBlank(extras) : extras[i].value \notin {Null, Malformed}}
           values == ReadExtras(extras)
<1>1. places \subseteq DOMAIN extras
  BY DEF NonBlank
<1>2. /\ DOMAIN values = NamesAt(extras, places)
      /\ \A n \in DOMAIN values : \E i \in places : <<n, values[n]>> = Worth(extras, i)
  <2> HIDE DEF places
  <2>1. ReadExtras(extras) = FirstWins(extras, places)
    BY DEF ReadExtras, places
  <2> QED
    BY <1>1, <2>1, FirstWinsOf
<1>3. \A i \in places : extras[i].name \in Texts /\ Text(extras[i].value) \in Texts
  <2>1. \A i \in places : extras[i] \in ExtraEntries
    BY <1>1, ToSetOf
  <2> QED
    BY <2>1, TextAssumption DEF NonBlank, ExtraEntries, Scalars, Text
<1>4. IsDictionary(values)
  <2>1. DOMAIN values \subseteq Texts
    BY <1>2, <1>3 DEF NamesAt
  <2>2. values = [n \in DOMAIN values |-> values[n]]
    BY <1>2 DEF ReadExtras, FirstWins
  <2>3. \A n \in DOMAIN values : values[n] \in Texts
    BY <1>2, <1>3 DEF Worth
  <2> QED
    BY <2>1, <2>2, <2>3 DEF IsDictionary
<1>5. ASSUME NEW p \in Pairs(values)
      PROVE  \E e \in ToSet(extras) :
                e.value \notin {Null, Malformed} /\ p = <<e.name, Text(e.value)>>
  <2>1. PICK n \in DOMAIN values : p = <<n, values[n]>>
    BY DEF Pairs
  <2>2. PICK i \in places : p = Worth(extras, i)
    BY <1>2, <2>1
  <2> QED
    BY <1>1, <2>2, ToSetOf DEF Worth
<1>6. NamesAt(extras, places) = NamesOf({e \in ToSet(extras) : e.value \notin {Null, Malformed}})
  BY NamesAtOf
<1> QED
  BY <1>2, <1>4, <1>5, <1>6

\* The pairs of two dictionaries, one under the other, are pairs of either.
LEMMA UnderOf ==
    ASSUME NEW f, NEW g, IsDictionary(f), IsDictionary(g)
    PROVE  /\ IsDictionary(Under(f, g))
           /\ DOMAIN Under(f, g) = DOMAIN f \cup DOMAIN g
           /\ Pairs(Under(f, g)) \subseteq Pairs(f) \cup Pairs(g)
           /\ Pairs(f) \subseteq Pairs(Under(f, g))
<1>1. DOMAIN Under(f, g) = DOMAIN f \cup DOMAIN g
  BY DEF Under
<1>2. \A n \in DOMAIN f \cup DOMAIN g : Under(f, g)[n] = IF n \in DOMAIN f THEN f[n] ELSE g[n]
  BY DEF Under
<1>3. IsDictionary(Under(f, g))
  BY <1>1, <1>2 DEF IsDictionary, Under
<1> QED
  BY <1>1, <1>2, <1>3 DEF Pairs

----------------------------------------------------------------------------
(* Attributes.                                                              *)

\* The parts of attributes have their types.
LEMMA AttributeFields ==
    ASSUME NEW a \in AttributeType
    PROVE  /\ a.gameCategoryId \in Seq(Scalars \cup {None})
           /\ a.obtainingTypeId \in Seq(Scalars \cup {None})
           /\ a.options \in Seq(NamedEntries) \cup {None, Null, Malformed}
           /\ a.extras \in Seq(ExtraEntries)
           /\ a.dataFields \in Seq(NamedEntries) \cup {None, Null, Malformed}
           /\ a.removeAttachmentIds \in Seq(Scalars) \cup {None, Malformed}
           /\ a.addAttachmentPaths \in Seq(Scalars) \cup {None, Malformed}
  BY DEF AttributeType, ExtraEntries

\* Attributes of which nothing is given.
LEMMA NoAttributesType == NoAttributes \in AttributeType
  BY DEF NoAttributes, AttributeType

\* Attributes with ids, options and data fields.
LEMMA AttributesFilled ==
    ASSUME NEW c \in Seq(Scalars \cup {None}), NEW t \in Seq(Scalars \cup {None}),
           NEW o \in Seq(NamedEntries), NEW d \in Seq(NamedEntries)
    PROVE  [NoAttributes EXCEPT !.gameCategoryId = c, !.obtainingTypeId = t,
                                !.options = o, !.dataFields = d] \in AttributeType
  BY NoAttributesType DEF AttributeType

\* Attributes with ids, other keys and data fields.
LEMMA AttributesListed ==
    ASSUME NEW c \in Seq(Scalars \cup {None}), NEW t \in Seq(Scalars \cup {None}),
           NEW e \in Seq(ExtraEntries), NEW d \in Seq(NamedEntries) \cup {None, Null, Malformed}
    PROVE  [NoAttributes EXCEPT !.gameCategoryId = c, !.obtainingTypeId = t,
                                !.extras = e, !.dataFields = d] \in AttributeType
  BY NoAttributesType DEF AttributeType, ExtraEntries

\* _read_option_values: each pair was asked for, in options or under another key, and
\* each name that was has one.
LEMMA OptionValuesOf ==
    ASSUME NEW a \in AttributeType
    PROVE  /\ IsDictionary(ReadOptionValues(a))
           /\ \A p \in Pairs(ReadOptionValues(a)) :
                 \E e \in AskedOptions(a) : p = <<e.name, Text(e.value)>>
           /\ DOMAIN ReadOptionValues(a) = NamesOf(AskedOptions(a))
<1> DEFINE options == EntriesOf(a.options)
           scalars == {e \in ToSet(a.extras) : e.value \notin {Null, Malformed}}
<1>1. options \in Seq(NamedEntries) /\ a.extras \in Seq(ExtraEntries)
  BY AttributeFields, EntriesType
<1>2. /\ IsDictionary(ReadEntries(options)) /\ IsDictionary(ReadExtras(a.extras))
      /\ \A p \in Pairs(ReadEntries(options)) :
            \E e \in ToSet(options) : p = <<e.name, Text(e.value)>>
      /\ \A p \in Pairs(ReadExtras(a.extras)) : \E e \in scalars : p = <<e.name, Text(e.value)>>
      /\ DOMAIN ReadEntries(options) = NamesOf(ToSet(options))
      /\ DOMAIN ReadExtras(a.extras) = NamesOf(scalars)
  BY <1>1, ReadEntriesOf, ReadExtrasOf
<1>3. /\ IsDictionary(ReadOptionValues(a))
      /\ Pairs(ReadOptionValues(a)) \subseteq Pairs(ReadEntries(options)) \cup Pairs(ReadExtras(a.extras))
      /\ DOMAIN ReadOptionValues(a) = DOMAIN ReadEntries(options) \cup DOMAIN ReadExtras(a.extras)
  BY <1>2, UnderOf DEF ReadOptionValues
<1>4. AskedOptions(a) = ToSet(options) \cup scalars
  BY DEF AskedOptions
<1> HIDE DEF options, scalars
<1>5. NamesOf(ToSet(options) \cup scalars) = NamesOf(ToSet(options)) \cup NamesOf(scalars)
  BY DEF NamesOf
<1> QED
  BY <1>2, <1>3, <1>4, <1>5

\* Without options and other keys there are no values.
LEMMA NoOptionValues ==
    ASSUME NEW a \in AttributeType, ~HasOptionsPayload(a)
    PROVE  DOMAIN ReadOptionValues(a) = {}
<1>1. EntriesOf(a.options) = <<>> /\ a.extras = <<>>
  BY DEF HasOptionsPayload, EntriesOf
<1>2. DOMAIN ReadEntries(<<>>) = {} /\ DOMAIN ReadExtras(<<>>) = {}
  BY DEF ReadEntries, ReadExtras, LastWins, FirstWins, NamesAt, NonBlank
<1> QED
  BY <1>1, <1>2 DEF ReadOptionValues, Under

\* The options sent are pairs of texts.
LEMMA ResolveOptionsType ==
    ASSUME NEW a \in AttributeType
    PROVE  ResolveOptions(a) \in (SUBSET (Texts \X Texts)) \cup {None}
<1>1. Pairs(ReadOptionValues(a)) \subseteq Texts \X Texts
  BY OptionValuesOf, PairsOf
<1> QED
  BY <1>1 DEF ResolveOptions

\* Data fields read as a dictionary.
LEMMA DataFieldValuesOf ==
    ASSUME NEW a \in AttributeType
    PROVE  /\ IsDictionary(ReadDataFieldValues(a))
           /\ \A p \in Pairs(ReadDataFieldValues(a)) :
                 \E e \in ToSet(EntriesOf(a.dataFields)) : p = <<e.name, Text(e.value)>>
           /\ DOMAIN ReadDataFieldValues(a) = NamesOf(ToSet(EntriesOf(a.dataFields)))
  BY AttributeFields, EntriesType, ReadEntriesOf DEF ReadDataFieldValues

\* The first page is part of the list.
LEMMA FirstPageOf ==
    ASSUME NEW S, NEW s \in Seq(S)
    PROVE  /\ FirstPage(s) \in Seq(S)
           /\ ToSet(FirstPage(s)) = {s[i] : i \in {j \in DOMAIN s : j <= PageSize}}
<1> DEFINE n == IF Len(s) < PageSize THEN Len(s) ELSE PageSize
<1>1. n \in Nat /\ n <= Len(s) /\ FirstPage(s) = SubSeq(s, 1, n)
  BY PageAssumption, ToSetOf DEF FirstPage
<1>2. /\ FirstPage(s) \in Seq(S) /\ Len(FirstPage(s)) = n
      /\ \A i \in 1..n : FirstPage(s)[i] = s[i]
  <2>1. \A i \in 1..n : s[i] \in S
    BY <1>1, ToSetOf
  <2> QED
    BY <1>1, <2>1, SubSeqProperties
<1>3. {j \in DOMAIN s : j <= PageSize} = 1..n
  <2>1. DOMAIN s = 1..Len(s) /\ Len(s) \in Nat /\ PageSize \in Nat
    BY PageAssumption, ToSetOf
  <2>2. \A j \in Nat : (j \in 1..Len(s) /\ j <= PageSize) <=> j \in 1..n
    BY <2>1
  <2> QED
    BY <2>1, <2>2
<1>4. DOMAIN FirstPage(s) = 1..n
  BY <1>2, ToSetOf
<1> QED
  BY <1>2, <1>3, <1>4 DEF ToSet

\* The data fields sent are pairs of texts.
LEMMA ResolveDataFieldsType ==
    ASSUME NEW a \in AttributeType, NEW fields \in Seq(DataFields)
    PROVE  ResolveDataFields(a, fields) \in SUBSET (Texts \X Texts)
  BY DataFieldValuesOf DEF ResolveDataFields, IsDictionary

\* They are values that were given, of fields on the first page: all of those.
LEMMA ResolveDataFieldsOf ==
    ASSUME NEW a, NEW fields
    PROVE  /\ ResolveDataFields(a, fields) \subseteq Pairs(ReadDataFieldValues(a))
           /\ {p[1] : p \in ResolveDataFields(a, fields)}
                 = DOMAIN ReadDataFieldValues(a) \cap {f.id : f \in ToSet(FirstPage(fields))}
<1> DEFINE values == ReadDataFieldValues(a)
           shown == ToSet(FirstPage(fields))
           given == {g \in shown : g.id \in DOMAIN values}
<1>1. ResolveDataFields(a, fields) = {<<f.id, values[f.id]>> : f \in given}
  BY DEF ResolveDataFields
<1> HIDE DEF values, shown
<1>2. {<<f.id, values[f.id]>> : f \in given} \subseteq Pairs(values)
  BY DEF Pairs
<1>3. ASSUME NEW id
      PROVE  id \in {p[1] : p \in {<<f.id, values[f.id]>> : f \in given}}
                <=> id \in DOMAIN values \cap {f.id : f \in shown}
  <2>1. ASSUME NEW f \in given
        PROVE  <<f.id, values[f.id]>>[1] = f.id
    OBVIOUS
  <2>2. id \in {p[1] : p \in {<<f.id, values[f.id]>> : f \in given}}
          <=> \E f \in given : id = f.id
    BY <2>1
  <2> QED
    BY <2>2
<1>4. {p[1] : p \in {<<f.id, values[f.id]>> : f \in given}}
        = DOMAIN values \cap {f.id : f \in shown}
  BY <1>3
<1> HIDE DEF given
<1> QED
  BY <1>1, <1>2, <1>4 DEF values, shown

\* An id is a text or none.
LEMMA ReadOptionalAttrType ==
    ASSUME NEW s \in Seq(Scalars \cup {None})
    PROVE  ReadOptionalAttr(s) \in Texts \cup {None}
<1> DEFINE given == {i \in DOMAIN s : s[i] \notin {None, Null, Blank}}
<1>1. CASE given # {}
  <2>1. Min(given) \in given
    <3>1. given \subseteq Nat
      BY ToSetOf
    <3> HIDE DEF given
    <3> QED
      BY <1>1, <3>1, MinOf
  <2>2. s[Min(given)] \in Texts
    BY <2>1 DEF Scalars
  <2> QED
    BY <1>1, <2>2 DEF ReadOptionalAttr
<1>2. CASE given = {}
  BY <1>2 DEF ReadOptionalAttr
<1> QED
  BY <1>1, <1>2

\* The default obtaining type is one.
LEMMA DefaultTypeType ==
    ASSUME NEW types \in Seq(Texts \cup {Blank})
    PROVE  DefaultObtainingType(types) \in Texts \cup {None}
<1>1. FirstPage(types) \in Seq(Texts \cup {Blank})
  BY FirstPageOf
<1>2. FirstPage(types) \in Seq(Scalars \cup {None})
  BY <1>1 DEF Scalars
<1> QED
  BY <1>2, ReadOptionalAttrType DEF DefaultObtainingType

\* A list of attachments is a set of texts or none.
LEMMA ReadStringListType ==
    ASSUME NEW list \in Seq(Scalars) \cup {None, Malformed}
    PROVE  ReadStringList(list) \in (SUBSET Texts) \cup {None}
<1> DEFINE texts == IF list \in {None, Malformed} THEN {}
                    ELSE {Text(v) : v \in ToSet(list)} \ {Blank}
<1>1. texts \subseteq Texts
  <2>1. CASE list \in {None, Malformed}
    BY <2>1
  <2>2. CASE list \notin {None, Malformed}
    <3>1. ToSet(list) \subseteq Scalars
      BY <2>2, ToSetOf
    <3>2. \A v \in Scalars : Text(v) \in Texts \cup {Blank}
      BY TextAssumption DEF Text, Scalars
    <3> QED
      BY <2>2, <3>1, <3>2
  <2> QED
    BY <2>1, <2>2
<1>2. ReadStringList(list) = IF texts = {} THEN None ELSE texts
  BY DEF ReadStringList
<1> QED
  BY <1>1, <1>2

\* The paths of media are texts.
LEMMA MediaPathsType ==
    ASSUME NEW media \in Seq(Texts \cup {Blank})
    PROVE  MediaPaths(media) \in SUBSET Texts
  BY ToSetOf DEF MediaPaths

----------------------------------------------------------------------------
(* Prices.                                                                  *)

\* Rounding is to the nearest whole number, and halves are half away.
LEMMA RoundedNearest ==
    ASSUME NEW price \in Nat
    PROVE  Rounded(price) \in Nat /\ 4 * Rounded(price) - price \in -2..2
<1> DEFINE below == price \div 4
           rest == price % 4
<1>1. /\ below \in Nat /\ rest \in 0..3
      /\ price = 4 * below + rest
  OBVIOUS
<1>2. Rounded(price) \in {below, below + 1}
  BY DEF Rounded
<1>3. Rounded(price) = below + 1 => rest >= 2
  BY <1>1 DEF Rounded
<1>4. Rounded(price) = below => rest <= 2
  BY <1>1 DEF Rounded
<1> QED
  BY <1>1, <1>2, <1>3, <1>4

----------------------------------------------------------------------------
(* What a caller fills in, read back.                                       *)

\* A page of a page is that page.
LEMMA FirstPageTwice ==
    ASSUME NEW S, NEW s \in Seq(S)
    PROVE  FirstPage(FirstPage(s)) = FirstPage(s)
<1> DEFINE t == FirstPage(s)
           n == IF Len(s) < PageSize THEN Len(s) ELSE PageSize
<1>1. n \in Nat /\ n <= Len(s) /\ n <= PageSize /\ PageSize \in Nat /\ t = SubSeq(s, 1, n)
  BY PageAssumption, ToSetOf DEF FirstPage
<1>2. t \in Seq(S) /\ Len(t) = n
  <2>1. \A i \in 1..n : s[i] \in S
    BY <1>1, ToSetOf
  <2> QED
    BY <1>1, <2>1, SubSeqProperties
<1>3. FirstPage(t) = SubSeq(t, 1, Len(t))
  <2> HIDE DEF t, n
  <2> QED
    BY <1>1, <1>2 DEF FirstPage
<1>4. SubSeq(t, 1, Len(t)) = t
  <2> HIDE DEF t, n
  <2>1. Len(t) \in Nat /\ \A i \in 1..Len(t) : t[i] \in S
    BY <1>2, ToSetOf
  <2>2. /\ SubSeq(t, 1, Len(t)) \in Seq(S) /\ Len(SubSeq(t, 1, Len(t))) = Len(t)
        /\ \A i \in 1..Len(t) : SubSeq(t, 1, Len(t))[i] = t[i]
    BY <2>1, SubSeqProperties
  <2> QED
    BY <1>2, <2>2, SeqEqual
<1> QED
  BY <1>3, <1>4

\* The id of one candidate, and of a candidate that is absent.
LEMMA ReadOneAttr ==
    ASSUME NEW id \in Texts \cup {None}
    PROVE  ReadOptionalAttr(<<id>>) = id
<1> DEFINE given == {i \in DOMAIN <<id>> : <<id>>[i] \notin {None, Null, Blank}}
<1>1. DOMAIN <<id>> = {1} /\ <<id>>[1] = id
  OBVIOUS
<1>2. CASE id = None
  <2>1. given = {}
    BY <1>1, <1>2
  <2> QED
    BY <1>2, <2>1 DEF ReadOptionalAttr
<1>3. CASE id # None
  <2>1. given = {1}
    BY <1>1, <1>3, TextAssumption
  <2>2. Min({1}) = 1
    BY MinOf
  <2> QED
    BY <1>1, <2>1, <2>2 DEF ReadOptionalAttr
<1> QED
  BY <1>2, <1>3

\* A list of entries that all have a name and a text is read whole, but for the names
\* that are given twice.
LEMMA GivenEntries ==
    ASSUME NEW entries \in Seq([name: Texts, value: Texts])
    PROVE  /\ entries \in Seq(NamedEntries)
           /\ DOMAIN ReadEntries(entries) = {e.name : e \in ToSet(entries)}
           /\ \A p \in Pairs(ReadEntries(entries)) :
                 \E e \in ToSet(entries) : p = <<e.name, e.value>>
<1> DEFINE E == [name: Texts, value: Texts]
<1>1. entries \in Seq(NamedEntries)
  <2>1. E \subseteq NamedEntries
    BY DEF NamedEntries, Scalars
  <2> QED
    BY <2>1, SeqWider
<1>2. \A e \in ToSet(entries) : e.name \in Texts /\ e.value \in Texts /\ Text(e.value) = e.value
  <2>1. ToSet(entries) \subseteq E
    BY ToSetOf
  <2> QED
    BY <2>1, TextAssumption DEF Text
<1>3. NonBlank(entries) = DOMAIN entries
  <2>1. \A i \in DOMAIN entries : entries[i] \in ToSet(entries)
    BY ToSetOf
  <2> QED
    BY <1>2, <2>1, TextAssumption DEF NonBlank
<1>4. DOMAIN ReadEntries(entries) = NamesAt(entries, DOMAIN entries)
  BY <1>1, <1>3, LastWinsOf DEF ReadEntries
<1>5. NamesAt(entries, DOMAIN entries) = {e.name : e \in ToSet(entries)}
  BY DEF NamesAt, ToSet
<1>6. \A p \in Pairs(ReadEntries(entries)) : \E e \in ToSet(entries) : p = <<e.name, e.value>>
  BY <1>1, <1>2, ReadEntriesOf
<1> QED
  BY <1>1, <1>4, <1>5, <1>6

\* Of options that are not all offered, one was asked for that is not.
LEMMA OptionRefused ==
    ASSUME NEW a \in AttributeType, NEW offered, ~OptionsOffered(a, offered)
    PROVE  \E e \in AskedOptions(a) : <<e.name, Text(e.value)>> \notin offered
  BY OptionValuesOf DEF OptionsOffered

\* A value under a name that is given once is read as it is.
LEMMA DistinctRead ==
    ASSUME NEW entries \in Seq([name: Texts, value: Texts \cup {Blank}]), Distinct(entries),
           NEW i \in DOMAIN entries, entries[i].name \in DOMAIN ReadEntries(entries)
    PROVE  ReadEntries(entries)[entries[i].name] = entries[i].value
<1> DEFINE n == entries[i].name
           values == ReadEntries(entries)
<1>1. entries \in Seq(NamedEntries)
  <2>1. [name: Texts, value: Texts \cup {Blank}] \subseteq NamedEntries
    BY DEF NamedEntries, Scalars
  <2> QED
    BY <2>1, SeqWider
<1>2. <<n, values[n]>> \in Pairs(values)
  BY DEF Pairs
<1>3. PICK e \in ToSet(entries) : <<n, values[n]>> = <<e.name, Text(e.value)>>
  <2> HIDE DEF n, values
  <2> QED
    BY <1>1, <1>2, ReadEntriesOf DEF values
<1>4. PICK j \in DOMAIN entries : e = entries[j]
  BY ToSetOf
<1>5. j = i
  BY <1>3, <1>4 DEF Distinct
<1>6. Text(entries[i].value) = entries[i].value
  <2>1. entries[i] \in [name: Texts, value: Texts \cup {Blank}]
    BY ToSetOf
  <2> QED
    BY <2>1, TextAssumption DEF Text
<1> QED
  BY <1>3, <1>4, <1>5, <1>6

=============================================================================
