---------------------------- MODULE ItemPayload ----------------------------
(***************************************************************************)
(* The rules by which playerok_adapter.py reads the free-form `attributes` *)
(* of a product, its price, status and media, against what Playerok offers *)
(* in a category.  Everything here is constant.                            *)
(*                                                                         *)
(* The object and the array form of options and of data fields are both a  *)
(* sequence of entries.                                                    *)
(***************************************************************************)
EXTENDS PayloadValues, SequencesExt

CONSTANTS
    NaN, Infinity, \* prices that are not numbers to int()
    PageSize       \* entries in the one page that is asked for (24 in the code)

ASSUME PageAssumption == PageSize \in Nat \ {0}

NamedEntries == [name: Texts \cup {Blank}, value: Scalars]

\* The attributes of a request; an id is given under two names, in this order.
AttributeType ==
    [gameCategoryId: Seq(Scalars \cup {None}), obtainingTypeId: Seq(Scalars \cup {None}),
     options: Seq(NamedEntries) \cup {None, Null, Malformed},
     extras: Seq([name: Texts \cup {Blank}, value: Scalars \cup {Malformed}]),
     dataFields: Seq(NamedEntries) \cup {None, Null, Malformed},
     removeAttachmentIds: Seq(Scalars) \cup {None, Malformed},
     addAttachmentPaths: Seq(Scalars) \cup {None, Malformed}]

\* Every name is given once, as in an object.
Distinct(entries) ==
    \A i, j \in DOMAIN entries : entries[i].name = entries[j].name => i = j

NoAttributes ==
    [gameCategoryId |-> <<>>, obtainingTypeId |-> <<>>, options |-> None, extras |-> <<>>,
     dataFields |-> None, removeAttachmentIds |-> None, addAttachmentPaths |-> None]

\* What a category offers: options as <<field, value>>, the ids of its obtaining
\* types, and for each of them the data fields it asks for.
DataFields == [id: Texts \cup {Blank}, required: BOOLEAN, type: {"ITEM_DATA", "OBTAINING_DATA"}]

FirstPage(seq) == SubSeq(seq, 1, IF Len(seq) < PageSize THEN Len(seq) ELSE PageSize)

----------------------------------------------------------------------------
(* Readers of attributes.                                                   *)

\* _read_optional_attr: the first of the names with a text.
ReadOptionalAttr(candidates) ==
    LET given == {i \in DOMAIN candidates : candidates[i] \notin {None, Null, Blank}}
    IN IF given = {} THEN None ELSE candidates[Min(given)]

\* Where the entries are whose name and value are not blank.
NonBlank(entries) ==
    {i \in DOMAIN entries : entries[i].name # Blank /\ Text(entries[i].value) # Blank}

NamesAt(entries, places) == {entries[i].name : i \in places}

Named(entries, places, name) == {i \in places : entries[i].name = name}

\* A dictionary built with setdefault: the first entry of a name wins.
FirstWins(entries, places) ==
    [n \in NamesAt(entries, places) |-> Text(entries[Min(Named(entries, places, n))].value)]

\* A dictionary built by assignment: the last one wins.
LastWins(entries, places) ==
    [n \in NamesAt(entries, places) |-> Text(entries[Max(Named(entries, places, n))].value)]

EntriesOf(field) == IF field \in {None, Null, Malformed} THEN <<>> ELSE field

ReadEntries(entries) == LastWins(entries, NonBlank(entries))

\* What is under other keys of the attributes, where it is a scalar.
ReadExtras(extras) ==
    FirstWins(extras, {i \in NonBlank(extras) : extras[i].value \notin {Null, Malformed}})

\* The values of the first dictionary, and those of the second under other names.
Under(first, second) ==
    [n \in DOMAIN first \cup DOMAIN second |-> IF n \in DOMAIN first THEN first[n] ELSE second[n]]

\* Mutant: a structure under another key is an option like a scalar.
StructuresToo(attributes) ==
    Under(ReadEntries(EntriesOf(attributes.options)),
          FirstWins(attributes.extras, NonBlank(attributes.extras)))

\* _read_option_values: attributes.options, then any other key that has a scalar.
ReadOptionValues(attributes) ==
    Under(ReadEntries(EntriesOf(attributes.options)), ReadExtras(attributes.extras))

HasOptionsPayload(attributes) == attributes.options # None \/ attributes.extras # <<>>

ReadDataFieldValues(attributes) == ReadEntries(EntriesOf(attributes.dataFields))

\* _read_string_list
ReadStringList(list) ==
    LET texts == IF list \in {None, Malformed} THEN {} ELSE {Text(v) : v \in ToSet(list)} \ {Blank}
    IN IF texts = {} THEN None ELSE texts

----------------------------------------------------------------------------
(* What attributes name, said without the dictionaries.                     *)

\* The names among entries that have a value.
NamesOf(entries) == {e.name : e \in {d \in entries : d.name # Blank /\ Text(d.value) # Blank}}

\* The entries under options and the scalars under other keys.
AskedOptions(attributes) ==
    ToSet(EntriesOf(attributes.options)) \cup
    {e \in ToSet(attributes.extras) : e.value \notin {Null, Malformed}}

----------------------------------------------------------------------------
(* Against what Playerok offers.                                            *)

Pairs(values) == {<<n, values[n]>> : n \in DOMAIN values}

\* _resolve_options: None without any, 400 for one the category does not offer.
ResolveOptions(attributes) ==
    LET values == ReadOptionValues(attributes)
    IN IF DOMAIN values = {} THEN None ELSE Pairs(values)

\* Mutant: it is enough that the category has the field.
FieldOffered(attributes, offered) ==
    DOMAIN ReadOptionValues(attributes) \subseteq {o[1] : o \in offered}

OptionsOffered(attributes, offered) == Pairs(ReadOptionValues(attributes)) \subseteq offered

\* _resolve_data_fields: the fields of the first page that have a value...
ResolveDataFields(attributes, fields) ==
    LET values == ReadDataFieldValues(attributes)
    IN {<<f.id, values[f.id]>> : f \in {g \in ToSet(FirstPage(fields)) : g.id \in DOMAIN values}}

\* Mutants: no field is required, or those beyond the first page are, too.
NothingMissing(attributes, fields) == {}

MissingOnAnyPage(attributes, fields) ==
    {f \in ToSet(fields) :
        /\ f.id # Blank /\ f.required /\ f.type = "ITEM_DATA"
        /\ f.id \notin DOMAIN ReadDataFieldValues(attributes)}

\* ...and those whose absence is a 400.
MissingDataFields(attributes, fields) ==
    {f \in ToSet(FirstPage(fields)) :
        /\ f.id # Blank /\ f.required /\ f.type = "ITEM_DATA"
        /\ f.id \notin DOMAIN ReadDataFieldValues(attributes)}

\* Mutant: the first entry is taken, blank or not.
FirstObtainingType(types) == IF types = <<>> THEN None ELSE types[1]

\* _resolve_default_obtaining_type
DefaultObtainingType(types) == ReadOptionalAttr(FirstPage(types))

----------------------------------------------------------------------------
(* Media, price, status.                                                    *)

\* media.url: an address, a file that is not there, or the path of one, which is
\* resolved; a path in addAttachmentPaths is taken as it is.
Remote == "https"
Missing == "missing"

\* _resolve_media_paths raises for the first entry it cannot use.
MediaRefusal(media) ==
    LET bad == {i \in DOMAIN media : media[i] \in {Remote, Missing}}
    IN IF bad = {} THEN 0 ELSE IF media[Min(bad)] = Remote THEN 409 ELSE 400

MediaPaths(media) == ToSet(media) \ {Blank}

\* A price counts quarters here.

\* Mutant: int() without round().
Truncated(price) == price \div 4

\* int(round(amount)): halves go to the even neighbour.
Rounded(price) ==
    LET below == price \div 4
        rest == price % 4
    IN IF rest > 2 \/ (rest = 2 /\ below % 2 = 1) THEN below + 1 ELSE below

\* _normalize_price: int() of NaN is a ValueError, of Infinity an OverflowError.
PriceRefusal(price) ==
    CASE price = None -> 0
      [] price = NaN -> 400
      [] price = Infinity -> 502
      [] OTHER -> IF Rounded(price) < 1 THEN 400 ELSE 0

NormalizePrice(price) == IF price = None THEN None ELSE Rounded(price)

\* _map_playerok_status, for the names Playerok documents and another one.
WorkerStatus ==
    [APPROVED |-> "active", DRAFT |-> "draft", PENDING_APPROVAL |-> "pending_approval",
     PENDING_MODERATION |-> "pending_moderation", DECLINED |-> "declined",
     BLOCKED |-> "blocked", EXPIRED |-> "expired", SOLD |-> "sold", NEW_ONE |-> "new_one"]

\* _normalize_worker_status, for texts in lower case without dashes and spaces.
StatusAliases ==
    [approved |-> "active", pendingapproval |-> "pending_approval",
     pendingmoderation |-> "pending_moderation"]

NormalizeStatus(status) ==
    IF status \in DOMAIN StatusAliases THEN StatusAliases[status] ELSE status
=============================================================================
