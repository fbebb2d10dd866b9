---------------------------- MODULE AdapterCall ----------------------------
(***************************************************************************)
(* playerok_adapter.py: one call after the other, each from its request to *)
(* its status code: create, update, delete and send, the metadata a caller *)
(* fills a form from, and the apply that stores credentials for them.      *)
(*                                                                         *)
(* A call is a row of calls to Playerok; each of them may raise, and what  *)
(* Playerok offers and the product may change between any two.  In the     *)
(* worker this is what happens between `work` and `record` of WorkerApi.   *)
(***************************************************************************)
EXTENDS Credentials, ItemPayload, FiniteSets

CONSTANTS
    Situations,  \* a sequence: environment, Playerok, what the caller may send
    Catalogues,  \* external: what Playerok may come to offer
    Items,       \* external: what the product may become
    SomeText,    \* what a caller writes into a field it must fill
    MaxCalls,    \* bound: calls after one another
    MaxChanges   \* bound: changes at Playerok

ASSUME CallBounds == MaxCalls \in Nat /\ MaxChanges \in Nat /\ SomeText \in Texts

VARIABLES
    situation,  \* the one of Situations this behaviour is in
    auth,       \* the row of marketplace_auth, or None
    catalogue,  \* external: category -> what Playerok offers in it
    item,       \* external: the product, or None
    request,    \* the one being executed or answered last, or None
    run,        \* how far it is, with the local variables of its method
    form,       \* the last answer to a metadata query, or None
    calls,      \* calls so far
    changes     \* changes at Playerok so far

vars == <<situation, auth, catalogue, item, request, run, form, calls, changes>>

env == Situations[situation].env

offered == Situations[situation].offered

CommandOps == {"send", "create", "update", "delete"}

Lookups == {"item", "types", "category", "fields"}

PairSets == SUBSET (Texts \X Texts)

\* A product of Playerok; raw: whether it has attributes of its own.
ItemType ==
    [title: Texts, price: Nat \cup {None}, status: DOMAIN WorkerStatus,
     category: Texts \cup {None}, type: Texts \cup {None},
     dataFields: Seq([name: Texts, value: Texts \cup {Blank}]),
     slug: Texts \cup {None}, raw: BOOLEAN]

\* _version_from_item leaves out the data fields.
Version(i) == [i EXCEPT !.dataFields = <<>>, !.raw = FALSE]

\* A request of any operation; what it does not have is None.
RequestType ==
    [op: CommandOps \cup {"metadata"},
     origin: {"caller", "form", "listed"}, \* what its caller composed it from
     fit: BOOLEAN,         \* id, title, text, mode and schemaId are what they must be
     attachments: BOOLEAN, \* of a message
     quantity: BOOLEAN,    \* changes.quantity is given
     title: Texts \cup {None}, price: Nat \cup {None, NaN, Infinity},
     status: Texts \cup {None}, media: Seq(Texts \cup {Blank}) \cup {None},
     attributes: AttributeType \cup {None}, version: ItemType \cup {None}]

Plain ==
    [op |-> "send", origin |-> "caller", fit |-> TRUE, attachments |-> FALSE,
     quantity |-> FALSE, title |-> None, price |-> None, status |-> None, media |-> None,
     attributes |-> None, version |-> None]

\* attributes or {}
Attributes(r) == IF r.attributes = None THEN NoAttributes ELSE r.attributes

\* The arguments of create_item and update_item; the other two commands have none.
Arguments ==
    [title: Texts \cup {None}, price: Nat \cup {None}, options: PairSets \cup {None},
     fields: PairSets \cup {None}, add: (SUBSET Texts) \cup {None},
     remove: (SUBSET Texts) \cup {None}, category: Texts \cup {None}, type: Texts \cup {None}]

NoArguments ==
    [title |-> None, price |-> None, options |-> None, fields |-> None, add |-> None,
     remove |-> None, category |-> None, type |-> None]

\* What metadata answers, and what any call has found of it.
Forms ==
    [category: Texts \cup {None}, type: Texts \cup {None}, options: PairSets,
     types: Seq(Texts \cup {Blank}), fields: Seq(DataFields)]

Runs ==
    [at: Lookups \cup {"idle", "begin", "compose", "command", "convert"},
     client: Clients \cup {None}, found: Forms, needs: SUBSET Lookups, \* lookups to come
     options: PairSets \cup {None}, fields: PairSets \cup {None},
     sent: Arguments \cup {None},
     executions: Nat,  \* history: of its command
     raised: BOOLEAN,  \* history: something from Playerok has failed it
     answer: {0, 200, 400, 401, 404, 409, 500, 502}] \* its status code, 0 before

Idle ==
    [at |-> "idle", client |-> None,
     found |-> [category |-> None, type |-> None, options |-> {}, types |-> <<>>, fields |-> <<>>],
     needs |-> {}, options |-> None, fields |-> None, sent |-> None,
     executions |-> 0, raised |-> FALSE, answer |-> 0]

\* What Playerok may offer: finitely many options in each category.
CatalogueType(offers) ==
    /\ DOMAIN offers \subseteq Texts
    /\ \A c \in DOMAIN offers :
          /\ offers[c].options \in PairSets /\ IsFiniteSet(offers[c].options)
          /\ offers[c].types \in Seq(Texts \cup {Blank})
          /\ DOMAIN offers[c].fields \subseteq Texts
          /\ \A t \in DOMAIN offers[c].fields : offers[c].fields[t] \in Seq(DataFields)

\* A caller composes its requests itself where they are not taken from an answer.
ASSUME SituationAssumption ==
    /\ \A i \in DOMAIN Situations :
          /\ Situations[i].env \in Environments
          /\ CatalogueType(Situations[i].catalogue)
          /\ Situations[i].item \in ItemType \cup {None}
          /\ Situations[i].offered.applies \subseteq AuthPayloads \cup {Malformed}
          /\ \A r \in Situations[i].offered.requests : r \in RequestType /\ r.origin = "caller"
    /\ \A offers \in Catalogues : CatalogueType(offers)
    /\ Items \subseteq ItemType

\* A product has a data field once; _to_worker_product shows them as an object.
ASSUME FieldAssumption ==
    /\ \A i \in DOMAIN Situations :
          Situations[i].item # None => Distinct(Situations[i].item.dataFields)
    /\ \A product \in Items : Distinct(product.dataFields)

\* The names the worker uses are texts too.
ASSUME NameAssumption ==
    /\ \A name \in DOMAIN WorkerStatus : WorkerStatus[name] \in Texts
    /\ {"slug", Remote} \subseteq Texts

\* What is absent, and what is no number or no list, is nothing else.
ASSUME AbsentAssumption ==
    /\ {None, NaN, Infinity} \cap Nat = {} /\ None \notin {NaN, Infinity} /\ NaN # Infinity
    /\ None \notin AuthPayloads /\ None \notin Clients /\ None \notin ItemType
    /\ None \notin AttributeType /\ None \notin RequestType /\ None \notin Arguments
    /\ \A v \in {None, Null, Malformed} : v \notin Seq(Scalars) /\ v \notin Seq(NamedEntries)

----------------------------------------------------------------------------
(* Playerok, and how its exceptions are answered.                           *)

\* The exceptions of the client, by what they are instances of.
Exceptions ==
    {"UnauthorizedError", "BotCheckDetectedException", "RequestPlayerokError",
     "NotInitiatedError", "RequestFailedError", "RequestSendingError", "ValueError", "other"}

\* Those that may come although the command was executed: its answer timed out,
\* came back as an error of a gateway, or could not be read.
AfterExecution == {"RequestFailedError", "RequestSendingError", "ValueError", "other"}

\* Mutant: what Playerok does not do is answered as a conflict.
FailureIsConflict(exception) ==
    CASE exception \in {"UnauthorizedError", "BotCheckDetectedException"} -> 401
      [] exception = "NotInitiatedError" -> 500
      [] exception = "ValueError" -> 400
      [] OTHER -> 409

_translate_exception(exception) ==
    CASE exception \in {"UnauthorizedError", "BotCheckDetectedException"} -> 401
      [] exception = "NotInitiatedError" -> 500
      [] exception = "ValueError" -> 400
      [] OTHER -> 502

\* The data fields of an obtaining type in a category.
FieldsOf(category, type) ==
    IF type \in DOMAIN catalogue[category].fields THEN catalogue[category].fields[type] ELSE <<>>

Changed ==
    /\ changes < MaxChanges
    /\ changes' = changes + 1
    /\ UNCHANGED <<situation, auth, request, run, form, calls>>

ChangeCatalogue == Changed /\ catalogue' \in Catalogues /\ UNCHANGED item

ChangeItem == Changed /\ item' \in Items \cup {None} /\ UNCHANGED catalogue

----------------------------------------------------------------------------
(* The caller.                                                              *)

\* A create filled from a metadata answer: a value for every option field and every
\* required data field, and the type it was made for, unless that is the first one.
OptionPicks ==
    {p \in [{o[1] : o \in form.options} -> {o[2] : o \in form.options}] :
        Pairs(p) \subseteq form.options}

RequiredIds == {d.id : d \in {e \in ToSet(form.fields) : e.required}} \ {Blank}

FilledWith(type, pick) ==
    [NoAttributes EXCEPT
        !.gameCategoryId = <<form.category>>,
        !.obtainingTypeId = <<type>>,
        !.options = SetToSeq({[name |-> f, value |-> pick[f]] : f \in DOMAIN pick}),
        !.dataFields = SetToSeq({[name |-> id, value |-> SomeText] : id \in RequiredIds})]

CreateWith(attributes) ==
    [Plain EXCEPT !.op = "create", !.origin = "form", !.title = SomeText, !.price = 4,
                  !.attributes = attributes]

Filled ==
    LET types == {form.type} \cup IF form.type = ReadOptionalAttr(form.types) THEN {None} ELSE {}
    IN {CreateWith(FilledWith(type, pick)) : type \in types, pick \in OptionPicks}

\* _to_worker_product of the product, sent back as changes; its media, which are
\* addresses, and its slug may be left out.
ListedWith(slug) ==
    [NoAttributes EXCEPT
        !.gameCategoryId = <<item.category>>,
        !.obtainingTypeId = <<item.type>>,
        !.extras = slug \o IF item.raw THEN <<[name |-> SomeText, value |-> Malformed]>> ELSE <<>>,
        !.dataFields = IF item.dataFields = <<>> THEN None ELSE item.dataFields]

UpdateWith(attributes, media) ==
    [Plain EXCEPT !.op = "update", !.origin = "listed", !.title = item.title,
                  !.price = 4 * Or(item.price, 0), !.status = WorkerStatus[item.status],
                  !.version = Version(item), !.attributes = attributes, !.media = media]

Listed ==
    LET slugs == {<<>>} \cup IF item.slug = None THEN {}
                             ELSE {<<[name |-> "slug", value |-> item.slug]>>}
    IN {UpdateWith(ListedWith(slug), media) : slug \in slugs, media \in {None, <<Remote>>}}

Call ==
    /\ run.at = "idle"
    /\ calls < MaxCalls
    /\ calls' = calls + 1
    /\ UNCHANGED <<situation, catalogue, item, form, changes>>

Ask(r) ==
    /\ Call
    /\ request' = r
    /\ run' = [Idle EXCEPT !.at = "begin"]
    /\ UNCHANGED auth

AskFilled == form # None /\ form.category # None /\ \E r \in Filled : Ask(r)

AskListed == offered.listed /\ item # None /\ \E r \in Listed : Ask(r)

\* ext.account.marketplace-auth.apply, once it is let through.  What is no payload at
\* all is a 400; what a validator of the models raises ends in 500: its details hold
\* the exception, which is not JSON.
ApplyAuth(payload) ==
    /\ Call
    /\ request' = None
    /\ IF payload # Malformed /\ validate_marketplace_auth(payload)
       THEN auth' = payload /\ run' = [Idle EXCEPT !.answer = 200]
       ELSE /\ UNCHANGED auth
            /\ run' = [Idle EXCEPT !.answer = IF payload = Malformed THEN 400 ELSE 500]

----------------------------------------------------------------------------
(* A call up to its command.                                                *)

Asides == <<situation, auth, catalogue, request, calls, changes>>

\* A step of the call, which leaves the product and the form alone.
Step(point) == run.at = point /\ UNCHANGED <<Asides, item, form>>

Answer(status) == run' = [run EXCEPT !.at = "idle", !.answer = status]

NoChanges(r) ==
    /\ r.title = None /\ r.price = None /\ r.status = None /\ r.media = None
    /\ r.attributes = None /\ ~r.quantity

Resolved == PlayerokCredentials(read_marketplace_auth(auth), env)

\* Before there is a client; 0: nothing is refused.
EarlyRefusal(r) ==
    IF ~r.fit THEN 400
    ELSE IF r.op = "send" /\ r.attachments THEN 409
    ELSE IF r.op = "update" /\ NoChanges(r) THEN 400
    ELSE IF r.op = "update" /\ r.quantity THEN 409
    ELSE IF Usable(Resolved) THEN 0 ELSE 400

RefuseEarly ==
    /\ Step("begin")
    /\ EarlyRefusal(request) # 0
    /\ Answer(EarlyRefusal(request))

\* The lookups in the order the operation makes them, and then "compose".
Following(needs) ==
    LET order == IF request.op = "metadata" THEN <<"category", "types", "fields">>
                 ELSE <<"item", "types", "category", "fields">>
        left == {i \in DOMAIN order : order[i] \in needs}
    IN IF left = {} THEN "compose" ELSE order[Min(left)]

\* _read_data_field_values raises before the data fields are asked for.
Proceed(r) ==
    IF Following(r.needs) = "fields" /\ Attributes(request).dataFields = Malformed
    THEN Answer(400)
    ELSE run' = [r EXCEPT !.at = Following(r.needs)]

\* The ids of the request: metadata applies str() to them, null or not.
NamedIds(candidates) ==
    ReadOptionalAttr(IF request.op = "metadata" THEN [i \in DOMAIN candidates |-> Text(candidates[i])]
                     ELSE candidates)

\* The client is created and client.get() succeeds.
Connect ==
    /\ Step("begin")
    /\ EarlyRefusal(request) = 0
    /\ LET category == NamedIds(Attributes(request).gameCategoryId)
           type == NamedIds(Attributes(request).obtainingTypeId)
           needs == CASE request.op = "create" ->
                             {"category", "fields"} \cup IF type = None THEN {"types"} ELSE {}
                      [] request.op = "update" -> {"item"}
                      [] request.op = "metadata" /\ category # None -> {"category", "types"}
                      [] OTHER -> {}
       IN IF request.op = "create" /\ category = None
          THEN Answer(400)
          ELSE Proceed([run EXCEPT !.client = Resolved, !.found.category = category,
                                   !.found.type = type, !.needs = needs])

\* client.get() or a lookup raises.
LookupRaises(exception) ==
    /\ Step(run.at)
    /\ \/ run.at \in Lookups
       \/ run.at = "begin" /\ EarlyRefusal(request) = 0
    /\ run' = [run EXCEPT !.at = "idle", !.raised = TRUE,
                          !.answer = _translate_exception(exception)]

\* What an update refuses once it has the item; 0: nothing.
ItemRefusal(r) ==
    IF item = None THEN 404
    ELSE IF \/ r.version \notin {None, Version(item)}
            \/ r.status # None /\ NormalizeStatus(r.status) # WorkerStatus[item.status]
         THEN 409 ELSE 0

\* get_item; the category and type of the request come before those of the item.
GetItem ==
    /\ Step("item")
    /\ IF ItemRefusal(request) # 0
       THEN Answer(ItemRefusal(request))
       ELSE LET attributes == Attributes(request)
                category == Or(run.found.category, item.category)
                type == Or(run.found.type, item.type)
                fields == attributes.dataFields # None
                needs == IF category = None THEN {} ELSE
                    (IF fields THEN {"fields"} ELSE {})
                    \cup (IF fields /\ type = None THEN {"types"} ELSE {})
                    \cup (IF HasOptionsPayload(attributes) THEN {"category"} ELSE {})
            IN IF fields /\ category = None /\ type = None
               THEN Answer(409)
               ELSE Proceed([run EXCEPT !.found.category = category, !.found.type = type,
                                        !.needs = needs])

\* A category Playerok does not have can only raise.
Lookup(stage) == Step(stage) /\ run.found.category \in DOMAIN catalogue

\* get_product_metadata takes the first type, whose id may be empty.
MetadataType(types) ==
    IF types = <<>> \/ types[1] = Blank THEN None ELSE types[1]

GetTypes ==
    /\ Lookup("types")
    /\ LET types == FirstPage(catalogue[run.found.category].types)
           query == request.op = "metadata"
           type == Or(run.found.type,
                      IF query THEN MetadataType(types) ELSE DefaultObtainingType(types))
       IN IF type = None /\ ~query
          THEN Answer(400)
          ELSE Proceed([run EXCEPT !.found.type = type, !.found.types = types,
                  !.needs = (@ \ {"types"}) \cup IF query /\ type # None THEN {"fields"} ELSE {}])

GetCategory ==
    /\ Lookup("category")
    /\ LET options == catalogue[run.found.category].options
           attributes == Attributes(request)
       IN IF ~OptionsOffered(attributes, options)
          THEN Answer(400)
          ELSE Proceed([run EXCEPT !.needs = @ \ {"category"}, !.found.options = options,
                                   !.options = ResolveOptions(attributes)])

GetFields ==
    /\ Lookup("fields")
    /\ LET fields == FieldsOf(run.found.category, run.found.type)
           attributes == Attributes(request)
       IN IF request.op # "metadata" /\ MissingDataFields(attributes, fields) # {}
          THEN Answer(400)
          ELSE Proceed([run EXCEPT !.needs = @ \ {"fields"}, !.found.fields = FirstPage(fields),
                                   !.fields = ResolveDataFields(attributes, fields)])

----------------------------------------------------------------------------
(* The command.                                                             *)

\* Mutant: the paths of media replace the ones in addAttachmentPaths.
MediaOnly(r) ==
    IF r.media = None THEN ReadStringList(Attributes(r).addAttachmentPaths) ELSE MediaPaths(r.media)

\* addAttachmentPaths and the paths of media, each once.
Attachments(r) ==
    LET listed == ReadStringList(Attributes(r).addAttachmentPaths)
    IN IF r.media = None THEN listed ELSE Or(listed, {}) \cup MediaPaths(r.media)

\* create_item takes no attachments beside those of media, update_item no category.
Composed(r) ==
    CASE r.op = "create" ->
            [title |-> r.title, price |-> NormalizePrice(r.price), options |-> run.options,
             fields |-> run.fields, add |-> IF r.media = None THEN {} ELSE MediaPaths(r.media),
             remove |-> None, category |-> run.found.category, type |-> run.found.type]
      [] r.op = "update" ->
            [NoArguments EXCEPT
                !.title = r.title, !.price = NormalizePrice(r.price), !.options = run.options,
                !.fields = run.fields, !.add = Attachments(r),
                !.remove = ReadStringList(Attributes(r).removeAttachmentIds)]
      [] OTHER -> NoArguments

Supported(r) ==
    \/ r.title # None \/ r.price # None \/ run.options # None \/ run.fields # None
    \/ Attachments(r) \notin {None, {}}
    \/ ReadStringList(Attributes(r).removeAttachmentIds) # None

\* What is left to refuse, in the order of the code; 0: nothing.
LateRefusal(r) ==
    LET media == IF r.media = None THEN 0 ELSE MediaRefusal(r.media)
        lists == {Attributes(r).removeAttachmentIds, Attributes(r).addAttachmentPaths}
    IN CASE r.op = "create" -> IF media # 0 THEN media ELSE PriceRefusal(r.price)
         [] r.op = "update" ->
               IF Malformed \in lists THEN 400
               ELSE IF media # 0 THEN media
               ELSE IF ~Supported(r) THEN 409 ELSE PriceRefusal(r.price)
         [] OTHER -> 0

RefuseLate ==
    /\ Step("compose")
    /\ LateRefusal(request) # 0
    /\ Answer(LateRefusal(request))

Compose ==
    /\ Step("compose")
    /\ request.op \in CommandOps
    /\ LateRefusal(request) = 0
    /\ run' = [run EXCEPT !.at = "command", !.sent = Composed(request)]

ShowForm ==
    /\ run.at = "compose"
    /\ request.op = "metadata"
    /\ form' = run.found
    /\ Answer(200)
    /\ UNCHANGED <<Asides, item>>

\* External: what update_item and remove_item do.
Effect ==
    LET given == Or(run.sent.fields, {})
        Updated(d) ==
            IF \E p \in given : p[1] = d.name
            THEN [d EXCEPT !.value = (CHOOSE p \in given : p[1] = d.name)[2]] ELSE d
    IN CASE request.op = "update" /\ item # None ->
               [item EXCEPT !.title = Or(run.sent.title, @), !.price = Or(run.sent.price, @),
                            !.dataFields = [i \in DOMAIN @ |-> Updated(@[i])]]
         [] request.op = "delete" -> None
         [] OTHER -> item

\* It executes and returns.
Command ==
    /\ run.at = "command"
    /\ item' = Effect
    /\ run' = [run EXCEPT !.at = "convert", !.executions = @ + 1]
    /\ UNCHANGED <<Asides, form>>

\* It raises, executed or not.
CommandRaises(exception) ==
    /\ run.at = "command"
    /\ \E executed \in IF exception \in AfterExecution THEN {0, 1} ELSE {0} :
          /\ item' = IF executed = 1 THEN Effect ELSE item
          /\ run' = [run EXCEPT !.at = "idle", !.executions = @ + executed, !.raised = TRUE,
                                !.answer = _translate_exception(exception)]
    /\ UNCHANGED <<Asides, form>>

\* remove_item returns that it has removed nothing.
NotRemoved ==
    /\ Step("command")
    /\ request.op = "delete"
    /\ run' = [run EXCEPT !.at = "idle", !.raised = TRUE, !.answer = 502]

Convert == Step("convert") /\ Answer(200)

\* _to_worker_product or _to_conversation_message, outside of any try, refuses what
\* the command returned: 400 from pydantic, else 500.  A delete has nothing to convert.
ConvertFails ==
    /\ Step("convert")
    /\ request.op # "delete"
    /\ \E status \in {400, 500} :
          run' = [run EXCEPT !.at = "idle", !.raised = TRUE, !.answer = status]

----------------------------------------------------------------------------

Init ==
    /\ situation \in DOMAIN Situations
    /\ catalogue = Situations[situation].catalogue /\ item = Situations[situation].item
    /\ auth = None /\ request = None /\ run = Idle /\ form = None
    /\ calls = 0 /\ changes = 0

Next ==
    \/ \E r \in offered.requests : Ask(r)
    \/ AskFilled \/ AskListed
    \/ \E payload \in offered.applies : ApplyAuth(payload)
    \/ RefuseEarly \/ Connect
    \/ GetItem \/ GetTypes \/ GetCategory \/ GetFields
    \/ RefuseLate \/ Compose \/ ShowForm
    \/ Command \/ NotRemoved \/ Convert \/ ConvertFails
    \/ \E exception \in Exceptions : LookupRaises(exception) \/ CommandRaises(exception)
    \/ ChangeCatalogue \/ ChangeItem

Spec == Init /\ [][Next]_vars

----------------------------------------------------------------------------
(* Properties.                                                              *)

TypeOK ==
    /\ situation \in DOMAIN Situations /\ env \in Environments
    /\ auth \in AuthPayloads \cup {None}
    /\ item \in ItemType \cup {None}
    /\ request \in RequestType \cup {None}
    /\ run \in Runs
    /\ form \in Forms \cup {None}
    /\ calls \in 0..MaxCalls /\ changes \in 0..MaxChanges

\* Whatever a call looks up and wherever it fails: its command is executed once at
\* most, a success means that it was, and a 401, 404 or 409 that it was not, so that
\* a caller may then change its request without doubling anything.
Outcome ==
    INSTANCE CommandOutcome WITH
        executions <- run.executions,
        outcome <- CASE run.at # "idle" \/ run.answer = 0 -> "open"
                     [] run.answer \in {401, 404, 409} -> "refused"
                     [] run.answer \in {400, 500, 502} -> "failed"
                     [] OTHER -> IF request # None /\ request.op \in CommandOps
                                 THEN "done" ELSE "told"

KeepsOutcome == Outcome!Spec

\* Once an apply was accepted, a client has its credentials whole: never another
\* scheme, nor one secret of the apply and another of the environment (a token works
\* only with the ddg5 it was issued with).
AppliedCredentialsWhole ==
    run.client # None /\ auth # None =>
        /\ run.client.scheme = auth.scheme
        /\ \A n \in {"token", "ddg5", "cookies"} :
              run.client.credentials[n] =
                 IF n \in Required(auth.scheme) THEN auth.credentials[n] ELSE None

\* What an apply was accepted for is enough to go to Playerok: it cannot leave the
\* worker without credentials, whatever the environment has.
AcceptedApplySuffices == auth # None => Usable(Resolved)

\* The options of a command are among those that were asked for, one for each field,
\* and offered by the category of the product; only a request that names another
\* category than the product's has them looked up there.
OptionsOfTheCategory ==
    run.sent # None /\ run.sent.options # None =>
        LET attributes == Attributes(request)
            own == IF request.op = "create" THEN run.sent.category ELSE item.category
        IN /\ \A o \in run.sent.options :
                 /\ \E e \in AskedOptions(attributes) : o = <<e.name, Text(e.value)>>
                 /\ \A p \in run.sent.options : o[1] = p[1] => o = p
           /\ changes = 0 /\ run.executions = 0 /\ own # None /\ run.found.category = own =>
                 run.sent.options \subseteq catalogue[own].options

\* A create is sent only with every data field that its category and obtaining type
\* require on the first page, and with nothing the type does not have.
RequiredFieldsGiven ==
    run.sent # None /\ request.op = "create" /\ changes = 0 =>
        LET fields == FieldsOf(run.sent.category, run.sent.type)
            names == {p[1] : p \in run.sent.fields}
        IN /\ \A i \in DOMAIN fields :
                 /\ i <= PageSize /\ fields[i].id # Blank
                 /\ fields[i].required /\ fields[i].type = "ITEM_DATA"
                 => fields[i].id \in names
           /\ names \subseteq {fields[i].id : i \in DOMAIN fields}

\* A call whose request came from there was answered, and nothing outside failed it.
Answered(origin) ==
    /\ run.at = "idle" /\ run.answer # 0 /\ ~run.raised
    /\ request # None /\ request.origin = origin
    /\ changes = 0 /\ Usable(Resolved)

\* A form that metadata showed is enough: a create filled from it is executed, unless
\* Playerok changes or fails, or the form had no obtaining type.
FormSuffices == Answered("form") /\ form.type # None => run.answer = 200

\* An update of data fields is refused for want of an obtaining type, or of a value.
FieldsRefused ==
    \/ run.answer = 409 /\ item.type = None /\ item.category = None
    \/ run.answer = 400 /\ item.type = None /\ item.category # None
       /\ DefaultObtainingType(catalogue[item.category].types) = None
    \/ run.answer = 400 /\ MissingDataFields(request.attributes,
                              FieldsOf(run.found.category, run.found.type)) # {}

\* What the listing shows and an update does not take: media by their addresses, the
\* price 0 of a product without one, and a slug, which is read as an option.
SentBackRefused ==
    \/ run.answer = 409 /\ request.media # None
    \/ run.answer = 400 /\ request.price = 0
    \/ /\ run.answer = 400 /\ run.found.category # None
       /\ \E e \in AskedOptions(request.attributes) :
             <<e.name, Text(e.value)>> \notin catalogue[run.found.category].options
    \/ item.dataFields # <<>> /\ FieldsRefused

\* A product as products.list shows it may be sent back as changes, all of it or
\* without its media or its slug: this leaves the product as it was, and is executed
\* unless it is refused for what SentBackRefused names.
ListedComesBack ==
    Answered("listed") =>
        /\ Version(item) = request.version
        /\ item.dataFields = EntriesOf(request.attributes.dataFields)
        /\ run.answer = 200 \/ (run.executions = 0 /\ SentBackRefused)

\* What an update is sent with, of what its request names, however it mixes that:
\* nothing that is not named, every option, and every file once.  Left out without a
\* word are the data fields that the first page of the obtaining type does not have and
\* all options and data fields of a product without a category; the category and the
\* obtaining type only say where those are looked up, and are never sent.
UpdateSendsNamed ==
    run.sent # None /\ request.op = "update" =>
        LET sent == run.sent
            attributes == Attributes(request)
            known == run.found.category # None
            given == ToSet(EntriesOf(attributes.dataFields))
            files == EntriesOf(attributes.addAttachmentPaths) \o EntriesOf(request.media)
            shown == FirstPage(FieldsOf(run.found.category, run.found.type))
        IN /\ sent.title = request.title
           /\ (sent.price # None) = (request.price # None)
           /\ sent.category = None /\ sent.type = None
           /\ {o[1] : o \in Or(sent.options, {})} =
                 IF known THEN NamesOf(AskedOptions(attributes)) ELSE {}
           /\ (sent.fields # None) = (known /\ attributes.dataFields # None)
           /\ \A p \in Or(sent.fields, {}) : \E e \in given : p = <<e.name, Text(e.value)>>
           /\ changes = 0 /\ sent.fields # None =>
                 {p[1] : p \in sent.fields} = NamesOf(given) \cap {f.id : f \in ToSet(shown)}
           /\ Or(sent.add, {}) = {Text(v) : v \in ToSet(files)} \ {Blank}
           /\ Or(sent.remove, {}) =
                 {Text(v) : v \in ToSet(EntriesOf(attributes.removeAttachmentIds))} \ {Blank}

\* The price sent is a whole number of at least 1, not further than half from the
\* one asked for.
PriceNearest ==
    run.sent # None /\ run.sent.price # None =>
        run.sent.price >= 1 /\ 4 * run.sent.price - request.price \in -2..2
=============================================================================
