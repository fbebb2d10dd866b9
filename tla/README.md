# DDCRM-Playerok worker: verification project

The worker is a FastAPI process that serves the DDCRM worker contract
(`/internal/v2/worker/*`) for one Playerok account. It translates requests into calls of
`playerok-universal`, keeps secrets and idempotency records in SQLite, and answers retries
from those records. This directory holds TLA+ modules translated from its source, TLC
configurations that check them on small instances, and proofs that hold for every instance.

## 1. The system

| Component | Source | State | Operations |
| --- | --- | --- | --- |
| Worker API | `main.py` | none of its own: the request that runs, and those that wait in the event loop | 4 lists and lookups, 4 commands to Playerok, `actions/*` (apply and reveal proxy, apply auth, metadata), health, capabilities, schemas |
| State storage | `storage.py` | `idempotency_records`, `worker_runtime_binding`, `proxy_credentials`, `marketplace_auth` | one method per read and write, each with its own transaction |
| Adapter | `playerok_adapter.py` | none between requests; per request a client with credentials | resolve credentials, load lists, send, create, update, delete, metadata, conversions |
| Request models | `models.py` | none | field validation |
| Configuration | `config.py` | read once at the start | environment variables, with defaults |
| Service guard | `security.py` | none | service token, request id, idempotency key |
| Errors | `errors.py`, `main.py`, `_translate_exception` | none | exceptions to status codes |
| Playerok | external, through the submodule `vendor/playerok-universal` (empty here) | conversations, messages, items | what the adapter calls |

How they interact. A request passes `request_guard`, is validated and reaches an
`async def` handler **without an await**: no other request of the process runs until it has
answered. A mutating request and every action go through `_idempotent`: look up
`(scope, Idempotency-Key)`, run the operation, record the reply, answer. The operation first
settles the account (`_require_bound_account_id` or `_enforce_account_scope`), which may
commit a binding, then either writes a secret or builds a Playerok client and calls Playerok.
The worker shares nothing with other processes but its SQLite file, which it meets again
after a restart, and Playerok, which other clients of the account change at any time.

What is hard here, then, is not interleaving of handlers. It is what falls *between the
steps of one handler and between two requests*: a crash or a failed commit between a command
and its record, an answer of Playerok that is lost, a retry that overtakes or follows,
a restart with another environment, a change at Playerok between two calls of one update or
between two pages of one list. `PROJECT.json` lists these as hazards, each at its line.

What makes each component correct:

* Idempotency: a key is executed once, but for faults; a success that was told is durable and
  the same for all attempts; a settled key stays settled.
* Account scope: one tenant per storage file, whatever the environment of a restart; secrets,
  records and answers are the tenant's; an answer is for the account the request names.
* Credentials: a command carries what is in force for the tenant.
* Updates: `expectedVersion` protects what the caller has seen; a field that is not named
  survives.
* Calls of the adapter: what is sent to Playerok is what was asked for, against what Playerok
  offers; a status code never lets a caller believe more than is known of its command; what
  the worker shows (a form, a product) it also accepts back.
* Lists: a list that rests is delivered exactly; one that moves is not torn more than the
  offset cursor makes unavoidable; reading ends.

## 2. Modules

```
WorkerRequests        constants, request records, accountId -> text, the idempotency slot
  WorkerStateStorage  storage.py: the four tables, one operator per method
    WorkerApi         main.py with the adapter's calls: queue, handler, faults, restarts
      WorkerApiProofs       type correctness and the running handler's invariant
        WorkerApiTheorems   every safety property, and the refinement
      MCWorkerApi           instances for TLC
ReplayLedger          what a retrying caller is promised (abstract), kept by WorkerApi
ProductVersions       update_product and delete_product against a product that changes
  MCProductVersions
  ProductVersionsProofs   every property of its passing run
Paging                the lists: loading, sorting, filtering, _paginate
  MCPaging
  PagingProofs            types; the list that rests, grows, changes
PayloadValues         JSON values as str() and strip() tell them apart
  Credentials         validate_marketplace_auth, read_marketplace_auth, resolve_credentials
  ItemPayload         attributes, options, data fields, media, price, status
    AdapterCall       one call of the adapter from its request to its status code
      MCAdapterCall
      AdapterCallProofs     its inductive invariant
        AdapterCallTheorems   its properties, and the refinement
    ItemPayloadProofs what the payload operators return
CommandOutcome        what a status code says of the command (abstract), kept by AdapterCall
SequenceFacts         naturals, finite sets and sequences, for the proofs
```

**WorkerApi.** `handler` is the program counter of the one running request:
`idle -> scope -> work -> (call) -> record -> reply -> idle`. A step ends where the code
commits, calls Playerok, or answers:

| Action | Code |
| --- | --- |
| `RejectRequest`, `ReplayRecorded`, `StartOperation` | endpoint checks, key check and lookup in `_idempotent` |
| `RefuseScope`, `ConflictOrRefuse`, `EnterScope` | account scope with its binding commit, then validation of the payload |
| `ApplyProxy`, `ApplyAuth`, `RevealProxy` | the account actions |
| `Connect`, `ConnectFails` | `resolve_credentials`, `client.get()` and lookups |
| `Command`, `CommandUnheard`, `CommandRefused`, `Query` | the call that counts, executed, executed but unheard, refused; a call without an effect |
| `RecordReply`, `SendReply` | `write_idempotency`, the answer |
| `StorageFails`, `Crash`, `Start` | an exception of SQLite, the end of the process, a start with any of the configured environments |

A command that Playerok executes only after the worker gave up is `CommandUnheard` too: the
count is the same. `effects`, `lost` and `answers` are history variables; no guard reads them.
Error answers have no effect and are not told apart, except for the binding that
`ConflictOrRefuse` leaves behind. A secret is its value with the key that sealed it; with
another key a row cannot be opened. A slot is the pair of a scope and a key, the scope a record
of what the code joins with colons: two scopes whose texts coincide by a colon inside an action
name or an id are not identified.

**ProductVersions.** One product, several callers. An update is two steps, `CheckItem`
(`get_item` and all checks) and `UpdateItem` (`update_item`), and Playerok may `Edit` or
`Vanish` the product between them. Requests of the worker do not overlap, so `handler` holds
one caller. A version is the record of what `_version_from_item` digests (the digest is taken
as injective); `hidden` stands for the fields it leaves out. Playerok may or may not report
`updated_at` (`stamped`): nothing in the repository says that it does.

**Paging.** One caller reads one list to its end with one limit. `Load` and `Deliver` are the
calls for Playerok's pages, whose cursor is taken as the time of the last entry; `Active`,
`Vanish` and `Change` are Playerok's, between any two of them. No two entries have the same
time, and only cursors the worker handed out are sent back. Three details of the loading are
left out: a date that is missing or cannot be parsed becomes the time of the request, products
are read by one `get_item` for each entry of a page (here the page as a whole), and a page that
promises a next one without a cursor ends the loading, which delivers the list short.

**AdapterCall.** What WorkerApi takes as one step between `work` and `record`, in full.
`run.at` is the program counter: `begin -> (item) -> (types) -> (category) -> (fields) ->
compose -> command -> convert -> idle`, with the lookups an operation makes, in its order; the
other fields of `run` are the local variables of the method.

| Action | Code |
| --- | --- |
| `Ask`, `AskFilled`, `AskListed` | a request; a create filled from the last metadata answer; an update made of a listed product (`_to_worker_product`) |
| `ApplyAuth` | marketplace auth apply with its validator: 200, 400 for a payload of another shape, 500 for one the validator refuses |
| `RefuseEarly`, `Connect` | checks of the endpoint and of the method, `resolve_credentials`, `client.get()` |
| `GetItem`, `GetTypes`, `GetCategory`, `GetFields`, `LookupRaises` | the lookups, each with the checks that follow it |
| `RefuseLate`, `Compose`, `ShowForm` | attachments, media, supported changes, price; the arguments of the command; the metadata answer |
| `Command`, `CommandRaises`, `NotRemoved` | the command returns, raises (executed or not), has removed nothing |
| `Convert`, `ConvertFails` | `_to_worker_product`, `_to_conversation_message` |

The rules those steps apply are constant operators: `ItemPayload` for the payload,
`Credentials` for the client. An object and an array of entries are both a sequence of
entries; `None`, `Null`, `Blank` and `Malformed` are the values the code treats apart. An
option is its field and value, a price counts quarters so that halves exist, the page of 24
entries is `PageSize`. The description of a product is handled like its title and left out
beside it, blank titles are not told from others, and the status texts are taken in lower
case without dashes and spaces. Paths in `addAttachmentPaths` are taken as absolute, like the
ones in `media` become: a relative one beside the same file in `media` would be sent twice.
A category Playerok does not have raises; the client class is loaded and its constructor does
not raise. Which exceptions may come after the command was executed is the platform's:
`AfterExecution` names timeouts, gateway errors and unreadable answers.

**CommandOutcome** has only a count of executions and an outcome: `done` means the command
was executed, `refused` (401, 404, 409) that it was not, `failed` (400, 500, 502) promises
nothing, because a conversion or an unreadable reply may end in any of the three.

**ReplayLedger** has no process, queue or table: slots are settled once, a tenant is chosen
once and before any slot is settled, and a caller is told only what stands in the ledger.
`WorkerApi` implements it with `ledger <- idempotency_records`, `tenant <- runtime_binding`
and `told` read off the answers.

## 3. Runs

| Run | Result | Question |
| --- | --- | --- |
| `Retry` | holds | A message and two applies for one account, two attempts each, two faults: executions, records, answers, the ledger, and that a retry brings no replaced credentials back. |
| `Tenant` | holds | Applies and reveal for two accounts as string and as number, one apply that is refused after it has bound, one that repeats another's key, a message; the environment names no account, either one, or changes the encryption keys. |
| `Live` | holds | One request for each way to end; every accepted one ends. |
| `Versions` | holds | Two callers chain, repeat and delete; two changes of the product. |
| `Paging` | holds | Three entries, Playerok pages of two, limits -1 to 3 of which 1 and 2 are valid, two changes while the caller reads: nothing is overtaken, misses and repeats are bounded by what moved. |
| `Adapter` | holds | Two calls, one change at Playerok: eight environments against 144 applies; creates, updates, queries, forms and listed products, whole and without their media or slug, against two catalogues and six items (509,647 states). |
| `RevealBinds` | violated | README: the binding is fixed by an *apply* or the environment. A reveal binds as well. |
| `NullBinds` | violated | `accountId` is required: a JSON null is bound as the account `None`. |
| `NumericReplay` | violated | Another account is refused: with numeric ids it is answered from the first one's record. |
| `ExecutedTwice` | violated | A key is executed once: not if the record or the answer is lost. |
| `UpdateRace` | violated | An update is executed on the expected version: not if Playerok changes it after `get_item`. |
| `DeleteStale` | violated | A delete takes `expectedVersion`: the handler drops it, and removes a product that changed after `get_item` gave that version. |

Each property of a passing run has a mutant in `PROJECT.json`: a changed definition beside
the true one (its comment begins with *Mutant*) under which TLC finds the property violated.

*Bounds.* `MaxAttempts`, `MaxFaults`, `MaxEdits` and `MaxTime` bound counters; everything else
is the choice of requests. Two attempts are enough for a retry that waits behind, follows, or
outlives its first attempt; two faults let a crash hit the retry of what another fault lost.
The violated statements need one fault or none. `Tenant` needs one fault (a restart) to change
the environment; its two auth applies share a slot, so that the later one is answered from the
record of the first, after a restart with another environment as well (265,197 states). The two
product changes are one by the first caller and one by Playerok or
the second caller. In `Paging` three entries make two pages of Playerok and two or three of
the worker, and a list of two fits in one; the second change may undo or repeat the first.
In `Adapter` a request departs from a plain one in one part, or in two that meet (options with
other keys, media with paths, category with type); each part takes every value the code treats
apart. Two calls are enough for an apply and a command, for a form and the create filled from
it, and for a product that is changed and sent back. One catalogue has a required field beyond
a page of two, the other a first obtaining type without an id; one category has no type with
an id at all. The six items have a type shown or not, a category or none, a field without its
value, a slug, no price. The change at Playerok falls between any two steps and takes a category, an option and the types away.
The proofs make these bounds irrelevant for the properties section 4 names.

*Deadlock* is not an error in these modules: a finite number of requests ends.

*Fairness.* `WorkerApi`: weak fairness of `LoopStep` only. The event loop runs on, no handler
awaits, and every call to Playerok ends within `PLAYEROK_REQUESTS_TIMEOUT` (3 to 300
seconds). It includes no restart and no particular order of waiting requests. The loops that
load lists are one step here; that they end needs Playerok's cursor to advance. `Paging`: weak
fairness of `Read`, the worker's steps and the caller's wish to read on.

## 4. Proofs

`tlapm` checks them for every instance: any set of requests, accounts, environments,
catalogues, products and entries, any number of steps. They rest on the named assumptions of
the modules about their constants: bounds are naturals, the sets of inputs are of the types
the code reads, texts include the names the worker itself uses, and what stands for something
absent is none of the values it is absent for, and a product has each data field once, which
`_to_worker_product` takes for granted when it shows them as an object. TLC evaluates them on every run.

Each component has an inductive invariant, of the types and of what a step relies on although
an earlier step established it. All of them were checked by TLC on the runs' instances first.

**WorkerApi** (`WorkerApiProofs`, `WorkerApiTheorems`).

* `Inv == TypeOK /\ HandlerConsistent`. `TypeOK` alone is not inductive: that the payload
  about to be recorded is one needs the handler's account, and the handler's properties need
  the types. `HandlerConsistent` is what a request may rely on although it looked only once: it
  acts for the bound account, its slot is still empty, and it ends with its process.
* `ExecutionsAccounted`, `AtMostOnce`: `Accounted`, the balance
  `executed = recorded + about to be recorded + lost` with `lost <= faults`, is inductive
  relative to `Inv`. From the balance and the empty slot of a running request the bound follows.
* `Settled`: a step that executes or records has an empty slot.
* `AnswersStayRecorded`: `Recorded`, the whole entry behind each answer, is inductive.
* `ReplacedNeverReturns`: a credential is stored only by a running apply, whose slot is empty,
  while the slot of an answered apply is recorded.
* `OneTenant`: inductive relative to `Inv`: secrets and records are written for the handler's
  account, which is the binding, and a binding never changes.
* `NamedAccountAnswered`: strengthened by `NamedRecords`: a slot whose target names an account
  holds a reply for that account.
* `CurrentCredentials`: the client is built from tables and environment that no step changes
  while the request runs.
* `KeepsTheLedger`: every step maps to a step of `ReplayLedger` or a stutter.

**ProductVersions** (`ProductVersionsProofs`): all the properties of its passing run.

* `Inv` joins three facts to the types. `SeenIsPast`: what a caller was shown once existed, and
  a stamp identifies the contents it was shown with. `CheckHolds`: an update between its two
  calls has passed the checks on a product only Playerok can have changed since.
  `OverwrittenStaysBehind`: a guarded request that was executed is answered, or its product is
  gone, or carries a later stamp than the version it names.
* The last one first said only "a later stamp or no product", and failed to be inductive: a
  delete takes the product away, and an old request must not rely on the stamp of a product
  that is no longer there. Its disjuncts say now which of the two commands they are about.
* `GuardedOnce` follows from it; `ConflictsHaveCause` and `SeenIsUpdated` from `SeenIsPast`
  and `CheckHolds`; `EditsSurvive` from what an update writes.

**AdapterCall** (`ItemPayloadProofs`, `AdapterCallProofs`, `AdapterCallTheorems`).

* `ItemPayloadProofs` states what each payload operator returns: `ReadOptionValues` a function
  of texts, `ReadDataFieldValues` a value under every name, `MediaPaths` and `ReadStringList`
  lists without blanks, `NormalizePrice` the nearest whole price.
* `Inv == TypeOK /\ OffersTyped /\ StoredValid /\ Located /\ SentChecked`. `Located` says what
  the local variables of a method hold at each point of it; without it no step could show that
  what it builds is typed. `StoredValid` is what `validate_marketplace_auth` has checked.
* `AcceptedSuffices` and `CredentialsWhole` follow from `StoredValid`, for every environment.
* `OutcomeKept`: every step maps to one of `CommandOutcome` or a stutter; the count of executions
  comes with the point of the method.
* `PricesNearest`, `OptionsAreOffered`, `RequiredGiven` and `NamedIsSent` need to know what
  has been gathered by the time a command is sent: `Progress`, a second invariant relative to
  the first. It had to say that types still to be looked up have the data fields to follow
  them: only then is nothing of a create sent that no lookup has checked.
* `NamedIsSent` says of each argument of `update_item` where it comes from: the options and the
  files are those the request names, all of them; the data fields are those it names that the
  first page of the obtaining type has; category and type are never sent. It has one hypothesis
  more, that `None` is no set of pairs or of texts. A module cannot assume it, because TLC does
  not compare a model value with such a set.
* `FormIsEnough`: `FormInv`, inductive relative to `Inv`, follows the form from the query to the
  create. A query has found what it no longer looks up (`QueryFinds`), so the form it shows is
  the catalogue's (`FormShown`) until Playerok changes; a create of origin `form` is one filled
  from it (`FilledFrom`); and such a create reaches the category and the type of the form with
  no refusal behind it (`OnItsWay`). The two ends meet in `PicksOffered` and `NoneMissing`:
  every pick is offered, no field that is asked for is missing, whatever the page size.
* `ListedReturns`, for every product the listing can show, with or without media, slug, price,
  type and category: `ListedInv`, inductive relative to `Inv` and `Progress`. While an update of
  origin `listed` runs, the product is still the one it was composed from, before and after its
  command: `ListedEffect` shows that a command with the title, price and values a product has
  leaves it as it is, which needs to know where the values sent come from (`FieldsGathered`) and
  that a name is given once (`FieldsOnce`, kept by every update). `ListedPasses` goes through
  the refusals of `products_update` and `update_item`: those that can be for it are the ones
  `SentBackRefused` names.

**Paging** (`PagingProofs`), for lists of any length, any limit and any page of Playerok.

* `Inv == TypeOK /\ Clocked /\ Gathered /\ Quiet`: times tell entries apart; what a request has
  loaded is later than what it has still to load, so that no entry is loaded twice; and while
  nothing changes, the caller has a prefix of the list it began with and a request has loaded
  a prefix of Playerok's order. `QuietExact` is the end of it.
* The sort is stated by ranks: an entry's place is the number of those before it
  (`SortedOf`, `RankTaken`: every place is taken, by one).
* `NothingIsOvertaken`: `Kept`, inductive relative to `Inv`: whatever the caller has not got is
  in what its next page is cut out of, at a rank not below its cursor. An arrival only raises
  ranks (`RankGrows`: those before an entry are mapped into those before it later).
* `RepeatsHaveCause`: `RepeatsCounted`, a balance for every moment of the reading. What was
  delivered twice, what the caller has and will get again because it lies behind its cursor,
  and what joined while the running request was loading, which will push one more there, are
  together no more than the changes. `RiseAbove` is the lemma under it: from one list to
  another, no more comes over a cursor than has joined, because the first c places stay full.
* `MissesHaveCause`: `MissesCounted`, the same in the other direction. What the cursor has
  passed over although it was not delivered, and what left during the load, which will pull
  one more over it, are together no more than left (`FallBelow`). It needs `Staying`: what has
  not moved since the caller began is in the list its page is cut from, and so has a rank.
  Counting at the ends of requests only is not inductive: a change in the middle of a load
  does not touch the page being loaded, but the request after it.

*Properties that were wrong.* The first two held in every instance of their run, and an attempt
to prove them showed that they do not hold of the code; the third said less than it seemed to.

* `MissesBounded` bounded what a reader of conversations misses by the number of entries that
  left or moved. But two conversations that move in turn, again and again between pages of
  Playerok, hide a third each time: with seven conversations in pages of one TLC finds three
  missed by two that moved. The bound is now the number of changes.
* `ListedComesBack` let an update of a listed product fail only for a required data field
  without a value. But a product that shows data fields and no type is refused with 409 if it
  has no category either, and with 400 if its category has no type with an id. No item of the
  instance was such a product; two now are, and the property names these refusals
  (`FieldsRefused`) and asks that nothing was executed.
* An update was said to leave out nothing that its request names, but only the presence of an
  argument was compared: a data field the obtaining type does not have is dropped without a
  word, and a category or obtaining type the request names is used for lookups and never sent.
  `UpdateSendsNamed` gives the contents of every argument instead.

Only model-checked: `RequestsEnd` and `ReadingEnds`, because liveness is out of the prover's
reach. Every other property of a passing run is a theorem. The violated ones are
counterexamples, which TLC finds and no proof is about.

## 5. Not modelled, and the plan

Not modelled: health, capabilities and product schemas (constant bodies); the token check of
`request_guard` (stateless, before anything modelled); packaging; the parsing of `config.py`
beyond what it yields; account info, messages, files and dates, which are copied field by
field; the games and categories that metadata lists beside the form.

Known limits of the properties, where the code does what a caller may not expect:

* A product sent back as it was listed may be refused, and `SentBackRefused` says for what: its
  media, which are shown as addresses and refused as such with 409; its slug, which
  `_read_option_values` takes for an option; the price 0 it is shown with when Playerok has none;
  data fields for which the worker finds no obtaining type, or of which a required one has no
  value. `ListedComesBack` asks that nothing was executed then.
* `FormSuffices` leaves out a form without an obtaining type: metadata takes the first type
  even if it has no id, a create the first that has one.
* `OptionsOfTheCategory` asks for options of the product's own category only if the request
  names no other; the options then belong to the category that is named.
* An update omits without a word the options and data fields of a product without a category,
  and data fields that the first page of the obtaining type does not have. `UpdateSendsNamed`
  says exactly which names are sent.
* `ConflictsAreReal` and `DeleteOnExpectedVersion` are about versions that `get_item` gave; one
  of the poorer profile entry differs from the product's although nothing changed.
* `NothingOvertaken` is limited to conversations within one page of Playerok; beyond it a moving
  conversation is missed, and `MissesBounded` counts how many.
* `ReplacedStaysReplaced` excludes an apply whose record was lost: its retry does put the older
  credentials back.
* `KeepsOutcome` lets 400 follow an executed command, like 500 and 502, because a conversion or an
  exception of the client after the command may be answered so.
* A null in `dataFields` becomes the text `None`; an infinite price is answered 502.

Done, in this order: requests and storage; `WorkerApi` with its runs; the ledger; the proofs of
`WorkerApi`; `ProductVersions`; `Paging`; `Credentials`, `ItemPayload` and `AdapterCall` with
the outcome it keeps; the proofs of `ProductVersions`, `AdapterCall` and `Paging`.

Next: the safety properties have their theorems. What is left are the components that
`PROJECT.json` lists as partly modelled, and its hazards without a property, each with the
reason beside it.
