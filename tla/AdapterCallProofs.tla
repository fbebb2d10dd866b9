------------------------- MODULE AdapterCallProofs -------------------------
(***************************************************************************)
(* Proofs about AdapterCall for every environment, every offer of Playerok *)
(* and every request: the types, the credentials, and how often a command  *)
(* is executed (CommandOutcome).                                           *)
(*                                                                         *)
(* The types alone are not inductive: the numbers of a request become      *)
(* arguments only past the refusals (SentChecked), the lookups find what   *)
(* they look up (OffersTyped), a client has a scheme only if a stored row  *)
(* passed the validation of apply (StoredValid).                           *)
(***************************************************************************)
EXTENDS AdapterCall, ItemPayloadProofs

----------------------------------------------------------------------------
(* The inductive invariant.                                                 *)

\* Playerok offers finitely many options, and so does a form.
OffersTyped ==
    /\ CatalogueType(catalogue)
    /\ IsFiniteSet(run.found.options)
    /\ form # None => IsFiniteSet(form.options)

\* Only what the validators of apply let through is stored, and a client was made
\* from the row that is there.
StoredValid ==
    /\ auth # None => validate_marketplace_auth(auth)
    /\ run.client # None => run.client = Resolved

\* Where a call is tells whether its command was executed, and what may follow.
Located ==
    /\ run.at # "idle" => run.answer = 0 /\ request # None
    /\ run.at = "idle" /\ run.answer = 0 => run.executions = 0
    /\ run.at = "convert" => run.executions = 1
    /\ run.at \notin {"idle", "convert"} => run.executions = 0
    /\ run.at \in {"command", "convert"} => run.sent # None
    /\ run.at \notin {"command", "convert", "idle"} => run.sent = None
    /\ run.at \in Lookups => run.at = Following(run.needs)
    /\ run.at = "compose" => run.needs = {}
    /\ "item" \in run.needs => request # None /\ request.op = "update"

\* The arguments of a command are those of its request, which was not refused.
SentChecked ==
    run.sent # None =>
        /\ request # None
        /\ request.op \in CommandOps
        /\ LateRefusal(request) = 0
        /\ run.sent = Composed(request)

Inv == TypeOK /\ OffersTyped /\ StoredValid /\ Located /\ SentChecked


----------------------------------------------------------------------------
(* The vocabulary.                                                          *)

\* A request has the parts its type says.
LEMMA RequestParts ==
    ASSUME NEW r \in RequestType
    PROVE  /\ r # None
           /\ r.op \in CommandOps \cup {"metadata"} /\ r.fit \in BOOLEAN
           /\ r.title \in Texts \cup {None}
           /\ r.price \in Nat \cup {None, NaN, Infinity}
           /\ r.media \in Seq(Texts \cup {Blank}) \cup {None}
           /\ r.version \in ItemType \cup {None}
           /\ Attributes(r) \in AttributeType
<1>1. NoAttributes \in AttributeType
  BY DEF NoAttributes, AttributeType
<1> QED
  BY <1>1, AbsentAssumption DEF RequestType, Attributes

\* And so has the run of a call.
LEMMA RunParts ==
    ASSUME NEW r \in Runs
    PROVE  /\ r.at \in Lookups \cup {"idle", "begin", "compose", "command", "convert"}
           /\ r.client \in Clients \cup {None}
           /\ r.found \in Forms
           /\ r.found.category \in Texts \cup {None} /\ r.found.type \in Texts \cup {None}
           /\ r.found.options \in PairSets
           /\ r.needs \in SUBSET Lookups
           /\ r.options \in PairSets \cup {None} /\ r.fields \in PairSets \cup {None}
           /\ r.sent \in Arguments \cup {None}
           /\ r.executions \in Nat /\ r.raised \in BOOLEAN
           /\ r.answer \in {0, 200, 400, 401, 404, 409, 500, 502}
  BY DEF Runs, Forms

\* The sets of these parts, so that a proof need not look into them.
Points == Lookups \cup {"idle", "begin", "compose", "command", "convert"}
SomeClient == Clients \cup {None}
SomePairs == PairSets \cup {None}
SomeArguments == Arguments \cup {None}
Statuses == {0, 200, 400, 401, 404, 409, 500, 502}

LEMMA RunsAre ==
    Runs = [at: Points, client: SomeClient, found: Forms, needs: SUBSET Lookups,
            options: SomePairs, fields: SomePairs, sent: SomeArguments,
            executions: Nat, raised: BOOLEAN, answer: Statuses]
  BY DEF Runs, Points, SomeClient, SomePairs, SomeArguments, Statuses

\* A call that has not begun, and what it becomes when it begins or is answered.
LEMMA IdleType == Idle \in Runs /\ IsFiniteSet(Idle.found.options)
  BY FS_EmptySet DEF Idle, Runs, Forms, PairSets, Lookups

\* It begins.
LEMMA Begun ==
    LET r == [Idle EXCEPT !.at = "begin"] IN
      /\ r \in Runs /\ r.at = "begin" /\ r.answer = 0
      /\ r.client = None /\ r.sent = None /\ r.executions = 0 /\ r.needs = {}
      /\ r.found = Idle.found /\ r.options = None /\ r.fields = None /\ ~r.raised
<1>1. "begin" \in Points
  BY DEF Points
<1>2. [Idle EXCEPT !.at = "begin"] \in Runs
  BY <1>1, IdleType, RunsAre
<1> QED
  BY <1>2 DEF Idle

\* It is answered at once.
LEMMA Told ==
    ASSUME NEW status \in {200, 400, 500}
    PROVE  LET r == [Idle EXCEPT !.answer = status] IN
             /\ r \in Runs /\ r.at = "idle" /\ r.answer = status
             /\ r.client = None /\ r.sent = None /\ r.executions = 0 /\ r.needs = {}
             /\ r.found = Idle.found
<1>1. status \in Statuses
  BY DEF Statuses
<1>2. [Idle EXCEPT !.answer = status] \in Runs
  BY <1>1, IdleType, RunsAre
<1> QED
  BY <1>2 DEF Idle

\* The status codes of exceptions.
LEMMA TranslatedIs ==
    ASSUME NEW exception
    PROVE  /\ _translate_exception(exception) \in {400, 401, 500, 502}
           /\ exception \in AfterExecution => _translate_exception(exception) \in {400, 502}
  BY DEF _translate_exception, AfterExecution

\* The status codes of refusals.
LEMMA RefusalIs ==
    ASSUME NEW r
    PROVE  /\ EarlyRefusal(r) \in {0, 400, 409}
           /\ ItemRefusal(r) \in {0, 404, 409}
  BY DEF EarlyRefusal, ItemRefusal

\* Those of what is left to refuse.
LEMMA LateRefusalIs ==
    ASSUME NEW r
    PROVE  LateRefusal(r) \in {0, 400, 409, 502}
<1>1. ASSUME NEW media
      PROVE  MediaRefusal(media) \in {0, 400, 409}
  BY DEF MediaRefusal
<1>2. PriceRefusal(r.price) \in {0, 400, 502}
  BY DEF PriceRefusal
<1> QED
  BY <1>1, <1>2 DEF LateRefusal

\* The lookup that follows is the first one needed, in the order of the operation.
LEMMA FollowingIs ==
    ASSUME NEW needs \in SUBSET Lookups
    PROVE  /\ request.op # "metadata" =>
                Following(needs) = IF "item" \in needs THEN "item"
                                   ELSE IF "types" \in needs THEN "types"
                                   ELSE IF "category" \in needs THEN "category"
                                   ELSE IF "fields" \in needs THEN "fields" ELSE "compose"
           /\ request.op = "metadata" =>
                Following(needs) = IF "category" \in needs THEN "category"
                                   ELSE IF "types" \in needs THEN "types"
                                   ELSE IF "fields" \in needs THEN "fields" ELSE "compose"
<1>1. ASSUME request.op # "metadata"
      PROVE  Following(needs) = IF "item" \in needs THEN "item"
                                ELSE IF "types" \in needs THEN "types"
                                ELSE IF "category" \in needs THEN "category"
                                ELSE IF "fields" \in needs THEN "fields" ELSE "compose"
  <2> DEFINE order == <<"item", "types", "category", "fields">>
             left == {i \in DOMAIN order : order[i] \in needs}
  <2>1. Following(needs) = IF left = {} THEN "compose" ELSE order[Min(left)]
    BY <1>1 DEF Following
  <2>2. DOMAIN order = 1..4
    OBVIOUS
  <2>3. left = {i \in 1..4 : order[i] \in needs}
    BY <2>2
  <2>4. left # {} => Min(left) \in left /\ \A n \in left : Min(left) <= n
    <3>1. left \subseteq Nat
      BY <2>3
    <3> HIDE DEF left
    <3> QED
      BY <3>1, MinOf
  <2>5. order[1] = "item" /\ order[2] = "types" /\ order[3] = "category" /\ order[4] = "fields"
    OBVIOUS
  <2> QED
    BY <2>1, <2>3, <2>4, <2>5
<1>2. ASSUME request.op = "metadata"
      PROVE  Following(needs) = IF "category" \in needs THEN "category"
                                ELSE IF "types" \in needs THEN "types"
                                ELSE IF "fields" \in needs THEN "fields" ELSE "compose"
  <2> DEFINE order == <<"category", "types", "fields">>
             left == {i \in DOMAIN order : order[i] \in needs}
  <2>1. Following(needs) = IF left = {} THEN "compose" ELSE order[Min(left)]
    BY <1>2 DEF Following
  <2>2. DOMAIN order = 1..3
    OBVIOUS
  <2>3. left = {i \in 1..3 : order[i] \in needs}
    BY <2>2
  <2>4. left # {} => Min(left) \in left /\ \A n \in left : Min(left) <= n
    <3>1. left \subseteq Nat
      BY <2>3
    <3> HIDE DEF left
    <3> QED
      BY <3>1, MinOf
  <2>5. order[1] = "category" /\ order[2] = "types" /\ order[3] = "fields"
    OBVIOUS
  <2> QED
    BY <2>1, <2>3, <2>4, <2>5
<1> QED
  BY <1>1, <1>2

\* It is one of those needed, if any is and the operation makes it.
LEMMA FollowingNeeded ==
    ASSUME NEW needs \in SUBSET Lookups
    PROVE  /\ Following(needs) \in Lookups \cup {"compose"}
           /\ Following(needs) \in needs \cup {"compose"}
           /\ Following(needs) = "compose" => needs \subseteq {"item"}
           /\ Following(needs) = "compose" /\ request.op # "metadata" => needs = {}
  BY FollowingIs DEF Lookups

----------------------------------------------------------------------------
(* Steps of a call, by what they do to it.                                  *)

\* What a step of a call leaves alone.
Beside ==
    /\ UNCHANGED <<situation, auth, catalogue, request, form, calls, changes>>
    /\ item' \in ItemType \cup {None}

\* The call is answered, wherever it was.
Ended ==
    /\ Beside
    /\ run.at # "idle"
    /\ run' \in Runs /\ run'.at = "idle" /\ run'.answer # 0
    /\ run'.found = run.found /\ run'.needs = run.needs /\ run'.client = run.client
    /\ run'.options = run.options /\ run'.fields = run.fields /\ run'.sent = run.sent

\* It is refused, before its command.
Refused ==
    /\ Ended
    /\ run'.answer \in {400, 404, 409}
    /\ run'.executions = run.executions /\ run'.raised = run.raised

\* Its data fields cannot be read.
FieldsMalformed == Attributes(request).dataFields = Malformed

\* It goes on to its next lookup, or to its command.
Going ==
    /\ Beside
    /\ run.at \in Lookups \cup {"begin"}
    /\ run' \in Runs /\ run'.at = Following(run'.needs)
    /\ "item" \in run'.needs => request.op = "update"
    /\ IsFiniteSet(run'.found.options)
    /\ run'.client \in {run.client, Resolved} /\ run'.sent = run.sent
    /\ run'.executions = run.executions /\ run'.answer = run.answer
    /\ run'.raised = run.raised

\* What a call keeps of r when it goes on.
Found(r) ==
    /\ run'.found = r.found /\ run'.needs = r.needs
    /\ run'.options = r.options /\ run'.fields = r.fields

\* What stays the same while the request, the row of credentials and the arguments do.
LEMMA SameBeside ==
    ASSUME Beside
    PROVE  /\ Resolved' = Resolved
           /\ \A needs \in SUBSET Lookups : Following(needs)' = Following(needs)
           /\ (env \in Environments)' = (env \in Environments)
  BY DEF Beside, Resolved, env, Following

\* And what is sent while the call keeps what it has found.
LEMMA SameArguments ==
    ASSUME request' = request, run'.found = run.found,
           run'.options = run.options, run'.fields = run.fields
    PROVE  /\ Composed(request)' = Composed(request)
           /\ LateRefusal(request)' = LateRefusal(request)
  BY DEF Composed, LateRefusal, Supported

\* An answer keeps the invariant.
LEMMA EndedKeeps ==
    ASSUME Inv, Ended
    PROVE  Inv'
<1>1. TypeOK'
  BY SameBeside DEF Inv, TypeOK, Ended, Beside
<1>2. OffersTyped'
  BY DEF Inv, OffersTyped, Ended, Beside
<1>3. StoredValid'
  BY SameBeside DEF Inv, StoredValid, Ended, Beside
<1>4. Located'
  BY DEF Inv, Located, Ended, Beside, Lookups
<1>5. SentChecked'
  BY SameArguments DEF Inv, SentChecked, Ended, Beside
<1> QED
  BY <1>1, <1>2, <1>3, <1>4, <1>5 DEF Inv

\* So does going on.
LEMMA GoingKeeps ==
    ASSUME Inv, Going
    PROVE  Inv'
<1>0. /\ run' \in Runs /\ run'.needs \in SUBSET Lookups
      /\ run.at \notin {"idle", "compose", "command", "convert"}
      /\ run.sent = None /\ run.executions = 0 /\ run.answer = 0 /\ request # None
  BY RunParts DEF Inv, Located, Going, Lookups
<1>1. TypeOK'
  BY SameBeside DEF Inv, TypeOK, Going, Beside
<1>2. OffersTyped'
  BY DEF Inv, OffersTyped, Going, Beside
<1>3. StoredValid'
  BY SameBeside DEF Inv, StoredValid, Going, Beside
<1>4. Located'
  <2>1. /\ run'.at \in Lookups \cup {"compose"}
        /\ run'.at = "compose" => run'.needs = {}
    BY <1>0, FollowingNeeded DEF Going, Inv, TypeOK, RequestType
  <2>2. Following(run.needs)' = run'.at
    BY <1>0, SameBeside DEF Going, Following, Beside
  <2> QED
    BY <1>0, <2>1, <2>2 DEF Located, Going, Beside, Lookups
<1>5. SentChecked'
  BY <1>0 DEF SentChecked, Going
<1> QED
  BY <1>1, <1>2, <1>3, <1>4, <1>5 DEF Inv

----------------------------------------------------------------------------
(* Credentials.                                                             *)

\* A row that passed the validation is read back as it was stored.
LEMMA StoredReadsBack ==
    ASSUME NEW row \in AuthPayloads, validate_marketplace_auth(row)
    PROVE  /\ read_marketplace_auth(row) = row
           /\ row # None /\ row.scheme \in Schemes
           /\ row.credentials \in [Names -> Secrets \cup {None}]
           /\ \A n \in Required(row.scheme) : row.credentials[n] # None
<1>1. /\ row.scheme \in Schemes
      /\ row.credentials \in [Names -> Secrets \cup {None, Blank}]
      /\ \A n \in Names : row.credentials[n] # Blank
      /\ \E n \in Names : row.credentials[n] # None
      /\ Required(row.scheme) \subseteq {n \in Names : row.credentials[n] # None}
  BY DEF validate_marketplace_auth, AuthPayloads, Given
<1>2. row.credentials = [n \in Names |-> row.credentials[n]]
  BY <1>1
<1>3. [n \in Names |-> IF row.credentials[n] = Blank THEN None ELSE row.credentials[n]]
        = row.credentials
  BY <1>1
<1>4. row # None
  BY AbsentAssumption
<1>5. ~(row = None \/ \A n \in Names : row.credentials[n] \in {None, Blank})
  BY <1>1, <1>4
<1>6. read_marketplace_auth(row) = [row EXCEPT !.credentials = row.credentials]
  BY <1>3, <1>5 DEF read_marketplace_auth
<1>7. [row EXCEPT !.credentials = row.credentials] = row
  BY DEF AuthPayloads
<1> QED
  BY <1>1, <1>4, <1>6, <1>7

\* The client of a stored row that passed the validation has what the row has, and
\* that is what its scheme needs; without a row the client is of the environment.
LEMMA ResolvedIs ==
    ASSUME TypeOK, StoredValid
    PROVE  /\ Resolved \in Clients
           /\ auth # None =>
                /\ Usable(Resolved)
                /\ Resolved.scheme = auth.scheme
                /\ \A n \in {"token", "ddg5", "cookies"} :
                      Resolved.credentials[n] =
                         IF n \in Required(auth.scheme) THEN auth.credentials[n] ELSE None
<1>0. env \in [Names -> Secrets \cup {None}] /\ auth \in AuthPayloads \cup {None}
  BY DEF TypeOK, Environments
<1>1. CASE auth = None
  <2>1. read_marketplace_auth(auth) = None
    BY <1>1 DEF read_marketplace_auth
  <2>2. Scheme(None, env) \in Schemes
    BY DEF Scheme, Schemes
  <2> DEFINE scheme == Scheme(None, env)
             given == _bootstrap_credentials_from_env(scheme, env)
  <2>3. given \in [Names -> Secrets \cup {None}]
    BY <1>0 DEF _bootstrap_credentials_from_env
  <2>4. Resolved = [scheme |-> scheme,
                    credentials |-> [n \in Names |->
                       IF n \in Required(scheme) \cup {"user_agent"} THEN Or(given[n], env[n])
                       ELSE None]]
    BY <2>1 DEF Resolved, PlayerokCredentials
  <2>5. \A n \in Names : Or(given[n], env[n]) \in Secrets \cup {None}
    BY <1>0, <2>3 DEF Or
  <2> QED
    BY <1>1, <2>2, <2>4, <2>5 DEF Clients
<1>2. CASE auth # None
  <2>1. auth \in AuthPayloads /\ validate_marketplace_auth(auth)
    BY <1>0, <1>2 DEF StoredValid
  <2>2. /\ read_marketplace_auth(auth) = auth
        /\ auth.scheme \in Schemes
        /\ auth.credentials \in [Names -> Secrets \cup {None}]
        /\ \A n \in Required(auth.scheme) : auth.credentials[n] # None
    BY <2>1, StoredReadsBack
  <2>3. Resolved = [scheme |-> auth.scheme,
                    credentials |-> [n \in Names |->
                       IF n \in Required(auth.scheme) \cup {"user_agent"}
                       THEN Or(auth.credentials[n], env[n]) ELSE None]]
    BY <1>2, <2>2 DEF Resolved, PlayerokCredentials, Scheme
  <2>4. \A n \in Names : Or(auth.credentials[n], env[n]) \in Secrets \cup {None}
    BY <1>0, <2>2 DEF Or
  <2>5. Required(auth.scheme) \subseteq Names
    BY DEF Required, Names
  <2>6. \A n \in Required(auth.scheme) : Resolved.credentials[n] = auth.credentials[n]
    BY <2>2, <2>3, <2>5 DEF Or
  <2>7. Resolved \in Clients
    BY <2>2, <2>3, <2>4 DEF Clients
  <2>8. Usable(Resolved)
    BY <2>2, <2>3, <2>5, <2>6 DEF Usable, Given
  <2>9. \A n \in {"token", "ddg5", "cookies"} :
           Resolved.credentials[n] =
              IF n \in Required(auth.scheme) THEN auth.credentials[n] ELSE None
    BY <2>3, <2>6 DEF Names
  <2> QED
    BY <2>3, <2>7, <2>8, <2>9
<1> QED
  BY <1>1, <1>2

----------------------------------------------------------------------------
(* What callers compose from answers.                                       *)

\* A field filled in by the caller: any of them with a text.
LEMMA EntryType ==
    ASSUME NEW name \in Texts, NEW value \in Texts \cup {Blank}
    PROVE  [name |-> name, value |-> value] \in NamedEntries
  BY DEF NamedEntries, Scalars

\* The entries a caller fills in, for the options of a form and for required fields.
OptionEntries(pick) == {[name |-> f, value |-> pick[f]] : f \in DOMAIN pick}

FieldEntries == {[name |-> id, value |-> SomeText] : id \in RequiredIds}

\* They are finitely many, and texts.
LEMMA OptionEntriesType ==
    ASSUME form \in Forms, IsFiniteSet(form.options), NEW pick \in OptionPicks
    PROVE  /\ IsFiniteSet(OptionEntries(pick)) /\ OptionEntries(pick) \subseteq NamedEntries
           /\ DOMAIN pick = {o[1] : o \in form.options}
           /\ \A f \in DOMAIN pick : f \in Texts /\ pick[f] \in Texts
           /\ Pairs(pick) \subseteq form.options
<1>1. /\ DOMAIN pick = {o[1] : o \in form.options}
      /\ \A f \in DOMAIN pick : pick[f] \in {o[2] : o \in form.options}
      /\ Pairs(pick) \subseteq form.options
  BY DEF OptionPicks
<1>2. form.options \subseteq Texts \X Texts
  BY DEF Forms, PairSets
<1>3. \A f \in DOMAIN pick : f \in Texts /\ pick[f] \in Texts
  BY <1>1, <1>2
<1>4. IsFiniteSet(DOMAIN pick)
  <2> DEFINE g == [o \in form.options |-> o[1]]
  <2>1. IsFiniteSet({g[o] : o \in form.options})
    <3>1. DOMAIN g = form.options
      OBVIOUS
    <3> HIDE DEF g
    <3> QED
      BY <3>1, ImageFinite
  <2>2. {g[o] : o \in form.options} = {o[1] : o \in form.options}
    OBVIOUS
  <2> QED
    BY <1>1, <2>1, <2>2
<1>5. IsFiniteSet(OptionEntries(pick))
  <2> DEFINE g == [f \in DOMAIN pick |-> [name |-> f, value |-> pick[f]]]
  <2>1. IsFiniteSet({g[f] : f \in DOMAIN pick})
    <3>1. DOMAIN g = DOMAIN pick
      OBVIOUS
    <3> HIDE DEF g
    <3> QED
      BY <1>4, <3>1, ImageFinite
  <2>2. {g[f] : f \in DOMAIN pick} = OptionEntries(pick)
    BY DEF OptionEntries
  <2> QED
    BY <2>1, <2>2
<1> QED
  BY <1>1, <1>3, <1>5, EntryType DEF OptionEntries

\* So are those of the fields.
LEMMA FieldEntriesType ==
    ASSUME form \in Forms
    PROVE  /\ IsFiniteSet(FieldEntries) /\ FieldEntries \subseteq NamedEntries
           /\ RequiredIds \subseteq Texts
<1> DEFINE asked == {e \in ToSet(form.fields) : e.required}
<1>1. form.fields \in Seq(DataFields)
  BY DEF Forms
<1>2. asked \subseteq ToSet(form.fields) /\ asked \subseteq DataFields /\ IsFiniteSet(asked)
  <2>1. asked \subseteq ToSet(form.fields) /\ ToSet(form.fields) \subseteq DataFields
    BY <1>1, ToSetOf
  <2> QED
    BY <1>1, <2>1, ToSetFinite, FS_Subset
<1>3. RequiredIds \subseteq Texts
  BY <1>2 DEF RequiredIds, DataFields
<1>4. IsFiniteSet(RequiredIds)
  <2> DEFINE g == [d \in asked |-> d.id]
  <2>1. IsFiniteSet({g[d] : d \in asked})
    <3>1. DOMAIN g = asked
      OBVIOUS
    <3> HIDE DEF g
    <3> QED
      BY <1>2, <3>1, ImageFinite
  <2>2. RequiredIds \subseteq {g[d] : d \in asked}
    BY DEF RequiredIds
  <2> QED
    BY <2>1, <2>2, FS_Subset
<1>5. IsFiniteSet(FieldEntries)
  <2> DEFINE g == [id \in RequiredIds |-> [name |-> id, value |-> SomeText]]
  <2>1. IsFiniteSet({g[id] : id \in RequiredIds})
    <3>1. DOMAIN g = RequiredIds
      OBVIOUS
    <3> HIDE DEF g
    <3> QED
      BY <1>4, <3>1, ImageFinite
  <2>2. {g[id] : id \in RequiredIds} = FieldEntries
    BY DEF FieldEntries
  <2> QED
    BY <2>1, <2>2
<1> QED
  BY <1>3, <1>5, EntryType, CallBounds DEF FieldEntries

\* What a form is filled with are attributes of a request.
LEMMA FilledWithType ==
    ASSUME form \in Forms, IsFiniteSet(form.options), form.category # None,
           NEW type \in Texts \cup {None}, NEW pick \in OptionPicks
    PROVE  LET a == FilledWith(type, pick) IN
             /\ a \in AttributeType
             /\ a.gameCategoryId = <<form.category>> /\ a.obtainingTypeId = <<type>>
             /\ a.options = SetToSeq(OptionEntries(pick)) /\ a.extras = <<>>
             /\ a.dataFields = SetToSeq(FieldEntries)
<1> DEFINE a == FilledWith(type, pick)
<1>1. a = [NoAttributes EXCEPT
              !.gameCategoryId = <<form.category>>, !.obtainingTypeId = <<type>>,
              !.options = SetToSeq(OptionEntries(pick)), !.dataFields = SetToSeq(FieldEntries)]
  BY DEF FilledWith, OptionEntries, FieldEntries
<1>2. SetToSeq(OptionEntries(pick)) \in Seq(NamedEntries)
  <2>1. IsFiniteSet(OptionEntries(pick)) /\ OptionEntries(pick) \subseteq NamedEntries
    BY OptionEntriesType
  <2>2. SetToSeq(OptionEntries(pick)) \in Seq(OptionEntries(pick))
    BY <2>1, SetToSeqOf
  <2> QED
    BY <2>1, <2>2
<1>3. SetToSeq(FieldEntries) \in Seq(NamedEntries)
  <2>1. IsFiniteSet(FieldEntries) /\ FieldEntries \subseteq NamedEntries
    BY FieldEntriesType
  <2>2. SetToSeq(FieldEntries) \in Seq(FieldEntries)
    BY <2>1, SetToSeqOf
  <2> QED
    BY <2>1, <2>2
<1>4. /\ <<form.category>> \in Seq(Scalars \cup {None})
      /\ <<type>> \in Seq(Scalars \cup {None})
  BY DEF Scalars, Forms
<1>5. /\ a.gameCategoryId = <<form.category>> /\ a.obtainingTypeId = <<type>>
      /\ a.options = SetToSeq(OptionEntries(pick)) /\ a.extras = <<>>
      /\ a.dataFields = SetToSeq(FieldEntries)
  BY <1>1 DEF NoAttributes
<1>6. a \in AttributeType
  <2> HIDE DEF a
  <2> QED
    BY <1>1, <1>2, <1>3, <1>4, AttributesFilled
<1> QED
  BY <1>5, <1>6

\* So a create filled from a form is a request.
LEMMA FilledType ==
    ASSUME TypeOK, OffersTyped, form # None, form.category # None, NEW r \in Filled
    PROVE  /\ r \in RequestType /\ r.op = "create" /\ r.origin = "form"
           /\ r.fit /\ r.price = 4 /\ r.media = None /\ r.attributes # None
           /\ \E type \in Texts \cup {None}, pick \in OptionPicks :
                 /\ r.attributes = FilledWith(type, pick)
                 /\ type # form.type =>
                       type = None /\ form.type = ReadOptionalAttr(form.types)
<1>1. form \in Forms /\ form.type \in Texts \cup {None} /\ IsFiniteSet(form.options)
  BY DEF TypeOK, OffersTyped, Forms
<1>2. PICK type \in {form.type} \cup
              IF form.type = ReadOptionalAttr(form.types) THEN {None} ELSE {},
           pick \in OptionPicks :
        r = CreateWith(FilledWith(type, pick))
  BY DEF Filled
<1>3. type \in Texts \cup {None}
  BY <1>1, <1>2
<1>4. FilledWith(type, pick) \in AttributeType
  BY <1>1, <1>2, <1>3, FilledWithType
<1>5. r \in RequestType
  BY <1>2, <1>4, CallBounds DEF CreateWith, Plain, RequestType, CommandOps
<1>6. r.attributes = FilledWith(type, pick) /\ r.attributes # None
  BY <1>2, <1>4, AbsentAssumption DEF CreateWith, Plain
<1> QED
  BY <1>2, <1>3, <1>5, <1>6 DEF CreateWith, Plain

\* A version is an item without data fields.
LEMMA VersionType ==
    ASSUME NEW i \in ItemType
    PROVE  Version(i) \in ItemType
<1>1. <<>> \in Seq([name: Texts, value: Texts \cup {Blank}])
  OBVIOUS
<1> QED
  BY <1>1 DEF Version, ItemType

\* A product sent back as it was listed is a request.
LEMMA ListedType ==
    ASSUME item \in ItemType, NEW r \in Listed
    PROVE  /\ r \in RequestType /\ r.op = "update" /\ r.origin = "listed"
           /\ r.attributes \in AttributeType
<1>1. PICK slug \in {<<>>} \cup IF item.slug = None THEN {}
                                ELSE {<<[name |-> "slug", value |-> item.slug]>>} :
        \E shown \in {None, <<Remote>>} : r = UpdateWith(ListedWith(slug), shown)
  BY DEF Listed
<1> PICK media \in {None, <<Remote>>} : r = UpdateWith(ListedWith(slug), media)
  BY <1>1
<1>2. /\ item.title \in Texts /\ item.price \in Nat \cup {None}
      /\ item.status \in DOMAIN WorkerStatus
      /\ item.category \in Texts \cup {None} /\ item.type \in Texts \cup {None}
      /\ item.dataFields \in Seq([name: Texts, value: Texts \cup {Blank}])
      /\ item.slug \in Texts \cup {None} /\ item.raw \in BOOLEAN
  BY DEF ItemType
<1>3. ListedWith(slug) \in AttributeType
  <2> DEFINE rest == IF item.raw THEN <<[name |-> SomeText, value |-> Malformed]>> ELSE <<>>
             fields == IF item.dataFields = <<>> THEN None ELSE item.dataFields
  <2>1. /\ <<item.category>> \in Seq(Scalars \cup {None})
        /\ <<item.type>> \in Seq(Scalars \cup {None})
    BY <1>2 DEF Scalars
  <2>2. slug \in Seq(ExtraEntries)
    <3>1. CASE slug = <<>>
      BY <3>1
    <3>2. CASE slug # <<>>
      <4>1. item.slug \in Texts /\ slug = <<[name |-> "slug", value |-> item.slug]>>
        BY <1>1, <1>2, <3>2
      <4>2. [name |-> "slug", value |-> item.slug] \in ExtraEntries
        BY <4>1, NameAssumption DEF ExtraEntries, Scalars
      <4> QED
        BY <4>1, <4>2, SeqOfOne
    <3> QED
      BY <3>1, <3>2
  <2>3. rest \in Seq(ExtraEntries)
    <3>1. [name |-> SomeText, value |-> Malformed] \in ExtraEntries
      BY CallBounds DEF ExtraEntries
    <3> QED
      BY <3>1, SeqOfOne
  <2>4. slug \o rest \in Seq(ExtraEntries)
    BY <2>2, <2>3, ConcatProperties
  <2>5. fields \in Seq(NamedEntries) \cup {None, Null, Malformed}
    <3>1. [name: Texts, value: Texts \cup {Blank}] \subseteq NamedEntries
      BY DEF NamedEntries, Scalars
    <3>2. item.dataFields \in Seq(NamedEntries)
      BY <1>2, <3>1, SeqWider
    <3> QED
      BY <3>2
  <2>6. ListedWith(slug) =
          [NoAttributes EXCEPT !.gameCategoryId = <<item.category>>,
             !.obtainingTypeId = <<item.type>>, !.extras = slug \o rest, !.dataFields = fields]
    BY DEF ListedWith
  <2>7. [NoAttributes EXCEPT !.gameCategoryId = <<item.category>>,
             !.obtainingTypeId = <<item.type>>, !.extras = slug \o rest, !.dataFields = fields]
          \in AttributeType
    <3> DEFINE extras == slug \o rest
               category == <<item.category>>
               type == <<item.type>>
    <3> HIDE DEF rest, fields
    <3>1. extras \in Seq(ExtraEntries)
      BY <2>4
    <3>2. category \in Seq(Scalars \cup {None}) /\ type \in Seq(Scalars \cup {None})
      BY <2>1
    <3> HIDE DEF extras, category, type
    <3>3. [NoAttributes EXCEPT !.gameCategoryId = category, !.obtainingTypeId = type,
                               !.extras = extras, !.dataFields = fields] \in AttributeType
      BY <2>5, <3>1, <3>2, AttributesListed
    <3> QED
      BY <3>3 DEF extras, category, type
  <2> HIDE DEF rest, fields
  <2> QED
    BY <2>6, <2>7
<1>4. Version(item) \in ItemType
  BY VersionType
<1>5. WorkerStatus[item.status] \in Texts
  BY <1>2, NameAssumption
<1>6. 4 * Or(item.price, 0) \in Nat
  BY <1>2 DEF Or
<1>7. r \in RequestType
  <2>1. media \in Seq(Texts \cup {Blank}) \cup {None}
    <3>1. Remote \in Texts \cup {Blank}
      BY NameAssumption
    <3> QED
      BY <3>1, SeqOfOne
  <2> HIDE DEF Version, Remote
  <2> QED
    BY <2>1, <1>2, <1>3, <1>4, <1>5, <1>6 DEF UpdateWith, Plain, RequestType, CommandOps
<1> QED
  BY <1>3, <1>7 DEF UpdateWith, Plain

----------------------------------------------------------------------------
(* Every step keeps the invariant: the caller and Playerok.                 *)

\* A behaviour starts in the invariant.
LEMMA InitInv == Init => Inv
<1> SUFFICES ASSUME Init
             PROVE  Inv
  OBVIOUS
<1>1. /\ Idle \in Runs /\ Idle.at = "idle" /\ Idle.client = None /\ Idle.sent = None
      /\ Idle.answer = 0 /\ Idle.executions = 0 /\ Idle.needs = {}
      /\ IsFiniteSet(Idle.found.options)
  BY IdleType DEF Idle
<1>2. TypeOK
  BY <1>1, SituationAssumption, CallBounds DEF Init, TypeOK, env
<1>3. OffersTyped
  BY <1>1, SituationAssumption DEF Init, OffersTyped
<1>4. StoredValid /\ SentChecked
  BY <1>1 DEF Init, StoredValid, SentChecked
<1>5. Located
  BY <1>1 DEF Init, Located, Lookups
<1> QED
  BY <1>2, <1>3, <1>4, <1>5 DEF Inv

\* A request that is asked keeps it.
LEMMA AskKeeps ==
    ASSUME Inv, NEW r \in RequestType, Ask(r)
    PROVE  Inv'
<1>0. /\ run' = [Idle EXCEPT !.at = "begin"] /\ request' = r
      /\ UNCHANGED <<situation, auth, catalogue, item, form, changes>>
      /\ calls < MaxCalls /\ calls' = calls + 1
  BY DEF Ask, Call
<1>1. /\ run' \in Runs /\ run'.at = "begin" /\ run'.answer = 0
      /\ run'.client = None /\ run'.sent = None /\ run'.executions = 0 /\ run'.needs = {}
      /\ run'.found = Idle.found
  BY <1>0, Begun
<1>2. TypeOK'
  BY <1>0, <1>1, CallBounds DEF Inv, TypeOK, env
<1>3. OffersTyped'
  BY <1>0, <1>1, IdleType DEF Inv, OffersTyped
<1>4. StoredValid' /\ SentChecked'
  BY <1>0, <1>1 DEF Inv, StoredValid, SentChecked
<1>5. Located'
  BY <1>0, <1>1, RequestParts DEF Located, Lookups
<1> QED
  BY <1>2, <1>3, <1>4, <1>5 DEF Inv

\* Whatever it was composed from.
LEMMA CallerKeeps ==
    ASSUME Inv, (\E r \in offered.requests : Ask(r)) \/ AskFilled \/ AskListed
    PROVE  Inv'
<1>1. CASE \E r \in offered.requests : Ask(r)
  <2>1. offered.requests \subseteq RequestType
    BY SituationAssumption DEF Inv, TypeOK, offered
  <2> QED
    BY <1>1, <2>1, AskKeeps
<1>2. CASE AskFilled
  <2>1. PICK r \in Filled : Ask(r)
    BY <1>2 DEF AskFilled
  <2>2. r \in RequestType
    BY <1>2, FilledType DEF AskFilled, Inv
  <2> QED
    BY <2>1, <2>2, AskKeeps
<1>3. CASE AskListed
  <2>1. PICK r \in Listed : Ask(r)
    BY <1>3 DEF AskListed
  <2>2. r \in RequestType
    BY <1>3, ListedType DEF AskListed, Inv, TypeOK
  <2> QED
    BY <2>1, <2>2, AskKeeps
<1> QED
  BY <1>1, <1>2, <1>3

\* So does an apply, accepted or not.
LEMMA ApplyKeeps ==
    ASSUME Inv, NEW payload \in offered.applies, ApplyAuth(payload)
    PROVE  Inv'
<1>0. /\ request' = None
      /\ UNCHANGED <<situation, catalogue, item, form, changes>>
      /\ calls < MaxCalls /\ calls' = calls + 1
      /\ \/ auth' = payload /\ payload # Malformed /\ validate_marketplace_auth(payload)
         \/ auth' = auth
  BY DEF ApplyAuth, Call
<1>1. /\ run' \in Runs /\ run'.at = "idle" /\ run'.answer \in {200, 400, 500}
      /\ run'.client = None /\ run'.sent = None /\ run'.executions = 0 /\ run'.needs = {}
      /\ run'.found = Idle.found
  <2>1. PICK status \in {200, 400, 500} : run' = [Idle EXCEPT !.answer = status]
    BY DEF ApplyAuth
  <2> QED
    BY <2>1, Told
<1>2. payload # Malformed => payload \in AuthPayloads
  BY SituationAssumption DEF Inv, TypeOK, offered
<1>3. TypeOK'
  BY <1>0, <1>1, <1>2, CallBounds DEF Inv, TypeOK, env
<1>4. OffersTyped'
  BY <1>0, <1>1, IdleType DEF Inv, OffersTyped
<1>5. StoredValid' /\ SentChecked'
  BY <1>0, <1>1 DEF Inv, StoredValid, SentChecked
<1>6. Located'
  BY <1>0, <1>1 DEF Located, Lookups
<1> QED
  BY <1>3, <1>4, <1>5, <1>6 DEF Inv

\* What Playerok does beside the calls keeps it too.
LEMMA ChangedKeeps ==
    ASSUME Inv, ChangeCatalogue \/ ChangeItem
    PROVE  Inv'
<1>0. /\ UNCHANGED <<situation, auth, request, run, form, calls>>
      /\ changes < MaxChanges /\ changes' = changes + 1
      /\ catalogue' \in Catalogues \cup {catalogue}
      /\ item' \in Items \cup {None, item}
  BY DEF ChangeCatalogue, ChangeItem, Changed
<1>1. TypeOK'
  BY <1>0, SituationAssumption, CallBounds DEF Inv, TypeOK, env
<1>2. OffersTyped'
  BY <1>0, SituationAssumption DEF Inv, OffersTyped
<1>3. StoredValid'
  BY <1>0 DEF Inv, StoredValid, Resolved, env
<1>4. Located'
  BY <1>0 DEF Inv, Located, Following
<1>5. SentChecked'
  BY <1>0, SameArguments DEF Inv, SentChecked
<1> QED
  BY <1>1, <1>2, <1>3, <1>4, <1>5 DEF Inv

----------------------------------------------------------------------------
(* Every step keeps the invariant: the call.                                *)

\* A call that is answered has ended.
LEMMA AnswerEnds ==
    ASSUME Inv, Beside, run.at # "idle", NEW status \in Statuses \ {0},
           Answer(status)
    PROVE  /\ Ended /\ run'.answer = status
           /\ run'.executions = run.executions /\ run'.raised = run.raised
<1>1. run \in Runs /\ "idle" \in Points /\ status # 0
  BY DEF Inv, TypeOK, Points
<1>2. run' \in Runs
  BY <1>1, RunsAre DEF Answer
<1>3. /\ run'.at = "idle" /\ run'.answer = status
      /\ run'.executions = run.executions /\ run'.raised = run.raised
      /\ run'.found = run.found /\ run'.needs = run.needs /\ run'.client = run.client
      /\ run'.options = run.options /\ run'.fields = run.fields /\ run'.sent = run.sent
  BY <1>1, RunsAre DEF Answer
<1> QED
  BY <1>1, <1>2, <1>3 DEF Ended

\* So has one that something from Playerok has failed.
LEMMA FailureEnds ==
    ASSUME Inv, Beside, run.at # "idle", NEW status \in Statuses \ {0},
           run' = [run EXCEPT !.at = "idle", !.raised = TRUE, !.answer = status]
    PROVE  Ended
<1>1. run \in Runs /\ "idle" \in Points /\ status # 0
  BY DEF Inv, TypeOK, Points
<1>2. run' \in Runs
  BY <1>1, RunsAre
<1>3. /\ run'.at = "idle" /\ run'.answer # 0
      /\ run'.found = run.found /\ run'.needs = run.needs /\ run'.client = run.client
      /\ run'.options = run.options /\ run'.fields = run.fields /\ run'.sent = run.sent
  BY <1>1, RunsAre
<1> QED
  BY <1>2, <1>3 DEF Ended

\* Even when it had executed its command.
LEMMA CommandEnds ==
    ASSUME Inv, Beside, run.at # "idle", NEW status \in Statuses \ {0},
           NEW more \in Nat,
           run' = [run EXCEPT !.at = "idle", !.executions = @ + more, !.raised = TRUE,
                                 !.answer = status]
    PROVE  Ended
<1>1. run \in Runs /\ "idle" \in Points /\ status # 0 /\ run.executions + more \in Nat
  BY RunParts DEF Inv, TypeOK, Points
<1>2. run' \in Runs
  BY <1>1, RunsAre
<1>3. /\ run'.at = "idle" /\ run'.answer # 0
      /\ run'.found = run.found /\ run'.needs = run.needs /\ run'.client = run.client
      /\ run'.options = run.options /\ run'.fields = run.fields /\ run'.sent = run.sent
  BY <1>1, RunsAre
<1> QED
  BY <1>2, <1>3 DEF Ended

\* What leaves the product and the form alone leaves all else alone.
LEMMA StepBeside ==
    ASSUME Inv, NEW point, Step(point)
    PROVE  Beside /\ run.at = point
  BY DEF Inv, TypeOK, Step, Asides, Beside

\* A call that proceeds goes on, or is refused for its data fields.
LEMMA ProceedGoes ==
    ASSUME Inv, Beside, run.at \in Lookups \cup {"begin"}, NEW r \in Runs, Proceed(r),
           r.client \in {run.client, Resolved}, r.sent = run.sent,
           r.executions = run.executions, r.answer = run.answer, r.raised = run.raised,
           IsFiniteSet(r.found.options), "item" \in r.needs => request.op = "update"
    PROVE  (Refused /\ run'.answer = 400 /\ FieldsMalformed) \/ (Going /\ Found(r))
<1>1. CASE Answer(400) /\ FieldsMalformed
  <2>1. run.at # "idle" /\ 400 \in Statuses \ {0}
    BY DEF Lookups, Statuses
  <2> QED
    BY <1>1, <2>1, AnswerEnds DEF Refused
<1>2. CASE run' = [r EXCEPT !.at = Following(r.needs)]
  <2>1. r.needs \in SUBSET Lookups
    BY RunParts
  <2>2. Following(r.needs) \in Points
    BY <2>1, FollowingNeeded DEF Points
  <2>3. /\ run' \in Runs /\ run'.at = Following(r.needs) /\ run'.needs = r.needs
        /\ run'.found = r.found /\ run'.client = r.client /\ run'.sent = r.sent
        /\ run'.executions = r.executions /\ run'.answer = r.answer /\ run'.raised = r.raised
        /\ run'.options = r.options /\ run'.fields = r.fields
    BY <1>2, <2>2, RunsAre
  <2> QED
    BY <2>3 DEF Going, Found
<1> QED
  BY <1>1, <1>2 DEF Proceed, FieldsMalformed

\* Refusals, failed lookups and the answers after a command end the call.
LEMMA AnswersEnd ==
    ASSUME Inv,
           \/ RefuseEarly \/ RefuseLate \/ NotRemoved \/ Convert \/ ConvertFails
           \/ \E exception \in Exceptions : LookupRaises(exception)
    PROVE  Ended
<1>1. CASE RefuseEarly
  <2>1. EarlyRefusal(request) \in Statuses \ {0}
    BY <1>1, RefusalIs DEF RefuseEarly, Statuses
  <2> QED
    BY <1>1, <2>1, StepBeside, AnswerEnds DEF RefuseEarly
<1>2. CASE RefuseLate
  <2>1. LateRefusal(request) \in Statuses \ {0}
    BY <1>2, LateRefusalIs DEF RefuseLate, Statuses
  <2> QED
    BY <1>2, <2>1, StepBeside, AnswerEnds DEF RefuseLate
<1>3. CASE NotRemoved
  <2>1. 502 \in Statuses \ {0}
    BY DEF Statuses
  <2>2. Beside /\ run.at # "idle"
    BY <1>3, StepBeside DEF NotRemoved
  <2>3. run' = [run EXCEPT !.at = "idle", !.raised = TRUE, !.answer = 502]
    BY <1>3 DEF NotRemoved
  <2> QED
    BY <2>1, <2>2, <2>3, FailureEnds
<1>4. CASE Convert
  <2>1. 200 \in Statuses \ {0}
    BY DEF Statuses
  <2> QED
    BY <1>4, <2>1, StepBeside, AnswerEnds DEF Convert
<1>5. CASE ConvertFails
  <2> DEFINE Fails(status) ==
                run' = [run EXCEPT !.at = "idle", !.raised = TRUE, !.answer = status]
  <2>1. Fails(400) \/ Fails(500)
    BY <1>5 DEF ConvertFails
  <2>2. 400 \in Statuses \ {0}
    BY DEF Statuses
  <2>3. 500 \in Statuses \ {0}
    BY DEF Statuses
  <2>4. Step("convert")
    BY <1>5 DEF ConvertFails
  <2>5. Beside /\ run.at # "idle"
    BY <2>4, StepBeside
  <2>6. CASE Fails(400)
    BY <2>2, <2>5, <2>6, FailureEnds
  <2>7. CASE Fails(500)
    BY <2>3, <2>5, <2>7, FailureEnds
  <2> QED
    BY <2>1, <2>6, <2>7
<1>6. CASE \E exception \in Exceptions : LookupRaises(exception)
  <2>1. PICK exception \in Exceptions : LookupRaises(exception)
    BY <1>6
  <2>2. _translate_exception(exception) \in Statuses \ {0}
    BY TranslatedIs DEF Statuses
  <2>3. Beside /\ run.at # "idle"
    BY <2>1, StepBeside DEF LookupRaises, Lookups
  <2> QED
    BY <2>1, <2>2, <2>3, FailureEnds DEF LookupRaises
<1> QED
  BY <1>1, <1>2, <1>3, <1>4, <1>5, <1>6

\* A data field of a product is still one when its value was updated.
LEMMA EffectType ==
    ASSUME TypeOK, run.sent # None
    PROVE  Effect \in ItemType \cup {None}
<1>1. CASE request.op = "update" /\ item # None
  <2> DEFINE D == [name: Texts, value: Texts \cup {Blank}]
             given == Or(run.sent.fields, {})
             Updated(d) ==
                IF \E p \in given : p[1] = d.name
                THEN [d EXCEPT !.value = (CHOOSE p \in given : p[1] = d.name)[2]] ELSE d
             fields == [i \in DOMAIN item.dataFields |-> Updated(item.dataFields[i])]
  <2>1. /\ item \in ItemType
        /\ item.title \in Texts /\ item.price \in Nat \cup {None} /\ item.dataFields \in Seq(D)
    BY <1>1 DEF TypeOK, ItemType
  <2>2. /\ run.sent \in Arguments
        /\ run.sent.title \in Texts \cup {None} /\ run.sent.price \in Nat \cup {None}
        /\ run.sent.fields \in PairSets \cup {None}
    BY RunParts DEF TypeOK, Arguments
  <2>3. given \subseteq Texts \X Texts
    BY <2>2 DEF Or, PairSets
  <2>4. ASSUME NEW d \in D
        PROVE  Updated(d) \in D
    <3>1. CASE \E p \in given : p[1] = d.name
      <4> DEFINE p == CHOOSE q \in given : q[1] = d.name
      <4>1. p \in given
        BY <3>1
      <4>2. p[2] \in Texts
        BY <2>3, <4>1
      <4> HIDE DEF p
      <4>3. [d EXCEPT !.value = p[2]] \in D
        BY <4>2
      <4> QED
        BY <3>1, <4>3 DEF p
    <3>2. CASE ~\E p \in given : p[1] = d.name
      BY <3>2
    <3> QED
      BY <3>1, <3>2
  <2>5. fields \in Seq(D)
    <3>1. \A i \in DOMAIN item.dataFields : Updated(item.dataFields[i]) \in D
      BY <2>1, <2>4, ToSetOf
    <3>2. DOMAIN item.dataFields = 1..Len(item.dataFields) /\ Len(item.dataFields) \in Nat
      BY <2>1, ToSetOf
    <3> HIDE DEF Updated, D
    <3>3. fields \in [1..Len(item.dataFields) -> D]
      BY <3>1, <3>2
    <3> QED
      BY <3>2, <3>3
  <2>6. Or(run.sent.title, item.title) \in Texts /\ Or(run.sent.price, item.price) \in Nat \cup {None}
    BY <2>1, <2>2 DEF Or
  <2>7. Effect = [item EXCEPT !.title = Or(run.sent.title, @), !.price = Or(run.sent.price, @),
                              !.dataFields = fields]
    BY <1>1 DEF Effect
  <2>8. [item EXCEPT !.title = Or(run.sent.title, @), !.price = Or(run.sent.price, @),
                     !.dataFields = fields] \in ItemType
    <3> HIDE DEF fields
    <3> QED
      BY <2>1, <2>5, <2>6 DEF ItemType
  <2> QED
    BY <2>7, <2>8
<1>2. CASE ~(request.op = "update" /\ item # None)
  BY <1>2 DEF Effect, TypeOK
<1> QED
  BY <1>1, <1>2

\* A command that raises ends the call too, executed or not.
LEMMA CommandRaisesEnds ==
    ASSUME Inv, \E exception \in Exceptions : CommandRaises(exception)
    PROVE  Ended
<1>1. item \in ItemType \cup {None} /\ run.at = "command" /\ run.sent # None
  BY DEF Inv, TypeOK, Located, CommandRaises
<1>2. PICK exception \in Exceptions, executed \in {0, 1} :
         /\ item' = IF executed = 1 THEN Effect ELSE item
         /\ run' = [run EXCEPT !.at = "idle", !.executions = @ + executed, !.raised = TRUE,
                               !.answer = _translate_exception(exception)]
         /\ UNCHANGED <<Asides, form>>
  BY DEF CommandRaises
<1>3. Beside
  BY <1>1, <1>2, EffectType DEF Inv, Beside, Asides
<1>4. _translate_exception(exception) \in Statuses \ {0} /\ executed \in Nat
  BY TranslatedIs DEF Statuses
<1> QED
  BY <1>1, <1>2, <1>3, <1>4, CommandEnds

\* A command keeps the invariant, executed or not.
LEMMA CommandKeeps ==
    ASSUME Inv, Command \/ \E exception \in Exceptions : CommandRaises(exception)
    PROVE  Inv'
<1>0. /\ run \in Runs /\ item \in ItemType \cup {None}
      /\ run.at = "command" /\ run.sent # None /\ run.executions = 0
  BY DEF Inv, TypeOK, Located, Command, CommandRaises
<1>1. CASE Command
  <2>1. Beside
    BY <1>0, <1>1, EffectType DEF Inv, Command, Beside, Asides
  <2>2. /\ run' \in Runs /\ run'.at = "convert" /\ run'.executions = 1
        /\ run'.found = run.found /\ run'.client = run.client /\ run'.sent = run.sent
        /\ run'.options = run.options /\ run'.fields = run.fields
        /\ run'.answer = run.answer /\ run'.needs = run.needs
    <3>1. "convert" \in Points /\ run.executions + 1 = 1
      BY <1>0 DEF Points
    <3>2. run' = [run EXCEPT !.at = "convert", !.executions = 1]
      BY <1>1, <3>1 DEF Command
    <3> QED
      BY <1>0, <3>1, <3>2, RunsAre
  <2>3. TypeOK' /\ OffersTyped'
    BY <2>1, <2>2 DEF Inv, TypeOK, OffersTyped, Beside, env
  <2>4. StoredValid'
    BY <2>1, <2>2, SameBeside DEF Inv, StoredValid, Beside
  <2>5. Located'
    BY <1>0, <2>1, <2>2 DEF Inv, Located, Beside, Lookups
  <2>6. SentChecked'
    BY <2>1, <2>2, SameArguments DEF Inv, SentChecked, Beside
  <2> QED
    BY <2>3, <2>4, <2>5, <2>6 DEF Inv
<1>2. CASE \E exception \in Exceptions : CommandRaises(exception)
  BY <1>2, CommandRaisesEnds, EndedKeeps
<1> QED
  BY <1>1, <1>2

\* What a request, a lookup and a page give is typed.
LEMMA NamedIdsType ==
    ASSUME NEW candidates \in Seq(Scalars \cup {None})
    PROVE  NamedIds(candidates) \in Texts \cup {None}
<1> DEFINE texts == [i \in DOMAIN candidates |-> Text(candidates[i])]
<1>1. texts \in Seq(Scalars \cup {None})
  <2>1. /\ DOMAIN candidates = 1..Len(candidates) /\ Len(candidates) \in Nat
        /\ \A i \in DOMAIN candidates : candidates[i] \in Scalars \cup {None}
    BY ToSetOf
  <2>2. \A v \in Scalars \cup {None} : Text(v) \in Scalars \cup {None}
    BY TextAssumption DEF Text, Scalars
  <2>3. texts \in [1..Len(candidates) -> Scalars \cup {None}]
    BY <2>1, <2>2
  <2> QED
    BY <2>1, <2>3
<1>2. NamedIds(candidates) \in {ReadOptionalAttr(texts), ReadOptionalAttr(candidates)}
  BY DEF NamedIds
<1>3. ReadOptionalAttr(texts) \in Texts \cup {None}
  BY <1>1, ReadOptionalAttrType
<1> QED
  BY <1>2, <1>3, ReadOptionalAttrType

\* What is read off the catalogue in a category it has.
LEMMA OfferType ==
    ASSUME CatalogueType(catalogue), NEW category \in DOMAIN catalogue
    PROVE  /\ catalogue[category].options \in PairSets
           /\ IsFiniteSet(catalogue[category].options)
           /\ catalogue[category].types \in Seq(Texts \cup {Blank})
           /\ FirstPage(catalogue[category].types) \in Seq(Texts \cup {Blank})
           /\ \A type : FieldsOf(category, type) \in Seq(DataFields)
<1>1. \A type : FieldsOf(category, type) \in Seq(DataFields)
  BY DEF CatalogueType, FieldsOf
<1>2. catalogue[category].types \in Seq(Texts \cup {Blank})
  BY DEF CatalogueType
<1> QED
  BY <1>1, <1>2, FirstPageOf DEF CatalogueType

\* What a call has found, with other ids, types, options or fields.
LEMMA FoundIds ==
    ASSUME NEW found \in Forms, NEW category \in Texts \cup {None}, NEW type \in Texts \cup {None}
    PROVE  [found EXCEPT !.category = category, !.type = type] \in Forms
<1>1. [found EXCEPT !.category = category] \in Forms
  BY DEF Forms
<1> QED
  BY <1>1 DEF Forms

\* The obtaining types.
LEMMA FoundTypes ==
    ASSUME NEW found \in Forms, NEW type \in Texts \cup {None},
           NEW types \in Seq(Texts \cup {Blank})
    PROVE  [found EXCEPT !.type = type, !.types = types] \in Forms
<1>1. [found EXCEPT !.type = type] \in Forms
  BY DEF Forms
<1> QED
  BY <1>1 DEF Forms

\* The options.
LEMMA FoundOptions ==
    ASSUME NEW found \in Forms, NEW options \in PairSets
    PROVE  [found EXCEPT !.options = options] \in Forms
  BY DEF Forms

\* The data fields.
LEMMA FoundFields ==
    ASSUME NEW found \in Forms, NEW fields \in Seq(DataFields)
    PROVE  [found EXCEPT !.fields = fields] \in Forms
  BY DEF Forms

\* A call that connects goes on or is refused.
LEMMA ConnectGoes ==
    ASSUME Inv, Connect
    PROVE  LET category == NamedIds(Attributes(request).gameCategoryId)
               type == NamedIds(Attributes(request).obtainingTypeId)
           IN \/ Refused /\ (FieldsMalformed \/ (request.op = "create" /\ category = None))
              \/ /\ Going /\ run'.options = run.options /\ run'.fields = run.fields
                 /\ run'.found.category = category /\ run'.found.type = type
                 /\ request.op = "create" =>
                       run'.needs = {"category", "fields"} \cup IF type = None THEN {"types"} ELSE {}
                 /\ request.op = "update" => run'.needs = {"item"}
                 /\ request.op = "metadata" =>
                       run'.needs = IF category # None THEN {"category", "types"} ELSE {}
<1> DEFINE category == NamedIds(Attributes(request).gameCategoryId)
           type == NamedIds(Attributes(request).obtainingTypeId)
           needs == CASE request.op = "create" ->
                             {"category", "fields"} \cup IF type = None THEN {"types"} ELSE {}
                      [] request.op = "update" -> {"item"}
                      [] request.op = "metadata" /\ category # None -> {"category", "types"}
                      [] OTHER -> {}
           r == [run EXCEPT !.client = Resolved, !.found.category = category,
                            !.found.type = type, !.needs = needs]
<1>1. Beside /\ run.at = "begin" /\ run.at # "idle"
  BY StepBeside DEF Connect
<1>2. run \in Runs /\ request \in RequestType /\ Attributes(request) \in AttributeType
  BY <1>1, RequestParts DEF Inv, TypeOK, Located
<1>3. category \in Texts \cup {None} /\ type \in Texts \cup {None}
  BY <1>2, AttributeFields, NamedIdsType
<1>4. needs \in SUBSET Lookups /\ ("item" \in needs => request.op = "update")
  BY DEF Lookups
<1>5. Resolved \in SomeClient
  BY ResolvedIs DEF Inv, SomeClient
<1>6. /\ r \in Runs /\ r.client = Resolved /\ r.sent = run.sent /\ r.needs = needs
      /\ r.executions = run.executions /\ r.answer = run.answer /\ r.raised = run.raised
      /\ r.found.options = run.found.options
      /\ r.found.category = category /\ r.found.type = type
      /\ r.options = run.options /\ r.fields = run.fields
  <2> HIDE DEF category, type, needs
  <2>1. [run.found EXCEPT !.category = category, !.type = type] \in Forms
    <3>1. run.found \in Forms
      BY <1>2, RunParts
    <3> QED
      BY <1>3, <3>1, FoundIds
  <2>2. r = [run EXCEPT !.client = Resolved, !.needs = needs,
                        !.found = [run.found EXCEPT !.category = category, !.type = type]]
    BY <1>2, RunsAre DEF Forms
  <2> QED
    BY <1>2, <1>4, <1>5, <2>1, <2>2, RunsAre DEF Forms
<1>7. (Answer(400) /\ request.op = "create" /\ category = None) \/ Proceed(r)
  BY DEF Connect
<1>8. CASE Answer(400) /\ request.op = "create" /\ category = None
  <2>1. 400 \in Statuses \ {0}
    BY DEF Statuses
  <2> QED
    BY <1>1, <1>8, <2>1, AnswerEnds DEF Refused
<1>9. CASE Proceed(r)
  <2>1. IsFiniteSet(r.found.options)
    BY <1>6 DEF Inv, OffersTyped
  <2>2. (Refused /\ run'.answer = 400 /\ FieldsMalformed) \/ (Going /\ Found(r))
    <3> HIDE DEF r, needs
    <3> QED
      BY <1>1, <1>4, <1>6, <1>9, <2>1, ProceedGoes
  <2>3. /\ request.op = "create" =>
              needs = {"category", "fields"} \cup IF type = None THEN {"types"} ELSE {}
        /\ request.op = "update" => needs = {"item"}
        /\ request.op = "metadata" => needs = IF category # None THEN {"category", "types"} ELSE {}
    OBVIOUS
  <2> HIDE DEF r, needs
  <2> QED
    BY <1>6, <2>2, <2>3 DEF Found
<1> QED
  BY <1>7, <1>8, <1>9

\* So does an update that has its item.
LEMMA GetItemGoes ==
    ASSUME Inv, GetItem
    PROVE  \/ /\ Refused
              /\ \/ FieldsMalformed \/ ItemRefusal(request) # 0
                 \/ /\ run'.answer = 409 /\ Attributes(request).dataFields # None
                    /\ run.found.category = None /\ item.category = None
                    /\ run.found.type = None /\ item.type = None
           \/ /\ Going /\ run'.options = run.options /\ run'.fields = run.fields
              /\ run'.found.category = Or(run.found.category, item.category)
              /\ run'.found.type = Or(run.found.type, item.type)
              /\ "types" \in run'.needs => "fields" \in run'.needs
              /\ run'.needs \subseteq {"category", "fields", "types"}
              /\ ("fields" \in run'.needs) =
                    (run'.found.category # None /\ Attributes(request).dataFields # None)
              /\ ("category" \in run'.needs) =
                    (run'.found.category # None /\ HasOptionsPayload(Attributes(request)))
<1> DEFINE attributes == Attributes(request)
           category == Or(run.found.category, item.category)
           type == Or(run.found.type, item.type)
           fields == attributes.dataFields # None
           needs == IF category = None THEN {} ELSE
                       (IF fields THEN {"fields"} ELSE {})
                       \cup (IF fields /\ type = None THEN {"types"} ELSE {})
                       \cup (IF HasOptionsPayload(attributes) THEN {"category"} ELSE {})
           r == [run EXCEPT !.found.category = category, !.found.type = type, !.needs = needs]
<1>1. Beside /\ run.at = "item" /\ run.at \in Lookups /\ run.at # "idle"
  BY StepBeside DEF GetItem, Lookups
<1>2. run \in Runs
  BY DEF Inv, TypeOK
<1>3. \/ Answer(ItemRefusal(request)) /\ ItemRefusal(request) # 0
      \/ Answer(409) /\ fields /\ category = None /\ type = None
      \/ ItemRefusal(request) = 0 /\ Proceed(r)
  BY DEF GetItem
<1>4. CASE Answer(ItemRefusal(request)) /\ ItemRefusal(request) # 0
  <2>1. ItemRefusal(request) \in Statuses \ {0} /\ ItemRefusal(request) \in {404, 409}
    BY <1>4, RefusalIs DEF Statuses
  <2> QED
    BY <1>1, <1>4, <2>1, AnswerEnds DEF Refused
<1>5. CASE Answer(409) /\ fields /\ category = None /\ type = None
  <2>1. 409 \in Statuses \ {0}
    BY DEF Statuses
  <2>2. Refused /\ run'.answer = 409
    BY <1>1, <1>5, <2>1, AnswerEnds DEF Refused
  <2>3. /\ run.found.category = None /\ item.category = None
        /\ run.found.type = None /\ item.type = None
    BY <1>5 DEF Or
  <2> QED
    BY <1>5, <2>2, <2>3
<1>6. CASE ItemRefusal(request) = 0 /\ Proceed(r)
  <2>1. item \in ItemType
    BY <1>6 DEF ItemRefusal, Inv, TypeOK
  <2>2. category \in Texts \cup {None} /\ type \in Texts \cup {None}
    BY <1>2, <2>1, RunParts DEF Or, ItemType
  <2>3. needs \in SUBSET Lookups /\ "item" \notin needs
    BY DEF Lookups
  <2>4. /\ r \in Runs /\ r.client = run.client /\ r.sent = run.sent /\ r.needs = needs
        /\ r.executions = run.executions /\ r.answer = run.answer /\ r.raised = run.raised
        /\ r.found.options = run.found.options /\ r.found.category = category
        /\ r.found.type = type
        /\ r.options = run.options /\ r.fields = run.fields
    <3> HIDE DEF category, type, needs
    <3>1. [run.found EXCEPT !.category = category, !.type = type] \in Forms
      <4>1. run.found \in Forms
        BY <1>2, RunParts
      <4> QED
        BY <2>2, <4>1, FoundIds
    <3>2. r = [run EXCEPT !.needs = needs,
                          !.found = [run.found EXCEPT !.category = category, !.type = type]]
      BY <1>2, RunsAre DEF Forms
    <3> QED
      BY <1>2, <2>3, <3>1, <3>2, RunsAre DEF Forms
  <2>5. IsFiniteSet(r.found.options)
    BY <2>4 DEF Inv, OffersTyped
  <2>6. (Refused /\ run'.answer = 400 /\ FieldsMalformed) \/ (Going /\ Found(r))
    <3> HIDE DEF r, needs
    <3> QED
      BY <1>1, <1>6, <2>3, <2>4, <2>5, ProceedGoes
  <2>7. /\ "types" \in needs => "fields" \in needs
        /\ needs \subseteq {"category", "fields", "types"}
        /\ ("fields" \in needs) = (category # None /\ fields)
        /\ ("category" \in needs) = (category # None /\ HasOptionsPayload(attributes))
    OBVIOUS
  <2> HIDE DEF r, needs
  <2> QED
    BY <2>4, <2>6, <2>7 DEF Found
<1> QED
  BY <1>3, <1>4, <1>5, <1>6

\* So does a call that has its obtaining types.
LEMMA GetTypesGoes ==
    ASSUME Inv, GetTypes
    PROVE  LET types == FirstPage(catalogue[run.found.category].types)
               query == request.op = "metadata"
               type == Or(run.found.type,
                          IF query THEN MetadataType(types) ELSE DefaultObtainingType(types))
           IN \/ /\ Refused /\ run'.answer = 400
                 /\ FieldsMalformed \/ (~query /\ type = None)
              \/ /\ Going /\ run'.options = run.options /\ run'.fields = run.fields
                 /\ run'.found.category = run.found.category /\ run'.found.type = type
                 /\ run'.found.types = types /\ run'.found.options = run.found.options
                 /\ run'.needs = (run.needs \ {"types"})
                                    \cup IF query /\ type # None THEN {"fields"} ELSE {}
<1> DEFINE types == FirstPage(catalogue[run.found.category].types)
           query == request.op = "metadata"
           type == Or(run.found.type,
                      IF query THEN MetadataType(types) ELSE DefaultObtainingType(types))
           needs == (run.needs \ {"types"}) \cup IF query /\ type # None THEN {"fields"} ELSE {}
           r == [run EXCEPT !.found.type = type, !.found.types = types, !.needs = needs]
<1>1. Beside /\ run.at = "types" /\ run.at \in Lookups /\ run.at # "idle"
  BY StepBeside DEF GetTypes, Lookup, Lookups
<1>2. run \in Runs /\ run.needs \in SUBSET Lookups
  BY RunParts DEF Inv, TypeOK
<1>3. (Answer(400) /\ ~query /\ type = None) \/ Proceed(r)
  BY DEF GetTypes
<1>4. CASE Answer(400) /\ ~query /\ type = None
  <2>1. 400 \in Statuses \ {0}
    BY DEF Statuses
  <2> QED
    BY <1>1, <1>4, <2>1, AnswerEnds DEF Refused
<1>5. CASE Proceed(r)
  <2>1. types \in Seq(Texts \cup {Blank})
    BY OfferType DEF GetTypes, Lookup, Inv, OffersTyped
  <2>2. type \in Texts \cup {None}
    <3> HIDE DEF types
    <3>1. MetadataType(types) \in Texts \cup {None}
      BY <2>1, ToSetOf DEF MetadataType
    <3> QED
      BY <1>2, <2>1, <3>1, DefaultTypeType, RunParts DEF Or
  <2>3. needs \in SUBSET Lookups /\ ("item" \in needs => request.op = "update")
    BY <1>2 DEF Inv, Located, Lookups
  <2>4. /\ r \in Runs /\ r.client = run.client /\ r.sent = run.sent /\ r.needs = needs
        /\ r.executions = run.executions /\ r.answer = run.answer /\ r.raised = run.raised
        /\ r.found.options = run.found.options /\ r.found.category = run.found.category
        /\ r.found.type = type /\ r.found.types = types
        /\ r.options = run.options /\ r.fields = run.fields
    <3> HIDE DEF types, type, needs
    <3>1. [run.found EXCEPT !.type = type, !.types = types] \in Forms
      <4>1. run.found \in Forms
        BY <1>2, RunParts
      <4> QED
        BY <2>1, <2>2, <4>1, FoundTypes
    <3>2. r = [run EXCEPT !.needs = needs,
                          !.found = [run.found EXCEPT !.type = type, !.types = types]]
      BY <1>2, RunsAre DEF Forms
    <3> QED
      BY <1>2, <2>3, <3>1, <3>2, RunsAre DEF Forms
  <2>5. IsFiniteSet(r.found.options)
    BY <2>4 DEF Inv, OffersTyped
  <2>6. (Refused /\ run'.answer = 400 /\ FieldsMalformed) \/ (Going /\ Found(r))
    <3> HIDE DEF r, needs
    <3> QED
      BY <1>1, <1>5, <2>3, <2>4, <2>5, ProceedGoes
  <2> HIDE DEF r
  <2> QED
    BY <2>4, <2>6 DEF Found
<1> QED
  BY <1>3, <1>4, <1>5

\* One that has its category.
LEMMA GetCategoryGoes ==
    ASSUME Inv, GetCategory
    PROVE  \/ /\ Refused /\ run'.answer = 400
              /\ \/ FieldsMalformed
                 \/ ~OptionsOffered(Attributes(request), catalogue[run.found.category].options)
           \/ /\ Going
              /\ run'.needs = run.needs \ {"category"}
              /\ run'.options = ResolveOptions(Attributes(request)) /\ run'.fields = run.fields
              /\ run'.found.category = run.found.category /\ run'.found.type = run.found.type
              /\ run'.found.options = catalogue[run.found.category].options
              /\ run'.found.types = run.found.types
              /\ OptionsOffered(Attributes(request), catalogue[run.found.category].options)
<1> DEFINE options == catalogue[run.found.category].options
           attributes == Attributes(request)
           needs == run.needs \ {"category"}
           chosen == ResolveOptions(attributes)
           r == [run EXCEPT !.needs = needs, !.found.options = options, !.options = chosen]
<1>1. Beside /\ run.at = "category" /\ run.at \in Lookups /\ run.at # "idle"
  BY StepBeside DEF GetCategory, Lookup, Lookups
<1>2. /\ run \in Runs /\ run.needs \in SUBSET Lookups
      /\ request \in RequestType /\ attributes \in AttributeType
  BY <1>1, RunParts, RequestParts DEF Inv, TypeOK, Located
<1>3. (Answer(400) /\ ~OptionsOffered(attributes, options)) \/ (OptionsOffered(attributes, options) /\ Proceed(r))
  BY DEF GetCategory
<1>4. CASE Answer(400) /\ ~OptionsOffered(attributes, options)
  <2>1. 400 \in Statuses \ {0}
    BY DEF Statuses
  <2> QED
    BY <1>1, <1>4, <2>1, AnswerEnds DEF Refused
<1>5. CASE OptionsOffered(attributes, options) /\ Proceed(r)
  <2>1. options \in PairSets /\ IsFiniteSet(options)
    BY OfferType DEF GetCategory, Lookup, Inv, OffersTyped
  <2>2. chosen \in SomePairs
    <3> HIDE DEF attributes
    <3> QED
      BY <1>2, ResolveOptionsType DEF SomePairs, PairSets
  <2>3. needs \in SUBSET Lookups /\ ("item" \in needs => request.op = "update")
    BY <1>2 DEF Inv, Located
  <2>4. /\ r \in Runs /\ r.client = run.client /\ r.sent = run.sent /\ r.needs = needs
        /\ r.executions = run.executions /\ r.answer = run.answer /\ r.raised = run.raised
        /\ r.found.options = options /\ r.found.category = run.found.category
        /\ r.found.type = run.found.type /\ r.found.types = run.found.types
        /\ r.options = chosen /\ r.fields = run.fields
    <3> HIDE DEF options, chosen, needs
    <3>1. [run.found EXCEPT !.options = options] \in Forms
      BY <1>2, <2>1, RunParts, FoundOptions
    <3>2. r = [run EXCEPT !.needs = needs, !.options = chosen,
                          !.found = [run.found EXCEPT !.options = options]]
      BY <1>2, RunsAre DEF Forms
    <3> QED
      BY <1>2, <2>2, <2>3, <3>1, <3>2, RunsAre DEF Forms
  <2>5. IsFiniteSet(r.found.options)
    BY <2>1, <2>4
  <2>6. (Refused /\ run'.answer = 400 /\ FieldsMalformed) \/ (Going /\ Found(r))
    <3> HIDE DEF r, needs
    <3> QED
      BY <1>1, <1>5, <2>3, <2>4, <2>5, ProceedGoes
  <2> HIDE DEF r
  <2> QED
    BY <1>5, <2>4, <2>6 DEF Found
<1> QED
  BY <1>3, <1>4, <1>5

\* And one that has its data fields.
LEMMA GetFieldsGoes ==
    ASSUME Inv, GetFields
    PROVE  LET fields == FieldsOf(run.found.category, run.found.type)
               missing == MissingDataFields(Attributes(request), fields)
           IN \/ /\ Refused /\ run'.answer = 400
                 /\ FieldsMalformed \/ (request.op # "metadata" /\ missing # {})
              \/ /\ Going
                 /\ run'.needs = run.needs \ {"fields"} /\ run'.options = run.options
                 /\ run'.fields = ResolveDataFields(Attributes(request), fields)
                 /\ run'.fields \in PairSets
                 /\ run'.found.category = run.found.category
                 /\ run'.found.type = run.found.type /\ run'.found.types = run.found.types
                 /\ run'.found.options = run.found.options
                 /\ run'.found.fields = FirstPage(fields)
                 /\ request.op # "metadata" => missing = {}
<1> DEFINE fields == FieldsOf(run.found.category, run.found.type)
           page == FirstPage(fields)
           attributes == Attributes(request)
           needs == run.needs \ {"fields"}
           chosen == ResolveDataFields(attributes, fields)
           r == [run EXCEPT !.needs = needs, !.found.fields = page, !.fields = chosen]
<1>1. Beside /\ run.at = "fields" /\ run.at \in Lookups /\ run.at # "idle"
  BY StepBeside DEF GetFields, Lookup, Lookups
<1>2. /\ run \in Runs /\ run.needs \in SUBSET Lookups
      /\ request \in RequestType /\ attributes \in AttributeType
  BY <1>1, RunParts, RequestParts DEF Inv, TypeOK, Located
<1>3. \/ /\ Answer(400)
         /\ request.op # "metadata" /\ MissingDataFields(attributes, fields) # {}
      \/ /\ request.op # "metadata" => MissingDataFields(attributes, fields) = {}
         /\ Proceed(r)
  BY DEF GetFields
<1>4. CASE /\ Answer(400)
           /\ request.op # "metadata" /\ MissingDataFields(attributes, fields) # {}
  <2>1. 400 \in Statuses \ {0}
    BY DEF Statuses
  <2> QED
    BY <1>1, <1>4, <2>1, AnswerEnds DEF Refused
<1>5. CASE /\ request.op # "metadata" => MissingDataFields(attributes, fields) = {}
           /\ Proceed(r)
  <2>1. fields \in Seq(DataFields)
    BY OfferType DEF GetFields, Lookup, Inv, OffersTyped
  <2>2. page \in Seq(DataFields) /\ chosen \in SomePairs /\ chosen \in PairSets
    <3> HIDE DEF attributes, fields
    <3>1. chosen \in SUBSET (Texts \X Texts)
      BY <1>2, <2>1, ResolveDataFieldsType
    <3>2. page \in Seq(DataFields)
      BY <2>1, FirstPageOf
    <3> QED
      BY <3>1, <3>2 DEF SomePairs, PairSets
  <2>3. needs \in SUBSET Lookups /\ ("item" \in needs => request.op = "update")
    BY <1>2 DEF Inv, Located
  <2>4. /\ r \in Runs /\ r.client = run.client /\ r.sent = run.sent /\ r.needs = needs
        /\ r.executions = run.executions /\ r.answer = run.answer /\ r.raised = run.raised
        /\ r.found.options = run.found.options /\ r.found.category = run.found.category
        /\ r.found.type = run.found.type /\ r.found.types = run.found.types
        /\ r.found.fields = page /\ r.fields = chosen /\ r.options = run.options
    <3> HIDE DEF page, chosen, needs
    <3>1. [run.found EXCEPT !.fields = page] \in Forms
      BY <1>2, <2>2, RunParts, FoundFields
    <3>2. r = [run EXCEPT !.needs = needs, !.fields = chosen,
                          !.found = [run.found EXCEPT !.fields = page]]
      BY <1>2, RunsAre DEF Forms
    <3> QED
      BY <1>2, <2>2, <2>3, <3>1, <3>2, RunsAre DEF Forms
  <2>5. IsFiniteSet(r.found.options)
    BY <2>4 DEF Inv, OffersTyped
  <2>6. (Refused /\ run'.answer = 400 /\ FieldsMalformed) \/ (Going /\ Found(r))
    <3> HIDE DEF r, needs
    <3> QED
      BY <1>1, <1>5, <2>3, <2>4, <2>5, ProceedGoes
  <2> HIDE DEF r
  <2> QED
    BY <1>5, <2>2, <2>4, <2>6 DEF Found
<1> QED
  BY <1>3, <1>4, <1>5

\* What is left of a request when nothing was refused: a whole price of one at least.
LEMMA PricePassed ==
    ASSUME NEW price \in Nat \cup {None, NaN, Infinity}, PriceRefusal(price) = 0
    PROVE  /\ NormalizePrice(price) \in Nat \cup {None}
           /\ price \in Nat \cup {None}
           /\ (NormalizePrice(price) = None) = (price = None)
           /\ price # None =>
                 /\ NormalizePrice(price) = Rounded(price) /\ Rounded(price) >= 1
                 /\ 4 * Rounded(price) - price \in -2..2
<1>1. CASE price = None
  BY <1>1 DEF NormalizePrice
<1>2. CASE price # None
  <2>1. price \in Nat
    BY <1>2 DEF PriceRefusal
  <2>2. price # NaN /\ price # Infinity
    BY <2>1, AbsentAssumption
  <2>3. /\ Rounded(price) \in Nat /\ 4 * Rounded(price) - price \in -2..2
        /\ NormalizePrice(price) = Rounded(price)
    BY <1>2, <2>1, RoundedNearest DEF NormalizePrice
  <2>4. Rounded(price) >= 1
    BY <1>2, <2>2, <2>3 DEF PriceRefusal
  <2>5. Rounded(price) # None
    BY <2>3, AbsentAssumption
  <2> QED
    BY <1>2, <2>1, <2>3, <2>4, <2>5
<1> QED
  BY <1>1, <1>2

\* The lists of attachments and the paths of media are sets of texts.
LEMMA AttachmentsType ==
    ASSUME NEW r \in RequestType
    PROVE  /\ Attachments(r) \in (SUBSET Texts) \cup {None}
           /\ ReadStringList(Attributes(r).removeAttachmentIds) \in (SUBSET Texts) \cup {None}
           /\ r.media # None => MediaPaths(r.media) \in SUBSET Texts
<1>1. /\ Attributes(r).addAttachmentPaths \in Seq(Scalars) \cup {None, Malformed}
      /\ Attributes(r).removeAttachmentIds \in Seq(Scalars) \cup {None, Malformed}
  BY RequestParts, AttributeFields
<1>2. r.media # None => MediaPaths(r.media) \in SUBSET Texts
  BY RequestParts, MediaPathsType
<1>3. /\ ReadStringList(Attributes(r).addAttachmentPaths) \in (SUBSET Texts) \cup {None}
      /\ ReadStringList(Attributes(r).removeAttachmentIds) \in (SUBSET Texts) \cup {None}
  BY <1>1, ReadStringListType
<1> QED
  BY <1>2, <1>3 DEF Attachments, Or

\* What is composed of a request that was not refused are arguments.
LEMMA ComposedType ==
    ASSUME run \in Runs, NEW r \in RequestType, LateRefusal(r) = 0
    PROVE  Composed(r) \in Arguments
<1>0. /\ run.found.category \in Texts \cup {None} /\ run.found.type \in Texts \cup {None}
      /\ run.options \in PairSets \cup {None} /\ run.fields \in PairSets \cup {None}
      /\ r.title \in Texts \cup {None} /\ r.price \in Nat \cup {None, NaN, Infinity}
  BY RunParts, RequestParts
<1>1. NoArguments \in Arguments
  BY DEF NoArguments, Arguments, PairSets
<1>2. r.op \in {"create", "update"} => PriceRefusal(r.price) = 0
  BY DEF LateRefusal
<1>3. CASE r.op = "create"
  <2> DEFINE price == NormalizePrice(r.price)
             add == IF r.media = None THEN {} ELSE MediaPaths(r.media)
  <2>1. price \in Nat \cup {None} /\ add \in (SUBSET Texts) \cup {None}
    BY <1>0, <1>2, <1>3, PricePassed, AttachmentsType
  <2>2. Composed(r) = [title |-> r.title, price |-> price, options |-> run.options,
                       fields |-> run.fields, add |-> add, remove |-> None,
                       category |-> run.found.category, type |-> run.found.type]
    BY <1>3 DEF Composed
  <2> HIDE DEF price, add
  <2> QED
    BY <1>0, <2>1, <2>2 DEF Arguments
<1>4. CASE r.op = "update"
  <2> DEFINE price == NormalizePrice(r.price)
             add == Attachments(r)
             remove == ReadStringList(Attributes(r).removeAttachmentIds)
  <2>1. /\ price \in Nat \cup {None} /\ add \in (SUBSET Texts) \cup {None}
        /\ remove \in (SUBSET Texts) \cup {None}
    BY <1>0, <1>2, <1>4, PricePassed, AttachmentsType
  <2>2. Composed(r) = [NoArguments EXCEPT
                          !.title = r.title, !.price = price, !.options = run.options,
                          !.fields = run.fields, !.add = add, !.remove = remove]
    BY <1>4 DEF Composed
  <2> HIDE DEF price, add, remove
  <2>3. [NoArguments EXCEPT !.title = r.title, !.price = price, !.options = run.options]
          \in Arguments
    BY <1>0, <1>1, <2>1 DEF Arguments
  <2>4. [NoArguments EXCEPT !.title = r.title, !.price = price, !.options = run.options,
                            !.fields = run.fields, !.add = add, !.remove = remove] \in Arguments
    BY <1>0, <2>1, <2>3 DEF Arguments
  <2> QED
    BY <2>2, <2>4
<1>5. CASE r.op \notin {"create", "update"}
  BY <1>1, <1>5 DEF Composed
<1> QED
  BY <1>3, <1>4, <1>5

\* A command that is composed keeps the invariant.
LEMMA ComposeKeeps ==
    ASSUME Inv, Compose
    PROVE  Inv'
<1>1. /\ Beside /\ run.at = "compose" /\ request.op \in CommandOps
      /\ LateRefusal(request) = 0
  BY StepBeside DEF Compose
<1>2. /\ run \in Runs /\ request \in RequestType /\ request # None
      /\ run.executions = 0 /\ run.answer = 0 /\ run.needs = {}
  BY <1>1 DEF Inv, TypeOK, Located
<1>3. Composed(request) \in Arguments /\ Composed(request) # None
  BY <1>1, <1>2, ComposedType, AbsentAssumption
<1>4. /\ run' \in Runs /\ run'.at = "command" /\ run'.sent = Composed(request)
      /\ run'.executions = run.executions /\ run'.answer = run.answer
      /\ run'.found = run.found /\ run'.client = run.client /\ run'.needs = run.needs
      /\ run'.options = run.options /\ run'.fields = run.fields
  <2>1. "command" \in Points /\ Composed(request) \in SomeArguments
    BY <1>3 DEF Points, SomeArguments
  <2>2. run' = [run EXCEPT !.at = "command", !.sent = Composed(request)]
    BY DEF Compose
  <2> QED
    BY <1>2, <2>1, <2>2, RunsAre
<1>5. TypeOK' /\ OffersTyped'
  BY <1>1, <1>4 DEF Inv, TypeOK, OffersTyped, Beside, env
<1>6. StoredValid'
  BY <1>1, <1>4, SameBeside DEF Inv, StoredValid, Beside
<1>7. Located'
  BY <1>1, <1>2, <1>3, <1>4 DEF Located, Beside, Lookups
<1>8. SentChecked'
  BY <1>1, <1>2, <1>4, SameArguments DEF SentChecked, Beside
<1> QED
  BY <1>5, <1>6, <1>7, <1>8 DEF Inv

\* So does showing a form.
LEMMA ShowFormKeeps ==
    ASSUME Inv, ShowForm
    PROVE  Inv'
<1>1. /\ run.at = "compose" /\ request.op = "metadata" /\ form' = run.found
      /\ UNCHANGED <<situation, auth, catalogue, request, calls, changes, item>>
      /\ run' = [run EXCEPT !.at = "idle", !.answer = 200]
  BY DEF ShowForm, Asides, Answer
<1>2. run \in Runs /\ run.sent = None /\ run.executions = 0 /\ run.needs = {}
  BY <1>1 DEF Inv, TypeOK, Located, Lookups
<1>3. /\ run' \in Runs /\ run'.at = "idle" /\ run'.answer = 200 /\ run'.sent = None
      /\ run'.executions = 0 /\ run'.found = run.found /\ run'.client = run.client
      /\ run'.needs = {}
  <2>1. "idle" \in Points /\ 200 \in Statuses
    BY DEF Points, Statuses
  <2> QED
    BY <1>1, <1>2, <2>1, RunsAre
<1>4. TypeOK' /\ OffersTyped'
  BY <1>1, <1>2, <1>3, RunParts DEF Inv, TypeOK, OffersTyped, env
<1>5. StoredValid' /\ SentChecked'
  BY <1>1, <1>3 DEF Inv, StoredValid, SentChecked, Resolved, env
<1>6. Located'
  BY <1>3 DEF Located, Lookups
<1> QED
  BY <1>4, <1>5, <1>6 DEF Inv

\* So does a step of nothing.
LEMMA StutterKeeps ==
    ASSUME Inv, UNCHANGED vars
    PROVE  Inv'
<1>1. TypeOK' /\ OffersTyped'
  BY DEF Inv, TypeOK, OffersTyped, vars, env
<1>2. StoredValid' /\ Located'
  BY DEF Inv, StoredValid, Located, vars, Resolved, env, Following
<1>3. SentChecked'
  BY SameArguments DEF Inv, SentChecked, vars
<1> QED
  BY <1>1, <1>2, <1>3 DEF Inv

\* Every step keeps the invariant.
LEMMA StepKeeps ==
    ASSUME Inv, [Next]_vars
    PROVE  Inv'
<1>1. CASE (\E r \in offered.requests : Ask(r)) \/ AskFilled \/ AskListed
  BY <1>1, CallerKeeps
<1>2. CASE \E payload \in offered.applies : ApplyAuth(payload)
  BY <1>2, ApplyKeeps
<1>3. CASE RefuseEarly \/ RefuseLate \/ NotRemoved \/ Convert \/ ConvertFails
              \/ \E exception \in Exceptions : LookupRaises(exception)
  BY <1>3, AnswersEnd, EndedKeeps
<1>4. CASE Connect \/ GetItem \/ GetTypes \/ GetCategory \/ GetFields
  <2>1. Refused \/ Going
    BY <1>4, ConnectGoes, GetItemGoes, GetTypesGoes, GetCategoryGoes, GetFieldsGoes
  <2> QED
    BY <2>1, EndedKeeps, GoingKeeps DEF Refused
<1>5. CASE Compose \/ ShowForm
  BY <1>5, ComposeKeeps, ShowFormKeeps
<1>6. CASE Command \/ \E exception \in Exceptions : CommandRaises(exception)
  BY <1>6, CommandKeeps
<1>7. CASE ChangeCatalogue \/ ChangeItem
  BY <1>7, ChangedKeeps
<1>8. CASE UNCHANGED vars
  BY <1>8, StutterKeeps
<1> QED
  BY <1>1, <1>2, <1>3, <1>4, <1>5, <1>6, <1>7, <1>8 DEF Next

\* The invariant holds, whatever Playerok offers, does and raises.
THEOREM InvHolds == Spec => []Inv
<1>1. Inv /\ [Next]_vars => Inv'
  BY StepKeeps
<1> QED
  BY InitInv, <1>1, PTL DEF Spec

=============================================================================
