------------------------ MODULE AdapterCallTheorems ------------------------
(***************************************************************************)
(* Theorems about AdapterCall that follow from the invariant of            *)
(* AdapterCallProofs, those about what a command is sent with, which need  *)
(* to know how far the lookups have come (Progress), and those about what  *)
(* a caller composes from answers: a form filled in, a product sent back.  *)
(***************************************************************************)
EXTENDS AdapterCallProofs

----------------------------------------------------------------------------
(* Types and credentials.                                                   *)

\* Every variable keeps its type: in particular the arguments of a command have no
\* NaN or Infinity, and the product stays one through every update.
THEOREM TypesHold == Spec => []TypeOK
<1>1. Inv => TypeOK
  BY DEF Inv
<1> QED
  BY <1>1, InvHolds, PTL

\* What an apply was accepted for is enough for a client, whatever the environment:
\* validate_marketplace_auth and resolve_credentials ask for the same.
THEOREM AcceptedSuffices == Spec => []AcceptedApplySuffices
<1>1. Inv => AcceptedApplySuffices
  BY ResolvedIs DEF Inv, AcceptedApplySuffices
<1> QED
  BY <1>1, InvHolds, PTL

\* A client never mixes a stored row with the environment.
THEOREM CredentialsWhole == Spec => []AppliedCredentialsWhole
<1>1. Inv => AppliedCredentialsWhole
  BY ResolvedIs DEF Inv, StoredValid, AppliedCredentialsWhole
<1> QED
  BY <1>1, InvHolds, PTL

----------------------------------------------------------------------------
(* The refinement of CommandOutcome.                                        *)

\* What an answer says of the command, as the instance of CommandOutcome has it.
Says ==
    CASE run.at # "idle" \/ run.answer = 0 -> "open"
      [] run.answer \in {401, 404, 409} -> "refused"
      [] run.answer \in {400, 500, 502} -> "failed"
      [] OTHER -> IF request # None /\ request.op \in CommandOps THEN "done" ELSE "told"

\* A call that runs is open; an answer says one thing.
LEMMA SaysOf ==
    ASSUME Inv
    PROVE  /\ run.at # "idle" => Says = "open"
           /\ run.at = "idle" /\ run.answer = 0 => Says = "open" /\ run.executions = 0
           /\ run.at = "idle" /\ run.answer \in {401, 404, 409} => Says = "refused"
           /\ run.at = "idle" /\ run.answer \in {400, 500, 502} => Says = "failed"
           /\ run.at = "idle" /\ run.answer = 200 =>
                Says = IF request # None /\ request.op \in CommandOps THEN "done" ELSE "told"
           /\ Says = "open" => run.at # "idle" \/ run.executions = 0
<1>1. run.answer \in {0, 200, 400, 401, 404, 409, 500, 502}
  BY RunParts DEF Inv, TypeOK
<1> QED
  BY <1>1 DEF Says, Inv, Located

\* The steps of CommandOutcome, in its terms.
Executes ==
    /\ Says = "open" /\ run.executions = 0 /\ run'.executions = 1
    /\ Says' \in {"open", "failed"}

Answers ==
    /\ Says = "open" /\ run'.executions = run.executions
    /\ Says' \in {"failed"} \cup IF run.executions = 0 THEN {"refused", "told"} ELSE {"done"}

Begins ==
    /\ Says # "open" /\ run'.executions = 0
    /\ Says' \in {"open", "told", "failed"}

Rests == Says' = Says /\ run'.executions = run.executions

\* The beginning of a call begins, or rests if there was none before.
LEMMA CallOutcome ==
    ASSUME Inv, Inv',
           \/ (\E r \in offered.requests : Ask(r)) \/ AskFilled \/ AskListed
           \/ \E payload \in offered.applies : ApplyAuth(payload)
    PROVE  Answers \/ Begins \/ Rests
<1>1. CASE \E r : Ask(r)
  <2>1. run' = [Idle EXCEPT !.at = "begin"] /\ run.at = "idle"
    BY <1>1 DEF Ask, Call
  <2>2. run'.at = "begin" /\ run'.answer = 0 /\ run'.executions = 0
    BY <2>1, Begun
  <2>3. Says' = "open"
    BY <2>2 DEF Says
  <2> QED
    BY <2>1, <2>2, <2>3, SaysOf DEF Begins, Rests
<1>2. CASE \E payload : ApplyAuth(payload)
  <2>1. PICK status \in {200, 400, 500} : run' = [Idle EXCEPT !.answer = status]
    BY <1>2 DEF ApplyAuth
  <2>2. run.at = "idle" /\ request' = None
    BY <1>2 DEF ApplyAuth, Call
  <2>3. run'.at = "idle" /\ run'.answer = status /\ run'.executions = 0
    BY <2>1, Told
  <2>4. Says' \in {"told", "failed"}
    BY <2>2, <2>3 DEF Says
  <2> QED
    BY <2>2, <2>3, <2>4, SaysOf DEF Begins, Answers
<1> QED
  BY <1>1, <1>2 DEF AskFilled, AskListed

\* A call that was not over is answered, or goes on.
LEMMA AnswerOutcome ==
    ASSUME Inv, Inv', run.at # "idle", run'.at = "idle", request' = request,
           run'.executions = run.executions, run'.answer # 0,
           run'.answer = 200 => (run.executions = 1) = (request.op \in CommandOps),
           run.executions # 0 => run'.answer \notin {401, 404, 409}
    PROVE  Answers
<1>1. run'.answer \in Statuses \ {0}
  <2>1. run' \in Runs
    BY DEF Inv, TypeOK
  <2> QED
    BY <2>1, RunsAre
<1>2. Says = "open" /\ request # None
  BY SaysOf DEF Inv, Located
<1>3. run.executions \in {0, 1}
  BY DEF Inv, Located
<1>4. Says' = IF run'.answer \in {401, 404, 409} THEN "refused"
              ELSE IF run'.answer \in {400, 500, 502} THEN "failed"
              ELSE IF request.op \in CommandOps THEN "done" ELSE "told"
  BY <1>1, <1>2 DEF Says, Statuses
<1> QED
  BY <1>1, <1>2, <1>3, <1>4 DEF Answers, Statuses

\* The steps that answer a call without a command.
LEMMA RefusalOutcome ==
    ASSUME Inv, Inv',
           \/ RefuseEarly \/ RefuseLate \/ NotRemoved \/ ShowForm
           \/ \E exception \in Exceptions : LookupRaises(exception)
    PROVE  Answers
<1>1. run \in Runs /\ run.at \notin {"idle", "convert"}
  BY DEF Inv, TypeOK, RefuseEarly, RefuseLate, NotRemoved, ShowForm, LookupRaises, Step, Lookups
<1>2. run.executions = 0
  BY <1>1 DEF Inv, Located
<1>3. /\ run'.at = "idle" /\ request' = request /\ run'.executions = run.executions
      /\ run'.answer # 0
      /\ run'.answer = 200 => request.op \notin CommandOps
  <2>1. CASE RefuseEarly
    BY <1>1, <2>1, RefusalIs, RunsAre DEF RefuseEarly, Step, Asides, Answer
  <2>2. CASE RefuseLate
    BY <1>1, <2>2, LateRefusalIs, RunsAre DEF RefuseLate, Step, Asides, Answer
  <2>3. CASE NotRemoved
    BY <1>1, <2>3, RunsAre DEF NotRemoved, Step, Asides
  <2>4. CASE ShowForm
    BY <1>1, <2>4, RunsAre DEF ShowForm, Asides, Answer, CommandOps
  <2>5. CASE \E exception \in Exceptions : LookupRaises(exception)
    <3>1. PICK exception \in Exceptions : LookupRaises(exception)
      BY <2>5
    <3>2. /\ run' = [run EXCEPT !.at = "idle", !.raised = TRUE,
                                !.answer = _translate_exception(exception)]
          /\ request' = request
      BY <3>1 DEF LookupRaises, Step, Asides
    <3>3. _translate_exception(exception) \in {400, 401, 500, 502}
      BY TranslatedIs
    <3>4. run'.answer = _translate_exception(exception)
      BY <1>1, <3>2, RunsAre
    <3> QED
      BY <1>1, <3>2, <3>3, <3>4, RunsAre
  <2> QED
    BY <2>1, <2>2, <2>3, <2>4, <2>5
<1> QED
  BY <1>1, <1>2, <1>3, AnswerOutcome

\* Those that convert what a command returned.
LEMMA ConvertOutcome ==
    ASSUME Inv, Inv', Convert \/ ConvertFails
    PROVE  Answers
<1>1. run \in Runs /\ run.at = "convert" /\ run.executions = 1 /\ request.op \in CommandOps
  BY DEF Inv, TypeOK, Located, SentChecked, Convert, ConvertFails, Step
<1>2. /\ run'.at = "idle" /\ request' = request /\ run'.executions = run.executions
      /\ run'.answer \in {200, 400, 500}
  <2>1. CASE Convert
    BY <1>1, <2>1, RunsAre DEF Convert, Step, Asides, Answer
  <2>2. CASE ConvertFails
    <3>1. PICK status \in {400, 500} :
             run' = [run EXCEPT !.at = "idle", !.raised = TRUE, !.answer = status]
      BY <2>2 DEF ConvertFails
    <3>2. request' = request
      BY <2>2 DEF ConvertFails, Step, Asides
    <3> QED
      BY <1>1, <3>1, <3>2, RunsAre
  <2> QED
    BY <2>1, <2>2
<1> QED
  BY <1>1, <1>2, AnswerOutcome

\* Lookups: they go on, or refuse.
LEMMA LookupOutcome ==
    ASSUME Inv, Inv', Connect \/ GetItem \/ GetTypes \/ GetCategory \/ GetFields
    PROVE  Answers \/ Rests
<1>1. Refused \/ Going
  BY ConnectGoes, GetItemGoes, GetTypesGoes, GetCategoryGoes, GetFieldsGoes
<1>2. /\ request' = request /\ run'.executions = run.executions /\ run.at # "idle"
      /\ run.at # "convert" /\ run.executions = 0
      /\ run'.at = "idle" => run'.answer \in {400, 404, 409}
  <2>1. run.at \in Lookups \cup {"begin"}
    BY DEF Connect, GetItem, GetTypes, GetCategory, GetFields, Lookup, Step, Lookups
  <2>2. run.at # "idle" /\ run.executions = 0
    BY <2>1 DEF Inv, Located, Lookups
  <2>3. CASE Refused
    BY <2>1, <2>2, <2>3 DEF Refused, Ended, Beside, Lookups
  <2>4. CASE Going
    <3>1. run'.needs \in SUBSET Lookups
      BY <2>4, RunParts DEF Going
    <3>2. run'.at \in Lookups \cup {"compose"}
      BY <2>4, <3>1, FollowingNeeded DEF Going
    <3> QED
      BY <2>1, <2>2, <2>4, <3>2 DEF Going, Beside, Lookups
  <2> QED
    BY <1>1, <2>3, <2>4
<1>3. CASE run'.at = "idle"
  BY <1>1, <1>2, <1>3, AnswerOutcome
<1>4. CASE run'.at # "idle"
  <2>1. run'.answer = 0
    BY <1>4 DEF Inv, Located
  <2> QED
    BY <1>1, <1>2, <1>4, <2>1, SaysOf DEF Says, Rests
<1> QED
  BY <1>3, <1>4

\* A command executes, and may raise although it did.
LEMMA ExecutionOutcome ==
    ASSUME Inv, Inv', Command \/ \E exception \in Exceptions : CommandRaises(exception)
    PROVE  Executes \/ Answers
<1>1. /\ run \in Runs /\ run.at = "command" /\ run.executions = 0 /\ Says = "open"
      /\ request' = request
  BY SaysOf DEF Inv, TypeOK, Located, Command, CommandRaises, Asides
<1>2. CASE Command
  <2>1. run' = [run EXCEPT !.at = "convert", !.executions = @ + 1]
    BY <1>2 DEF Command
  <2>2. run'.at = "convert" /\ run'.executions = 1 /\ run'.answer = run.answer
    BY <1>1, <2>1, RunsAre
  <2>3. run.answer = 0
    BY <1>1 DEF Inv, Located
  <2> QED
    BY <1>1, <2>2, <2>3 DEF Says, Executes
<1>3. CASE \E exception \in Exceptions : CommandRaises(exception)
  <2>0. PICK exception \in Exceptions : CommandRaises(exception)
    BY <1>3
  <2>1. PICK executed \in IF exception \in AfterExecution THEN {0, 1} ELSE {0} :
           run' = [run EXCEPT !.at = "idle", !.executions = @ + executed, !.raised = TRUE,
                              !.answer = _translate_exception(exception)]
    BY <2>0 DEF CommandRaises
  <2>2. /\ run'.at = "idle" /\ run'.executions = executed
        /\ run'.answer = _translate_exception(exception)
    <3>1. run.executions + executed = executed
      BY <1>1, <2>1
    <3> QED
      BY <1>1, <2>1, <3>1, RunsAre
  <2>3. CASE executed = 0
    <3>1. run'.answer \in {400, 401, 500, 502}
      BY <2>2, TranslatedIs
    <3> QED
      BY <1>1, <2>2, <2>3, <3>1, AnswerOutcome
  <2>4. CASE executed = 1
    <3>1. run'.answer \in {400, 502}
      BY <2>1, <2>2, <2>4, TranslatedIs
    <3>2. Says' = "failed"
      BY <2>2, <3>1 DEF Says
    <3> QED
      BY <1>1, <2>2, <2>4, <3>2 DEF Executes
  <2> QED
    BY <2>1, <2>3, <2>4
<1> QED
  BY <1>2, <1>3

\* A call of the adapter implements CommandOutcome: its command is executed once at
\* most, a success means that it was, and a 401, 404 or 409 that it was not, whichever
\* lookups it makes and wherever Playerok fails it.
THEOREM OutcomeKept == Spec => KeepsOutcome
<1>1. Init => Outcome!Init
  <2>1. Idle.at = "idle" /\ Idle.answer = 0 /\ Idle.executions = 0
    BY DEF Idle
  <2> QED
    BY <2>1 DEF Init, Outcome!Init
<1>2. Inv /\ Inv' /\ [Next]_vars => [Outcome!Next]_Outcome!outcomeVars
  <2> SUFFICES ASSUME Inv, Inv', [Next]_vars
               PROVE  [Outcome!Next]_Outcome!outcomeVars
    OBVIOUS
  <2>1. Executes \/ Answers \/ Begins \/ Rests
    <3>1. CASE \/ (\E r \in offered.requests : Ask(r)) \/ AskFilled \/ AskListed
               \/ \E payload \in offered.applies : ApplyAuth(payload)
      BY <3>1, CallOutcome
    <3>2. CASE \/ RefuseEarly \/ RefuseLate \/ NotRemoved \/ ShowForm
               \/ \E exception \in Exceptions : LookupRaises(exception)
      BY <3>2, RefusalOutcome
    <3>3. CASE Convert \/ ConvertFails
      BY <3>3, ConvertOutcome
    <3>4. CASE Connect \/ GetItem \/ GetTypes \/ GetCategory \/ GetFields
      BY <3>4, LookupOutcome
    <3>5. CASE Command \/ \E exception \in Exceptions : CommandRaises(exception)
      BY <3>5, ExecutionOutcome
    <3>6. CASE Compose
      <4>1. run.at = "compose" /\ request' = request /\ run.answer = 0 /\ run \in Runs
        BY <3>6 DEF Compose, Step, Asides, Inv, TypeOK, Located
      <4>2. run' = [run EXCEPT !.at = "command", !.sent = Composed(request)]
        BY <3>6 DEF Compose
      <4>3. run'.at = "command" /\ run'.answer = 0 /\ run'.executions = run.executions
        BY <4>1, <4>2, RunsAre
      <4> QED
        BY <4>1, <4>3 DEF Rests, Says
    <3>7. CASE ChangeCatalogue \/ ChangeItem \/ UNCHANGED vars
      BY <3>7 DEF ChangeCatalogue, ChangeItem, Changed, vars, Rests, Says
    <3> QED
      BY <3>1, <3>2, <3>3, <3>4, <3>5, <3>6, <3>7 DEF Next
  <2>2. CASE Executes
    BY <2>2 DEF Executes, Says, Outcome!Next, Outcome!Execute
  <2>3. CASE Answers
    BY <2>3 DEF Answers, Says, Outcome!Next, Outcome!Answer
  <2>4. CASE Begins
    BY <2>4 DEF Begins, Says, Outcome!Next, Outcome!Again
  <2>5. CASE Rests
    BY <2>5 DEF Rests, Says, Outcome!outcomeVars
  <2> QED
    BY <2>1, <2>2, <2>3, <2>4, <2>5
<1> QED
  BY <1>1, <1>2, InvHolds, PTL DEF Spec, KeepsOutcome, Outcome!Spec

----------------------------------------------------------------------------
(* How far the lookups have come.                                           *)

\* The lookups a create or an update cannot do without.
Due ==
    LET a == Attributes(request)
    IN CASE request.op = "create" -> {"category", "fields"}
         [] request.op = "update" /\ run.found.category # None ->
                (IF HasOptionsPayload(a) THEN {"category"} ELSE {})
                \cup (IF a.dataFields # None THEN {"fields"} ELSE {})
         [] OTHER -> {}

\* A create that has its category, an update that has its item.
Gathers ==
    /\ request # None /\ request.op \in {"create", "update"}
    /\ run.at \notin {"idle", "begin", "item"} \/ run.sent # None

\* The options are those of the request once the category was looked up, and it offers
\* them; none before, or where it need not be.
OptionsGathered ==
    IF "category" \in Due \ run.needs
    THEN /\ run.options = ResolveOptions(Attributes(request))
         /\ changes = 0 =>
               OptionsOffered(Attributes(request), catalogue[run.found.category].options)
    ELSE run.options = None

\* The same of the data fields.
FieldsGathered ==
    IF "fields" \in Due \ run.needs
    THEN /\ run.fields \in PairSets
         /\ run.fields \subseteq Pairs(ReadDataFieldValues(Attributes(request)))
         /\ changes = 0 =>
               LET fields == FieldsOf(run.found.category, run.found.type)
               IN /\ run.found.category \in DOMAIN catalogue
                  /\ run.fields = ResolveDataFields(Attributes(request), fields)
                  /\ MissingDataFields(Attributes(request), fields) = {}
    ELSE run.fields = None

\* The obtaining type is looked up before its data fields, and not again after them.
Progress ==
    /\ run.at \in {"begin", "item"} => run.options = None /\ run.fields = None
    /\ run.sent # None => run.needs = {}
    /\ Gathers =>
          /\ run.needs \subseteq Due \cup {"types"}
          /\ "types" \in run.needs => "fields" \in run.needs
          /\ OptionsGathered
          /\ FieldsGathered

\* A step that neither looks anything up nor begins a call leaves that as it is.
LEMMA SameProgress ==
    ASSUME Progress, Gathers' => Gathers,
           request' = request, catalogue' = catalogue, changes' = changes,
           run'.found = run.found, run'.needs = run.needs,
           run'.options = run.options, run'.fields = run.fields,
           run'.at \notin {"begin", "item"}, run'.sent # None => run.needs = {}
    PROVE  Progress'
<1>1. Due' = Due
  BY DEF Due
<1>2. OptionsGathered => OptionsGathered'
  BY <1>1 DEF OptionsGathered
<1>3. FieldsGathered => FieldsGathered'
  BY <1>1 DEF FieldsGathered, FieldsOf
<1> QED
  BY <1>1, <1>2, <1>3 DEF Progress

\* Such as an answer.
LEMMA EndedProgress ==
    ASSUME Inv, Progress, Ended
    PROVE  Progress'
<1>1. Gathers' => Gathers
  BY DEF Gathers, Ended, Beside
<1> QED
  BY <1>1, SameProgress DEF Ended, Beside, Progress

\* A call that goes on has sent nothing.
LEMMA GoingUnsent ==
    ASSUME Inv, Going
    PROVE  /\ run'.sent = None /\ request # None
           /\ request' = request /\ catalogue' = catalogue /\ changes' = changes
           /\ request \in RequestType /\ Attributes(request) \in AttributeType
           /\ run.needs \in SUBSET Lookups /\ run'.needs \in SUBSET Lookups
           /\ run'.at = Following(run'.needs)
<1>1. run.sent = None /\ request # None
  BY DEF Inv, Located, Going, Lookups
<1>2. request \in RequestType /\ run \in Runs
  BY <1>1 DEF Inv, TypeOK
<1>3. run.needs \in SUBSET Lookups /\ run'.needs \in SUBSET Lookups
  BY <1>2, RunParts DEF Going
<1> QED
  BY <1>1, <1>2, <1>3, RequestParts DEF Going, Beside

\* A call that connects has gathered nothing, and needs what it must.
LEMMA ConnectProgress ==
    ASSUME Inv, Progress, Connect
    PROVE  Progress'
<1>1. CASE Refused
  BY <1>1, EndedProgress DEF Refused
<1>2. CASE ~Refused
  <2>1. /\ Going /\ run'.options = run.options /\ run'.fields = run.fields
        /\ request.op = "create" =>
              run'.needs \in {{"category", "fields"}, {"category", "fields", "types"}}
        /\ request.op = "update" => run'.needs = {"item"}
    BY <1>2, ConnectGoes
  <2>2. run'.options = None /\ run'.fields = None
    BY <2>1 DEF Connect, Step, Progress
  <2>3. request.op = "update" => run'.at = "item"
    BY <2>1, GoingUnsent, FollowingIs
  <2>4. request.op = "create" => Due' = {"category", "fields"}
    BY <2>1, GoingUnsent DEF Due
  <2> QED
    BY <2>1, <2>2, <2>3, <2>4, GoingUnsent
    DEF Progress, Gathers, OptionsGathered, FieldsGathered
<1> QED
  BY <1>1, <1>2

\* So it is for an update that has its item.
LEMMA GetItemProgress ==
    ASSUME Inv, Progress, GetItem
    PROVE  Progress'
<1>1. CASE Refused
  BY <1>1, EndedProgress DEF Refused
<1>2. CASE ~Refused
  <2>1. /\ Going /\ run'.options = run.options /\ run'.fields = run.fields
        /\ "types" \in run'.needs => "fields" \in run'.needs
        /\ run'.needs \subseteq {"category", "fields", "types"}
        /\ ("fields" \in run'.needs) =
              (run'.found.category # None /\ Attributes(request).dataFields # None)
        /\ ("category" \in run'.needs) =
              (run'.found.category # None /\ HasOptionsPayload(Attributes(request)))
    BY <1>2, GetItemGoes
  <2>2. run'.options = None /\ run'.fields = None /\ run.at = "item"
    BY <2>1 DEF GetItem, Step, Progress
  <2>3. request.op = "update"
    <3>1. "item" \in run.needs
      BY <2>1, <2>2, GoingUnsent, FollowingNeeded DEF Inv, Located, Lookups
    <3> QED
      BY <3>1 DEF Inv, Located
  <2>4. run'.needs \ {"types"} = Due' /\ Due' \subseteq {"category", "fields"}
    <3>1. Due' = {x \in {"category", "fields"} :
                    /\ run'.found.category # None
                    /\ x = "category" => HasOptionsPayload(Attributes(request))
                    /\ x = "fields" => Attributes(request).dataFields # None}
      BY <2>1, <2>3, GoingUnsent DEF Due
    <3> QED
      BY <2>1, <3>1
  <2> QED
    BY <2>1, <2>2, <2>4, GoingUnsent
    DEF Progress, Gathers, OptionsGathered, FieldsGathered
<1> QED
  BY <1>1, <1>2

\* A lookup of a create or an update is made after the item is known.
LEMMA LookupGathers ==
    ASSUME Inv, Progress, Going, run.at \in {"types", "category", "fields"}, Gathers'
    PROVE  /\ Gathers /\ request.op \in {"create", "update"}
           /\ run.at \in run.needs
           /\ run.at = "category" => "types" \notin run.needs
           /\ run.at = "fields" => run.needs \subseteq {"fields"}
<1>1. request # None /\ request.op \in {"create", "update"}
  BY GoingUnsent DEF Gathers
<1>2. Gathers
  BY <1>1 DEF Gathers
<1>3. run.at = Following(run.needs) /\ run.needs \in SUBSET Lookups
  BY GoingUnsent DEF Inv, Located, Lookups
<1> QED
  BY <1>1, <1>2, <1>3, FollowingIs DEF Lookups

\* The obtaining types leave the options and the data fields to come.
LEMMA GetTypesProgress ==
    ASSUME Inv, Progress, GetTypes
    PROVE  Progress'
<1>1. CASE Refused
  BY <1>1, EndedProgress DEF Refused
<1>2. CASE ~Refused
  <2>1. /\ Going /\ run'.options = run.options /\ run'.fields = run.fields
        /\ run'.found.category = run.found.category
        /\ request.op # "metadata" => run'.needs = run.needs \ {"types"}
    BY <1>2, GetTypesGoes
  <2>2. run'.at \notin {"begin", "item"}
    <3>1. "item" \notin run.needs
      BY <2>1, GoingUnsent, FollowingIs DEF GetTypes, Lookup, Step, Inv, Located, Lookups
    <3>2. "item" \notin run'.needs
      <4>1. CASE request.op = "metadata"
        BY <2>1, <4>1 DEF Going
      <4> QED
        BY <2>1, <3>1, <4>1
    <3> QED
      BY <2>1, <3>2, GoingUnsent, FollowingNeeded DEF Lookups
  <2>3. ASSUME Gathers'
        PROVE  /\ run'.needs \subseteq Due' \cup {"types"}
               /\ "types" \in run'.needs => "fields" \in run'.needs
               /\ OptionsGathered' /\ FieldsGathered'
    <3>1. Gathers /\ request.op # "metadata" /\ "types" \in run.needs
      BY <2>1, <2>3, LookupGathers DEF GetTypes, Lookup, Step
    <3>2. Due' = Due /\ run'.needs = run.needs \ {"types"} /\ "fields" \in run.needs
      BY <2>1, <3>1, GoingUnsent DEF Due, Progress
    <3>3. OptionsGathered'
      BY <2>1, <3>1, <3>2, GoingUnsent DEF Progress, OptionsGathered
    <3>4. FieldsGathered'
      BY <2>1, <3>1, <3>2, GoingUnsent DEF Progress, FieldsGathered
    <3> QED
      BY <3>1, <3>2, <3>3, <3>4 DEF Progress
  <2> QED
    BY <2>1, <2>2, <2>3, GoingUnsent DEF Progress
<1> QED
  BY <1>1, <1>2

\* The category gives the options.
LEMMA GetCategoryProgress ==
    ASSUME Inv, Progress, GetCategory
    PROVE  Progress'
<1>1. CASE Refused
  BY <1>1, EndedProgress DEF Refused
<1>2. CASE ~Refused
  <2>1. /\ Going
        /\ run'.needs = run.needs \ {"category"}
        /\ run'.options = ResolveOptions(Attributes(request)) /\ run'.fields = run.fields
        /\ run'.found.category = run.found.category /\ run'.found.type = run.found.type
        /\ OptionsOffered(Attributes(request), catalogue[run.found.category].options)
    BY <1>2, GetCategoryGoes
  <2>2. run'.at \notin {"begin", "item"}
    <3>1. "item" \notin run.needs
      <4>1. CASE request.op = "metadata"
        BY <2>1, <4>1, GoingUnsent DEF Inv, Located
      <4>2. CASE request.op # "metadata"
        BY <2>1, <4>2, GoingUnsent, FollowingIs
        DEF GetCategory, Lookup, Step, Inv, Located, Lookups
      <4> QED
        BY <4>1, <4>2
    <3> QED
      BY <2>1, <3>1, GoingUnsent, FollowingNeeded DEF Lookups
  <2>3. ASSUME Gathers'
        PROVE  /\ run'.needs \subseteq Due' \cup {"types"}
               /\ "types" \in run'.needs => "fields" \in run'.needs
               /\ OptionsGathered' /\ FieldsGathered'
    <3>1. Gathers /\ "category" \in run.needs
      BY <2>1, <2>3, LookupGathers DEF GetCategory, Lookup, Step
    <3>2. Due' = Due /\ "category" \in Due
      BY <2>1, <3>1, GoingUnsent DEF Due, Progress
    <3>3. OptionsGathered'
      BY <2>1, <3>2, GoingUnsent DEF OptionsGathered
    <3>4. FieldsGathered'
      BY <2>1, <3>1, <3>2, GoingUnsent DEF Progress, FieldsGathered, FieldsOf
    <3> QED
      BY <2>1, <3>1, <3>2, <3>3, <3>4 DEF Progress
  <2> QED
    BY <2>1, <2>2, <2>3, GoingUnsent DEF Progress
<1> QED
  BY <1>1, <1>2

\* And the obtaining type its data fields.
LEMMA GetFieldsProgress ==
    ASSUME Inv, Progress, GetFields
    PROVE  Progress'
<1> DEFINE fields == FieldsOf(run.found.category, run.found.type)
<1>1. CASE Refused
  BY <1>1, EndedProgress DEF Refused
<1>2. CASE ~Refused
  <2>1. /\ Going
        /\ run'.needs = run.needs \ {"fields"} /\ run'.options = run.options
        /\ run'.fields = ResolveDataFields(Attributes(request), fields)
        /\ run'.fields \in PairSets
        /\ run'.found.category = run.found.category /\ run'.found.type = run.found.type
        /\ request.op # "metadata" => MissingDataFields(Attributes(request), fields) = {}
    BY <1>2, GetFieldsGoes
  <2>2. run'.at \notin {"begin", "item"}
    <3>1. "item" \notin run.needs
      <4>1. CASE request.op = "metadata"
        BY <2>1, <4>1, GoingUnsent DEF Inv, Located
      <4>2. CASE request.op # "metadata"
        BY <2>1, <4>2, GoingUnsent, FollowingIs
        DEF GetFields, Lookup, Step, Inv, Located, Lookups
      <4> QED
        BY <4>1, <4>2
    <3> QED
      BY <2>1, <3>1, GoingUnsent, FollowingNeeded DEF Lookups
  <2>3. ASSUME Gathers'
        PROVE  /\ run'.needs \subseteq Due' \cup {"types"}
               /\ "types" \in run'.needs => "fields" \in run'.needs
               /\ OptionsGathered' /\ FieldsGathered'
    <3>1. /\ Gathers /\ request.op # "metadata"
          /\ "fields" \in run.needs /\ run.needs \subseteq {"fields"}
      BY <2>1, <2>3, LookupGathers DEF GetFields, Lookup, Step
    <3>2. Due' = Due /\ "fields" \in Due /\ run'.needs = {}
      BY <2>1, <3>1, GoingUnsent DEF Due, Progress
    <3>3. OptionsGathered'
      BY <2>1, <3>1, <3>2, GoingUnsent DEF Progress, OptionsGathered
    <3>4. fields' = fields /\ run.found.category \in DOMAIN catalogue
      BY <2>1, GoingUnsent DEF FieldsOf, GetFields, Lookup
    <3>5. FieldsGathered'
      <4> HIDE DEF fields
      <4>1. (FieldsOf(run.found.category, run.found.type))' = fields
        BY <3>4 DEF fields
      <4>2. run'.fields \subseteq Pairs(ReadDataFieldValues(Attributes(request)))
        BY <2>1, ResolveDataFieldsOf
      <4>3. request' = request
        BY <2>1, GoingUnsent
      <4>4. (Pairs(ReadDataFieldValues(Attributes(request))))'
              = Pairs(ReadDataFieldValues(Attributes(request)))
        BY <4>3
      <4> QED
        BY <2>1, <3>1, <3>2, <3>4, <4>1, <4>2, <4>4, GoingUnsent DEF FieldsGathered
    <3> QED
      BY <3>2, <3>3, <3>5
  <2> QED
    BY <2>1, <2>2, <2>3, GoingUnsent DEF Progress
<1> QED
  BY <1>1, <1>2

\* Every step keeps what is known of the lookups.
LEMMA ProgressKeeps ==
    ASSUME Inv, Inv', Progress, [Next]_vars
    PROVE  Progress'
<1>1. CASE \/ (\E r \in offered.requests : Ask(r)) \/ AskFilled \/ AskListed
           \/ \E payload \in offered.applies : ApplyAuth(payload)
  <2>1. \/ run' = [Idle EXCEPT !.at = "begin"]
        \/ request' = None /\ \E status \in {200, 400, 500} : run' = [Idle EXCEPT !.answer = status]
    BY <1>1 DEF AskFilled, AskListed, Ask, ApplyAuth
  <2>2. /\ run'.options = None /\ run'.fields = None /\ run'.sent = None
        /\ request' = None \/ run'.at = "begin"
    BY <2>1 DEF Idle
  <2> QED
    BY <2>2 DEF Progress, Gathers
<1>2. CASE \/ RefuseEarly \/ RefuseLate \/ NotRemoved \/ Convert \/ ConvertFails
           \/ \E exception \in Exceptions : LookupRaises(exception)
  BY <1>2, AnswersEnd, EndedProgress
<1>3. CASE Connect \/ GetItem \/ GetTypes \/ GetCategory \/ GetFields
  BY <1>3, ConnectProgress, GetItemProgress, GetTypesProgress, GetCategoryProgress,
     GetFieldsProgress
<1>4. CASE Compose \/ ShowForm \/ Command
  <2>1. run \in Runs /\ "idle" \in Points /\ "command" \in Points /\ "convert" \in Points
    BY DEF Inv, TypeOK, Points
  <2>2. /\ run'.found = run.found /\ run'.needs = run.needs
        /\ run'.options = run.options /\ run'.fields = run.fields
        /\ run'.at \in {"command", "convert", "idle"}
        /\ request' = request /\ catalogue' = catalogue /\ changes' = changes
    <3>1. CASE Compose
      BY <2>1, <3>1, RunsAre DEF Compose, Step, Asides
    <3>2. CASE ShowForm
      BY <2>1, <3>2, RunsAre DEF ShowForm, Asides, Answer
    <3>3. CASE Command
      BY <2>1, <3>3, RunsAre DEF Command, Asides
    <3> QED
      BY <1>4, <3>1, <3>2, <3>3
  <2>3. run.at \in {"compose", "command"} /\ (run'.sent # None => run.needs = {})
    <3>1. CASE Compose \/ ShowForm
      BY <3>1 DEF Compose, ShowForm, Step, Inv, Located
    <3>2. CASE Command
      BY <2>1, <3>2 DEF Command, Inv, Located, Progress
    <3> QED
      BY <1>4, <3>1, <3>2
  <2>4. Gathers' => Gathers
    BY <2>2, <2>3 DEF Gathers
  <2> QED
    BY <2>2, <2>3, <2>4, SameProgress
<1>5. CASE ChangeCatalogue \/ ChangeItem
  <2>1. UNCHANGED <<request, run>> /\ changes' = changes + 1 /\ changes' # 0
    BY <1>5 DEF ChangeCatalogue, ChangeItem, Changed, Inv, TypeOK
  <2>2. Due' = Due
    BY <2>1 DEF Due
  <2> QED
    BY <2>1, <2>2 DEF Progress, Gathers, OptionsGathered, FieldsGathered
<1>6. CASE \E exception \in Exceptions : CommandRaises(exception)
  BY <1>6, CommandRaisesEnds, EndedProgress
<1>7. CASE UNCHANGED vars
  BY <1>7 DEF vars, Progress, Gathers, OptionsGathered, FieldsGathered, Due, FieldsOf
<1> QED
  BY <1>1, <1>2, <1>3, <1>4, <1>5, <1>6, <1>7 DEF Next

\* So it is known throughout.
LEMMA ProgressHolds == Spec => []Progress
<1>1. Init => Progress
  BY DEF Init, Idle, Progress, Gathers
<1>2. Inv /\ Inv' /\ Progress /\ [Next]_vars => Progress'
  BY ProgressKeeps
<1> QED
  BY <1>1, <1>2, InvHolds, PTL DEF Spec

----------------------------------------------------------------------------
(* What a command is sent with.                                             *)

\* The arguments of a command, by its operation.
LEMMA SentIs ==
    ASSUME Inv, Progress, run.sent # None
    PROVE  /\ request \in RequestType /\ Attributes(request) \in AttributeType
           /\ request.op \in CommandOps
           /\ request.op \in {"create", "update"} =>
                 /\ Gathers /\ run.needs = {}
                 /\ run.sent.options = run.options /\ run.sent.fields = run.fields
                 /\ run.sent.title = request.title
                 /\ PriceRefusal(request.price) = 0
                 /\ run.sent.price = NormalizePrice(request.price)
           /\ request.op = "create" =>
                 run.sent.category = run.found.category /\ run.sent.type = run.found.type
           /\ request.op \notin {"create", "update"} => run.sent = NoArguments
<1>1. /\ request # None /\ request \in RequestType /\ request.op \in CommandOps
      /\ LateRefusal(request) = 0 /\ run.sent = Composed(request)
  BY DEF Inv, TypeOK, SentChecked
<1>2. request.op \in {"create", "update"} => PriceRefusal(request.price) = 0
  BY <1>1 DEF LateRefusal
<1> QED
  BY <1>1, <1>2, RequestParts DEF Composed, NoArguments, Gathers, Progress

\* A price that is sent is a whole number of at least 1, not further than half from the
\* one asked for: _normalize_price refuses what would round to less, and never sends a
\* NaN or an Infinity on.
THEOREM PricesNearest == Spec => []PriceNearest
<1>1. Inv /\ Progress => PriceNearest
  <2> SUFFICES ASSUME Inv, Progress, run.sent # None, run.sent.price # None
               PROVE  run.sent.price >= 1 /\ 4 * run.sent.price - request.price \in -2..2
    BY DEF PriceNearest
  <2>1. /\ request.price \in Nat \cup {None, NaN, Infinity} /\ PriceRefusal(request.price) = 0
        /\ run.sent.price = NormalizePrice(request.price)
    BY SentIs, RequestParts DEF NoArguments
  <2> QED
    BY <2>1, PricePassed
<1> QED
  BY <1>1, InvHolds, ProgressHolds, PTL

\* The options of a command are among those asked for, one for each field, and offered
\* by the category of the product, for all that metadata or the product have said.
THEOREM OptionsAreOffered == Spec => []OptionsOfTheCategory
<1>1. Inv /\ Progress => OptionsOfTheCategory
  <2> SUFFICES ASSUME Inv, Progress, run.sent # None, run.sent.options # None
               PROVE  OptionsOfTheCategory
    BY DEF OptionsOfTheCategory
  <2> DEFINE attributes == Attributes(request)
             values == ReadOptionValues(attributes)
  <2>1. /\ attributes \in AttributeType /\ run.needs = {} /\ OptionsGathered
        /\ run.sent.options = run.options
        /\ request.op = "create" => run.sent.category = run.found.category
    BY SentIs DEF NoArguments, Progress
  <2>2. /\ run.options = ResolveOptions(attributes)
        /\ changes = 0 => OptionsOffered(attributes, catalogue[run.found.category].options)
    BY <2>1 DEF OptionsGathered
  <2>3. run.sent.options = Pairs(values)
    BY <2>1, <2>2 DEF ResolveOptions
  <2>4. /\ \A o \in Pairs(values) :
              \E e \in AskedOptions(attributes) : o = <<e.name, Text(e.value)>>
        /\ \A o, p \in Pairs(values) : o[1] = p[1] => o = p
    BY <2>1, OptionValuesOf, PairsOf
  <2>5. changes = 0 => run.sent.options \subseteq catalogue[run.found.category].options
    BY <2>2, <2>3 DEF OptionsOffered
  <2> QED
    BY <2>3, <2>4, <2>5 DEF OptionsOfTheCategory
<1> QED
  BY <1>1, InvHolds, ProgressHolds, PTL

\* A create is sent with every data field that the first page requires, and none else.
THEOREM RequiredGiven == Spec => []RequiredFieldsGiven
<1>1. Inv /\ Progress => RequiredFieldsGiven
  <2> SUFFICES ASSUME Inv, Progress, run.sent # None, request.op = "create", changes = 0
               PROVE  RequiredFieldsGiven
    BY DEF RequiredFieldsGiven
  <2> DEFINE attributes == Attributes(request)
             fields == FieldsOf(run.found.category, run.found.type)
             values == ReadDataFieldValues(attributes)
             names == {p[1] : p \in run.sent.fields}
  <2>1. /\ attributes \in AttributeType /\ run.needs = {} /\ FieldsGathered
        /\ run.sent.fields = run.fields
        /\ run.sent.category = run.found.category /\ run.sent.type = run.found.type
    BY SentIs DEF Progress
  <2>2. /\ run.found.category \in DOMAIN catalogue
        /\ run.fields = ResolveDataFields(attributes, fields)
        /\ MissingDataFields(attributes, fields) = {}
    BY <2>1 DEF FieldsGathered, Due
  <2>3. fields \in Seq(DataFields)
    BY <2>2, OfferType DEF Inv, OffersTyped
  <2>4. ToSet(FirstPage(fields)) = {fields[i] : i \in {j \in DOMAIN fields : j <= PageSize}}
    BY <2>3, FirstPageOf
  <2>5. names = {f.id : f \in {g \in ToSet(FirstPage(fields)) : g.id \in DOMAIN values}}
    <3> DEFINE G == {g \in ToSet(FirstPage(fields)) : g.id \in DOMAIN values}
    <3>1. run.sent.fields = {<<f.id, values[f.id]>> : f \in G}
      BY <2>1, <2>2 DEF ResolveDataFields
    <3> HIDE DEF G, fields, values
    <3>2. \A p \in run.sent.fields : \E f \in G : p[1] = f.id
      BY <3>1
    <3>3. \A f \in G : \E p \in run.sent.fields : p[1] = f.id
      <4> SUFFICES ASSUME NEW f \in G
                   PROVE  \E p \in run.sent.fields : p[1] = f.id
        OBVIOUS
      <4>1. <<f.id, values[f.id]>> \in run.sent.fields /\ <<f.id, values[f.id]>>[1] = f.id
        BY <3>1
      <4> QED
        BY <4>1
    <3> QED
      BY <3>2, <3>3 DEF G
  <2>6. ASSUME NEW i \in DOMAIN fields, i <= PageSize, fields[i].id # Blank,
               fields[i].required, fields[i].type = "ITEM_DATA"
        PROVE  fields[i].id \in names
    <3>1. fields[i] \in ToSet(FirstPage(fields))
      BY <2>4, <2>6
    <3>2. fields[i].id \in DOMAIN values
      BY <2>2, <2>6, <3>1 DEF MissingDataFields
    <3> QED
      BY <2>5, <3>1, <3>2
  <2>7. names \subseteq {fields[i].id : i \in DOMAIN fields}
    BY <2>4, <2>5
  <2> QED
    BY <2>1, <2>6, <2>7 DEF RequiredFieldsGiven
<1> QED
  BY <1>1, InvHolds, ProgressHolds, PTL

\* The entries of a list that is there, and of none.
LEMMA EntriesAre ==
    /\ \A v \in {None, Null, Malformed} : EntriesOf(v) = <<>>
    /\ \A s \in Seq(Scalars) : EntriesOf(s) = s
  BY AbsentAssumption DEF EntriesOf

\* The texts of a list of an attribute, with or without one.
LEMMA ReadStringListIs ==
    ASSUME NEW list \in Seq(Scalars) \cup {None, Malformed}, None \notin SUBSET Texts
    PROVE  Or(ReadStringList(list), {}) = {Text(v) : v \in ToSet(EntriesOf(list))} \ {Blank}
<1> DEFINE texts == {Text(v) : v \in ToSet(EntriesOf(list))} \ {Blank}
<1>1. ReadStringList(list) = IF texts = {} THEN None ELSE texts
  <2>1. CASE list \in {None, Malformed}
    <3>1. EntriesOf(list) = <<>> /\ ToSet(<<>>) = {}
      BY <2>1, EntriesAre DEF ToSet
    <3> QED
      BY <2>1, <3>1 DEF ReadStringList
  <2>2. CASE list \notin {None, Malformed}
    <3>1. EntriesOf(list) = list
      BY <2>2, EntriesAre
    <3> QED
      BY <2>2, <3>1 DEF ReadStringList
  <2> QED
    BY <2>1, <2>2
<1>2. texts \subseteq Texts
  <2>1. ToSet(EntriesOf(list)) \subseteq Scalars
    BY EntriesType, ToSetOf
  <2>2. \A v \in Scalars : Text(v) \in Texts \cup {Blank}
    BY TextAssumption DEF Text, Scalars
  <2> QED
    BY <2>1, <2>2
<1> HIDE DEF texts
<1>3. texts # None
  BY <1>2
<1> QED
  BY <1>1, <1>3 DEF Or, texts

\* The paths of media are its texts.
LEMMA MediaPathsAre ==
    ASSUME NEW media \in Seq(Texts \cup {Blank})
    PROVE  /\ media # None /\ media \in Seq(Scalars) /\ EntriesOf(media) = media
           /\ MediaPaths(media) = {Text(v) : v \in ToSet(EntriesOf(media))} \ {Blank}
<1>1. media \in Seq(Scalars)
  <2>1. Texts \cup {Blank} \subseteq Scalars
    BY DEF Scalars
  <2> QED
    BY <2>1, SeqWider
<1>2. EntriesOf(media) = media /\ media # None
  BY <1>1, EntriesAre, AbsentAssumption
<1>3. \A v \in ToSet(media) : Text(v) = v
  <2>1. ToSet(media) \subseteq Texts \cup {Blank}
    BY ToSetOf
  <2> QED
    BY <2>1, TextAssumption DEF Text
<1> QED
  BY <1>1, <1>2, <1>3 DEF MediaPaths

\* The attachments of an update: those of the list and those of media.
LEMMA AttachmentsAre ==
    ASSUME NEW r \in RequestType, None \notin SUBSET Texts
    PROVE  Or(Attachments(r), {}) =
              {Text(v) : v \in ToSet(EntriesOf(Attributes(r).addAttachmentPaths)
                                       \o EntriesOf(r.media))} \ {Blank}
<1> DEFINE list == Attributes(r).addAttachmentPaths
           Listing(entries) == {Text(v) : v \in ToSet(entries)} \ {Blank}
<1>1. /\ list \in Seq(Scalars) \cup {None, Malformed}
      /\ r.media \in Seq(Texts \cup {Blank}) \cup {None}
  BY RequestParts, AttributeFields
<1>2. Or(ReadStringList(list), {}) = Listing(EntriesOf(list))
  BY <1>1, ReadStringListIs
<1>3. EntriesOf(list) \in Seq(Scalars) /\ EntriesOf(r.media) \in Seq(Scalars)
  <2>1. EntriesOf(list) \in Seq(Scalars)
    BY <1>1, EntriesType
  <2>2. CASE r.media = None
    BY <2>1, <2>2, EntriesAre
  <2>3. CASE r.media # None
    BY <1>1, <2>1, <2>3, MediaPathsAre
  <2> QED
    BY <2>2, <2>3
<1>4. Listing(EntriesOf(list) \o EntriesOf(r.media))
        = Listing(EntriesOf(list)) \cup Listing(EntriesOf(r.media))
  <2>1. ToSet(EntriesOf(list) \o EntriesOf(r.media))
          = ToSet(EntriesOf(list)) \cup ToSet(EntriesOf(r.media))
    BY <1>3, ToSetConcat
  <2> QED
    BY <2>1
<1>5. Or(Attachments(r), {}) = Listing(EntriesOf(list)) \cup Listing(EntriesOf(r.media))
  <2>1. CASE r.media = None
    <3>1. EntriesOf(r.media) = <<>> /\ ToSet(<<>>) = {}
      BY <2>1, EntriesAre DEF ToSet
    <3> QED
      BY <1>2, <2>1, <3>1 DEF Attachments
  <2>2. CASE r.media # None
    <3>1. Attachments(r) = Listing(EntriesOf(list)) \cup Listing(EntriesOf(r.media))
      BY <1>1, <1>2, <2>2, MediaPathsAre DEF Attachments
    <3>2. Attachments(r) # None
      <4>1. Attachments(r) = Or(ReadStringList(list), {}) \cup MediaPaths(r.media)
        BY <2>2 DEF Attachments
      <4>2. Or(ReadStringList(list), {}) \in SUBSET Texts /\ MediaPaths(r.media) \in SUBSET Texts
        BY <1>1, <2>2, ReadStringListType, MediaPathsType DEF Or
      <4>3. Attachments(r) \in SUBSET Texts
        BY <4>1, <4>2
      <4> QED
        BY <4>3
    <3> QED
      BY <3>1, <3>2 DEF Or
  <2> QED
    BY <2>1, <2>2
<1> QED
  BY <1>4, <1>5

\* An update is sent with every option and every file that its request names, with the
\* data fields it names of those on the first page, with its title and a price if it has
\* one, and with nothing else; of a product without a category, with no options and no
\* data fields.  That no set is None cannot be asked of TLC, which does not compare them;
\* so it is a hypothesis.
THEOREM NamedIsSent ==
    ASSUME None \notin PairSets, None \notin SUBSET Texts
    PROVE  Spec => []UpdateSendsNamed
<1>1. Inv /\ Progress => UpdateSendsNamed
  <2> SUFFICES ASSUME Inv, Progress, run.sent # None, request.op = "update"
               PROVE  UpdateSendsNamed
    BY DEF UpdateSendsNamed
  <2> DEFINE sent == run.sent
             attributes == Attributes(request)
             known == run.found.category # None
             given == ToSet(EntriesOf(attributes.dataFields))
             names == NamesOf(AskedOptions(attributes))
             shown == FirstPage(FieldsOf(run.found.category, run.found.type))
             values == ReadDataFieldValues(attributes)
  <2>1. /\ request \in RequestType /\ attributes \in AttributeType /\ run.needs = {}
        /\ sent.options = run.options /\ sent.fields = run.fields
        /\ sent.title = request.title /\ PriceRefusal(request.price) = 0
        /\ sent.price = NormalizePrice(request.price)
        /\ OptionsGathered /\ FieldsGathered
    BY SentIs DEF Progress
  <2>2. (sent.price # None) = (request.price # None)
    BY <2>1, RequestParts, PricePassed
  <2>3. /\ ("fields" \in Due) = (known /\ attributes.dataFields # None)
        /\ ("category" \in Due) = (known /\ HasOptionsPayload(attributes))
    BY DEF Due
  <2>4. (sent.fields # None) = (known /\ attributes.dataFields # None)
    BY <2>1, <2>3 DEF FieldsGathered
  <2>5. {o[1] : o \in Or(sent.options, {})} = IF known THEN names ELSE {}
    <3>1. CASE "category" \in Due
      <4>1. sent.options = ResolveOptions(attributes)
        BY <2>1, <3>1 DEF OptionsGathered
      <4>2. /\ Pairs(ReadOptionValues(attributes)) \in PairSets
            /\ {o[1] : o \in Pairs(ReadOptionValues(attributes))} = DOMAIN ReadOptionValues(attributes)
            /\ DOMAIN ReadOptionValues(attributes) = names
        <5>1. IsDictionary(ReadOptionValues(attributes)) /\ DOMAIN ReadOptionValues(attributes) = names
          BY <2>1, OptionValuesOf
        <5> HIDE DEF attributes, names
        <5> QED
          BY <5>1, PairsOf, PairNames DEF PairSets
      <4>3. Or(sent.options, {}) = Pairs(ReadOptionValues(attributes))
        <5>1. Pairs(ReadOptionValues(attributes)) # None
          BY <4>2
        <5>2. CASE DOMAIN ReadOptionValues(attributes) = {}
          BY <4>1, <5>2 DEF ResolveOptions, Or, Pairs
        <5>3. CASE DOMAIN ReadOptionValues(attributes) # {}
          BY <4>1, <5>1, <5>3 DEF ResolveOptions, Or
        <5> QED
          BY <5>2, <5>3
      <4> QED
        BY <2>3, <3>1, <4>2, <4>3
    <3>2. CASE "category" \notin Due
      <4>1. Or(sent.options, {}) = {}
        BY <2>1, <3>2 DEF OptionsGathered, Or
      <4>2. known => names = {}
        BY <2>1, <2>3, <3>2, NoOptionValues, OptionValuesOf
      <4> QED
        BY <4>1, <4>2
    <3> QED
      BY <3>1, <3>2
  <2>6. sent = Composed(request)
    BY DEF Inv, SentChecked
  <2>7. /\ sent.add = Attachments(request)
        /\ sent.remove = ReadStringList(attributes.removeAttachmentIds)
        /\ sent.category = None /\ sent.type = None
    BY <2>6 DEF Composed, NoArguments
  <2>8. Or(sent.add, {}) =
          {Text(v) : v \in ToSet(EntriesOf(attributes.addAttachmentPaths)
                                   \o EntriesOf(request.media))} \ {Blank}
    BY <2>1, <2>7, AttachmentsAre
  <2>9. Or(sent.remove, {})
          = {Text(v) : v \in ToSet(EntriesOf(attributes.removeAttachmentIds))} \ {Blank}
    BY <2>1, <2>7, AttributeFields, ReadStringListIs
  <2>10. /\ IsDictionary(values) /\ DOMAIN values = NamesOf(given)
         /\ \A p \in Pairs(values) : \E e \in given : p = <<e.name, Text(e.value)>>
    BY <2>1, DataFieldValuesOf
  <2>11. \A p \in Or(sent.fields, {}) : \E e \in given : p = <<e.name, Text(e.value)>>
    <3>1. CASE sent.fields = None
      BY <3>1 DEF Or
    <3>2. CASE sent.fields # None
      <4>1. sent.fields \subseteq Pairs(values) /\ Or(sent.fields, {}) = sent.fields
        BY <2>1, <3>2 DEF FieldsGathered, Or
      <4> HIDE DEF values, given, sent
      <4> QED
        BY <2>10, <4>1
    <3> QED
      BY <3>1, <3>2
  <2>12. changes = 0 /\ sent.fields # None =>
           {p[1] : p \in sent.fields} = NamesOf(given) \cap {f.id : f \in ToSet(shown)}
    <3> SUFFICES ASSUME changes = 0, sent.fields # None
                 PROVE  {p[1] : p \in sent.fields}
                          = NamesOf(given) \cap {f.id : f \in ToSet(shown)}
      OBVIOUS
    <3>1. sent.fields = ResolveDataFields(attributes, FieldsOf(run.found.category, run.found.type))
      BY <2>1 DEF FieldsGathered
    <3> QED
      BY <2>10, <3>1, ResolveDataFieldsOf
  <2> HIDE DEF sent, attributes, names, given, shown
  <2> QED
    BY <2>1, <2>2, <2>4, <2>5, <2>7, <2>8, <2>9, <2>11, <2>12
    DEF UpdateSendsNamed, sent, attributes, names, given, shown
<1> QED
  BY <1>1, InvHolds, ProgressHolds, PTL

----------------------------------------------------------------------------
(* A form is enough.                                                        *)

\* A form shows what Playerok offers in its category, and asks for the data fields of
\* its obtaining type.
Shows(f) ==
    /\ f.category \in DOMAIN catalogue
    /\ f.options = catalogue[f.category].options
    /\ f.types = FirstPage(catalogue[f.category].types)
    /\ f.type # None => f.fields = FirstPage(FieldsOf(f.category, f.type))

FormShown == form # None /\ form.category # None /\ changes = 0 => Shows(form)

\* A query has found the part of it that it does not need any more.
QueryFinds ==
    /\ request # None /\ request.op = "metadata" /\ run.at \in Lookups \cup {"compose"}
    /\ run.found.category # None /\ changes = 0
    =>
    LET f == run.found
        offer == catalogue[f.category]
    IN /\ "category" \in run.needs => "types" \in run.needs
       /\ "category" \notin run.needs => f.category \in DOMAIN catalogue /\ f.options = offer.options
       /\ "types" \notin run.needs => f.types = FirstPage(offer.types)
       /\ run.needs = {} /\ f.type # None => f.fields = FirstPage(FieldsOf(f.category, f.type))

\* A create that was filled in was filled in from the form that is there.
FilledFrom ==
    request # None /\ request.origin = "form" =>
        form # None /\ form.category # None /\ request \in Filled

\* Such a create, while neither Playerok nor the credentials stand in its way...
FormAsked ==
    /\ request # None /\ request.origin = "form" /\ changes = 0 /\ ~run.raised
    /\ Usable(Resolved) /\ form.type # None

\* ...is not refused, and comes to the category and the obtaining type of the form.
OnItsWay ==
    /\ run.answer \in {0, 200}
    /\ run.at \notin {"idle", "begin"} =>
          /\ run.found.category = form.category
          /\ \/ run.found.type = form.type
             \/ /\ run.found.type = None /\ "types" \in run.needs
                /\ form.type = ReadOptionalAttr(form.types)

FormInv == FormShown /\ QueryFinds /\ FilledFrom /\ (FormAsked => OnItsWay)

\* The options a caller picks from a form are offered by its category.
LEMMA PicksOffered ==
    ASSUME form \in Forms, IsFiniteSet(form.options), form.category # None,
           NEW type \in Texts \cup {None}, NEW pick \in OptionPicks
    PROVE  OptionsOffered(FilledWith(type, pick), form.options)
<1> DEFINE a == FilledWith(type, pick)
           entries == SetToSeq(OptionEntries(pick))
<1>1. /\ a \in AttributeType /\ a.options = entries /\ a.extras = <<>>
  BY FilledWithType
<1>2. /\ IsFiniteSet(OptionEntries(pick)) /\ Pairs(pick) \subseteq form.options
      /\ \A f \in DOMAIN pick : f \in Texts /\ pick[f] \in Texts
  BY OptionEntriesType
<1>3. entries \in Seq([name: Texts, value: Texts]) /\ ToSet(entries) = OptionEntries(pick)
  <2>1. OptionEntries(pick) \subseteq [name: Texts, value: Texts]
    BY <1>2 DEF OptionEntries
  <2>2. entries \in Seq(OptionEntries(pick)) /\ ToSet(entries) = OptionEntries(pick)
    BY <1>2, SetToSeqOf
  <2> HIDE DEF entries
  <2> QED
    BY <2>1, <2>2, SeqWider
<1>4. EntriesOf(entries) = entries
  <2> HIDE DEF entries
  <2> QED
    BY <1>3, GivenEntries, AbsentAssumption DEF EntriesOf
<1>5. \A p \in Pairs(ReadEntries(entries)) : p \in form.options
  <2> SUFFICES ASSUME NEW p \in Pairs(ReadEntries(entries))
               PROVE  p \in form.options
    OBVIOUS
  <2>1. PICK e \in OptionEntries(pick) : p = <<e.name, e.value>>
    <3> HIDE DEF entries
    <3> QED
      BY <1>3, GivenEntries
  <2>2. PICK f \in DOMAIN pick : e = [name |-> f, value |-> pick[f]]
    BY DEF OptionEntries
  <2>3. p \in Pairs(pick)
    BY <2>1, <2>2 DEF Pairs
  <2> QED
    BY <1>2, <2>3
<1>6. Pairs(ReadOptionValues(a)) \subseteq Pairs(ReadEntries(entries)) \cup Pairs(ReadExtras(<<>>))
  <2>1. IsDictionary(ReadEntries(entries))
    <3> HIDE DEF entries
    <3> QED
      BY <1>3, GivenEntries, ReadEntriesOf
  <2>2. <<>> \in Seq(ExtraEntries)
    OBVIOUS
  <2>3. IsDictionary(ReadExtras(<<>>))
    BY <2>2, ReadExtrasOf
  <2>4. ReadOptionValues(a) = Under(ReadEntries(entries), ReadExtras(<<>>))
    <3> HIDE DEF a, entries
    <3> QED
      BY <1>1, <1>4 DEF ReadOptionValues
  <2> QED
    BY <2>1, <2>3, <2>4, UnderOf
<1>7. Pairs(ReadExtras(<<>>)) = {}
  <2>1. DOMAIN ReadExtras(<<>>) = {}
    BY DEF ReadExtras, FirstWins, NamesAt, NonBlank
  <2> QED
    BY <2>1 DEF Pairs
<1> QED
  BY <1>5, <1>6, <1>7 DEF OptionsOffered

\* The data fields a caller fills in leave none of the form missing.
LEMMA NoneMissing ==
    ASSUME form \in Forms, IsFiniteSet(form.options), form.category # None,
           NEW type \in Texts \cup {None}, NEW pick \in OptionPicks,
           NEW fields, FirstPage(fields) = form.fields
    PROVE  MissingDataFields(FilledWith(type, pick), fields) = {}
<1> DEFINE a == FilledWith(type, pick)
           entries == SetToSeq(FieldEntries)
<1>1. a.dataFields = entries
  BY FilledWithType
<1>2. IsFiniteSet(FieldEntries) /\ RequiredIds \subseteq Texts
  BY FieldEntriesType
<1>3. entries \in Seq([name: Texts, value: Texts]) /\ ToSet(entries) = FieldEntries
  <2>1. FieldEntries \subseteq [name: Texts, value: Texts]
    BY <1>2, CallBounds DEF FieldEntries
  <2>2. entries \in Seq(FieldEntries) /\ ToSet(entries) = FieldEntries
    BY <1>2, SetToSeqOf
  <2> HIDE DEF entries
  <2> QED
    BY <2>1, <2>2, SeqWider
<1>4. DOMAIN ReadDataFieldValues(a) = RequiredIds
  <2> HIDE DEF a, entries
  <2>1. EntriesOf(entries) = entries
    BY <1>3, GivenEntries, AbsentAssumption DEF EntriesOf
  <2>2. DOMAIN ReadEntries(entries) = {e.name : e \in FieldEntries}
    BY <1>3, GivenEntries
  <2>3. {e.name : e \in FieldEntries} = RequiredIds
    <3>1. ASSUME NEW id \in RequiredIds
          PROVE  \E e \in FieldEntries : e.name = id
      <4> DEFINE entry == [name |-> id, value |-> SomeText]
      <4>1. entry \in FieldEntries
        BY DEF FieldEntries
      <4>2. entry.name = id
        OBVIOUS
      <4> QED
        BY <4>1, <4>2
    <3>2. \A e \in FieldEntries : e.name \in RequiredIds
      BY DEF FieldEntries
    <3> QED
      BY <3>1, <3>2
  <2> QED
    BY <1>1, <2>1, <2>2, <2>3 DEF ReadDataFieldValues
<1>5. \A f \in ToSet(FirstPage(fields)) : f.id # Blank /\ f.required => f.id \in RequiredIds
  BY DEF RequiredIds
<1> HIDE DEF a
<1>6. MissingDataFields(a, fields) = {}
  BY <1>4, <1>5 DEF MissingDataFields
<1> QED
  BY <1>6 DEF a

\* What a caller filled in is not refused before the lookups, nor by them.
LEMMA FormAskedIs ==
    ASSUME Inv, FormInv, FormAsked
    PROVE  LET a == Attributes(request)
               type == NamedIds(a.obtainingTypeId)
           IN /\ Shows(form) /\ request.op = "create" /\ ~FieldsMalformed
              /\ EarlyRefusal(request) = 0 /\ LateRefusal(request) = 0
              /\ NamedIds(a.gameCategoryId) = form.category
              /\ type # form.type =>
                    type = None /\ form.type = ReadOptionalAttr(form.types)
              /\ OptionsOffered(a, form.options)
              /\ \A fields : FirstPage(fields) = form.fields => MissingDataFields(a, fields) = {}
<1>1. form # None /\ form.category # None /\ request \in Filled /\ Shows(form)
  BY DEF FormInv, FilledFrom, FormAsked, FormShown
<1>2. form \in Forms /\ IsFiniteSet(form.options)
  BY <1>1 DEF Inv, TypeOK, OffersTyped
<1>3. /\ request \in RequestType /\ request.op = "create" /\ request.fit /\ request.price = 4
      /\ request.media = None /\ request.attributes # None
  BY <1>1, FilledType DEF Inv
<1>4. PICK type \in Texts \cup {None}, pick \in OptionPicks :
         /\ request.attributes = FilledWith(type, pick)
         /\ type # form.type => type = None /\ form.type = ReadOptionalAttr(form.types)
  BY <1>1, FilledType DEF Inv
<1> DEFINE a == FilledWith(type, pick)
<1>5. /\ Attributes(request) = a
      /\ a.gameCategoryId = <<form.category>> /\ a.obtainingTypeId = <<type>>
      /\ a.dataFields = SetToSeq(FieldEntries)
  BY <1>1, <1>2, <1>3, <1>4, FilledWithType DEF Attributes
<1>6. ~FieldsMalformed
  <2>1. IsFiniteSet(FieldEntries) /\ FieldEntries \subseteq NamedEntries
    BY <1>2, FieldEntriesType
  <2>2. SetToSeq(FieldEntries) \in Seq(NamedEntries)
    BY <2>1, SetToSeqOf, SeqWider
  <2> HIDE DEF a
  <2> QED
    BY <1>5, <2>2, AbsentAssumption DEF FieldsMalformed
<1>7. /\ NamedIds(<<form.category>>) = form.category
      /\ NamedIds(<<type>>) = type
  <2>1. \A candidates : NamedIds(candidates) = ReadOptionalAttr(candidates)
    BY <1>3 DEF NamedIds
  <2>2. form.category \in Texts \cup {None}
    BY <1>2 DEF Forms
  <2> QED
    BY <2>1, <2>2, ReadOneAttr
<1>8. EarlyRefusal(request) = 0
  BY <1>3 DEF EarlyRefusal, FormAsked
<1>9. LateRefusal(request) = 0
  <2>1. PriceRefusal(4) = 0
    <3>0. NaN \notin Nat /\ Infinity \notin Nat
      BY AbsentAssumption
    <3>1. 4 # NaN /\ 4 # Infinity
      BY <3>0
    <3>2. Rounded(4) = 1
      BY DEF Rounded
    <3> QED
      BY <3>1, <3>2 DEF PriceRefusal
  <2> QED
    BY <1>3, <2>1 DEF LateRefusal
<1>10. OptionsOffered(a, form.options)
  BY <1>1, <1>2, PicksOffered
<1>11. \A fields : FirstPage(fields) = form.fields => MissingDataFields(a, fields) = {}
  BY <1>1, <1>2, NoneMissing
<1> HIDE DEF a
<1> QED
  BY <1>1, <1>3, <1>4, <1>5, <1>6, <1>7, <1>8, <1>9, <1>10, <1>11

\* What may be filled in depends on the form alone.
LEMMA SameFilled ==
    ASSUME form' = form
    PROVE  Filled' = Filled
<1>1. OptionPicks' = OptionPicks /\ RequiredIds' = RequiredIds
  BY DEF OptionPicks, RequiredIds
<1>2. \A type, pick : FilledWith(type, pick)' = FilledWith(type, pick)
  BY <1>1 DEF FilledWith
<1>3. ReadOptionalAttr(form.types)' = ReadOptionalAttr(form.types)
  OBVIOUS
<1> QED
  BY <1>1, <1>2, <1>3 DEF Filled

\* While the form, the request, the credentials and Playerok stay as they are...
LEMMA SameForm ==
    ASSUME FormInv, UNCHANGED <<situation, auth, catalogue, request, form, changes>>,
           run.raised => run'.raised
    PROVE  /\ FormShown' /\ FilledFrom'
           /\ FormAsked' => FormAsked
<1>1. FormShown'
  BY DEF FormInv, FormShown, Shows, FieldsOf
<1>2. FilledFrom'
  BY SameFilled DEF FormInv, FilledFrom
<1>3. Usable(Resolved)' = Usable(Resolved)
  BY DEF Usable, Resolved, env
<1> QED
  BY <1>1, <1>2, <1>3 DEF FormAsked

\* ...an answer leaves the create of a form on its way if it is no refusal.
LEMMA EndedForm ==
    ASSUME Inv, FormInv, Ended,
           run.raised => run'.raised,
           FormAsked => run'.answer = 200 \/ run'.raised
    PROVE  FormInv'
<1>1. FormShown' /\ FilledFrom' /\ (FormAsked' => FormAsked)
  BY SameForm DEF Ended, Beside
<1>2. QueryFinds'
  BY DEF QueryFinds, Ended, Lookups
<1>3. FormAsked' => OnItsWay'
  BY <1>1 DEF FormAsked, OnItsWay, Ended
<1> QED
  BY <1>1, <1>2, <1>3 DEF FormInv

\* It is none.
LEMMA AnswersForm ==
    ASSUME Inv, FormInv,
           \/ RefuseEarly \/ RefuseLate \/ NotRemoved \/ Convert \/ ConvertFails
           \/ \E exception \in Exceptions : LookupRaises(exception) \/ CommandRaises(exception)
    PROVE  FormInv'
<1>1. Ended
  BY AnswersEnd, CommandRaisesEnds
<1>2. run \in Runs
  BY DEF Inv, TypeOK
<1>3. /\ run.raised => run'.raised
      /\ FormAsked => run'.answer = 200 \/ run'.raised
  <2>1. CASE RefuseEarly \/ RefuseLate
    <3>1. ~FormAsked
      BY <2>1, FormAskedIs DEF RefuseEarly, RefuseLate
    <3> QED
      BY <1>2, <2>1, <3>1, RunsAre DEF RefuseEarly, RefuseLate, Answer
  <2>2. CASE NotRemoved
    BY <1>2, <2>2, RunsAre DEF NotRemoved
  <2>3. CASE Convert
    BY <1>2, <2>3, RunsAre DEF Convert, Answer
  <2>4. CASE ConvertFails
    <3>1. PICK status \in {400, 500} :
             run' = [run EXCEPT !.at = "idle", !.raised = TRUE, !.answer = status]
      BY <2>4 DEF ConvertFails
    <3> QED
      BY <1>2, <3>1, RunsAre
  <2>5. CASE \E exception \in Exceptions : LookupRaises(exception)
    <3>1. PICK status : run' = [run EXCEPT !.at = "idle", !.raised = TRUE, !.answer = status]
      BY <2>5 DEF LookupRaises
    <3> QED
      BY <1>2, <3>1, RunsAre
  <2>6. CASE \E exception \in Exceptions : CommandRaises(exception)
    <3>1. PICK status, more : run' = [run EXCEPT !.at = "idle", !.executions = @ + more,
                                                 !.raised = TRUE, !.answer = status]
      BY <2>6 DEF CommandRaises
    <3> QED
      BY <1>2, <3>1, RunsAre
  <2> QED
    BY <2>1, <2>2, <2>3, <2>4, <2>5, <2>6
<1> QED
  BY <1>1, <1>3, EndedForm

\* What goes on stays on its way, and a query finds what it goes on with.
LEMMA GoingForm ==
    ASSUME Inv, FormInv, Going,
           FormAsked => OnItsWay',
           request.op = "metadata" => QueryFinds'
    PROVE  FormInv'
<1>1. FormShown' /\ FilledFrom' /\ (FormAsked' => FormAsked)
  BY SameForm DEF Going, Beside
<1>2. QueryFinds'
  BY DEF QueryFinds, Going, Beside
<1> QED
  BY <1>1, <1>2 DEF FormInv

\* A refusal has a cause that the create of a form does not give.
LEMMA RefusedForm ==
    ASSUME Inv, FormInv, Refused, ~FormAsked
    PROVE  FormInv'
  BY EndedForm DEF Refused

\* A lookup finds the call where it goes: the order of the lookups.
LEMMA LookupPlace ==
    ASSUME Inv, run.at \in Lookups
    PROVE  /\ run.at \in run.needs /\ request # None
           /\ run.at = "item" => request.op = "update"
           /\ request.op = "metadata" /\ run.at = "types" => "category" \notin run.needs
           /\ request.op = "metadata" /\ run.at = "fields" =>
                 "category" \notin run.needs /\ "types" \notin run.needs
           /\ request.op = "create" /\ run.at \in {"category", "fields"} =>
                 "types" \notin run.needs
<1>1. run.needs \in SUBSET Lookups /\ run.at = Following(run.needs) /\ request # None
  BY RunParts DEF Inv, TypeOK, Located, Lookups
<1>2. "item" \in run.needs => request.op = "update"
  BY DEF Inv, Located
<1> QED
  BY <1>1, <1>2, FollowingIs DEF Lookups

\* Connecting.
LEMMA ConnectForm ==
    ASSUME Inv, FormInv, Connect
    PROVE  FormInv'
<1> DEFINE category == NamedIds(Attributes(request).gameCategoryId)
           type == NamedIds(Attributes(request).obtainingTypeId)
           caused == FieldsMalformed \/ (request.op = "create" /\ category = None)
<1>1. \/ Refused /\ caused
      \/ /\ Going /\ run'.found.category = category /\ run'.found.type = type
         /\ request.op = "create" =>
               run'.needs = {"category", "fields"} \cup IF type = None THEN {"types"} ELSE {}
         /\ request.op = "metadata" =>
               run'.needs = IF category # None THEN {"category", "types"} ELSE {}
  BY ConnectGoes
<1>2. FormAsked =>
        /\ request.op = "create" /\ ~FieldsMalformed /\ category = form.category
        /\ category # None
        /\ type # form.type => type = None /\ form.type = ReadOptionalAttr(form.types)
  BY FormAskedIs DEF FormInv, FilledFrom, FormAsked
<1>3. CASE Refused /\ caused
  BY <1>2, <1>3, RefusedForm
<1>4. CASE ~(Refused /\ caused)
  <2> HIDE DEF category, type
  <2>1. FormAsked => OnItsWay'
    <3>1. FormAsked => run.answer \in {0, 200}
      BY DEF FormInv, OnItsWay
    <3> QED
      BY <1>1, <1>2, <1>4, <3>1 DEF OnItsWay, Going, Beside
  <2>2. request.op = "metadata" => QueryFinds'
    BY <1>1, <1>4 DEF QueryFinds
  <2> QED
    BY <1>1, <1>4, <2>1, <2>2, GoingForm
<1> QED
  BY <1>3, <1>4

\* The item: no create and no query asks for it.
LEMMA GetItemForm ==
    ASSUME Inv, FormInv, GetItem
    PROVE  FormInv'
<1>1. Refused \/ Going
  BY GetItemGoes
<1>2. request.op = "update"
  BY LookupPlace DEF GetItem, Step, Lookups
<1>3. ~FormAsked
  BY <1>2, FormAskedIs
<1> QED
  BY <1>1, <1>2, <1>3, RefusedForm, GoingForm

\* The obtaining types: the default one is the one the form was made for.
LEMMA GetTypesForm ==
    ASSUME Inv, FormInv, GetTypes
    PROVE  FormInv'
<1> DEFINE types == FirstPage(catalogue[run.found.category].types)
           query == request.op = "metadata"
           type == Or(run.found.type,
                      IF query THEN MetadataType(types) ELSE DefaultObtainingType(types))
           caused == FieldsMalformed \/ (~query /\ type = None)
<1>1. \/ Refused /\ caused
      \/ /\ Going
         /\ run'.found.category = run.found.category /\ run'.found.type = type
         /\ run'.found.types = types /\ run'.found.options = run.found.options
         /\ run'.needs = (run.needs \ {"types"})
                            \cup IF query /\ type # None THEN {"fields"} ELSE {}
  BY GetTypesGoes
<1>2. run.at = "types" /\ run.found.category \in DOMAIN catalogue
  BY DEF GetTypes, Lookup, Step
<1>3. FormAsked => run.found.category = form.category /\ ~query /\ type = form.type
                   /\ ~FieldsMalformed /\ form.type # None /\ run.answer \in {0, 200}
  <2> SUFFICES ASSUME FormAsked
               PROVE  run.found.category = form.category /\ ~query /\ type = form.type
                      /\ ~FieldsMalformed /\ form.type # None /\ run.answer \in {0, 200}
    OBVIOUS
  <2>1. /\ run.found.category = form.category /\ run.answer \in {0, 200}
        /\ \/ run.found.type = form.type
           \/ run.found.type = None /\ form.type = ReadOptionalAttr(form.types)
    BY <1>2 DEF FormInv, OnItsWay
  <2>2. Shows(form) /\ request.op = "create" /\ ~FieldsMalformed /\ form.type # None
    BY FormAskedIs DEF FormAsked
  <2>3. form.types = types
    BY <2>1, <2>2 DEF Shows
  <2>4. catalogue[run.found.category].types \in Seq(Texts \cup {Blank})
    BY <1>2, OfferType DEF Inv, OffersTyped
  <2>5. DefaultObtainingType(types) = ReadOptionalAttr(types)
    BY <2>4, FirstPageTwice DEF DefaultObtainingType
  <2> HIDE DEF types
  <2> QED
    BY <2>1, <2>2, <2>3, <2>5 DEF Or
<1>4. CASE Refused /\ caused
  BY <1>3, <1>4, RefusedForm
<1>5. CASE ~(Refused /\ caused)
  <2> HIDE DEF types, type
  <2>1. FormAsked => OnItsWay'
    BY <1>1, <1>3, <1>5 DEF OnItsWay, Going, Beside
  <2>2. query => QueryFinds'
    <3> SUFFICES ASSUME query, run.found.category # None, changes = 0
                 PROVE  /\ "category" \notin run'.needs /\ "types" \notin run'.needs
                        /\ run'.found.options = catalogue[run.found.category].options
                        /\ run'.needs = {} => type = None
      BY <1>1, <1>2, <1>5 DEF QueryFinds, Going, Beside, types
    <3>1. "category" \notin run.needs /\ request # None
      BY <1>2, LookupPlace DEF Lookups
    <3>2. run.found.options = catalogue[run.found.category].options
      BY <1>2, <3>1 DEF FormInv, QueryFinds, Lookups
    <3> QED
      BY <1>1, <1>5, <3>1, <3>2
  <2> QED
    BY <1>1, <1>5, <2>1, <2>2, GoingForm
<1> QED
  BY <1>4, <1>5

\* The category: it offers the options that were picked.
LEMMA GetCategoryForm ==
    ASSUME Inv, FormInv, GetCategory
    PROVE  FormInv'
<1> DEFINE options == catalogue[run.found.category].options
           caused == FieldsMalformed \/ ~OptionsOffered(Attributes(request), options)
<1>1. \/ Refused /\ caused
      \/ /\ Going
         /\ run'.needs = run.needs \ {"category"}
         /\ run'.found.category = run.found.category /\ run'.found.type = run.found.type
         /\ run'.found.options = options /\ run'.found.types = run.found.types
  BY GetCategoryGoes
<1>2. run.at = "category" /\ run.found.category \in DOMAIN catalogue
  BY DEF GetCategory, Lookup, Step
<1>3. ASSUME FormAsked
      PROVE  /\ ~caused /\ run.answer \in {0, 200} /\ request.op = "create"
             /\ run.found.category = form.category /\ run.found.type = form.type
  <2>1. Shows(form) /\ request.op = "create" /\ ~FieldsMalformed
        /\ OptionsOffered(Attributes(request), form.options)
    BY <1>3, FormAskedIs
  <2>2. "types" \notin run.needs
    BY <1>2, <2>1, LookupPlace DEF Lookups
  <2>3. /\ run.answer \in {0, 200}
        /\ run.found.category = form.category /\ run.found.type = form.type
    BY <1>2, <1>3, <2>2 DEF FormInv, OnItsWay
  <2> QED
    BY <2>1, <2>3 DEF Shows
<1>4. CASE Refused /\ caused
  BY <1>3, <1>4, RefusedForm
<1>5. CASE ~(Refused /\ caused)
  <2> HIDE DEF options
  <2>1. FormAsked => OnItsWay'
    BY <1>1, <1>3, <1>5 DEF OnItsWay, Going, Beside
  <2>2. request.op = "metadata" => QueryFinds'
    <3> SUFFICES ASSUME request.op = "metadata", run.found.category # None, changes = 0
                 PROVE  /\ "types" \in run'.needs
      BY <1>1, <1>2, <1>5 DEF QueryFinds, Going, Beside, options
    <3>1. "category" \in run.needs /\ request # None
      BY <1>2, LookupPlace DEF Lookups
    <3>2. "types" \in run.needs
      BY <1>2, <3>1 DEF FormInv, QueryFinds, Lookups
    <3> QED
      BY <1>1, <1>5, <3>2
  <2> QED
    BY <1>1, <1>5, <2>1, <2>2, GoingForm
<1> QED
  BY <1>4, <1>5

\* The data fields: those of the form, which were filled in.
LEMMA GetFieldsForm ==
    ASSUME Inv, FormInv, GetFields
    PROVE  FormInv'
<1> DEFINE fields == FieldsOf(run.found.category, run.found.type)
           missing == MissingDataFields(Attributes(request), fields)
           caused == FieldsMalformed \/ (request.op # "metadata" /\ missing # {})
<1>1. \/ Refused /\ caused
      \/ /\ Going
         /\ run'.needs = run.needs \ {"fields"}
         /\ run'.found.category = run.found.category /\ run'.found.type = run.found.type
         /\ run'.found.types = run.found.types /\ run'.found.options = run.found.options
         /\ run'.found.fields = FirstPage(fields)
  BY GetFieldsGoes
<1>2. run.at = "fields" /\ run.found.category \in DOMAIN catalogue
  BY DEF GetFields, Lookup, Step
<1>3. ASSUME FormAsked
      PROVE  /\ ~caused /\ run.answer \in {0, 200} /\ request.op = "create"
             /\ run.found.category = form.category /\ run.found.type = form.type
  <2>1. /\ Shows(form) /\ request.op = "create" /\ ~FieldsMalformed /\ form.type # None
        /\ \A some : FirstPage(some) = form.fields =>
              MissingDataFields(Attributes(request), some) = {}
    BY <1>3, FormAskedIs DEF FormAsked
  <2>2. "types" \notin run.needs
    BY <1>2, <2>1, LookupPlace DEF Lookups
  <2>3. /\ run.answer \in {0, 200}
        /\ run.found.category = form.category /\ run.found.type = form.type
    BY <1>2, <1>3, <2>2 DEF FormInv, OnItsWay
  <2>4. FirstPage(fields) = form.fields
    BY <2>1, <2>3 DEF Shows
  <2> HIDE DEF fields
  <2> QED
    BY <2>1, <2>3, <2>4
<1>4. CASE Refused /\ caused
  BY <1>3, <1>4, RefusedForm
<1>5. CASE ~(Refused /\ caused)
  <2> HIDE DEF fields
  <2>1. FormAsked => OnItsWay'
    BY <1>1, <1>3, <1>5 DEF OnItsWay, Going, Beside
  <2>2. request.op = "metadata" => QueryFinds'
    <3> SUFFICES ASSUME request.op = "metadata", run.found.category # None, changes = 0
                 PROVE  QueryFinds'
      BY <1>1, <1>5 DEF QueryFinds, Going, Beside
    <3>1. "category" \notin run.needs /\ "types" \notin run.needs /\ request # None
      BY <1>2, LookupPlace DEF Lookups
    <3>2. /\ run.found.options = catalogue[run.found.category].options
          /\ run.found.types = FirstPage(catalogue[run.found.category].types)
      BY <1>2, <3>1 DEF FormInv, QueryFinds, Lookups
    <3>3. FirstPage(fields)' = FirstPage(fields)
      BY <1>1, <1>5 DEF fields, FieldsOf, Going, Beside
    <3> QED
      BY <1>1, <1>2, <1>5, <3>1, <3>2, <3>3 DEF QueryFinds, Going, Beside, fields
  <2> QED
    BY <1>1, <1>5, <2>1, <2>2, GoingForm
<1> QED
  BY <1>4, <1>5

\* A request that is asked: one of origin "form" was filled in from the form.
LEMMA CallForm ==
    ASSUME Inv, FormInv,
           \/ (\E r \in offered.requests : Ask(r)) \/ AskFilled \/ AskListed
           \/ \E payload \in offered.applies : ApplyAuth(payload)
    PROVE  FormInv'
<1>1. FormShown'
  <2>1. UNCHANGED <<catalogue, form, changes>>
    BY DEF AskFilled, AskListed, Ask, ApplyAuth, Call
  <2> QED
    BY <2>1 DEF FormInv, FormShown, Shows, FieldsOf
<1>2. CASE \E payload \in offered.applies : ApplyAuth(payload)
  <2>1. request' = None
    BY <1>2 DEF ApplyAuth
  <2> QED
    BY <1>1, <2>1 DEF FormInv, QueryFinds, FilledFrom, FormAsked
<1>3. ASSUME NEW r, Ask(r), r.origin = "form" => form # None /\ form.category # None /\ r \in Filled
      PROVE  FormInv'
  <2>1. /\ request' = r /\ form' = form /\ run' = [Idle EXCEPT !.at = "begin"]
    BY <1>3 DEF Ask, Call
  <2>2. run'.at = "begin" /\ run'.answer = 0
    BY <2>1, Begun
  <2>3. QueryFinds' /\ (FormAsked' => OnItsWay')
    BY <2>2 DEF QueryFinds, OnItsWay, Lookups
  <2>4. Filled' = Filled
    BY <2>1, SameFilled
  <2>5. FilledFrom'
    BY <1>3, <2>1, <2>4 DEF FilledFrom
  <2> QED
    BY <1>1, <2>3, <2>5 DEF FormInv
<1>4. CASE \E r \in offered.requests : Ask(r)
  <2>1. PICK r \in offered.requests : Ask(r)
    BY <1>4
  <2>2. r.origin = "caller"
    BY SituationAssumption DEF Inv, TypeOK, offered
  <2> QED
    BY <1>3, <2>1, <2>2
<1>5. CASE AskFilled
  BY <1>3, <1>5 DEF AskFilled
<1>6. CASE AskListed
  <2>1. PICK r \in Listed : Ask(r)
    BY <1>6 DEF AskListed
  <2>2. r.origin = "listed"
    BY <1>6, ListedType DEF AskListed, Inv, TypeOK
  <2> QED
    BY <1>3, <2>1, <2>2
<1> QED
  BY <1>2, <1>4, <1>5, <1>6

\* A query that has found everything shows it.
LEMMA ShowFormForm ==
    ASSUME Inv, FormInv, ShowForm
    PROVE  FormInv'
<1>1. /\ run.at = "compose" /\ request.op = "metadata" /\ form' = run.found
      /\ UNCHANGED <<request, catalogue, changes>>
      /\ run' = [run EXCEPT !.at = "idle", !.answer = 200]
  BY DEF ShowForm, Asides, Answer
<1>2. run \in Runs /\ run.needs = {} /\ request # None
  BY <1>1 DEF Inv, TypeOK, Located, Lookups
<1>3. run'.at = "idle" /\ run'.answer = 200
  BY <1>1, <1>2, RunsAre
<1>4. FormShown'
  <2>1. run.found.category # None /\ changes = 0 => Shows(run.found)
    BY <1>1, <1>2 DEF FormInv, QueryFinds, Shows
  <2> QED
    BY <1>1, <2>1 DEF FormShown, Shows, FieldsOf
<1>5. request.origin # "form"
  <2>1. ASSUME request.origin = "form"
        PROVE  FALSE
    <3>1. form # None /\ form.category # None /\ request \in Filled
      BY <1>2, <2>1 DEF FormInv, FilledFrom
    <3>2. request.op = "create"
      BY <3>1, FilledType DEF Inv
    <3> QED
      BY <1>1, <3>2
  <2> QED
    BY <2>1
<1>6. QueryFinds' /\ FilledFrom' /\ ~FormAsked'
  BY <1>1, <1>3, <1>5 DEF QueryFinds, FilledFrom, FormAsked, Lookups
<1> QED
  BY <1>4, <1>6 DEF FormInv

\* A command that is composed, or executed, is still on its way.
LEMMA CommandForm ==
    ASSUME Inv, FormInv, Compose \/ Command
    PROVE  FormInv'
<1>1. /\ UNCHANGED <<situation, auth, catalogue, request, form, changes>>
      /\ run \in Runs /\ run.at \in {"compose", "command"}
  BY DEF Compose, Command, Step, Asides, Inv, TypeOK
<1>2. /\ run'.at \in {"command", "convert"} /\ run'.answer = run.answer
      /\ run'.raised = run.raised /\ run'.found = run.found /\ run'.needs = run.needs
  <2>1. CASE Compose
    BY <1>1, <2>1, RunsAre DEF Compose
  <2>2. CASE Command
    BY <1>1, <2>2, RunsAre DEF Command
  <2> QED
    BY <2>1, <2>2
<1>3. FormShown' /\ FilledFrom' /\ (FormAsked' => FormAsked)
  BY <1>1, <1>2, SameForm
<1>4. QueryFinds'
  BY <1>2 DEF QueryFinds, Lookups
<1>5. FormAsked' => OnItsWay'
  BY <1>1, <1>2, <1>3 DEF FormInv, OnItsWay
<1> QED
  BY <1>3, <1>4, <1>5 DEF FormInv

\* Once Playerok has changed nothing more is said, but where a request is from.
LEMMA ChangedForm ==
    ASSUME Inv, FormInv, ChangeCatalogue \/ ChangeItem
    PROVE  FormInv'
<1>1. /\ UNCHANGED <<request, form>> /\ changes' = changes + 1
  BY DEF ChangeCatalogue, ChangeItem, Changed
<1>2. changes' # 0
  BY <1>1, CallBounds DEF Inv, TypeOK
<1>3. Filled' = Filled
  BY <1>1, SameFilled
<1>4. FilledFrom'
  BY <1>1, <1>3 DEF FormInv, FilledFrom
<1> QED
  BY <1>2, <1>4 DEF FormInv, FormShown, QueryFinds, FormAsked

\* Every step keeps it.
LEMMA FormKeeps ==
    ASSUME Inv, FormInv, [Next]_vars
    PROVE  FormInv'
<1>1. CASE \/ (\E r \in offered.requests : Ask(r)) \/ AskFilled \/ AskListed
           \/ \E payload \in offered.applies : ApplyAuth(payload)
  BY <1>1, CallForm
<1>2. CASE \/ RefuseEarly \/ RefuseLate \/ NotRemoved \/ Convert \/ ConvertFails
           \/ \E exception \in Exceptions : LookupRaises(exception) \/ CommandRaises(exception)
  BY <1>2, AnswersForm
<1>3. CASE Connect \/ GetItem \/ GetTypes \/ GetCategory \/ GetFields
  BY <1>3, ConnectForm, GetItemForm, GetTypesForm, GetCategoryForm, GetFieldsForm
<1>4. CASE Compose \/ ShowForm \/ Command
  BY <1>4, CommandForm, ShowFormForm
<1>5. CASE ChangeCatalogue \/ ChangeItem
  BY <1>5, ChangedForm
<1>6. CASE UNCHANGED vars
  <2>1. UNCHANGED <<situation, auth, catalogue, request, form, changes, run>>
    BY <1>6 DEF vars
  <2>2. FormShown' /\ FilledFrom' /\ (FormAsked' => FormAsked)
    BY <2>1, SameForm
  <2>3. QueryFinds' /\ (FormAsked' => OnItsWay')
    BY <2>1, <2>2 DEF FormInv, QueryFinds, OnItsWay, FieldsOf
  <2> QED
    BY <2>2, <2>3 DEF FormInv
<1> QED
  BY <1>1, <1>2, <1>3, <1>4, <1>5, <1>6 DEF Next

\* A form that metadata showed is enough, whatever Playerok offers, whatever is picked
\* from it and however many data fields it asks for: a create filled from it can only
\* be answered 200, unless Playerok changes or fails in between, the worker has no
\* credentials, or the form has no obtaining type.  Both read one page of the types and
\* of the fields, metadata as get_product_metadata does and create as _resolve_data_fields.
THEOREM FormIsEnough == Spec => []FormSuffices
<1>1. Init => FormInv
  BY DEF Init, FormInv, FormShown, QueryFinds, FilledFrom, FormAsked
<1>2. Inv /\ FormInv /\ [Next]_vars => FormInv'
  BY FormKeeps
<1>3. FormInv => FormSuffices
  BY DEF FormInv, FormAsked, OnItsWay, FormSuffices, Answered
<1> QED
  BY <1>1, <1>2, <1>3, InvHolds, PTL DEF Spec

----------------------------------------------------------------------------
(* A listed product comes back.                                             *)

\* A product has each data field once, and no update changes which.
FieldsOnce == item # None => Distinct(item.dataFields)

\* A product sent back as it was listed, while neither Playerok nor the credentials
\* stand in its way...
ListedAsked ==
    /\ request # None /\ request.origin = "listed" /\ changes = 0 /\ ~run.raised
    /\ Usable(Resolved)

\* ...is still what the product is sent back as, whether the update was executed or
\* not, and is looked up where the product is.
ListedGoes ==
    /\ item # None /\ request \in Listed
    /\ run.at \notin {"idle", "begin"} => run.found.category = item.category
    /\ run.at \in {"item", "types"} => run.found.type = item.type
    /\ run.answer \notin {0, 200} => run.executions = 0 /\ SentBackRefused

ListedInv == FieldsOnce /\ (ListedAsked => ListedGoes)

\* What such a request has.
LEMMA ListedIs ==
    ASSUME item \in ItemType, request \in Listed
    PROVE  LET a == Attributes(request)
           IN /\ request \in RequestType /\ a \in AttributeType /\ request.attributes = a
              /\ request.op = "update" /\ request.fit
              /\ ~request.quantity
              /\ item.title \in Texts /\ item.price \in Nat \cup {None}
              /\ request.title = item.title /\ request.price = 4 * Or(item.price, 0)
              /\ item.status \in DOMAIN WorkerStatus
              /\ request.status = WorkerStatus[item.status]
              /\ request.version = Version(item) /\ request.media \in {None, <<Remote>>}
              /\ item.category \in Texts \cup {None} /\ item.type \in Texts \cup {None}
              /\ a.gameCategoryId = <<item.category>> /\ a.obtainingTypeId = <<item.type>>
              /\ a.removeAttachmentIds = None /\ a.addAttachmentPaths = None
              /\ a.dataFields = IF item.dataFields = <<>> THEN None ELSE item.dataFields
              /\ item.dataFields \in Seq([name: Texts, value: Texts \cup {Blank}])
              /\ item.dataFields \in Seq(NamedEntries)
<1>1. PICK slug \in {<<>>} \cup IF item.slug = None THEN {}
                                ELSE {<<[name |-> "slug", value |-> item.slug]>>} :
        \E shown \in {None, <<Remote>>} : request = UpdateWith(ListedWith(slug), shown)
  BY DEF Listed
<1> PICK media \in {None, <<Remote>>} : request = UpdateWith(ListedWith(slug), media)
  BY <1>1
<1> DEFINE a == ListedWith(slug)
<1>2. /\ item.title \in Texts /\ item.price \in Nat \cup {None}
      /\ item.status \in DOMAIN WorkerStatus
      /\ item.category \in Texts \cup {None} /\ item.type \in Texts \cup {None}
      /\ item.dataFields \in Seq([name: Texts, value: Texts \cup {Blank}])
  BY DEF ItemType
<1>3. request \in RequestType /\ request.attributes = a /\ a \in AttributeType
      /\ request.op = "update"
  BY ListedType DEF UpdateWith, Plain
<1>4. Attributes(request) = a
  <2>1. a # None
    BY <1>3, AbsentAssumption
  <2> QED
    BY <1>3, <2>1 DEF Attributes
<1>5. /\ a.gameCategoryId = <<item.category>> /\ a.obtainingTypeId = <<item.type>>
      /\ a.removeAttachmentIds = None /\ a.addAttachmentPaths = None
      /\ a.dataFields = IF item.dataFields = <<>> THEN None ELSE item.dataFields
  BY DEF ListedWith, NoAttributes
<1>6. /\ request.fit /\ ~request.quantity /\ request.title = item.title
      /\ request.price = 4 * Or(item.price, 0)
      /\ request.status = WorkerStatus[item.status]
      /\ request.version = Version(item) /\ request.media = media
  <2> HIDE DEF Version, Remote
  <2> QED
    BY DEF UpdateWith, Plain
<1>7. item.dataFields \in Seq(NamedEntries)
  <2>1. [name: Texts, value: Texts \cup {Blank}] \subseteq NamedEntries
    BY DEF NamedEntries, Scalars
  <2> QED
    BY <1>2, <2>1, SeqWider
<1> HIDE DEF a
<1> QED
  BY <1>2, <1>3, <1>4, <1>5, <1>6, <1>7

\* An address is refused as media.
LEMMA MediaOfAddress == MediaRefusal(<<Remote>>) = 409
<1> DEFINE bad == {i \in DOMAIN <<Remote>> : <<Remote>>[i] \in {Remote, Missing}}
<1>1. bad = {1}
  OBVIOUS
<1>2. Min({1}) = 1
  BY MinOf
<1> QED
  BY <1>1, <1>2 DEF MediaRefusal

\* None of the refusals before the lookups is for it, and none after them but for its
\* media, or for the price of a product that has none.
LEMMA ListedPasses ==
    ASSUME Inv, ListedAsked, ListedGoes
    PROVE  LET a == Attributes(request)
           IN /\ EarlyRefusal(request) = 0 /\ ItemRefusal(request) = 0
              /\ LateRefusal(request) # 0 =>
                    \/ LateRefusal(request) = 409 /\ request.media # None
                    \/ LateRefusal(request) = 400 /\ request.price = 0
              /\ LateRefusal(request) = 0 =>
                    item.price # None /\ NormalizePrice(request.price) = item.price
              /\ ~FieldsMalformed
              /\ NamedIds(a.gameCategoryId) = item.category
              /\ NamedIds(a.obtainingTypeId) = item.type
              /\ request.op = "update" /\ request.attributes = a /\ a \in AttributeType
              /\ a.dataFields # None => item.dataFields # <<>>
              /\ request.title = item.title /\ item.title # None
<1> DEFINE a == Attributes(request)
<1>1. item \in ItemType /\ item # None /\ request \in Listed
  BY DEF Inv, TypeOK, ListedAsked, ListedGoes
<1>2. /\ request \in RequestType /\ request.attributes = a /\ a \in AttributeType
      /\ request.op = "update" /\ request.fit /\ ~request.quantity
      /\ item.title \in Texts /\ item.price \in Nat \cup {None}
      /\ request.title = item.title /\ request.price = 4 * Or(item.price, 0)
      /\ item.status \in DOMAIN WorkerStatus
      /\ request.status = WorkerStatus[item.status]
      /\ request.version = Version(item) /\ request.media \in {None, <<Remote>>}
      /\ item.category \in Texts \cup {None} /\ item.type \in Texts \cup {None}
      /\ a.gameCategoryId = <<item.category>> /\ a.obtainingTypeId = <<item.type>>
      /\ a.removeAttachmentIds = None /\ a.addAttachmentPaths = None
      /\ a.dataFields = IF item.dataFields = <<>> THEN None ELSE item.dataFields
      /\ item.dataFields \in Seq(NamedEntries)
  BY <1>1, ListedIs
<1> HIDE DEF a
<1>3. item.title # None
  BY <1>2, TextAssumption
<1>4. EarlyRefusal(request) = 0
  <2>1. ~NoChanges(request)
    BY <1>2, <1>3 DEF NoChanges
  <2> QED
    BY <1>2, <2>1 DEF EarlyRefusal, ListedAsked
<1>5. ItemRefusal(request) = 0
  <2>1. NormalizeStatus(request.status) = WorkerStatus[item.status]
    BY <1>2 DEF NormalizeStatus, StatusAliases, WorkerStatus
  <2> QED
    BY <1>1, <1>2, <2>1 DEF ItemRefusal
<1> DEFINE amount == Or(item.price, 0)
<1>6. /\ PriceRefusal(request.price) = IF amount < 1 THEN 400 ELSE 0
      /\ NormalizePrice(request.price) = amount
      /\ amount \in Nat
  <2>1. amount \in Nat /\ request.price = 4 * amount
    BY <1>2 DEF Or
  <2> HIDE DEF amount
  <2>2. request.price \notin {None, NaN, Infinity}
    BY <2>1, AbsentAssumption
  <2>3. Rounded(4 * amount) = amount
    <3>1. (4 * amount) \div 4 = amount /\ (4 * amount) % 4 = 0
      BY <2>1
    <3> QED
      BY <3>1 DEF Rounded
  <2> QED
    BY <2>1, <2>2, <2>3 DEF PriceRefusal, NormalizePrice
<1>7. /\ LateRefusal(request) # 0 =>
            \/ LateRefusal(request) = 409 /\ request.media # None
            \/ LateRefusal(request) = 400 /\ request.price = 0
      /\ LateRefusal(request) = 0 =>
            item.price # None /\ NormalizePrice(request.price) = item.price
  <2>1. Supported(request)
    BY <1>2, <1>3 DEF Supported
  <2>2. Malformed \notin {a.removeAttachmentIds, a.addAttachmentPaths}
    BY <1>2, TextAssumption
  <2>3. CASE request.media = None
    <3>1. LateRefusal(request) = PriceRefusal(request.price)
      BY <1>2, <2>1, <2>2, <2>3 DEF LateRefusal, a
    <3>2. PriceRefusal(request.price) # 0 => request.price = 0
      BY <1>2, <1>6 DEF Or
    <3>3. PriceRefusal(request.price) = 0 => item.price # None /\ amount = item.price
      <4>1. item.price = None => amount = 0
        BY DEF Or
      <4>2. item.price # None => amount = item.price
        BY DEF Or
      <4> HIDE DEF amount
      <4> QED
        BY <1>6, <4>1, <4>2
    <3> HIDE DEF amount
    <3> QED
      BY <1>6, <3>1, <3>2, <3>3
  <2>4. CASE request.media # None
    <3>1. MediaRefusal(request.media) = 409
      BY <1>2, <2>4, MediaOfAddress
    <3>2. LateRefusal(request) = 409
      BY <1>2, <2>2, <2>4, <3>1 DEF LateRefusal, a
    <3> QED
      BY <2>4, <3>2
  <2> QED
    BY <2>3, <2>4
<1>8. ~FieldsMalformed
  BY <1>2, TextAssumption, AbsentAssumption DEF FieldsMalformed, a
<1>9. /\ NamedIds(a.gameCategoryId) = item.category
      /\ NamedIds(a.obtainingTypeId) = item.type
  <2>1. \A candidates : NamedIds(candidates) = ReadOptionalAttr(candidates)
    BY <1>2 DEF NamedIds
  <2> QED
    BY <1>2, <2>1, ReadOneAttr
<1> QED
  BY <1>2, <1>3, <1>4, <1>5, <1>7, <1>8, <1>9 DEF a

\* A value that is given for a data field of the product is the one it has.
LEMMA OwnValues ==
    ASSUME NEW fields \in Seq([name: Texts, value: Texts \cup {Blank}]), Distinct(fields),
           NEW asked, NEW a, a.dataFields = fields,
           NEW d \in ToSet(fields), NEW p \in ResolveDataFields(a, asked), p[1] = d.name
    PROVE  p[2] = d.value
<1> DEFINE values == ReadDataFieldValues(a)
<1>1. fields \in Seq(NamedEntries)
  <2>1. [name: Texts, value: Texts \cup {Blank}] \subseteq NamedEntries
    BY DEF NamedEntries, Scalars
  <2> QED
    BY <2>1, SeqWider
<1>2. values = ReadEntries(fields)
  <2>1. EntriesOf(fields) = fields
    BY <1>1, AbsentAssumption DEF EntriesOf
  <2> QED
    BY <2>1 DEF ReadDataFieldValues
<1>3. PICK f : f.id \in DOMAIN values /\ p = <<f.id, values[f.id]>>
  <2> HIDE DEF values
  <2> QED
    BY DEF ResolveDataFields, values
<1>4. PICK i \in DOMAIN fields : d = fields[i]
  BY ToSetOf
<1>5. f.id = d.name /\ p[2] = values[d.name]
  BY <1>3
<1>6. fields[i].name \in DOMAIN ReadEntries(fields)
  BY <1>2, <1>3, <1>4, <1>5
<1>7. ReadEntries(fields)[fields[i].name] = fields[i].value
  BY <1>6, DistinctRead
<1> QED
  BY <1>2, <1>4, <1>5, <1>7

\* So the update leaves the product as it was.
LEMMA ListedEffect ==
    ASSUME Inv, Progress, FieldsOnce, ListedAsked, ListedGoes, run.sent # None
    PROVE  Effect = item
<1> DEFINE a == Attributes(request)
           given == Or(run.sent.fields, {})
           Updated(d) ==
                IF \E p \in given : p[1] = d.name
                THEN [d EXCEPT !.value = (CHOOSE p \in given : p[1] = d.name)[2]] ELSE d
           fields == item.dataFields
           D == [name: Texts, value: Texts \cup {Blank}]
<1>1. item \in ItemType /\ item # None /\ Distinct(fields)
  BY DEF Inv, TypeOK, ListedGoes, FieldsOnce
<1>2. /\ request.op = "update" /\ item.title # None /\ item.price # None
      /\ run.sent.title = item.title /\ run.sent.price = item.price
      /\ run.sent.fields = run.fields /\ run.needs = {} /\ FieldsGathered
  <2>1. LateRefusal(request) = 0
    BY DEF Inv, SentChecked
  <2> QED
    BY <2>1, SentIs, ListedPasses DEF Progress
<1>3. fields \in Seq(D)
  BY <1>1 DEF ItemType
<1>4. ASSUME NEW d \in ToSet(fields), NEW p \in given, p[1] = d.name
      PROVE  p[2] = d.value
  <2>1. run.fields # None
    BY <1>2 DEF Or
  <2>2. "fields" \in Due
    BY <1>2, <2>1 DEF FieldsGathered
  <2>3. /\ a.dataFields # None
        /\ run.fields = ResolveDataFields(a, FieldsOf(run.found.category, run.found.type))
    BY <1>2, <2>2 DEF FieldsGathered, Due, ListedAsked
  <2>4. a.dataFields = fields
    BY <1>1, <2>3, ListedIs DEF ListedAsked, ListedGoes
  <2>5. p \in ResolveDataFields(a, FieldsOf(run.found.category, run.found.type))
    BY <1>2, <2>1, <2>3 DEF Or
  <2> HIDE DEF a, given, fields
  <2> QED
    BY <1>1, <1>3, <1>4, <2>4, <2>5, OwnValues DEF D
<1>5. ASSUME NEW d \in ToSet(fields)
      PROVE  Updated(d) = d
  <2>1. CASE \E p \in given : p[1] = d.name
    <3> DEFINE p == CHOOSE q \in given : q[1] = d.name
    <3>1. p \in given /\ p[1] = d.name
      BY <2>1
    <3>2. p[2] = d.value
      BY <1>4, <3>1
    <3>3. d \in D
      BY <1>3, ToSetOf
    <3> HIDE DEF p
    <3>4. [d EXCEPT !.value = p[2]] = d
      BY <3>2, <3>3
    <3> QED
      BY <2>1, <3>4 DEF p
  <2>2. CASE ~\E p \in given : p[1] = d.name
    BY <2>2
  <2> QED
    BY <2>1, <2>2
<1>6. [i \in DOMAIN fields |-> Updated(fields[i])] = fields
  <2>1. fields = [i \in DOMAIN fields |-> fields[i]]
    BY <1>3
  <2> HIDE DEF Updated, fields
  <2>2. \A i \in DOMAIN fields : Updated(fields[i]) = fields[i]
    BY <1>3, <1>5, ToSetOf
  <2> QED
    BY <2>1, <2>2
<1>7. Effect = [item EXCEPT !.title = Or(run.sent.title, @), !.price = Or(run.sent.price, @),
                            !.dataFields = [i \in DOMAIN fields |-> Updated(fields[i])]]
  BY <1>1, <1>2 DEF Effect
<1>8. [item EXCEPT !.title = item.title, !.price = item.price, !.dataFields = fields] = item
  BY <1>1 DEF ItemType
<1>9. Or(run.sent.title, item.title) = item.title /\ Or(run.sent.price, item.price) = item.price
  BY <1>2 DEF Or
<1> HIDE DEF Updated, given
<1> QED
  BY <1>6, <1>7, <1>8, <1>9

\* While the product, the request, the credentials and Playerok stay as they are...
LEMMA SameListed ==
    ASSUME UNCHANGED <<situation, auth, request, changes>>,
           run.raised => run'.raised
    PROVE  /\ ListedAsked' => ListedAsked
           /\ item' = item => Listed' = Listed /\ (FieldsOnce => FieldsOnce')
<1>1. ListedAsked' => ListedAsked
  <2>1. Usable(Resolved)' = Usable(Resolved)
    BY DEF Usable, Resolved, env
  <2> QED
    BY <2>1 DEF ListedAsked
<1>2. ASSUME item' = item
      PROVE  Listed' = Listed
  <2>1. \A slug : ListedWith(slug)' = ListedWith(slug)
    BY <1>2 DEF ListedWith
  <2>2. \A attributes, media : UpdateWith(attributes, media)' = UpdateWith(attributes, media)
    BY <1>2 DEF UpdateWith, Version
  <2> QED
    BY <1>2, <2>1, <2>2 DEF Listed
<1> QED
  BY <1>1, <1>2 DEF FieldsOnce

\* ...an answer to such an update is 200, or a refusal that it gives a cause for.
LEMMA EndedListed ==
    ASSUME ListedInv, Ended, run.raised => run'.raised, FieldsOnce',
           ListedAsked /\ ~run'.raised =>
              /\ item' = item
              /\ run'.answer # 200 => run'.executions = 0 /\ SentBackRefused'
    PROVE  ListedInv'
<1>1. /\ ListedAsked' => ListedAsked
      /\ item' = item => Listed' = Listed
  BY SameListed DEF Ended, Beside
<1>2. run'.at = "idle" /\ request' = request
  BY DEF Ended, Beside
<1>3. ASSUME ListedAsked'
      PROVE  ListedGoes'
  <2>1. ListedAsked /\ ~run'.raised
    BY <1>1, <1>3 DEF ListedAsked
  <2>2. /\ item' = item /\ Listed' = Listed
        /\ run'.answer # 200 => run'.executions = 0 /\ SentBackRefused'
    BY <1>1, <2>1
  <2>3. item # None /\ request \in Listed
    BY <2>1 DEF ListedInv, ListedGoes
  <2> QED
    BY <1>2, <2>2, <2>3 DEF ListedGoes
<1> QED
  BY <1>3 DEF ListedInv

\* A call that goes on is looked up where the product is.
LEMMA GoingListed ==
    ASSUME Inv, ListedInv, Going, item' = item,
           ListedAsked /\ ListedGoes =>
              /\ run'.found.category = item.category
              /\ run'.at \in {"item", "types"} => run'.found.type = item.type
    PROVE  ListedInv'
<1>1. /\ ListedAsked' => ListedAsked
      /\ Listed' = Listed /\ FieldsOnce'
  BY SameListed DEF ListedInv, Going, Beside
<1>2. request' = request /\ run'.answer = 0
  <2>1. run.answer = 0
    BY DEF Inv, Located, Going, Lookups
  <2> QED
    BY <2>1 DEF Going, Beside
<1>3. ListedAsked => ListedGoes
  BY DEF ListedInv
<1>4. ListedAsked' => ListedGoes'
  BY <1>1, <1>2, <1>3 DEF ListedGoes
<1> QED
  BY <1>1, <1>4 DEF ListedInv

\* A refusal has a cause that such an update does not give.
LEMMA RefusedListed ==
    ASSUME ListedInv, Refused, item' = item, ~ListedAsked
    PROVE  ListedInv'
<1>1. FieldsOnce'
  BY SameListed DEF ListedInv, Refused, Ended, Beside
<1> QED
  BY <1>1, EndedListed DEF Refused

\* An update has its item before it looks up the types, and these before the rest.
LEMMA UpdatePlace ==
    ASSUME Inv, run.at \in Lookups, request.op = "update"
    PROVE  /\ run.at \in run.needs /\ run.needs \in SUBSET Lookups
           /\ run.at # "item" => "item" \notin run.needs
           /\ run.at \in {"category", "fields"} => "types" \notin run.needs
           /\ request # None /\ run.executions = 0 /\ run.answer = 0
<1>1. run.needs \in SUBSET Lookups /\ run.at = Following(run.needs)
  BY RunParts DEF Inv, TypeOK, Located, Lookups
<1>2. request # None /\ run.executions = 0 /\ run.answer = 0
  BY DEF Inv, Located, Lookups
<1> QED
  BY <1>1, <1>2, FollowingIs DEF Lookups

\* Of an update that looks up types or data fields, data fields are given.
LEMMA FieldsGiven ==
    ASSUME Inv, Progress, ListedAsked, ListedGoes, run.at \in {"types", "fields"}
    PROVE  item.dataFields # <<>>
<1>1. request.op = "update" /\ (Attributes(request).dataFields # None => item.dataFields # <<>>)
  BY ListedPasses
<1>2. run.at \in run.needs /\ request # None
  BY <1>1, UpdatePlace DEF Lookups
<1>3. Gathers
  BY <1>1, <1>2 DEF Gathers
<1>4. "fields" \in Due
  BY <1>2, <1>3 DEF Progress
<1>5. Attributes(request).dataFields # None
  BY <1>1, <1>4 DEF Due
<1> QED
  BY <1>1, <1>5

\* Connecting.
LEMMA ConnectListed ==
    ASSUME Inv, Progress, ListedInv, Connect
    PROVE  ListedInv'
<1> DEFINE category == NamedIds(Attributes(request).gameCategoryId)
           type == NamedIds(Attributes(request).obtainingTypeId)
           caused == FieldsMalformed \/ (request.op = "create" /\ category = None)
<1>1. \/ Refused /\ caused
      \/ Going /\ run'.found.category = category /\ run'.found.type = type
  BY ConnectGoes
<1>2. item' = item
  BY DEF Connect, Step
<1>3. ListedAsked /\ ListedGoes =>
        request.op = "update" /\ ~FieldsMalformed /\ category = item.category /\ type = item.type
  BY ListedPasses
<1> HIDE DEF category, type
<1>4. CASE Refused /\ caused
  <2>1. ~ListedAsked
    BY <1>3, <1>4 DEF ListedInv
  <2> QED
    BY <1>2, <1>4, <2>1, RefusedListed
<1>5. CASE ~(Refused /\ caused)
  BY <1>1, <1>2, <1>3, <1>5, GoingListed
<1> QED
  BY <1>4, <1>5

\* The item is there and the one the request was composed from.  Without a category and
\* a type it is not known which data fields it may have.
LEMMA GetItemListed ==
    ASSUME Inv, Progress, ListedInv, GetItem
    PROVE  ListedInv'
<1> DEFINE unknown == /\ run'.answer = 409 /\ Attributes(request).dataFields # None
                      /\ run.found.category = None /\ item.category = None
                      /\ run.found.type = None /\ item.type = None
           caused == FieldsMalformed \/ ItemRefusal(request) # 0 \/ unknown
<1>1. \/ Refused /\ caused
      \/ /\ Going
         /\ run'.found.category = Or(run.found.category, item.category)
         /\ run'.found.type = Or(run.found.type, item.type)
  BY GetItemGoes
<1>2. item' = item /\ run.at = "item"
  BY DEF GetItem, Step
<1>3. ListedAsked /\ ListedGoes =>
        /\ request.op = "update" /\ ~FieldsMalformed /\ ItemRefusal(request) = 0
        /\ Attributes(request).dataFields # None => item.dataFields # <<>>
        /\ run.found.category = item.category /\ run.found.type = item.type
  BY <1>2, ListedPasses DEF ListedGoes
<1>4. CASE Refused /\ caused
  <2>1. FieldsOnce'
    BY <1>2, <1>4, SameListed DEF ListedInv, Refused, Ended, Beside
  <2>2. ListedAsked =>
          run'.executions = 0 /\ item.dataFields # <<>> /\ FieldsRefused'
    <3> SUFFICES ASSUME ListedAsked
                 PROVE  run'.executions = 0 /\ item.dataFields # <<>> /\ FieldsRefused'
      OBVIOUS
    <3>1. ListedGoes
      BY DEF ListedInv
    <3>2. unknown /\ item.dataFields # <<>> /\ request.op = "update"
      BY <1>3, <1>4, <3>1
    <3>3. run.executions = 0
      BY <1>2, <3>2, UpdatePlace DEF Lookups
    <3> QED
      BY <1>2, <1>4, <3>2, <3>3 DEF Refused, FieldsRefused
  <2>3. ListedAsked => run'.executions = 0 /\ SentBackRefused'
    BY <1>2, <2>2 DEF SentBackRefused
  <2> QED
    BY <1>2, <1>4, <2>1, <2>3, EndedListed DEF Refused
<1>5. CASE ~(Refused /\ caused)
  <2> HIDE DEF caused
  <2>1. ListedAsked /\ ListedGoes =>
          run'.found.category = item.category /\ run'.found.type = item.type
    BY <1>1, <1>3, <1>5 DEF Or
  <2> QED
    BY <1>1, <1>2, <1>5, <2>1, GoingListed
<1> QED
  BY <1>4, <1>5

\* Without a type of its own, the category of the product may have none to take.
LEMMA GetTypesListed ==
    ASSUME Inv, Progress, ListedInv, GetTypes
    PROVE  ListedInv'
<1> DEFINE all == catalogue[run.found.category].types
           types == FirstPage(all)
           query == request.op = "metadata"
           type == Or(run.found.type,
                      IF query THEN MetadataType(types) ELSE DefaultObtainingType(types))
           caused == FieldsMalformed \/ (~query /\ type = None)
           needs == (run.needs \ {"types"}) \cup IF query /\ type # None THEN {"fields"} ELSE {}
<1>1. \/ Refused /\ run'.answer = 400 /\ caused
      \/ Going /\ run'.found.category = run.found.category /\ run'.needs = needs
  BY GetTypesGoes
<1>2. item' = item /\ run.at = "types" /\ run.found.category \in DOMAIN catalogue
  BY DEF GetTypes, Lookup, Step
<1>3. ASSUME ListedAsked, ListedGoes
      PROVE  /\ request.op = "update" /\ ~FieldsMalformed /\ item.dataFields # <<>>
             /\ run.found.category = item.category /\ run.found.type = item.type
             /\ run.executions = 0 /\ run.needs \in SUBSET Lookups /\ "item" \notin run.needs
  <2>1. request.op = "update" /\ ~FieldsMalformed /\ item.dataFields # <<>>
    BY <1>2, <1>3, ListedPasses, FieldsGiven
  <2> QED
    BY <1>2, <1>3, <2>1, UpdatePlace DEF ListedGoes, Lookups
<1>4. CASE Refused /\ caused /\ run'.answer = 400
  <2>1. FieldsOnce'
    BY <1>2, <1>4, SameListed DEF ListedInv, Refused, Ended, Beside
  <2>2. ListedAsked =>
          run'.executions = 0 /\ item.dataFields # <<>> /\ FieldsRefused'
    <3> SUFFICES ASSUME ListedAsked
                 PROVE  run'.executions = 0 /\ item.dataFields # <<>> /\ FieldsRefused'
      OBVIOUS
    <3>1. ListedGoes
      BY DEF ListedInv
    <3>2. ~query /\ type = None
      BY <1>3, <1>4, <3>1
    <3>3. item.type = None /\ DefaultObtainingType(types) = None
      BY <1>3, <3>1, <3>2 DEF Or
    <3>4. DefaultObtainingType(types) = DefaultObtainingType(all)
      <4>1. all \in Seq(Texts \cup {Blank})
        BY <1>2, OfferType DEF Inv, OffersTyped
      <4> HIDE DEF all
      <4> QED
        BY <4>1, FirstPageTwice DEF DefaultObtainingType
    <3>5. item.category # None
      <4>1. None \notin Texts
        BY TextAssumption
      <4> QED
        BY <1>2, <1>3, <3>1, <4>1 DEF Inv, OffersTyped, CatalogueType
    <3>6. catalogue' = catalogue
      BY <1>4 DEF Refused, Ended, Beside
    <3>7. DefaultObtainingType(catalogue[item.category].types)' = None
      BY <1>2, <1>3, <3>1, <3>3, <3>4, <3>6
    <3> HIDE DEF types, all
    <3> QED
      BY <1>2, <1>3, <1>4, <3>1, <3>3, <3>5, <3>7 DEF Refused, FieldsRefused
  <2> HIDE DEF caused
  <2>3. ListedAsked => run'.executions = 0 /\ SentBackRefused'
    BY <1>2, <2>2 DEF SentBackRefused
  <2> QED
    BY <1>2, <1>4, <2>1, <2>3, EndedListed DEF Refused
<1>5. CASE ~(Refused /\ caused /\ run'.answer = 400)
  <2> HIDE DEF caused, type
  <2>1. ListedAsked /\ ListedGoes =>
          run'.found.category = item.category /\ run'.at \notin {"item", "types"}
    <3> SUFFICES ASSUME ListedAsked, ListedGoes
                 PROVE  run'.found.category = item.category /\ run'.at \notin {"item", "types"}
      OBVIOUS
    <3>1. needs \in SUBSET Lookups /\ "item" \notin needs /\ "types" \notin needs
          /\ request.op = "update"
      BY <1>1, <1>3, <1>5 DEF Going
    <3>2. Following(needs) \notin {"item", "types"}
      BY <3>1, FollowingIs
    <3>3. Following(run'.needs) \notin {"item", "types"}
      BY <1>1, <1>5, <3>2
    <3> QED
      BY <1>1, <1>3, <1>5, <3>3 DEF Going
  <2> QED
    BY <1>1, <1>2, <1>5, <2>1, GoingListed
<1> QED
  BY <1>4, <1>5

\* The category, which may not offer what the product shows beside its attributes.
LEMMA GetCategoryListed ==
    ASSUME Inv, Progress, ListedInv, GetCategory
    PROVE  ListedInv'
<1> DEFINE options == catalogue[run.found.category].options
           attributes == Attributes(request)
           caused == FieldsMalformed \/ ~OptionsOffered(attributes, options)
<1>1. \/ Refused /\ run'.answer = 400 /\ caused
      \/ /\ Going /\ run'.needs = run.needs \ {"category"}
         /\ run'.found.category = run.found.category
  BY GetCategoryGoes
<1>2. item' = item /\ run.at = "category" /\ run.found.category \in DOMAIN catalogue
  BY DEF GetCategory, Lookup, Step
<1>3. ASSUME ListedAsked, ListedGoes
      PROVE  /\ request.op = "update" /\ ~FieldsMalformed /\ run.found.category = item.category
             /\ request.attributes = attributes /\ attributes \in AttributeType
             /\ run.needs \in SUBSET Lookups /\ run.executions = 0
             /\ "item" \notin run.needs /\ "types" \notin run.needs
  <2>1. /\ request.op = "update" /\ ~FieldsMalformed
        /\ request.attributes = attributes /\ attributes \in AttributeType
    BY <1>3, ListedPasses
  <2> QED
    BY <1>2, <1>3, <2>1, UpdatePlace DEF ListedGoes, Lookups
<1> HIDE DEF attributes
<1>4. CASE Refused /\ run'.answer = 400 /\ caused
  <2>1. FieldsOnce'
    BY <1>2, <1>4, SameListed DEF ListedInv, Refused, Ended, Beside
  <2>2. ListedAsked => run'.executions = 0 /\ SentBackRefused'
    <3> SUFFICES ASSUME ListedAsked
                 PROVE  run'.executions = 0 /\ SentBackRefused'
      OBVIOUS
    <3>1. ListedGoes
      BY DEF ListedInv
    <3>2. PICK e \in AskedOptions(attributes) : <<e.name, Text(e.value)>> \notin options
      BY <1>3, <1>4, <3>1, OptionRefused
    <3>3. UNCHANGED <<request, catalogue>> /\ run'.found = run.found
      BY <1>4 DEF Refused, Ended, Beside
    <3>4. run.found.category # None
      <4>1. None \notin Texts
        BY TextAssumption
      <4> QED
        BY <1>2, <4>1 DEF Inv, OffersTyped, CatalogueType
    <3>5. /\ (AskedOptions(request.attributes))' = AskedOptions(attributes)
          /\ (catalogue[run.found.category].options)' = options
          /\ run'.found.category # None
      BY <1>3, <3>1, <3>3, <3>4
    <3>6. e \in (AskedOptions(request.attributes))'
          /\ <<e.name, Text(e.value)>> \notin (catalogue[run.found.category].options)'
      BY <3>2, <3>5
    <3>7. SentBackRefused'
      BY <1>4, <3>5, <3>6 DEF SentBackRefused
    <3> QED
      BY <1>3, <1>4, <3>1, <3>7 DEF Refused
  <2> HIDE DEF caused
  <2> QED
    BY <1>2, <1>4, <2>1, <2>2, EndedListed DEF Refused
<1>5. CASE ~(Refused /\ run'.answer = 400 /\ caused)
  <2> HIDE DEF caused
  <2>1. ListedAsked /\ ListedGoes =>
          run'.found.category = item.category /\ run'.at \notin {"item", "types"}
    BY <1>1, <1>3, <1>5, FollowingIs DEF Going
  <2> QED
    BY <1>1, <1>2, <1>5, <2>1, GoingListed
<1> QED
  BY <1>4, <1>5

\* The data fields: one that is required may have no value yet.
LEMMA GetFieldsListed ==
    ASSUME Inv, Progress, ListedInv, GetFields
    PROVE  ListedInv'
<1> DEFINE fields == FieldsOf(run.found.category, run.found.type)
           missing == MissingDataFields(Attributes(request), fields)
           caused == FieldsMalformed \/ (request.op # "metadata" /\ missing # {})
<1>1. \/ Refused /\ run'.answer = 400 /\ caused
      \/ /\ Going /\ run'.needs = run.needs \ {"fields"}
         /\ run'.found.category = run.found.category
  BY GetFieldsGoes
<1>2. item' = item /\ run.at = "fields"
  BY DEF GetFields, Lookup, Step
<1>3. ASSUME ListedAsked, ListedGoes
      PROVE  /\ request.op = "update" /\ ~FieldsMalformed /\ item.dataFields # <<>>
             /\ request.attributes = Attributes(request)
             /\ run.found.category = item.category /\ run.executions = 0
             /\ run.needs \in SUBSET Lookups
             /\ "item" \notin run.needs /\ "types" \notin run.needs
  <2>1. request.op = "update" /\ ~FieldsMalformed /\ item.dataFields # <<>>
        /\ request.attributes = Attributes(request)
    BY <1>2, <1>3, ListedPasses, FieldsGiven
  <2> QED
    BY <1>2, <1>3, <2>1, UpdatePlace DEF ListedGoes, Lookups
<1>4. CASE Refused /\ caused /\ run'.answer = 400
  <2>1. FieldsOnce'
    BY <1>2, <1>4, SameListed DEF ListedInv, Refused, Ended, Beside
  <2>2. ListedAsked =>
          run'.executions = 0 /\ item.dataFields # <<>> /\ FieldsRefused'
    <3> SUFFICES ASSUME ListedAsked
                 PROVE  run'.executions = 0 /\ item.dataFields # <<>> /\ FieldsRefused'
      OBVIOUS
    <3>1. ListedGoes
      BY DEF ListedInv
    <3>2. missing # {} /\ request.attributes = Attributes(request)
      BY <1>3, <1>4, <3>1
    <3>3. UNCHANGED <<request, catalogue>> /\ run'.found = run.found
      BY <1>4 DEF Refused, Ended, Beside
    <3>4. fields' = fields
      BY <3>3 DEF FieldsOf
    <3>5. MissingDataFields(request.attributes, FieldsOf(run.found.category, run.found.type))'
            = missing
      BY <3>2, <3>3, <3>4
    <3> HIDE DEF missing, fields
    <3> QED
      BY <1>3, <1>4, <3>1, <3>2, <3>5 DEF Refused, FieldsRefused
  <2> HIDE DEF caused
  <2>3. ListedAsked => run'.executions = 0 /\ SentBackRefused'
    BY <1>2, <2>2 DEF SentBackRefused
  <2> QED
    BY <1>2, <1>4, <2>1, <2>3, EndedListed DEF Refused
<1>5. CASE ~(Refused /\ caused /\ run'.answer = 400)
  <2> HIDE DEF caused
  <2>1. ListedAsked /\ ListedGoes =>
          run'.found.category = item.category /\ run'.at \notin {"item", "types"}
    BY <1>1, <1>3, <1>5, FollowingIs DEF Going
  <2> QED
    BY <1>1, <1>2, <1>5, <2>1, GoingListed
<1> QED
  BY <1>4, <1>5

\* A lookup that raises is remembered...
LEMMA LookupRaised ==
    ASSUME Inv, NEW exception, LookupRaises(exception)
    PROVE  run'.raised
<1>1. PICK status : run' = [run EXCEPT !.at = "idle", !.raised = TRUE, !.answer = status]
  BY DEF LookupRaises
<1> QED
  BY <1>1, RunsAre DEF Inv, TypeOK

\* ...and so is a command that does.
LEMMA CommandRaised ==
    ASSUME Inv, NEW exception, CommandRaises(exception)
    PROVE  run'.raised
<1>1. PICK status, more : run' = [run EXCEPT !.at = "idle", !.executions = @ + more,
                                             !.raised = TRUE, !.answer = status]
  BY DEF CommandRaises
<1> QED
  BY <1>1, RunsAre DEF Inv, TypeOK

\* What ends a call: no refusal before the lookups is for such an update, and one after
\* them is for its media or its price.
LEMMA AnswersListed ==
    ASSUME Inv, ListedInv, FieldsOnce',
           \/ RefuseEarly \/ RefuseLate \/ NotRemoved \/ Convert \/ ConvertFails
           \/ \E exception \in Exceptions : LookupRaises(exception) \/ CommandRaises(exception)
    PROVE  ListedInv'
<1>1. Ended
  BY AnswersEnd, CommandRaisesEnds
<1>2. run \in Runs
  BY DEF Inv, TypeOK
<1>3. CASE RefuseEarly
  <2>1. ~ListedAsked
    BY <1>3, ListedPasses DEF ListedInv, RefuseEarly
  <2>2. run'.raised = run.raised
    BY <1>2, <1>3, RunsAre DEF RefuseEarly, Answer
  <2> QED
    BY <1>1, <2>1, <2>2, EndedListed
<1>6. CASE RefuseLate
  <2>1. /\ run'.raised = run.raised /\ run'.executions = run.executions
        /\ run'.answer = LateRefusal(request) /\ LateRefusal(request) # 0
        /\ item' = item /\ request' = request
    BY <1>2, <1>6, RunsAre DEF RefuseLate, Answer, Step, Asides
  <2>2. run.executions = 0
    BY <1>6 DEF RefuseLate, Step, Inv, Located
  <2>3. ListedAsked => SentBackRefused'
    BY <2>1, ListedPasses DEF ListedInv, SentBackRefused
  <2> QED
    BY <1>1, <2>1, <2>2, <2>3, EndedListed
<1>4. CASE Convert
  <2>1. item' = item /\ run'.answer = 200 /\ run'.raised = run.raised
    BY <1>2, <1>4, RunsAre DEF Convert, Step, Answer
  <2> QED
    BY <1>1, <2>1, EndedListed
<1>5. CASE \/ NotRemoved \/ ConvertFails
           \/ \E exception \in Exceptions : LookupRaises(exception) \/ CommandRaises(exception)
  <2>1. run'.raised
    <3>1. CASE NotRemoved
      BY <1>2, <3>1, RunsAre DEF NotRemoved
    <3>2. CASE ConvertFails
      <4>1. PICK status \in {400, 500} :
               run' = [run EXCEPT !.at = "idle", !.raised = TRUE, !.answer = status]
        BY <3>2 DEF ConvertFails
      <4> QED
        BY <1>2, <4>1, RunsAre
    <3>3. CASE \E exception \in Exceptions : LookupRaises(exception)
      BY <3>3, LookupRaised
    <3>4. CASE \E exception \in Exceptions : CommandRaises(exception)
      BY <3>4, CommandRaised
    <3> QED
      BY <1>5, <3>1, <3>2, <3>3, <3>4
  <2> QED
    BY <1>1, <2>1, EndedListed
<1> QED
  BY <1>3, <1>4, <1>5, <1>6

\* Composing the command, and executing it, which changes nothing.
LEMMA CommandListed ==
    ASSUME Inv, Progress, ListedInv, FieldsOnce', Compose \/ Command
    PROVE  ListedInv'
<1>1. /\ UNCHANGED <<situation, auth, catalogue, request, form, changes>>
      /\ run \in Runs /\ run.at \in {"compose", "command"} /\ run.answer = 0
  BY DEF Compose, Command, Step, Asides, Inv, TypeOK, Located
<1>2. /\ run'.at \in {"command", "convert"} /\ run'.answer = run.answer
      /\ run'.raised = run.raised /\ run'.found = run.found
  <2>1. CASE Compose
    BY <1>1, <2>1, RunsAre DEF Compose
  <2>2. CASE Command
    BY <1>1, <2>2, RunsAre DEF Command
  <2> QED
    BY <2>1, <2>2
<1>3. ListedAsked' => ListedAsked /\ ListedGoes
  BY <1>1, <1>2, SameListed DEF ListedInv
<1>4. ListedAsked /\ ListedGoes => item' = item
  <2>1. CASE Compose
    BY <2>1 DEF Compose, Step
  <2>2. CASE Command
    <3>1. run.sent # None /\ item' = Effect
      BY <2>2 DEF Command, Inv, Located
    <3> QED
      BY <3>1, ListedEffect DEF ListedInv
  <2> QED
    BY <2>1, <2>2
<1>5. ASSUME ListedAsked'
      PROVE  ListedGoes'
  <2>1. item' = item /\ ListedGoes
    BY <1>3, <1>4, <1>5
  <2>2. Listed' = Listed
    BY <1>1, <1>2, <2>1, SameListed
  <2> QED
    BY <1>1, <1>2, <2>1, <2>2 DEF ListedGoes
<1> QED
  BY <1>5 DEF ListedInv

\* A request that is asked: one of origin "listed" was composed from the product.
LEMMA CallListed ==
    ASSUME Inv, ListedInv,
           \/ (\E r \in offered.requests : Ask(r)) \/ AskFilled \/ AskListed
           \/ \E payload \in offered.applies : ApplyAuth(payload)
    PROVE  ListedInv'
<1>1. item' = item
  BY DEF AskFilled, AskListed, Ask, ApplyAuth, Call
<1>2. FieldsOnce'
  BY <1>1 DEF ListedInv, FieldsOnce
<1>3. CASE \E payload \in offered.applies : ApplyAuth(payload)
  <2>1. request' = None
    BY <1>3 DEF ApplyAuth
  <2> QED
    BY <1>2, <2>1 DEF ListedInv, ListedAsked
<1>4. ASSUME NEW r, Ask(r), r.origin = "listed" => item # None /\ r \in Listed
      PROVE  ListedInv'
  <2>1. request' = r /\ run' = [Idle EXCEPT !.at = "begin"]
    BY <1>4 DEF Ask
  <2>2. run'.at = "begin" /\ run'.answer = 0
    BY <2>1, Begun
  <2>3. Listed' = Listed
    <3>1. \A slug : ListedWith(slug)' = ListedWith(slug)
      BY <1>1 DEF ListedWith
    <3>2. \A attributes, media : UpdateWith(attributes, media)' = UpdateWith(attributes, media)
      BY <1>1 DEF UpdateWith, Version
    <3> QED
      BY <1>1, <3>1, <3>2 DEF Listed
  <2>4. ListedAsked' => ListedGoes'
    BY <1>1, <1>4, <2>1, <2>2, <2>3 DEF ListedAsked, ListedGoes
  <2> QED
    BY <1>2, <2>4 DEF ListedInv
<1>5. CASE \E r \in offered.requests : Ask(r)
  <2>1. PICK r \in offered.requests : Ask(r)
    BY <1>5
  <2>2. r.origin = "caller"
    BY SituationAssumption DEF Inv, TypeOK, offered
  <2> QED
    BY <1>4, <2>1, <2>2
<1>6. CASE AskFilled
  <2>1. PICK r \in Filled : Ask(r)
    BY <1>6 DEF AskFilled
  <2>2. PICK attributes : r = CreateWith(attributes)
    BY DEF Filled
  <2>3. r.origin = "form"
    BY <2>2 DEF CreateWith, Plain
  <2> QED
    BY <1>4, <2>1, <2>3
<1>7. CASE AskListed
  BY <1>4, <1>7 DEF AskListed
<1> QED
  BY <1>3, <1>5, <1>6, <1>7

\* No update changes which data fields a product has.
LEMMA FieldsStay ==
    ASSUME Inv, FieldsOnce, [Next]_vars
    PROVE  FieldsOnce'
<1>1. CASE item' = item
  BY <1>1 DEF FieldsOnce
<1>2. CASE item' = Effect
  <2>1. CASE request.op = "update" /\ item # None
    <3> DEFINE given == Or(run.sent.fields, {})
               Updated(d) ==
                    IF \E p \in given : p[1] = d.name
                    THEN [d EXCEPT !.value = (CHOOSE p \in given : p[1] = d.name)[2]] ELSE d
               fields == item.dataFields
               after == [i \in DOMAIN fields |-> Updated(fields[i])]
               D == [name: Texts, value: Texts \cup {Blank}]
    <3>1. item \in ItemType /\ fields \in Seq(D) /\ Distinct(fields)
      BY <2>1 DEF Inv, TypeOK, ItemType, FieldsOnce
    <3>2. ASSUME NEW d \in D
          PROVE  Updated(d).name = d.name
      <4>1. \A v : [d EXCEPT !.value = v].name = d.name
        OBVIOUS
      <4> QED
        BY <4>1
    <3>3. item' = [item EXCEPT !.title = Or(run.sent.title, @),
                               !.price = Or(run.sent.price, @), !.dataFields = after]
      BY <1>2, <2>1 DEF Effect
    <3>4. item'.dataFields = after
      <4> HIDE DEF after
      <4> QED
        BY <3>1, <3>3 DEF ItemType
    <3> HIDE DEF Updated
    <3>5. \A i \in DOMAIN fields : after[i].name = fields[i].name
      BY <3>1, <3>2, ToSetOf
    <3>6. Distinct(after)
      BY <3>1, <3>5 DEF Distinct
    <3> HIDE DEF after, fields
    <3> QED
      BY <3>4, <3>6 DEF FieldsOnce, Distinct
  <2>2. CASE ~(request.op = "update" /\ item # None)
    <3>1. item' \in {None, item}
      BY <1>2, <2>2 DEF Effect
    <3> QED
      BY <3>1 DEF FieldsOnce
  <2> QED
    BY <2>1, <2>2
<1>3. CASE ChangeItem
  BY <1>3, FieldAssumption DEF ChangeItem, FieldsOnce
<1>4. item' = item \/ item' = Effect \/ ChangeItem
  <2>1. CASE Next
    <3>1. CASE \/ (\E r \in offered.requests : Ask(r)) \/ AskFilled \/ AskListed
               \/ \E payload \in offered.applies : ApplyAuth(payload)
      BY <3>1 DEF AskFilled, AskListed, Ask, ApplyAuth, Call
    <3>2. CASE \/ RefuseEarly \/ RefuseLate \/ NotRemoved \/ Convert \/ ConvertFails
      BY <3>2 DEF RefuseEarly, RefuseLate, NotRemoved, Convert, ConvertFails, Step
    <3>3. CASE Connect \/ GetItem \/ GetTypes \/ GetCategory \/ GetFields
      BY <3>3 DEF Connect, GetItem, GetTypes, GetCategory, GetFields, Lookup, Step
    <3>4. CASE Compose \/ ShowForm \/ Command \/ ChangeCatalogue \/ ChangeItem
      BY <3>4 DEF Compose, ShowForm, Command, ChangeCatalogue, Step
    <3>5. CASE \E exception \in Exceptions : LookupRaises(exception) \/ CommandRaises(exception)
      <4>1. PICK exception \in Exceptions : LookupRaises(exception) \/ CommandRaises(exception)
        BY <3>5
      <4>2. CASE LookupRaises(exception)
        BY <4>2 DEF LookupRaises, Step
      <4>3. CASE CommandRaises(exception)
        BY <4>3 DEF CommandRaises
      <4> QED
        BY <4>1, <4>2, <4>3
    <3> QED
      BY <2>1, <3>1, <3>2, <3>3, <3>4, <3>5 DEF Next
  <2>2. CASE UNCHANGED vars
    BY <2>2 DEF vars
  <2> QED
    BY <2>1, <2>2
<1> QED
  BY <1>1, <1>2, <1>3, <1>4

\* Every step keeps it.
LEMMA ListedKeeps ==
    ASSUME Inv, Progress, ListedInv, [Next]_vars
    PROVE  ListedInv'
<1>0. FieldsOnce'
  BY FieldsStay DEF ListedInv
<1>1. CASE \/ (\E r \in offered.requests : Ask(r)) \/ AskFilled \/ AskListed
           \/ \E payload \in offered.applies : ApplyAuth(payload)
  BY <1>1, CallListed
<1>2. CASE \/ RefuseEarly \/ RefuseLate \/ NotRemoved \/ Convert \/ ConvertFails
           \/ \E exception \in Exceptions : LookupRaises(exception) \/ CommandRaises(exception)
  BY <1>0, <1>2, AnswersListed
<1>3. CASE Connect \/ GetItem \/ GetTypes \/ GetCategory \/ GetFields
  BY <1>3, ConnectListed, GetItemListed, GetTypesListed, GetCategoryListed, GetFieldsListed
<1>4. CASE Compose \/ Command
  BY <1>0, <1>4, CommandListed
<1>5. CASE ShowForm
  <2>1. UNCHANGED <<situation, auth, request, changes>> /\ run'.raised = run.raised
        /\ request.op = "metadata"
    <3>1. run \in Runs
      BY DEF Inv, TypeOK
    <3> QED
      BY <1>5, <3>1, RunsAre DEF ShowForm, Asides, Answer
  <2>2. ~ListedAsked
    BY <2>1, ListedPasses DEF ListedInv
  <2> QED
    BY <1>0, <2>1, <2>2, SameListed DEF ListedInv
<1>6. CASE ChangeCatalogue \/ ChangeItem
  <2>1. changes' # 0
    BY <1>6, CallBounds DEF ChangeCatalogue, ChangeItem, Changed, Inv, TypeOK
  <2> QED
    BY <1>0, <2>1 DEF ListedInv, ListedAsked
<1>7. CASE UNCHANGED vars
  <2>1. UNCHANGED <<situation, auth, catalogue, item, request, changes, run>>
    BY <1>7 DEF vars
  <2>2. (ListedAsked' => ListedAsked) /\ Listed' = Listed
    BY <2>1, SameListed
  <2>3. SentBackRefused' = SentBackRefused
    <3>1. FieldsRefused' = FieldsRefused
      BY <2>1 DEF FieldsRefused, FieldsOf
    <3> QED
      BY <2>1, <3>1 DEF SentBackRefused
  <2>4. ListedAsked' => ListedGoes'
    BY <2>1, <2>2, <2>3 DEF ListedInv, ListedGoes
  <2> QED
    BY <1>0, <2>4 DEF ListedInv
<1> QED
  BY <1>1, <1>2, <1>3, <1>4, <1>5, <1>6, <1>7 DEF Next

\* A product sent back as products.list shows it, whatever it is, whole or without its
\* media or its slug, comes to the same product: the update passes the checks of
\* products_update and update_item, and names to Playerok the title, the price and the
\* values it has.  If it is refused, nothing was executed, and it is for its media, its
\* slug, the price 0 of a product without one, or data fields for which the worker knows
\* no obtaining type or misses a value.
THEOREM ListedReturns == Spec => []ListedComesBack
<1>1. Init => ListedInv
  <2> SUFFICES ASSUME Init
               PROVE  ListedInv
    OBVIOUS
  <2>1. FieldsOnce
    BY FieldAssumption DEF Init, FieldsOnce
  <2> QED
    BY <2>1 DEF Init, ListedInv, ListedAsked
<1>2. Inv /\ Progress /\ ListedInv /\ [Next]_vars => ListedInv'
  BY ListedKeeps
<1>3. Inv /\ ListedInv => ListedComesBack
  <2> SUFFICES ASSUME Inv, ListedInv, ListedAsked, Answered("listed")
               PROVE  /\ Version(item) = request.version
                      /\ item.dataFields = EntriesOf(request.attributes.dataFields)
                      /\ run.answer = 200 \/ (run.executions = 0 /\ SentBackRefused)
    BY DEF ListedComesBack, ListedAsked, Answered
  <2>1. ListedGoes /\ run.answer # 0
    BY DEF ListedInv, Answered
  <2>2. /\ request.version = Version(item) /\ item.dataFields \in Seq(NamedEntries)
        /\ request.attributes.dataFields
              = IF item.dataFields = <<>> THEN None ELSE item.dataFields
    BY <2>1, ListedIs DEF ListedGoes, ListedAsked, Inv, TypeOK
  <2>3. item.dataFields = EntriesOf(request.attributes.dataFields)
    BY <2>2, AbsentAssumption DEF EntriesOf
  <2> QED
    BY <2>1, <2>2, <2>3 DEF ListedGoes
<1> QED
  BY <1>1, <1>2, <1>3, InvHolds, ProgressHolds, PTL DEF Spec

=============================================================================
