----------------------------- MODULE WorkerApi -----------------------------
(***************************************************************************)
(* main.py: one worker process serving its API from one event loop.        *)
(*                                                                         *)
(* The endpoints are `async def` bodies without an await, so once one is   *)
(* started no other request runs until it answers.  What may happen in     *)
(* between is what these steps are cut at: the commits, the calls to       *)
(* Playerok, and a crash of the process.  Requests wait in `pending`       *)
(* meanwhile and are taken in any order (their bodies are read first).     *)
(*                                                                         *)
(* An error answer leaves nothing behind, so it is only the end of the     *)
(* request; a success is kept in `answers`.                                *)
(***************************************************************************)
EXTENDS WorkerStateStorage, FiniteSets

VARIABLES
    up,       \* the process runs
    config,   \* what WorkerConfig.load() returned at the last start
    sent,     \* Calls -> how often the caller has sent it
    pending,  \* requests the process has accepted and not started
    handler,  \* the request being executed, or Idle
    answers,  \* history: success answers sent, with the request they answer
    effects,  \* history: Slots -> commands executed (platform or upsert)
    lost,     \* history: Slots -> commands whose reply was never recorded
    faults    \* history: faults so far

vars == <<storageVars, up, config, sent, pending, handler, answers,
          effects, lost, faults>>

Points == {"idle", "scope", "work", "call", "record", "reply"}

\* PlayerokCredentials as a client was built from them.
Clients == [auth: Values, proxy: Values \cup {None}]

Answers == [request: Requests, payload: Payloads]

Handlers ==
    [at: Points, request: Requests \cup {None}, account: AccountIds \cup {None},
     client: Clients \cup {None}, payload: Payloads \cup {None}]

Idle == [at |-> "idle", request |-> None, account |-> None,
         client |-> None, payload |-> None]

call == handler.request.call

Idempotent(c) == c.op \in IdempotentOps

----------------------------------------------------------------------------
(* The caller.  It may send a call again at any time, while an earlier      *)
(* attempt still waits or after it was answered: a timeout on its side.     *)

Send(c) ==
    /\ up
    /\ sent[c] < MaxAttempts
    /\ sent' = [sent EXCEPT ![c] = @ + 1]
    /\ pending' = pending \cup {[call |-> c, attempt |-> sent[c] + 1]}
    /\ UNCHANGED <<storageVars, up, config, handler, answers, effects, lost, faults>>

----------------------------------------------------------------------------
(* How a request ends.                                                      *)

\* Mutant: the exception of a refused request is never turned into an answer.
NeverAnswered == UNCHANGED <<handler, answers>>

\* The request raised; an exception handler answers it with an error status.
Fail == handler' = Idle /\ UNCHANGED answers

Succeed(r, payload) ==
    answers' = answers \cup {[request |-> r, payload |-> payload]}

\* Every handler step runs in a live process and leaves the queue alone.
HandlerStep(point) ==
    /\ up
    /\ handler.at = point
    /\ UNCHANGED <<up, config, sent, pending>>

NoFault == UNCHANGED <<lost, faults>>

----------------------------------------------------------------------------
(* Picking up a request: endpoint checks, _idempotent's lookup.             *)

\* Checks made before the lookup: blank text or title, a bad mode or limit,
\* a key shorter than eight characters.
RejectedEarly(c) ==
    \/ c.op \in {"send", "create", "delete", "read", "unsupported"} /\ ~c.valid
    \/ Idempotent(c) /\ c.key = None

Dequeue(r) ==
    /\ up
    /\ handler = Idle
    /\ r \in pending
    /\ pending' = pending \ {r}
    /\ UNCHANGED <<storageVars, up, config, sent, effects, lost, faults>>

RejectRequest(r) ==
    /\ Dequeue(r)
    /\ RejectedEarly(r.call)
    /\ UNCHANGED <<handler, answers>>

\* The recorded reply is returned as it is, whatever else has changed since.
ReplayRecorded(r) ==
    /\ Dequeue(r)
    /\ ~RejectedEarly(r.call)
    /\ Idempotent(r.call)
    /\ read_idempotency(Slot(r.call)) # None
    /\ Succeed(r, read_idempotency(Slot(r.call)).payload)
    /\ UNCHANGED handler

Begin(r) == handler' = [Idle EXCEPT !.at = "scope", !.request = r]

\* Mutant: the operation runs without looking for a recorded reply.
StartUnlooked(r) ==
    /\ Dequeue(r)
    /\ ~RejectedEarly(r.call)
    /\ Begin(r)
    /\ UNCHANGED answers

StartOperation(r) ==
    /\ Dequeue(r)
    /\ ~RejectedEarly(r.call)
    /\ Idempotent(r.call) => read_idempotency(Slot(r.call)) = None
    /\ Begin(r)
    /\ UNCHANGED answers

----------------------------------------------------------------------------
(* Account scope: _resolve_bound_account_id, _require_bound_account_id and  *)
(* _enforce_account_scope.                                                  *)

\* The account this request would bind if none is: the configured one first,
\* then, for an action on an account, the one its payload names.
Claim(c) ==
    IF config.account # None THEN config.account
    ELSE IF c.op \in AccountOps THEN AccountText(c.account) ELSE None

\* Mutant: the payload's account is not compared.
PayloadUnchecked(c, bound) ==
    bound = None \/ config.account \notin {None, bound}

\* 409: nothing is bound, or it is not what the configuration or the payload says.
ScopeConflict(c, bound) ==
    \/ bound = None
    \/ config.account \notin {None, bound}
    \/ c.op \in AccountOps /\ AccountText(c.account) # bound

\* 400 before any table is read: an unknown action, or no payload.accountId.
NoScope(c) ==
    c.op = "unsupported" \/ (c.op \in AccountOps /\ AccountText(c.account) = None)

\* Refused for its payload once the scope is settled: empty changes, or a
\* proxyConfig or marketplaceAuth that does not validate.
PayloadRefused(c) == c.op \in ApplyOps \cup {"update"} /\ ~c.valid

RefuseScope ==
    /\ HandlerStep("scope")
    /\ NoScope(call)
    /\ Fail
    /\ UNCHANGED <<storageVars, effects>> /\ NoFault

\* A refusal comes after the commit of bind_account_if_unset: the binding stays.
ConflictOrRefuse ==
    /\ HandlerStep("scope")
    /\ ~NoScope(call)
    /\ bind_account_if_unset(Claim(call))
    /\ ScopeConflict(call, BindingAfter(Claim(call))) \/ PayloadRefused(call)
    /\ Fail
    /\ UNCHANGED <<idempotency_records, proxy_credentials, marketplace_auth, effects>>
    /\ NoFault

EnterScope ==
    /\ HandlerStep("scope")
    /\ ~NoScope(call)
    /\ bind_account_if_unset(Claim(call))
    /\ ~ScopeConflict(call, BindingAfter(Claim(call)))
    /\ ~PayloadRefused(call)
    /\ handler' = [handler EXCEPT !.at = "work", !.account = BindingAfter(Claim(call))]
    /\ UNCHANGED <<idempotency_records, proxy_credentials, marketplace_auth,
                   answers, effects>>
    /\ NoFault

----------------------------------------------------------------------------
(* The operation itself: _build_action_response and the adapter's methods.  *)

\* Mutant: the reply names the configured account instead of the bound one.
ConfiguredResult(value) ==
    [requestId |-> handler.request, account |-> config.account, value |-> value]

Result(value) ==
    [requestId |-> handler.request, account |-> handler.account, value |-> value]

\* A command has executed; its reply is next to be recorded.
Executed(value) ==
    /\ handler' = [handler EXCEPT !.at = "record", !.payload = Result(value)]
    /\ UNCHANGED answers

Count(f) == [f EXCEPT ![Slot(call)] = @ + 1]

ApplyProxy ==
    /\ HandlerStep("work")
    /\ call.op = "applyProxy"
    /\ upsert_proxy_credentials(handler.account, call.value, config.proxyKey)
    /\ Executed(None)
    /\ effects' = Count(effects)
    /\ UNCHANGED <<idempotency_records, runtime_binding, marketplace_auth>> /\ NoFault

ApplyAuth ==
    /\ HandlerStep("work")
    /\ call.op = "applyAuth"
    /\ upsert_marketplace_auth(handler.account, call.value, config.marketKey)
    /\ Executed(None)
    /\ effects' = Count(effects)
    /\ UNCHANGED <<idempotency_records, runtime_binding, proxy_credentials>> /\ NoFault

\* 404 without a row, 500 if the row was sealed with another key.
RevealProxy ==
    /\ HandlerStep("work")
    /\ call.op = "revealProxy"
    /\ LET row == proxy_credentials[handler.account] IN
         IF row = None \/ ~Opens(row, config.proxyKey) THEN Fail ELSE Executed(row.value)
    /\ UNCHANGED <<storageVars, effects>> /\ NoFault

\* Mutant: credentials of the environment win over the applied ones.
EnvironmentFirst(a) ==
    IF config.credentials # None THEN config.credentials
    ELSE IF marketplace_auth[a] = None THEN None ELSE marketplace_auth[a].value

\* resolve_credentials: the applied credentials, or else the environment's.
AuthFor(a) ==
    IF marketplace_auth[a] # None THEN marketplace_auth[a].value ELSE config.credentials

ProxyFor(a) == IF proxy_credentials[a] = None THEN None ELSE proxy_credentials[a].value

CredentialsResolve(a) ==
    /\ Opens(marketplace_auth[a], config.marketKey)
    /\ Opens(proxy_credentials[a], config.proxyKey)
    /\ AuthFor(a) # None

UsesPlayerok(c) == c.op \in PlatformOps \cup {"metadata", "read"}

\* Everything before the command itself: resolve_credentials, client.get() and
\* the lookups of the operation.
Connect ==
    /\ HandlerStep("work")
    /\ UsesPlayerok(call)
    /\ CredentialsResolve(handler.account)
    /\ handler' = [handler EXCEPT !.at = "call",
                       !.client = [auth |-> AuthFor(handler.account),
                                   proxy |-> ProxyFor(handler.account)]]
    /\ UNCHANGED <<storageVars, answers, effects>> /\ NoFault

\* No usable credentials (400, 500), a request the operation refuses (400, 404,
\* 409), or Playerok rejects or cannot be reached (401, 502).
ConnectFails ==
    /\ HandlerStep("work")
    /\ UsesPlayerok(call)
    /\ Fail
    /\ UNCHANGED <<storageVars, effects>> /\ NoFault

\* send_message, create_item, update_item or remove_item executes and answers.
Command ==
    /\ HandlerStep("call")
    /\ call.op \in PlatformOps
    /\ Executed(None)
    /\ effects' = Count(effects)
    /\ UNCHANGED storageVars /\ NoFault

\* It executes, but the answer times out or cannot be read: 502 or 500.
CommandUnheard ==
    /\ HandlerStep("call")
    /\ call.op \in PlatformOps
    /\ faults < MaxFaults
    /\ Fail
    /\ effects' = Count(effects)
    /\ lost' = Count(lost)
    /\ faults' = faults + 1
    /\ UNCHANGED storageVars

\* Playerok refuses the command, or it never arrives.
CommandRefused ==
    /\ HandlerStep("call")
    /\ Fail
    /\ UNCHANGED <<storageVars, effects>> /\ NoFault

\* A query: metadata is recorded like any action, a GET is answered at once.
Query ==
    /\ HandlerStep("call")
    /\ call.op \in {"metadata", "read"}
    /\ handler' = [handler EXCEPT !.at = IF Idempotent(call) THEN "record" ELSE "reply",
                                  !.payload = Result(None)]
    /\ UNCHANGED <<storageVars, answers, effects>> /\ NoFault

----------------------------------------------------------------------------
(* The end of _idempotent, and the faults.                                  *)

RecordReply ==
    /\ HandlerStep("record")
    /\ write_idempotency(Slot(call), 200, handler.payload)
    /\ handler' = [handler EXCEPT !.at = "reply"]
    /\ UNCHANGED <<runtime_binding, proxy_credentials, marketplace_auth, answers, effects>>
    /\ NoFault

SendReply ==
    /\ HandlerStep("reply")
    /\ Succeed(handler.request, handler.payload)
    /\ handler' = Idle
    /\ UNCHANGED <<storageVars, effects>> /\ NoFault

\* What a fault costs: a command that was executed and whose reply is not recorded.
LoseExecuted ==
    lost' = IF handler.at = "record" /\ call.op \in MutatingOps THEN Count(lost) ELSE lost

\* A statement or commit of SQLite raises: the request ends with 500.
StorageFails ==
    /\ up
    /\ handler.at \in {"scope", "work", "record"}
    /\ faults < MaxFaults
    /\ faults' = faults + 1
    /\ LoseExecuted
    /\ Fail
    /\ UNCHANGED <<storageVars, up, config, sent, pending, effects>>

\* The process dies: the queue and the running handler go, the tables stay.
Crash ==
    /\ up
    /\ faults < MaxFaults
    /\ faults' = faults + 1
    /\ LoseExecuted
    /\ up' = FALSE
    /\ pending' = {}
    /\ handler' = Idle
    /\ UNCHANGED <<storageVars, config, sent, answers, effects>>

\* The container starts again, with the same or another environment.
Start(cfg) ==
    /\ ~up
    /\ up' = TRUE
    /\ config' = cfg
    /\ UNCHANGED <<storageVars, sent, pending, handler, answers, effects, lost, faults>>

----------------------------------------------------------------------------

Init ==
    /\ StorageInit
    /\ up = FALSE
    /\ config \in Configs
    /\ sent = [c \in Calls |-> 0]
    /\ pending = {}
    /\ handler = Idle
    /\ answers = {}
    /\ effects = [s \in Slots |-> 0]
    /\ lost = [s \in Slots |-> 0]
    /\ faults = 0

PickUp == \E r \in pending : RejectRequest(r) \/ ReplayRecorded(r) \/ StartOperation(r)

Scope == RefuseScope \/ ConflictOrRefuse \/ EnterScope

Operation ==
    \/ ApplyProxy \/ ApplyAuth \/ RevealProxy
    \/ Connect \/ ConnectFails
    \/ Command \/ CommandUnheard \/ CommandRefused \/ Query

\* One step of the event loop.
LoopStep == PickUp \/ Scope \/ Operation \/ RecordReply \/ SendReply

Next ==
    \/ \E c \in Calls : Send(c)
    \/ LoopStep
    \/ StorageFails
    \/ Crash
    \/ \E cfg \in Configs : Start(cfg)

Spec == Init /\ [][Next]_vars

\* The event loop goes on as long as the process runs: a handler has no await,
\* and a call to Playerok ends within PLAYEROK_REQUESTS_TIMEOUT.
FairSpec == Spec /\ WF_vars(LoopStep)

----------------------------------------------------------------------------
(* Properties.                                                              *)

TypeOK ==
    /\ StorageTypeOK
    /\ up \in BOOLEAN
    /\ config \in Configs
    /\ sent \in [Calls -> 0..MaxAttempts]
    /\ pending \subseteq Requests
    /\ handler \in Handlers
    /\ handler.at # "idle" => handler.request \in Requests
    /\ answers \subseteq Answers
    /\ effects \in [Slots -> Nat]
    /\ lost \in [Slots -> Nat]
    /\ faults \in 0..MaxFaults

\* What the running request may rely on although it looked only once: past its
\* scope it acts for the bound account, with a configuration and a payload that
\* agree with the binding, and nobody has recorded a reply for its slot since.
\* It ends with its process.
HandlerConsistent ==
    /\ ~up => handler.at = "idle"
    /\ handler.at \in {"work", "call", "record", "reply"} =>
          /\ handler.account \in AccountIds /\ handler.account = runtime_binding
          /\ config.account \in {None, runtime_binding}
          /\ call.op \in AccountOps => handler.account = AccountText(call.account)
    /\ handler.at = "call" => handler.client \in Clients /\ UsesPlayerok(call)
    /\ handler.at \in {"record", "reply"} =>
          handler.payload \in Payloads /\ handler.payload.account = handler.account
    /\ handler.at = "record" => Idempotent(call)
    /\ handler.at # "idle" /\ Idempotent(call) =>
          /\ call.key # None
          /\ idempotency_records[Slot(call)] =
                IF handler.at = "reply"
                THEN [status_code |-> 200, payload |-> handler.payload] ELSE None

Mutating(s) == s.op \in MutatingOps

InHandler(s, points) == handler.at \in points /\ Idempotent(call) /\ Slot(call) = s

\* Every executed command of a key is accounted for: it is the one whose reply
\* is recorded, the one whose reply is about to be recorded, or it was lost to
\* a fault between its execution and the record.
EffectsAccounted ==
    \A s \in Slots : Mutating(s) =>
        effects[s] = lost[s] + (IF idempotency_records[s] # None THEN 1 ELSE 0)
                             + (IF InHandler(s, {"record"}) THEN 1 ELSE 0)

\* However often and however early a caller retries, a key is executed once,
\* and once more at most for each fault (a crash, a failed commit, an answer of
\* Playerok that did not arrive).
AtMostOncePlusFaults == \A s \in Slots : Mutating(s) => effects[s] <= 1 + faults

\* A key that has a recorded reply is settled: the reply is never replaced and
\* nothing is executed for it again, across crashes and restarts.
SettledStaysSettled ==
    [][\A s \in Slots : idempotency_records[s] # None =>
          /\ idempotency_records'[s] = idempotency_records[s]
          /\ effects'[s] = effects[s]]_vars

\* A caller is told a success only if it is durable, and all attempts of a call
\* are told the same one (requestId included).
AnswersAreRecorded ==
    \A x \in answers : Idempotent(x.request.call) =>
        LET s == Slot(x.request.call) IN
          idempotency_records[s] # None /\ idempotency_records[s].payload = x.payload

\* Credentials that an answered apply put in force and a later apply replaced do not
\* come back by a retry of the older one, however late.  (One that executed without
\* being recorded may: EffectsAccounted counts those.)
ReplacedStaysReplaced ==
    [][\A a \in AccountIds :
          marketplace_auth'[a] # marketplace_auth[a] =>
             \A x \in answers :
                 LET c == x.request.call IN
                   /\ c.op = "applyAuth" /\ x.payload.account = a
                   /\ c.value = marketplace_auth'[a].value
                   => Slot(c) # Slot(call)]_vars

\* Single tenant: secrets, recorded replies and answers all belong to the bound
\* account, whatever configurations the process was restarted with.
SingleTenant ==
    /\ \A a \in AccountIds :
          proxy_credentials[a] # None \/ marketplace_auth[a] # None => a = runtime_binding
    /\ \A s \in Slots : idempotency_records[s] # None =>
          idempotency_records[s].payload.account = runtime_binding
    /\ \A x \in answers : x.payload.account = runtime_binding

\* An action that names its account as a string is answered for that account
\* only, also when the answer is a replay.
AnsweredForNamedAccount ==
    \A x \in answers :
        LET c == x.request.call IN
          c.op \in AccountOps /\ c.account.form = "string" => x.payload.account = c.account.text

\* A command goes to Playerok with the credentials in force for the bound
\* account, under a configuration that agrees with the binding: nothing changed
\* them since the client was built.
CommandsUseCurrentCredentials ==
    handler.at = "call" =>
        /\ handler.account = runtime_binding
        /\ config.account \in {None, runtime_binding}
        /\ handler.client.proxy = ProxyFor(runtime_binding)
        /\ handler.client.auth \in
             IF marketplace_auth[runtime_binding] # None
             THEN {marketplace_auth[runtime_binding].value} ELSE {config.credentials}

\* Every accepted request leaves the worker: it is answered, or the process dies.
RequestsEnd ==
    \A r \in Requests : (r \in pending \/ handler.request = r)
                            ~> (r \notin pending /\ handler.request # r)

\* The abstract promise, under the mapping that reads the ledger off the tables.
Ledger ==
    INSTANCE ReplayLedger WITH
        Tenants <- AccountIds,
        Replies <- Entries,
        ledger  <- idempotency_records,
        tenant  <- runtime_binding,
        told    <- {<<Slot(x.request.call), [status_code |-> 200, payload |-> x.payload]>> :
                       x \in {y \in answers : Idempotent(y.request.call)}}

KeepsLedger == Ledger!Spec

----------------------------------------------------------------------------
(* Statements of the repository that the code does not keep.                *)

\* README.md: the binding is fixed by the first ext.account.*.apply or by the
\* environment, so no other operation binds.
BoundByApplyOrEnvironment ==
    [][runtime_binding' # runtime_binding =>
          config.account # None \/ call.op \in ApplyOps]_vars

\* main.py: an action on an account requires payload.accountId, so the worker
\* is never bound to an account that no payload and no environment names.
BoundToNamedAccount == runtime_binding \in Accounts \cup {None}

\* The tests' single-account lock: an action that names another account is
\* refused, so a success is for the account named, in whatever JSON form.
AnsweredForItsAccount ==
    \A x \in answers : x.request.call.op \in AccountOps =>
        x.payload.account = AccountText(x.request.call.account)

\* README.md, "Idempotency": a mutating request is executed once per key.
ExecutedOncePerKey == \A s \in Slots : Mutating(s) => effects[s] <= 1
=============================================================================
