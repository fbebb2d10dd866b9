-------------------------- MODULE WorkerApiProofs --------------------------
(***************************************************************************)
(* Proofs about WorkerApi for every set of calls, configurations, accounts *)
(* and every bound.                                                        *)
(*                                                                         *)
(* TypeOK and HandlerConsistent are inductive together (a handler's        *)
(* payload is typed only because it is set where the handler says it is).  *)
(* Everything else is proved from them.                                    *)
(***************************************************************************)
EXTENDS WorkerApi, TLAPS

----------------------------------------------------------------------------
(* The constant vocabulary.                                                 *)

\* A call has the fields its type says, and the account text is an identifier.
LEMMA CallFields ==
    ASSUME NEW c \in Calls
    PROVE  /\ c.op \in Ops /\ c.value \in Values /\ c.key \in Keys \cup {None}
           /\ c.valid \in BOOLEAN
           /\ AccountText(c.account) \in AccountIds \cup {None}
           /\ c.account.form = "string" => c.account.text \in Accounts
<1>1. c \in CallType
  BY InputAssumption
<1>2. c.account \in AccountFields
  BY <1>1 DEF CallType
<1>3. AccountText(c.account) \in AccountIds \cup {None}
  BY <1>2 DEF AccountFields, AccountText, AccountIds
<1> QED
  BY <1>1, <1>2, <1>3 DEF CallType, AccountFields

\* A configuration has the fields its type says.
LEMMA ConfigFields ==
    ASSUME NEW cfg \in Configs
    PROVE  /\ cfg.account \in Accounts \cup {None}
           /\ cfg.credentials \in Values \cup {None}
           /\ cfg.proxyKey \in SealingKeys /\ cfg.marketKey \in SealingKeys
  BY InputAssumption DEF ConfigType

\* A request is a call that was sent.
LEMMA RequestCall ==
    ASSUME NEW r \in Requests
    PROVE  r.call \in Calls /\ r # None
  BY AbsentAssumption DEF Requests

\* An idempotent call that passed the key check has a slot.
LEMMA SlotOfCall ==
    ASSUME NEW c \in Calls, Idempotent(c), c.key # None
    PROVE  Slot(c) \in Slots
  BY DEF Slots, Idempotent

\* What a request may bind is an account identifier.
LEMMA ClaimType ==
    ASSUME NEW c \in Calls, config \in Configs
    PROVE  Claim(c) \in AccountIds \cup {None}
  BY CallFields, ConfigFields DEF Claim, AccountIds

\* The binding is kept once it is set, and it stays an identifier.
LEMMA BindingType ==
    ASSUME NEW c \in Calls, config \in Configs, runtime_binding \in AccountIds \cup {None}
    PROVE  BindingAfter(Claim(c)) \in AccountIds \cup {None}
  BY ClaimType DEF BindingAfter

\* A request that is refused for no conflict acts for the account it is bound to.
LEMMA NoConflict ==
    ASSUME NEW c \in Calls, NEW b \in AccountIds \cup {None}, ~ScopeConflict(c, b)
    PROVE  /\ b \in AccountIds
           /\ config.account \in {None, b}
           /\ c.op \in AccountOps => b = AccountText(c.account)
  BY DEF ScopeConflict

\* The credentials a client is built from are credentials.
LEMMA ClientType ==
    ASSUME TypeOK, NEW a \in AccountIds, CredentialsResolve(a)
    PROVE  [auth |-> AuthFor(a), proxy |-> ProxyFor(a)] \in Clients
<1>1. /\ marketplace_auth[a] \in Rows \cup {None}
      /\ proxy_credentials[a] \in Rows \cup {None}
  BY DEF TypeOK, StorageTypeOK
<1>2. AuthFor(a) \in Values
  BY <1>1, ConfigFields DEF AuthFor, CredentialsResolve, TypeOK, Rows
<1>3. ProxyFor(a) \in Values \cup {None}
  BY <1>1 DEF ProxyFor, Rows
<1> QED
  BY <1>2, <1>3 DEF Clients

----------------------------------------------------------------------------
(* What the running request is, from the invariant.                         *)

Inv == TypeOK /\ HandlerConsistent

\* The running request is a request, and so is its call.
LEMMA RunningCall ==
    ASSUME Inv, handler.at # "idle"
    PROVE  handler.request \in Requests /\ call \in Calls
  BY RequestCall DEF Inv, TypeOK, call

\* An idempotent request in execution has a slot, which is empty until the reply
\* is recorded.
LEMMA RunningSlot ==
    ASSUME Inv, handler.at # "idle", Idempotent(call)
    PROVE  /\ Slot(call) \in Slots
           /\ handler.at # "reply" => idempotency_records[Slot(call)] = None
<1>1. call.key # None
  BY DEF Inv, HandlerConsistent
<1>2. Slot(call) \in Slots
  BY <1>1, RunningCall, SlotOfCall
<1>3. handler.at # "reply" => idempotency_records[Slot(call)] = None
  BY DEF Inv, HandlerConsistent
<1> QED
  BY <1>2, <1>3

\* A command has executed in place of the running request: its result is typed.
LEMMA ResultType ==
    ASSUME Inv, handler.at \in {"work", "call"}, NEW v \in Values \cup {None}
    PROVE  Result(v) \in Payloads /\ Result(v).account = handler.account
  BY RunningCall DEF Result, Payloads, Inv, HandlerConsistent

\* Counting keeps the type of a history counter.
LEMMA CountType ==
    ASSUME Slot(call) \in Slots, NEW f \in [Slots -> Nat]
    PROVE  Count(f) \in [Slots -> Nat]
  BY DEF Count

\* An idle handler has nothing to be inconsistent with: a step that ends the
\* request keeps the invariant if it keeps the types of the rest.
LEMMA IdleKeeps ==
    ASSUME handler' = Idle, StorageTypeOK', up' \in BOOLEAN, config' \in Configs,
           sent' \in [Calls -> 0..MaxAttempts], pending' \subseteq Requests,
           answers' \subseteq Answers, effects' \in [Slots -> Nat],
           lost' \in [Slots -> Nat], faults' \in 0..MaxFaults
    PROVE  Inv'
<1>1. Idle \in Handlers
  BY DEF Idle, Handlers, Points
<1> QED
  BY <1>1 DEF Inv, TypeOK, HandlerConsistent, Idle

----------------------------------------------------------------------------
(* The steps, one lemma for each part of the event loop.                    *)

\* Taking a request from the queue.
LEMMA PickUpKeeps ==
    ASSUME Inv, NEW r \in pending, RejectRequest(r) \/ ReplayRecorded(r) \/ StartOperation(r)
    PROVE  Inv'
<1>1. r \in Requests /\ r.call \in Calls
  BY RequestCall DEF Inv, TypeOK
<1>2. /\ UNCHANGED <<storageVars, up, config, sent, effects, lost, faults>>
      /\ pending' \subseteq Requests
      /\ handler = Idle /\ up
  BY DEF RejectRequest, ReplayRecorded, StartOperation, Dequeue, Inv, TypeOK
<1>3. CASE RejectRequest(r)
  BY <1>2, <1>3 DEF RejectRequest, Inv, TypeOK, StorageTypeOK, HandlerConsistent,
     Idle, storageVars
<1>4. CASE ReplayRecorded(r)
  <2>1. Slot(r.call) \in Slots
    BY <1>1, <1>4, SlotOfCall DEF ReplayRecorded, RejectedEarly
  <2>2. idempotency_records[Slot(r.call)].payload \in Payloads
    BY <1>4, <2>1 DEF ReplayRecorded, Inv, TypeOK, StorageTypeOK, Entries, read_idempotency
  <2>3. answers' \subseteq Answers
    BY <1>1, <1>4, <2>2 DEF ReplayRecorded, Succeed, Answers, read_idempotency, Inv, TypeOK
  <2> QED
    BY <1>2, <1>4, <2>3 DEF ReplayRecorded, Inv, TypeOK, StorageTypeOK,
       HandlerConsistent, Idle, storageVars
<1>5. CASE StartOperation(r)
  <2>1. handler' \in Handlers /\ handler'.at = "scope" /\ handler'.request = r
    BY <1>1, <1>5 DEF StartOperation, Begin, Idle, Handlers, Points
  <2>2. TypeOK'
    BY <1>1, <1>2, <1>5, <2>1 DEF StartOperation, Inv, TypeOK, StorageTypeOK, storageVars
  <2>3. Idempotent(r.call) => r.call.key # None /\ idempotency_records[Slot(r.call)] = None
    BY <1>5 DEF StartOperation, RejectedEarly, read_idempotency
  <2>4. HandlerConsistent'
    BY <1>2, <2>1, <2>3 DEF HandlerConsistent, call, storageVars, Idempotent
  <2> QED
    BY <2>2, <2>4 DEF Inv
<1> QED
  BY <1>3, <1>4, <1>5

\* The steps that settle the scope of a request.
LEMMA ScopeKeeps ==
    ASSUME Inv, Scope
    PROVE  Inv'
<1>1. call \in Calls /\ handler.at = "scope"
  BY RunningCall DEF Scope, RefuseScope, ConflictOrRefuse, EnterScope, HandlerStep
<1>2. BindingAfter(Claim(call)) \in AccountIds \cup {None}
  BY <1>1, BindingType DEF Inv, TypeOK, StorageTypeOK
<1>3. CASE RefuseScope
  BY <1>3, IdleKeeps DEF RefuseScope, HandlerStep, Fail, NoFault, Inv, TypeOK,
     StorageTypeOK, storageVars
<1>4. CASE ConflictOrRefuse
  <2>1. StorageTypeOK'
    BY <1>2, <1>4 DEF ConflictOrRefuse, bind_account_if_unset, Inv, TypeOK, StorageTypeOK
  <2> QED
    BY <1>4, <2>1, IdleKeeps DEF ConflictOrRefuse, HandlerStep, Fail, NoFault, Inv, TypeOK
<1>5. CASE EnterScope
  <2> DEFINE b == BindingAfter(Claim(call))
  <2>1. /\ b \in AccountIds /\ config.account \in {None, b}
        /\ call.op \in AccountOps => b = AccountText(call.account)
    BY <1>1, <1>2, <1>5, NoConflict DEF EnterScope
  <2> HIDE DEF b
  <2>2. /\ handler' = [handler EXCEPT !.at = "work", !.account = b]
        /\ runtime_binding' = b
        /\ UNCHANGED <<idempotency_records, proxy_credentials, marketplace_auth,
                       answers, effects, up, config, sent, pending, lost, faults>>
    BY <1>5 DEF EnterScope, bind_account_if_unset, HandlerStep, NoFault, b
  <2>3. handler' \in Handlers /\ handler'.at = "work" /\ handler'.request = handler.request
        /\ handler'.account = b
    BY <2>1, <2>2 DEF Handlers, Points, Inv, TypeOK
  <2>4. TypeOK'
    BY <1>1, <2>1, <2>2, <2>3 DEF Inv, TypeOK, StorageTypeOK
  <2>5. HandlerConsistent'
    BY <1>1, <2>1, <2>2, <2>3 DEF HandlerConsistent, Inv, call, Idempotent
  <2> QED
    BY <2>4, <2>5 DEF Inv
<1> QED
  BY <1>3, <1>4, <1>5 DEF Scope

\* A command or query that has executed: its result is next to be recorded, or to
\* be sent when it is a read.
LEMMA ExecutedKeeps ==
    ASSUME Inv, handler.at \in {"work", "call"}, NEW v \in Values \cup {None},
           NEW point \in {"record", "reply"},
           point = IF Idempotent(call) THEN "record" ELSE "reply",
           handler' = [handler EXCEPT !.at = point, !.payload = Result(v)],
           StorageTypeOK', UNCHANGED <<idempotency_records, runtime_binding, up, config,
                                       sent, pending, answers, lost, faults>>,
           effects' \in [Slots -> Nat]
    PROVE  Inv'
<1>1. Result(v) \in Payloads /\ Result(v).account = handler.account
  BY ResultType
<1>2. /\ handler' \in Handlers /\ handler'.at = point /\ handler'.request = handler.request
      /\ handler'.account = handler.account /\ handler'.payload = Result(v)
  BY <1>1 DEF Handlers, Points, Inv, TypeOK
<1>3. TypeOK'
  BY <1>2 DEF Inv, TypeOK
<1>4. HandlerConsistent'
  BY <1>1, <1>2 DEF HandlerConsistent, Inv, call, Idempotent
<1> QED
  BY <1>3, <1>4 DEF Inv

\* The operations that write or read the secret tables.
LEMMA SecretsKeep ==
    ASSUME Inv, ApplyProxy \/ ApplyAuth \/ RevealProxy
    PROVE  Inv'
<1>1. /\ call \in Calls /\ handler.at = "work" /\ Idempotent(call)
      /\ handler.account \in AccountIds
  BY RunningCall DEF ApplyProxy, ApplyAuth, RevealProxy, HandlerStep, Idempotent,
     IdempotentOps, ActionOps, AccountOps, Inv, HandlerConsistent
<1>2. call.value \in Values /\ config.proxyKey \in SealingKeys /\ config.marketKey \in SealingKeys
  BY <1>1, CallFields, ConfigFields DEF Inv, TypeOK
<1>3. Count(effects) \in [Slots -> Nat]
  BY <1>1, RunningSlot, CountType DEF Inv, TypeOK
<1>4. CASE ApplyProxy
  <2>1. StorageTypeOK'
    BY <1>1, <1>2, <1>4 DEF ApplyProxy, upsert_proxy_credentials, Rows, Inv, TypeOK,
       StorageTypeOK
  <2> QED
    BY <1>1, <1>3, <1>4, <2>1, ExecutedKeeps DEF ApplyProxy, HandlerStep, Executed, NoFault
<1>5. CASE ApplyAuth
  <2>1. StorageTypeOK'
    BY <1>1, <1>2, <1>5 DEF ApplyAuth, upsert_marketplace_auth, Rows, Inv, TypeOK,
       StorageTypeOK
  <2> QED
    BY <1>1, <1>3, <1>5, <2>1, ExecutedKeeps DEF ApplyAuth, HandlerStep, Executed, NoFault
<1>6. CASE RevealProxy
  <2> DEFINE row == proxy_credentials[handler.account]
  <2>1. StorageTypeOK' /\ effects' \in [Slots -> Nat]
    BY <1>6 DEF RevealProxy, storageVars, Inv, TypeOK, StorageTypeOK
  <2>2. CASE row = None \/ ~Opens(row, config.proxyKey)
    BY <1>6, <2>1, <2>2, IdleKeeps DEF RevealProxy, Fail, HandlerStep, NoFault, Inv, TypeOK
  <2>3. CASE ~(row = None \/ ~Opens(row, config.proxyKey))
    <3>1. row.value \in Values
      BY <1>1, <2>3 DEF Inv, TypeOK, StorageTypeOK, Rows
    <3> QED
      BY <1>1, <1>6, <2>1, <2>3, <3>1, ExecutedKeeps
      DEF RevealProxy, Executed, HandlerStep, NoFault, storageVars
  <2> QED
    BY <2>2, <2>3
<1> QED
  BY <1>4, <1>5, <1>6

\* The operations that reach Playerok.
LEMMA PlatformKeeps ==
    ASSUME Inv, Connect \/ ConnectFails \/ Command \/ CommandUnheard \/ CommandRefused \/ Query
    PROVE  Inv'
<1>1. call \in Calls /\ handler.at \in {"work", "call"}
  BY RunningCall DEF Connect, ConnectFails, Command, CommandUnheard, CommandRefused,
     Query, HandlerStep
<1>2. StorageTypeOK' /\ UNCHANGED <<storageVars, up, config, sent, pending>>
  BY DEF Connect, ConnectFails, Command, CommandUnheard, CommandRefused, Query,
     HandlerStep, storageVars, Inv, TypeOK, StorageTypeOK
<1>3. call.op \in PlatformOps => Idempotent(call) /\ Count(effects) \in [Slots -> Nat]
                                 /\ Count(lost) \in [Slots -> Nat]
  BY <1>1, RunningSlot, CountType DEF Idempotent, IdempotentOps, Inv, TypeOK
<1>4. CASE Connect
  <2> DEFINE a == handler.account
             client == [auth |-> AuthFor(a), proxy |-> ProxyFor(a)]
  <2>1. handler.at = "work" /\ a \in AccountIds
    BY <1>4 DEF Connect, HandlerStep, Inv, HandlerConsistent
  <2>2. client \in Clients
    BY <1>4, <2>1, ClientType DEF Connect, Inv
  <2> HIDE DEF client
  <2>3. handler' = [handler EXCEPT !.at = "call", !.client = client]
    BY <1>4 DEF Connect, client
  <2>4. /\ handler' \in Handlers /\ handler'.at = "call" /\ handler'.client = client
        /\ handler'.request = handler.request /\ handler'.account = handler.account
    BY <2>2, <2>3 DEF Handlers, Points, Inv, TypeOK
  <2>5. TypeOK'
    BY <1>1, <1>2, <1>4, <2>1, <2>4 DEF Connect, NoFault, Inv, TypeOK
  <2>6. HandlerConsistent'
    BY <1>2, <1>4, <2>1, <2>2, <2>4 DEF Connect, HandlerConsistent, Inv, call, Idempotent,
       UsesPlayerok, storageVars
  <2> QED
    BY <2>5, <2>6 DEF Inv
<1>5. CASE ConnectFails \/ CommandRefused
  BY <1>2, <1>5, IdleKeeps DEF ConnectFails, CommandRefused, Fail, NoFault, Inv, TypeOK
<1>6. CASE Command
  BY <1>1, <1>2, <1>3, <1>6, ExecutedKeeps DEF Command, Executed, NoFault, storageVars
<1>7. CASE CommandUnheard
  <2>1. faults' \in 0..MaxFaults
    BY <1>7, BoundsAssumption DEF CommandUnheard, Inv, TypeOK
  <2> QED
    BY <1>2, <1>3, <1>7, <2>1, IdleKeeps DEF CommandUnheard, Fail, Inv, TypeOK
<1>8. CASE Query
  <2>1. effects' \in [Slots -> Nat]
    BY <1>8 DEF Query, Inv, TypeOK
  <2> QED
    BY <1>1, <1>2, <1>8, <2>1, ExecutedKeeps DEF Query, NoFault, storageVars
<1> QED
  BY <1>4, <1>5, <1>6, <1>7, <1>8

\* The end of _idempotent.
LEMMA ReplyKeeps ==
    ASSUME Inv, RecordReply \/ SendReply
    PROVE  Inv'
<1>1. call \in Calls /\ handler.request \in Requests /\ handler.payload \in Payloads
  BY RunningCall DEF RecordReply, SendReply, HandlerStep, Inv, HandlerConsistent
<1>2. CASE RecordReply
  <2>1. handler.at = "record" /\ Slot(call) \in Slots
    BY <1>2, RunningSlot DEF RecordReply, HandlerStep, Inv, HandlerConsistent
  <2>2. [status_code |-> 200, payload |-> handler.payload] \in Entries
    BY <1>1 DEF Entries
  <2>3. /\ idempotency_records' =
             [idempotency_records EXCEPT
                 ![Slot(call)] = [status_code |-> 200, payload |-> handler.payload]]
        /\ handler' = [handler EXCEPT !.at = "reply"]
        /\ UNCHANGED <<runtime_binding, proxy_credentials, marketplace_auth, up, config,
                       sent, pending, answers, effects, lost, faults>>
    BY <1>2 DEF RecordReply, HandlerStep, NoFault, write_idempotency
  <2>4. /\ handler' \in Handlers /\ handler'.at = "reply"
        /\ handler'.request = handler.request /\ handler'.account = handler.account
        /\ handler'.payload = handler.payload
    BY <2>3 DEF Handlers, Points, Inv, TypeOK
  <2>5. TypeOK'
    BY <1>1, <2>1, <2>2, <2>3, <2>4 DEF Inv, TypeOK, StorageTypeOK
  <2>6. idempotency_records'[Slot(call)] = [status_code |-> 200, payload |-> handler.payload]
    BY <2>1, <2>3 DEF Inv, TypeOK, StorageTypeOK
  <2>7. HandlerConsistent'
    BY <1>1, <2>1, <2>3, <2>4, <2>6 DEF HandlerConsistent, Inv, call, Idempotent
  <2> QED
    BY <2>5, <2>7 DEF Inv
<1>3. CASE SendReply
  <2>1. answers' \subseteq Answers
    BY <1>1, <1>3 DEF SendReply, Succeed, Answers, Inv, TypeOK
  <2> QED
    BY <1>3, <2>1, IdleKeeps DEF SendReply, HandlerStep, NoFault, storageVars, Inv, TypeOK,
       StorageTypeOK
<1> QED
  BY <1>2, <1>3

\* The faults.
LEMMA FaultKeeps ==
    ASSUME Inv, StorageFails \/ Crash
    PROVE  Inv'
<1>1. lost' \in [Slots -> Nat]
  <2>1. CASE handler.at = "record" /\ call.op \in MutatingOps
    BY <2>1, RunningSlot, CountType DEF StorageFails, Crash, LoseExecuted, Inv, TypeOK,
       HandlerConsistent
  <2>2. CASE ~(handler.at = "record" /\ call.op \in MutatingOps)
    BY <2>2 DEF StorageFails, Crash, LoseExecuted, Inv, TypeOK
  <2> QED
    BY <2>1, <2>2
<1>2. faults' \in 0..MaxFaults
  BY BoundsAssumption DEF StorageFails, Crash, Inv, TypeOK
<1>3. StorageTypeOK'
  BY DEF StorageFails, Crash, storageVars, Inv, TypeOK, StorageTypeOK
<1> QED
  BY <1>1, <1>2, <1>3, IdleKeeps DEF StorageFails, Crash, Fail, Inv, TypeOK

\* The caller sends, or the process starts.
LEMMA OutsideKeeps ==
    ASSUME Inv, (\E c \in Calls : Send(c)) \/ (\E cfg \in Configs : Start(cfg))
    PROVE  Inv'
<1>1. CASE \E c \in Calls : Send(c)
  <2>1. PICK c \in Calls : Send(c)
    BY <1>1
  <2>2. sent[c] \in 0..MaxAttempts /\ sent[c] < MaxAttempts
    BY <2>1 DEF Send, Inv, TypeOK
  <2>3. sent[c] + 1 \in 1..MaxAttempts
    BY <2>2, BoundsAssumption
  <2>4. sent' \in [Calls -> 0..MaxAttempts]
    BY <2>1, <2>3 DEF Send, Inv, TypeOK
  <2>5. pending' \subseteq Requests
    BY <2>1, <2>3 DEF Send, Requests, Inv, TypeOK
  <2> QED
    BY <2>1, <2>4, <2>5 DEF Send, Inv, TypeOK, StorageTypeOK, HandlerConsistent, storageVars,
       call, Idempotent
<1>2. CASE \E cfg \in Configs : Start(cfg)
  <2>1. PICK cfg \in Configs : Start(cfg)
    BY <1>2
  <2> QED
    BY <2>1 DEF Start, Inv, TypeOK, StorageTypeOK, HandlerConsistent, storageVars, call, Idempotent
<1> QED
  BY <1>1, <1>2

\* Every step keeps the invariant.
LEMMA StepKeeps ==
    ASSUME Inv, [Next]_vars
    PROVE  Inv'
<1>1. CASE Next
  <2>1. CASE (\E c \in Calls : Send(c)) \/ (\E cfg \in Configs : Start(cfg))
    BY <2>1, OutsideKeeps
  <2>2. CASE PickUp
    BY <2>2, PickUpKeeps DEF PickUp
  <2>3. CASE Scope
    BY <2>3, ScopeKeeps
  <2>4. CASE Operation
    BY <2>4, SecretsKeep, PlatformKeeps DEF Operation
  <2>5. CASE RecordReply \/ SendReply
    BY <2>5, ReplyKeeps
  <2>6. CASE StorageFails \/ Crash
    BY <2>6, FaultKeeps
  <2> QED
    BY <1>1, <2>1, <2>2, <2>3, <2>4, <2>5, <2>6 DEF Next, LoopStep
<1>2. CASE UNCHANGED vars
  BY <1>2 DEF vars, storageVars, Inv, TypeOK, StorageTypeOK, HandlerConsistent, call, Idempotent
<1> QED
  BY <1>1, <1>2

\* The initial state satisfies the invariant.
LEMMA InitHolds == Init => Inv
<1>1. Idle \in Handlers
  BY DEF Idle, Handlers, Points
<1>2. ASSUME Init PROVE StorageTypeOK
  BY <1>2 DEF Init, StorageInit, StorageTypeOK
<1>3. ASSUME Init PROVE sent \in [Calls -> 0..MaxAttempts] /\ faults \in 0..MaxFaults
  BY <1>3, BoundsAssumption DEF Init
<1>4. ASSUME Init PROVE effects \in [Slots -> Nat] /\ lost \in [Slots -> Nat]
  BY <1>4 DEF Init
<1>5. Idle.at = "idle"
  BY DEF Idle
<1>6. ASSUME Init PROVE TypeOK
  BY <1>1, <1>2, <1>3, <1>4, <1>5, <1>6 DEF Init, TypeOK
<1>7. ASSUME Init PROVE HandlerConsistent
  BY <1>5, <1>7 DEF Init, HandlerConsistent
<1> QED
  BY <1>6, <1>7 DEF Inv

\* The types of all variables, in every reachable state: TypeOK.
THEOREM TypesHold == Spec => []TypeOK
<1>1. Inv => TypeOK
  BY DEF Inv
<1> QED
  BY <1>1, InitHolds, StepKeeps, PTL DEF Spec

\* What the running request decided on stays true until it ends, whatever crashes,
\* restarts and other requests do: HandlerConsistent.
THEOREM HandlerStaysConsistent == Spec => []HandlerConsistent
<1>1. Inv => HandlerConsistent
  BY DEF Inv
<1> QED
  BY <1>1, InitHolds, StepKeeps, PTL DEF Spec
=============================================================================
