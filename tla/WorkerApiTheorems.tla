------------------------- MODULE WorkerApiTheorems -------------------------
(***************************************************************************)
(* The safety properties of WorkerApi, and that it keeps ReplayLedger, for *)
(* every instance.  Each invariant is shown inductive relative to Inv,     *)
(* which WorkerApiProofs proves.                                           *)
(***************************************************************************)
EXTENDS WorkerApiProofs

----------------------------------------------------------------------------
(* Slots.                                                                   *)

\* A slot has the operation of its call, and the account of an account action
\* that names it as a string.
LEMMA SlotFields ==
    ASSUME NEW c \in Calls
    PROVE  /\ Slot(c).op = c.op
           /\ c.op \in AccountOps /\ c.account.form = "string" =>
                 Slot(c).target = c.account.text /\ c.account.text # None
           /\ c.op \in AccountOps /\ Slot(c).target # None =>
                 AccountText(c.account) = Slot(c).target
<1>1. c.account \in AccountFields
  BY InputAssumption DEF CallType
<1> QED
  BY <1>1, AbsentAssumption DEF Slot, ScopeSuffix, AccountText, AccountFields, ActionOps, AccountIds

----------------------------------------------------------------------------
(* What a step does to the records, the counters and the running request.   *)

\* The steps that execute a command, and thereby count it.
Executes == ApplyProxy \/ ApplyAuth \/ Command \/ CommandUnheard

\* A command is executed for the running request, whose slot is empty; it is next
\* to be recorded, or it is lost to a fault.
LEMMA WhatExecutes ==
    ASSUME Inv, Executes
    PROVE  /\ call \in Calls /\ call.op \in MutatingOps /\ handler.at \in {"work", "call"}
           /\ Slot(call) \in Slots /\ idempotency_records[Slot(call)] = None
           /\ UNCHANGED idempotency_records
           /\ effects' = Count(effects)
           /\ \/ /\ handler'.at = "record" /\ handler'.request = handler.request
                 /\ UNCHANGED <<lost, faults>>
              \/ handler' = Idle /\ lost' = Count(lost) /\ faults' = faults + 1
<1>1. ApplyProxy \/ ApplyAuth \/ Command \/ CommandUnheard
  BY DEF Executes
<1>2. /\ call.op \in MutatingOps /\ handler.at \in {"work", "call"} /\ Idempotent(call)
      /\ UNCHANGED idempotency_records /\ effects' = Count(effects)
  BY <1>1 DEF ApplyProxy, ApplyAuth, Command, CommandUnheard, HandlerStep, MutatingOps,
     ApplyOps, AccountOps, ActionOps, IdempotentOps, Idempotent, storageVars
<1>3. /\ call \in Calls /\ Slot(call) \in Slots /\ idempotency_records[Slot(call)] = None
  BY <1>2, RunningCall, RunningSlot
<1>4. handler \in Handlers
  BY DEF Inv, TypeOK
<1>5. \/ /\ handler'.at = "record" /\ handler'.request = handler.request
         /\ UNCHANGED <<lost, faults>>
      \/ handler' = Idle /\ lost' = Count(lost) /\ faults' = faults + 1
  BY <1>1, <1>4 DEF ApplyProxy, ApplyAuth, Command, CommandUnheard, Executed, NoFault,
     Fail, Handlers
<1> QED
  BY <1>2, <1>3, <1>5

\* Only RecordReply writes a record, and it writes the running request's own.
LEMMA WhatRecords ==
    ASSUME Inv, [Next]_vars, idempotency_records' # idempotency_records
    PROVE  RecordReply
  BY DEF Next, vars, Send, LoopStep, PickUp, RejectRequest, ReplayRecorded, StartOperation,
     Dequeue, Scope, RefuseScope, ConflictOrRefuse, EnterScope, Operation, ApplyProxy,
     ApplyAuth, RevealProxy, Connect, ConnectFails, Command, CommandUnheard, CommandRefused,
     Query, SendReply, StorageFails, Crash, Start, storageVars

\* Every other step leaves the counters alone, except that a fault may lose a command.
LEMMA NothingExecutes ==
    ASSUME [Next]_vars, ~Executes
    PROVE  /\ UNCHANGED effects
           /\ StorageFails \/ Crash \/ UNCHANGED <<lost, faults>>
  BY DEF Next, vars, Send, LoopStep, PickUp, RejectRequest, ReplayRecorded, StartOperation,
     Dequeue, Scope, RefuseScope, ConflictOrRefuse, EnterScope, Operation, RevealProxy,
     Connect, ConnectFails, CommandRefused, Query, RecordReply, SendReply, StorageFails,
     Crash, Start, NoFault, Executes

\* Every step that neither executes nor records nor fails stays clear of "record",
\* but for the two operations whose reply is recorded without an execution.
LEMMA OtherSteps ==
    ASSUME Inv, [Next]_vars, ~Executes, ~RecordReply, ~StorageFails, ~Crash,
           ~RevealProxy, ~Query
    PROVE  UNCHANGED handler \/ (handler.at # "record" /\ handler'.at # "record")
<1>1. CASE UNCHANGED handler
  BY <1>1
<1>2. CASE PickUp
  <2>1. PICK r \in pending : RejectRequest(r) \/ ReplayRecorded(r) \/ StartOperation(r)
    BY <1>2 DEF PickUp
  <2>2. handler = Idle /\ (handler' = handler \/ handler' = [Idle EXCEPT !.at = "scope", !.request = r])
    BY <2>1 DEF RejectRequest, ReplayRecorded, StartOperation, Dequeue, Begin
  <2> QED
    BY <2>2 DEF Idle
<1>3. CASE Scope \/ Connect
  <2>1. handler.at \in {"scope", "work"}
    BY <1>3 DEF Scope, RefuseScope, ConflictOrRefuse, EnterScope, Connect, HandlerStep
  <2>2. handler \in Handlers
    BY DEF Inv, TypeOK
  <2>3. CASE RefuseScope \/ ConflictOrRefuse
    BY <2>1, <2>3 DEF RefuseScope, ConflictOrRefuse, Fail, Idle
  <2>4. CASE EnterScope
    BY <2>1, <2>2, <2>4 DEF EnterScope, Handlers
  <2>5. CASE Connect
    BY <2>1, <2>2, <2>5 DEF Connect, Handlers
  <2> QED
    BY <1>3, <2>3, <2>4, <2>5 DEF Scope
<1>4. CASE ConnectFails \/ CommandRefused \/ SendReply
  BY <1>4 DEF ConnectFails, CommandRefused, SendReply, HandlerStep, Fail, Idle
<1> QED
  BY <1>1, <1>2, <1>3, <1>4 DEF Next, vars, Send, LoopStep, Operation, Start, Executes

\* RecordReply fills the empty slot of the running request with its payload.
LEMMA RecordFills ==
    ASSUME Inv, RecordReply
    PROVE  /\ call \in Calls /\ Idempotent(call) /\ Slot(call) \in Slots
           /\ handler.at = "record" /\ handler'.at = "reply"
           /\ idempotency_records[Slot(call)] = None
           /\ idempotency_records' =
                [idempotency_records EXCEPT
                    ![Slot(call)] = [status_code |-> 200, payload |-> handler.payload]]
           /\ [status_code |-> 200, payload |-> handler.payload] \in Entries
           /\ handler.payload.account = runtime_binding
           /\ runtime_binding \in AccountIds
           /\ UNCHANGED <<runtime_binding, proxy_credentials, marketplace_auth,
                          answers, effects, lost, faults>>
<1>1. handler.at = "record" /\ Idempotent(call)
  BY DEF RecordReply, HandlerStep, Inv, HandlerConsistent
<1>2. /\ call \in Calls /\ Slot(call) \in Slots /\ idempotency_records[Slot(call)] = None
  BY <1>1, RunningCall, RunningSlot
<1>3. /\ handler.payload \in Payloads /\ handler.payload.account = runtime_binding
      /\ runtime_binding \in AccountIds
  BY <1>1 DEF Inv, HandlerConsistent
<1>4. handler'.at = "reply"
  BY DEF RecordReply, Inv, TypeOK, Handlers
<1> QED
  BY <1>1, <1>2, <1>3, <1>4 DEF RecordReply, write_idempotency, NoFault, Entries

----------------------------------------------------------------------------
(* Executions.                                                              *)

\* Every execution is accounted for, and every lost one cost a fault.
Accounted == EffectsAccounted /\ \A s \in Slots : lost[s] <= faults

\* Initially nothing has executed.
LEMMA AccountedInit == Init => Accounted
  BY DEF Init, StorageInit, Accounted, EffectsAccounted, InHandler, Idle

\* A step that executes or records nothing leaves the accounts as they are, unless
\* it loses an executed command.
LEMMA AccountedStep ==
    ASSUME Inv, Accounted, [Next]_vars
    PROVE  Accounted'
<1> SUFFICES ASSUME NEW s \in Slots
             PROVE  /\ Mutating(s) =>
                          effects'[s] = lost'[s]
                             + (IF idempotency_records'[s] # None THEN 1 ELSE 0)
                             + (IF InHandler(s, {"record"})' THEN 1 ELSE 0)
                    /\ lost'[s] <= faults'
  BY DEF Accounted, EffectsAccounted, Mutating
<1>1. /\ Mutating(s) =>
            effects[s] = lost[s] + (IF idempotency_records[s] # None THEN 1 ELSE 0)
                                 + (IF InHandler(s, {"record"}) THEN 1 ELSE 0)
      /\ effects[s] \in Nat /\ lost[s] \in Nat /\ lost[s] <= faults /\ faults \in Nat
      /\ effects \in [Slots -> Nat] /\ lost \in [Slots -> Nat]
      /\ idempotency_records \in [Slots -> Entries \cup {None}]
  BY DEF Accounted, EffectsAccounted, Inv, TypeOK, StorageTypeOK
<1>2. CASE Executes
  <2>1. /\ call \in Calls /\ call.op \in MutatingOps /\ handler.at \in {"work", "call"}
        /\ Slot(call) \in Slots /\ idempotency_records[Slot(call)] = None
        /\ UNCHANGED idempotency_records
        /\ effects' = [effects EXCEPT ![Slot(call)] = @ + 1]
    BY <1>2, WhatExecutes DEF Count
  <2>2. ~InHandler(s, {"record"})
    BY <2>1 DEF InHandler
  <2>3. CASE /\ handler'.at = "record" /\ handler'.request = handler.request
             /\ UNCHANGED <<lost, faults>>
    <3>1. InHandler(s, {"record"})' <=> Slot(call) = s
      BY <2>1, <2>3 DEF InHandler, call, Idempotent, MutatingOps, IdempotentOps, ActionOps,
         AccountOps, ApplyOps
    <3> QED
      BY <1>1, <2>1, <2>2, <2>3, <3>1
  <2>4. CASE handler' = Idle /\ lost' = Count(lost) /\ faults' = faults + 1
    <3>1. ~InHandler(s, {"record"})'
      BY <2>4 DEF InHandler, Idle
    <3> QED
      BY <1>1, <2>1, <2>2, <2>4, <3>1 DEF Count
  <2> QED
    BY <1>2, <2>3, <2>4, WhatExecutes
<1>3. CASE RecordReply
  <2>1. ~InHandler(s, {"record"})'
    BY <1>3, RecordFills DEF InHandler
  <2>2. InHandler(s, {"record"}) <=> Slot(call) = s
    BY <1>3, RecordFills DEF InHandler
  <2>3. [status_code |-> 200, payload |-> handler.payload] # None
    BY <1>3, RecordFills, AbsentAssumption
  <2> QED
    BY <1>1, <1>3, <2>1, <2>2, <2>3, RecordFills
<1>4. CASE StorageFails \/ Crash
  <2>1. /\ handler' = Idle /\ faults' = faults + 1
        /\ UNCHANGED <<idempotency_records, effects>>
        /\ lost' = IF handler.at = "record" /\ call.op \in MutatingOps
                   THEN Count(lost) ELSE lost
    BY <1>4 DEF StorageFails, Crash, Fail, LoseExecuted, storageVars
  <2>2. ~InHandler(s, {"record"})'
    BY <2>1 DEF InHandler, Idle
  <2>3. CASE handler.at = "record" /\ call.op \in MutatingOps
    <3>1. Idempotent(call) /\ Slot(call) \in Slots
      BY <2>3, RunningSlot DEF Inv, HandlerConsistent
    <3>2. InHandler(s, {"record"}) <=> Slot(call) = s
      BY <2>3, <3>1 DEF InHandler
    <3> QED
      BY <1>1, <2>1, <2>2, <2>3, <3>1, <3>2 DEF Count
  <2>4. CASE ~(handler.at = "record" /\ call.op \in MutatingOps)
    <3>1. Mutating(s) => ~InHandler(s, {"record"})
      BY <2>4, RunningCall, SlotFields DEF InHandler, Mutating
    <3> QED
      BY <1>1, <2>1, <2>2, <2>4, <3>1
  <2> QED
    BY <2>3, <2>4
<1>5. CASE ~Executes /\ ~RecordReply /\ ~(StorageFails \/ Crash)
  <2>1. UNCHANGED <<idempotency_records, effects, lost, faults>>
    BY <1>5, WhatRecords, NothingExecutes
  <2>2. DOMAIN handler = {"at", "request", "account", "client", "payload"}
    BY DEF Inv, TypeOK, Handlers
  <2>3. Mutating(s) => (InHandler(s, {"record"})' <=> InHandler(s, {"record"}))
    <3>1. CASE UNCHANGED handler
      BY <3>1 DEF InHandler, call
    <3>2. CASE handler.at # "record" /\ handler'.at # "record"
      BY <3>2 DEF InHandler
    <3>3. CASE RevealProxy \/ Query
      <4>1. /\ handler.at # "record" /\ handler.at # "idle" /\ call.op \notin MutatingOps
        BY <3>3 DEF RevealProxy, Query, HandlerStep, MutatingOps, PlatformOps, ApplyOps
      <4>2. handler'.request = handler.request \/ handler'.at = "idle"
        <5>1. CASE RevealProxy
          <6>1. CASE handler' = Idle
            BY <6>1 DEF Idle
          <6>2. CASE handler' # Idle
            <7> DEFINE v == proxy_credentials[handler.account].value
            <7>1. handler' = [handler EXCEPT !.at = "record", !.payload = Result(v)]
              BY <5>1, <6>2 DEF RevealProxy, Executed, Fail
            <7> QED
              BY <2>2, <7>1
          <6> QED
            BY <6>1, <6>2
        <5>2. CASE Query
          BY <2>2, <5>2 DEF Query
        <5> QED
          BY <3>3, <5>1, <5>2
      <4>3. Slot(call).op = call.op /\ (call' = call \/ handler'.at = "idle")
        BY <4>1, <4>2, RunningCall, SlotFields DEF call
      <4> QED
        BY <4>1, <4>3 DEF InHandler, Mutating
    <3>4. \/ UNCHANGED handler
          \/ handler.at # "record" /\ handler'.at # "record"
          \/ RevealProxy \/ Query
      BY <1>5, OtherSteps
    <3> QED
      BY <3>1, <3>2, <3>3, <3>4
  <2> QED
    BY <1>1, <2>1, <2>3
<1> QED
  BY <1>2, <1>3, <1>4, <1>5

\* The accounts balance in every reachable state.
LEMMA AccountsBalance == Spec => []Accounted
<1>1. Init => Inv /\ Accounted
  BY InitHolds, AccountedInit
<1>2. Inv /\ Accounted /\ [Next]_vars => (Inv /\ Accounted)'
  BY StepKeeps, AccountedStep
<1> QED
  BY <1>1, <1>2, PTL DEF Spec

\* Every executed command of a key is the recorded one, the one about to be recorded,
\* or was lost to a fault: EffectsAccounted.
THEOREM ExecutionsAccounted == Spec => []EffectsAccounted
<1>1. Accounted => EffectsAccounted
  BY DEF Accounted
<1> QED
  BY <1>1, AccountsBalance, PTL

\* A key is executed once, and once more at most for every fault: AtMostOncePlusFaults.
THEOREM AtMostOnce == Spec => []AtMostOncePlusFaults
<1>1. Inv /\ Accounted => AtMostOncePlusFaults
  <2> SUFFICES ASSUME Inv, Accounted, NEW s \in Slots, Mutating(s)
               PROVE  effects[s] <= 1 + faults
    BY DEF AtMostOncePlusFaults
  <2>1. ~(idempotency_records[s] # None /\ InHandler(s, {"record"}))
    BY RunningSlot DEF InHandler
  <2>2. effects[s] \in Nat /\ lost[s] \in Nat /\ faults \in Nat
    BY DEF Inv, TypeOK
  <2> QED
    BY <2>1, <2>2 DEF Accounted, EffectsAccounted
<1>2. Spec => []Inv
  BY InitHolds, StepKeeps, PTL DEF Spec
<1> QED
  BY <1>1, <1>2, AccountsBalance, PTL

\* A recorded reply is never replaced and its key never executed again:
\* SettledStaysSettled.
THEOREM Settled == Spec => SettledStaysSettled
<1>1. ASSUME Inv, [Next]_vars, NEW s \in Slots, idempotency_records[s] # None
      PROVE  idempotency_records'[s] = idempotency_records[s] /\ effects'[s] = effects[s]
  <2>1. idempotency_records'[s] = idempotency_records[s]
    BY <1>1, WhatRecords, RecordFills DEF Inv, TypeOK, StorageTypeOK
  <2>2. effects'[s] = effects[s]
    BY <1>1, WhatExecutes, NothingExecutes DEF Count, Inv, TypeOK
  <2> QED
    BY <2>1, <2>2
<1>2. Inv /\ [Next]_vars =>
        [\A s \in Slots : idempotency_records[s] # None =>
           /\ idempotency_records'[s] = idempotency_records[s]
           /\ effects'[s] = effects[s]]_vars
  BY <1>1
<1> QED
  BY <1>2, InitHolds, StepKeeps, PTL DEF Spec, SettledStaysSettled

----------------------------------------------------------------------------
(* Answers.                                                                 *)

\* Told successes, with the slot they are told from.
Recorded ==
    \A x \in answers : Idempotent(x.request.call) =>
        /\ x.request.call.key # None
        /\ idempotency_records[Slot(x.request.call)] =
              [status_code |-> 200, payload |-> x.payload]

\* What may be added to the answers: a replay, or the reply just recorded.
LEMMA WhatAnswers ==
    ASSUME Inv, [Next]_vars, NEW x \in answers', x \notin answers
    PROVE  /\ x.request.call \in Calls /\ x.payload \in Payloads
           /\ UNCHANGED storageVars
           /\ Idempotent(x.request.call) =>
                 /\ x.request.call.key # None
                 /\ idempotency_records[Slot(x.request.call)] =
                       [status_code |-> 200, payload |-> x.payload]
           /\ ~Idempotent(x.request.call) =>
                 x.payload.account = runtime_binding
<1>1. CASE SendReply
  <2>1. x = [request |-> handler.request, payload |-> handler.payload]
    BY <1>1 DEF SendReply, Succeed
  <2>2. /\ handler.at = "reply" /\ call = x.request.call /\ call \in Calls
        /\ x.payload = handler.payload
    BY <1>1, <2>1, RunningCall DEF SendReply, HandlerStep, call
  <2> QED
    BY <1>1, <2>2 DEF SendReply, Inv, HandlerConsistent
<1>2. CASE \E r \in pending : ReplayRecorded(r)
  <2>1. PICK r \in pending : ReplayRecorded(r)
    BY <1>2
  <2> DEFINE entry == idempotency_records[Slot(r.call)]
  <2>2. /\ x = [request |-> r, payload |-> entry.payload]
        /\ Idempotent(r.call) /\ r.call.key # None /\ entry # None /\ UNCHANGED storageVars
    BY <2>1 DEF ReplayRecorded, Succeed, Dequeue, RejectedEarly, read_idempotency
  <2>3. r.call \in Calls /\ Slot(r.call) \in Slots
    BY <2>2, RequestCall, SlotOfCall DEF Inv, TypeOK
  <2>4. entry \in Entries
    BY <2>2, <2>3 DEF Inv, TypeOK, StorageTypeOK
  <2>5. entry = [status_code |-> 200, payload |-> entry.payload] /\ entry.payload \in Payloads
    BY <2>4 DEF Entries
  <2> QED
    BY <2>2, <2>3, <2>5
<1>3. SendReply \/ \E r \in pending : ReplayRecorded(r)
  BY DEF Next, vars, Send, LoopStep, PickUp, RejectRequest, StartOperation, Dequeue, Scope,
     RefuseScope, ConflictOrRefuse, EnterScope, Operation, ApplyProxy, ApplyAuth, RevealProxy,
     Executed, Connect, ConnectFails, Command, CommandUnheard, CommandRefused, Query, Fail,
     RecordReply, StorageFails, Crash, Start
<1> QED
  BY <1>1, <1>2, <1>3

\* A step tells one success at most.
LEMMA OneAnswer ==
    ASSUME [Next]_vars, answers' # answers
    PROVE  \E x : x \notin answers /\ answers' = answers \cup {x}
<1>1. SendReply \/ \E r \in pending : ReplayRecorded(r)
  BY DEF Next, vars, Send, LoopStep, PickUp, RejectRequest, StartOperation, Dequeue, Scope,
     RefuseScope, ConflictOrRefuse, EnterScope, Operation, ApplyProxy, ApplyAuth, RevealProxy,
     Executed, Connect, ConnectFails, Command, CommandUnheard, CommandRefused, Query, Fail,
     RecordReply, StorageFails, Crash, Start
<1>2. \E x : answers' = answers \cup {x}
  BY <1>1 DEF SendReply, ReplayRecorded, Succeed
<1> QED
  BY <1>2

\* A record that stands is not replaced, so an answer stays recorded.
LEMMA RecordedStep ==
    ASSUME Inv, Recorded, [Next]_vars
    PROVE  Recorded'
<1> SUFFICES ASSUME NEW x \in answers', Idempotent(x.request.call)
             PROVE  /\ x.request.call.key # None
                    /\ idempotency_records'[Slot(x.request.call)] =
                          [status_code |-> 200, payload |-> x.payload]
  BY DEF Recorded, Idempotent
<1>1. CASE x \notin answers
  BY <1>1, WhatAnswers DEF storageVars
<1>2. CASE x \in answers
  <2> DEFINE s == Slot(x.request.call)
  <2>1. /\ x.request.call.key # None
        /\ idempotency_records[s] = [status_code |-> 200, payload |-> x.payload]
    BY <1>2 DEF Recorded
  <2>2. x.request.call \in Calls /\ x.payload \in Payloads
    BY <1>2, RequestCall DEF Inv, TypeOK, Answers
  <2>3. s \in Slots
    BY <2>1, <2>2, SlotOfCall
  <2>4. idempotency_records[s] # None
    BY <2>1, <2>2, AbsentAssumption DEF Entries
  <2>5. idempotency_records'[s] = idempotency_records[s]
    BY <2>3, <2>4, WhatRecords, RecordFills DEF Inv, TypeOK, StorageTypeOK
  <2> QED
    BY <2>1, <2>5
<1> QED
  BY <1>1, <1>2

\* Every answer of an idempotent request stays recorded as it was told.
LEMMA RecordedHolds == Spec => [](Inv /\ Recorded)
<1>1. Init => Inv /\ Recorded
  BY InitHolds DEF Init, Recorded
<1>2. Inv /\ Recorded /\ [Next]_vars => (Inv /\ Recorded)'
  BY StepKeeps, RecordedStep
<1> QED
  BY <1>1, <1>2, PTL DEF Spec

\* A success a caller has been told is in the table, whatever happened since; all
\* attempts of a key are told the same one: AnswersAreRecorded.
THEOREM AnswersStayRecorded == Spec => []AnswersAreRecorded
<1>1. Inv /\ Recorded => AnswersAreRecorded
  <2> SUFFICES ASSUME Inv, Recorded, NEW x \in answers, Idempotent(x.request.call)
               PROVE  /\ idempotency_records[Slot(x.request.call)] # None
                      /\ idempotency_records[Slot(x.request.call)].payload = x.payload
    BY DEF AnswersAreRecorded
  <2>1. [status_code |-> 200, payload |-> x.payload] \in Entries
    BY DEF Entries, Inv, TypeOK, Answers
  <2> QED
    BY <2>1, AbsentAssumption DEF Recorded
<1> QED
  BY <1>1, RecordedHolds, PTL

\* An answered apply is recorded, so its slot is not one that a running request
\* may still execute: credentials it put in force and another apply replaced never
\* come back by its retries.  ReplacedStaysReplaced.
THEOREM ReplacedNeverReturns == Spec => ReplacedStaysReplaced
<1>1. ASSUME Inv, Recorded, [Next]_vars, NEW a \in AccountIds, NEW x \in answers,
             marketplace_auth'[a] # marketplace_auth[a], x.request.call.op = "applyAuth"
      PROVE  Slot(x.request.call) # Slot(call)
  <2>1. ApplyAuth
    BY <1>1 DEF Next, vars, storageVars, Send, LoopStep, PickUp, RejectRequest, ReplayRecorded,
       StartOperation, Dequeue, Scope, RefuseScope, ConflictOrRefuse, EnterScope,
       bind_account_if_unset, Operation, ApplyProxy, upsert_proxy_credentials, RevealProxy,
       Connect, ConnectFails, Command, CommandUnheard, CommandRefused, Query, RecordReply,
       write_idempotency, SendReply, StorageFails, Crash, Start
  <2>2. handler.at = "work" /\ Idempotent(call)
    BY <2>1 DEF ApplyAuth, HandlerStep, Idempotent, IdempotentOps, ActionOps, AccountOps
  <2>3. idempotency_records[Slot(call)] = None
    BY <1>1, <2>2 DEF Inv, HandlerConsistent
  <2>4. Idempotent(x.request.call)
    BY <1>1 DEF Idempotent, IdempotentOps, ActionOps, AccountOps
  <2>5. /\ x.request.call \in Calls /\ x.payload \in Payloads
        /\ idempotency_records[Slot(x.request.call)] = [status_code |-> 200, payload |-> x.payload]
    BY <1>1, <2>4 DEF Recorded, Inv, TypeOK, Answers, Requests
  <2>6. idempotency_records[Slot(x.request.call)] # None
    BY <2>5, AbsentAssumption DEF Entries
  <2> QED
    BY <2>3, <2>6
<1>2. Inv /\ Recorded /\ [Next]_vars =>
        [\A a \in AccountIds :
           marketplace_auth'[a] # marketplace_auth[a] =>
             \A x \in answers :
                 LET c == x.request.call IN
                   /\ c.op = "applyAuth" /\ x.payload.account = a
                   /\ c.value = marketplace_auth'[a].value
                   => Slot(c) # Slot(call)]_vars
  BY <1>1
<1> QED
  BY <1>2, RecordedHolds, PTL DEF Spec, ReplacedStaysReplaced

----------------------------------------------------------------------------
(* The tenant.                                                              *)

\* The binding is set once, from nothing, and by a step that touches nothing else.
LEMMA WhatBinds ==
    ASSUME Inv, [Next]_vars, runtime_binding' # runtime_binding
    PROVE  /\ runtime_binding = None
           /\ UNCHANGED <<idempotency_records, proxy_credentials, marketplace_auth, answers>>
<1>1. ConflictOrRefuse \/ EnterScope
  BY DEF Next, vars, storageVars, Send, LoopStep, PickUp, RejectRequest, ReplayRecorded,
     StartOperation, Dequeue, Scope, RefuseScope, Operation, ApplyProxy, ApplyAuth,
     RevealProxy, Connect, ConnectFails, Command, CommandUnheard, CommandRefused, Query,
     RecordReply, SendReply, StorageFails, Crash, Start
<1> QED
  BY <1>1 DEF ConflictOrRefuse, EnterScope, Fail, bind_account_if_unset, BindingAfter

\* A secret is stored only for the bound account.
LEMMA WhatStores ==
    ASSUME Inv, [Next]_vars, NEW a \in AccountIds,
           \/ proxy_credentials'[a] # proxy_credentials[a]
           \/ marketplace_auth'[a] # marketplace_auth[a]
    PROVE  a = runtime_binding /\ UNCHANGED runtime_binding
<1>1. ApplyProxy \/ ApplyAuth
  BY DEF Next, vars, storageVars, Send, LoopStep, PickUp, RejectRequest, ReplayRecorded,
     StartOperation, Dequeue, Scope, RefuseScope, ConflictOrRefuse, EnterScope, Operation,
     RevealProxy, Connect, ConnectFails, Command, CommandUnheard, CommandRefused, Query,
     RecordReply, SendReply, StorageFails, Crash, Start
<1>2. handler.account = runtime_binding /\ handler.account \in AccountIds
  BY <1>1 DEF ApplyProxy, ApplyAuth, HandlerStep, Inv, HandlerConsistent
<1> QED
  BY <1>1, <1>2 DEF ApplyProxy, ApplyAuth, upsert_proxy_credentials, upsert_marketplace_auth,
     Inv, TypeOK, StorageTypeOK

\* Whatever is stored, recorded or told belongs to the bound account.
LEMMA SingleTenantStep ==
    ASSUME Inv, Recorded, SingleTenant, [Next]_vars
    PROVE  SingleTenant'
<1>1. CASE runtime_binding' # runtime_binding
  <2>1. /\ runtime_binding = None
        /\ UNCHANGED <<idempotency_records, proxy_credentials, marketplace_auth, answers>>
    BY <1>1, WhatBinds
  <2>2. \A a \in AccountIds : proxy_credentials[a] = None /\ marketplace_auth[a] = None
    BY <2>1, AbsentAssumption DEF SingleTenant
  <2>3. \A s \in Slots : idempotency_records[s] = None
    BY <2>1, AbsentAssumption DEF SingleTenant, Inv, TypeOK, StorageTypeOK, Entries, Payloads
  <2>4. answers = {}
    BY <2>1, AbsentAssumption DEF SingleTenant, Inv, TypeOK, Answers, Payloads
  <2> QED
    BY <2>1, <2>2, <2>3, <2>4 DEF SingleTenant
<1>2. CASE runtime_binding' = runtime_binding
  <2>1. ASSUME NEW a \in AccountIds,
               proxy_credentials'[a] # None \/ marketplace_auth'[a] # None
        PROVE  a = runtime_binding
    BY <2>1, WhatStores DEF SingleTenant
  <2>2. ASSUME NEW s \in Slots, idempotency_records'[s] # None
        PROVE  idempotency_records'[s].payload.account = runtime_binding
    <3>1. CASE RecordReply
      BY <2>2, <3>1, RecordFills DEF SingleTenant, Inv, TypeOK, StorageTypeOK
    <3>2. CASE ~RecordReply
      BY <2>2, <3>2, WhatRecords DEF SingleTenant
    <3> QED
      BY <3>1, <3>2
  <2>3. ASSUME NEW x \in answers'
        PROVE  x.payload.account = runtime_binding
    <3>1. CASE x \in answers
      BY <3>1 DEF SingleTenant
    <3>2. CASE x \notin answers /\ Idempotent(x.request.call)
      <4> DEFINE entry == idempotency_records[Slot(x.request.call)]
      <4>1. /\ Slot(x.request.call) \in Slots /\ x.payload \in Payloads
            /\ entry = [status_code |-> 200, payload |-> x.payload]
        BY <2>3, <3>2, WhatAnswers, SlotOfCall
      <4>2. entry # None
        BY <4>1, AbsentAssumption DEF Entries
      <4> QED
        BY <4>1, <4>2 DEF SingleTenant
    <3>3. CASE x \notin answers /\ ~Idempotent(x.request.call)
      BY <2>3, <3>3, WhatAnswers
    <3> QED
      BY <3>1, <3>2, <3>3
  <2> QED
    BY <1>2, <2>1, <2>2, <2>3 DEF SingleTenant
<1> QED
  BY <1>1, <1>2

\* Secrets, records and answers belong to the bound account, whatever the process was
\* restarted with: SingleTenant.
THEOREM OneTenant == Spec => []SingleTenant
<1>1. Init => SingleTenant
  BY DEF Init, StorageInit, SingleTenant
<1>2. SingleTenant /\ Inv /\ Recorded /\ [Next]_vars => SingleTenant'
  BY SingleTenantStep
<1> QED
  BY <1>1, <1>2, RecordedHolds, PTL DEF Spec

\* A slot that carries an account was recorded for that account.
NamedRecords ==
    \A s \in Slots :
        s.op \in AccountOps /\ s.target # None /\ idempotency_records[s] # None =>
            idempotency_records[s].payload.account = s.target

\* Recording keeps it: the reply's account is the one the running call names.
LEMMA NamedRecordsStep ==
    ASSUME Inv, NamedRecords, [Next]_vars
    PROVE  NamedRecords'
<1> SUFFICES ASSUME NEW s \in Slots, s.op \in AccountOps, s.target # None,
                    idempotency_records'[s] # None
             PROVE  idempotency_records'[s].payload.account = s.target
  BY DEF NamedRecords
<1>1. CASE RecordReply /\ s = Slot(call)
  <2>1. /\ call \in Calls /\ call.op \in AccountOps
        /\ AccountText(call.account) = s.target
    BY <1>1, RecordFills, SlotFields
  <2>2. handler.payload.account = s.target
    BY <1>1, <2>1, RecordFills DEF Inv, HandlerConsistent
  <2> QED
    BY <1>1, <2>2, RecordFills DEF Inv, TypeOK, StorageTypeOK
<1>2. CASE ~(RecordReply /\ s = Slot(call))
  <2>1. idempotency_records'[s] = idempotency_records[s]
    BY <1>2, WhatRecords, RecordFills DEF Inv, TypeOK, StorageTypeOK
  <2> QED
    BY <2>1 DEF NamedRecords
<1> QED
  BY <1>1, <1>2

\* An action that names its account as a string is answered for that account only, a
\* replay included: AnsweredForNamedAccount.
THEOREM NamedAccountAnswered == Spec => []AnsweredForNamedAccount
<1>1. Init => NamedRecords
  BY DEF Init, StorageInit, NamedRecords
<1>2. NamedRecords /\ Inv /\ [Next]_vars => NamedRecords'
  BY NamedRecordsStep
<1>3. Inv /\ Recorded /\ NamedRecords => AnsweredForNamedAccount
  <2> SUFFICES ASSUME Inv, Recorded, NamedRecords, NEW x \in answers,
                      x.request.call.op \in AccountOps, x.request.call.account.form = "string"
               PROVE  x.payload.account = x.request.call.account.text
    BY DEF AnsweredForNamedAccount
  <2> DEFINE c == x.request.call
             s == Slot(c)
  <2>1. c \in Calls /\ x.payload \in Payloads /\ Idempotent(c)
    BY RequestCall DEF Inv, TypeOK, Answers, Idempotent, IdempotentOps, ActionOps
  <2>2. s \in Slots /\ idempotency_records[s] = [status_code |-> 200, payload |-> x.payload]
    BY <2>1, SlotOfCall DEF Recorded
  <2>3. idempotency_records[s] # None
    BY <2>1, <2>2, AbsentAssumption DEF Entries
  <2>4. s.op \in AccountOps /\ s.target = c.account.text /\ s.target # None
    BY <2>1, SlotFields
  <2> QED
    BY <2>2, <2>3, <2>4 DEF NamedRecords
<1> QED
  BY <1>1, <1>2, <1>3, RecordedHolds, PTL DEF Spec

----------------------------------------------------------------------------
(* Credentials.                                                             *)

\* A client under way uses the credentials in force: nothing else runs meanwhile.
LEMMA CredentialsStep ==
    ASSUME Inv, CommandsUseCurrentCredentials, [Next]_vars
    PROVE  CommandsUseCurrentCredentials'
<1> SUFFICES ASSUME handler'.at = "call"
             PROVE  CommandsUseCurrentCredentials'
  BY DEF CommandsUseCurrentCredentials
<1>1. CASE Connect
  <2> DEFINE a == handler.account
  <2>1. a = runtime_binding /\ a \in AccountIds /\ config.account \in {None, a}
    BY <1>1 DEF Connect, HandlerStep, Inv, HandlerConsistent
  <2>2. /\ handler'.account = a
        /\ handler'.client.auth = AuthFor(a) /\ handler'.client.proxy = ProxyFor(a)
        /\ UNCHANGED <<storageVars, config>>
    BY <1>1 DEF Connect, HandlerStep, Inv, TypeOK, Handlers
  <2> QED
    BY <2>1, <2>2 DEF CommandsUseCurrentCredentials, AuthFor, ProxyFor, storageVars
<1>2. CASE UNCHANGED <<handler, config, storageVars>>
  BY <1>2 DEF CommandsUseCurrentCredentials, ProxyFor, storageVars
<1>3. Connect \/ UNCHANGED <<handler, config, storageVars>>
  <2>1. handler \in Handlers /\ (handler.at = "call" => up)
    BY DEF Inv, TypeOK, HandlerConsistent
  <2>2. CASE PickUp
    <3>1. PICK r \in pending : RejectRequest(r) \/ ReplayRecorded(r) \/ StartOperation(r)
      BY <2>2 DEF PickUp
    <3> QED
      BY <3>1 DEF RejectRequest, ReplayRecorded, StartOperation, Dequeue, Begin, Idle
  <2>3. handler' # Idle
    BY DEF Idle
  <2>4. CASE Scope
    <3>1. handler' # [handler EXCEPT !.at = "work", !.account = BindingAfter(Claim(call))]
      BY <2>1 DEF Handlers
    <3> QED
      BY <2>3, <2>4, <3>1 DEF Scope, RefuseScope, ConflictOrRefuse, EnterScope, Fail
  <2>5. CASE Operation /\ ~Connect
    <3>1. \A v : handler' # [handler EXCEPT !.at = "record", !.payload = Result(v)]
      BY <2>1 DEF Handlers
    <3>2. CASE Query
      BY <2>1, <3>2 DEF Query, Handlers
    <3>3. ~Query => \/ handler' = Idle
                    \/ \E v : handler' = [handler EXCEPT !.at = "record", !.payload = Result(v)]
      BY <2>5 DEF Operation, ApplyProxy, ApplyAuth, RevealProxy, ConnectFails, Command,
         CommandUnheard, CommandRefused, Executed, Fail
    <3> QED
      BY <2>3, <3>1, <3>2, <3>3
  <2>6. CASE RecordReply \/ SendReply \/ StorageFails \/ Crash
    BY <2>1, <2>6 DEF RecordReply, SendReply, StorageFails, Crash, HandlerStep, Fail, Idle,
       Handlers
  <2>7. CASE \E cfg \in Configs : Start(cfg)
    BY <2>1, <2>7 DEF Start
  <2>8. CASE (\E c \in Calls : Send(c)) \/ UNCHANGED vars
    BY <2>8 DEF Send, vars
  <2> QED
    BY <2>2, <2>4, <2>5, <2>6, <2>7, <2>8 DEF Next, LoopStep
<1> QED
  BY <1>1, <1>2, <1>3

\* A command is sent with the credentials the tables and the environment hold at
\* that moment: CommandsUseCurrentCredentials.
THEOREM CurrentCredentials == Spec => []CommandsUseCurrentCredentials
<1>1. Init => CommandsUseCurrentCredentials
  BY DEF Init, Idle, CommandsUseCurrentCredentials
<1>2. CommandsUseCurrentCredentials /\ Inv /\ [Next]_vars => CommandsUseCurrentCredentials'
  BY CredentialsStep
<1> QED
  BY <1>1, <1>2, RecordedHolds, PTL DEF Spec

----------------------------------------------------------------------------
(* The worker keeps the ledger.                                             *)

\* The pairs the refinement mapping reads off the answers.
Told == {<<Slot(x.request.call), [status_code |-> 200, payload |-> x.payload]>> :
            x \in {y \in answers : Idempotent(y.request.call)}}

\* The empty tables are the empty ledger.
LEMMA LedgerInit == Init => Ledger!Init
  BY DEF Init, StorageInit, Ledger!Init

\* Every step is a step of the ledger, or leaves it as it is.
LEMMA LedgerStep ==
    ASSUME Inv, Recorded, [Next]_vars
    PROVE  [Ledger!Next]_(Ledger!ledgerVars)
<1> SUFFICES \/ \E t \in AccountIds : Ledger!ChooseTenant(t)
             \/ \E s \in Slots : Ledger!Tell(s) \/ \E reply \in Entries : Ledger!Settle(s, reply)
             \/ UNCHANGED <<idempotency_records, runtime_binding, Told>>
  BY DEF Ledger!Next, Ledger!ledgerVars, Told
<1>1. CASE runtime_binding' # runtime_binding
  <2>1. Inv'
    BY StepKeeps
  <2>2. runtime_binding' \in AccountIds
    BY <1>1, <2>1, WhatBinds DEF Inv, TypeOK, StorageTypeOK
  <2>3. Ledger!ChooseTenant(runtime_binding')
    BY <1>1, WhatBinds DEF Ledger!ChooseTenant, Idempotent
  <2> QED
    BY <2>2, <2>3
<1>2. CASE RecordReply
  <2>1. Ledger!Settle(Slot(call), [status_code |-> 200, payload |-> handler.payload])
    BY <1>2, RecordFills, AbsentAssumption DEF Ledger!Settle, Idempotent
  <2> QED
    BY <1>2, <2>1, RecordFills
<1>3. CASE UNCHANGED <<idempotency_records, runtime_binding>>
  <2>1. CASE answers' = answers
    BY <1>3, <2>1 DEF Told, Idempotent
  <2>2. CASE answers' # answers
    <3>1. PICK x : x \notin answers /\ answers' = answers \cup {x}
      BY <2>2, OneAnswer
    <3>2. CASE Idempotent(x.request.call)
      <4> DEFINE s == Slot(x.request.call)
                 reply == [status_code |-> 200, payload |-> x.payload]
      <4>1. s \in Slots /\ idempotency_records[s] = reply /\ reply \in Entries
        BY <3>1, <3>2, WhatAnswers, SlotOfCall DEF Entries
      <4>2. Told' = Told \cup {<<s, reply>>}
        BY <3>1, <3>2 DEF Told, Idempotent
      <4>3. Ledger!Tell(s)
        BY <1>3, <4>1, <4>2, AbsentAssumption DEF Ledger!Tell, Told, Idempotent
      <4> QED
        BY <4>1, <4>3
    <3>3. CASE ~Idempotent(x.request.call)
      BY <1>3, <3>1, <3>3 DEF Told, Idempotent
    <3> QED
      BY <3>2, <3>3
  <2> QED
    BY <2>1, <2>2
<1> QED
  BY <1>1, <1>2, <1>3, WhatRecords

\* The worker implements the ledger, with its tables for the ledger and the answers
\* for what callers were told: KeepsLedger.
THEOREM KeepsTheLedger == Spec => KeepsLedger
<1>1. Inv /\ Recorded /\ [Next]_vars => [Ledger!Next]_(Ledger!ledgerVars)
  BY LedgerStep
<1> QED
  BY <1>1, LedgerInit, RecordedHolds, PTL DEF Spec, KeepsLedger, Ledger!Spec
=============================================================================
