--------------------------- MODULE WorkerRequests ---------------------------
(***************************************************************************)
(* What a caller can ask of the worker, and how a request is reduced to    *)
(* the slot of the idempotency table it is answered from.  Everything here *)
(* is constant: the requests a run uses, their composition into a scope,   *)
(* and the conversion of payload.accountId into text.                      *)
(***************************************************************************)
EXTENDS Naturals

CONSTANTS
    None,         \* absent value: a NULL column, a missing header or field
    Accounts,     \* account identifiers a payload or the environment names
    NullText,     \* the identifier Python's str() makes of a JSON null
    Targets,      \* conversation and product identifiers
    Keys,         \* Idempotency-Key values of eight characters or more
    Values,       \* credential payloads: a proxy, a marketplace auth bundle
    SealingKeys,  \* encryption keys of the two secret tables
    Configs,      \* configurations a start of the process may load
    Calls,        \* requests of the run, before they are sent
    MaxAttempts,  \* bound: how often the caller sends one call
    MaxFaults     \* bound: crashes, failed commits and lost answers

AccountIds == Accounts \cup {NullText}

PlatformOps == {"send", "create", "update", "delete"}
AccountOps == {"applyProxy", "applyAuth", "revealProxy"}
ApplyOps == {"applyProxy", "applyAuth"}
ActionOps == AccountOps \cup {"metadata", "unsupported"}
IdempotentOps == PlatformOps \cup ActionOps
MutatingOps == PlatformOps \cup ApplyOps
Ops == IdempotentOps \cup {"read"}

\* payload.accountId as JSON delivers it: a string, a number, null, or nothing
\* (the key is missing or its text is blank).
AccountFields ==
    [form: {"string", "number"}, text: Accounts]
        \cup [form: {"null", "absent"}, text: {None}]

CallType ==
    [op: Ops, target: Targets \cup {None}, account: AccountFields,
     value: Values, valid: BOOLEAN, key: Keys \cup {None}]

ConfigType ==
    [account: Accounts \cup {None}, proxyKey: SealingKeys,
     marketKey: SealingKeys, credentials: Values \cup {None}]

Requests == [call: Calls, attempt: 1..MaxAttempts]

\* str(payload.get("accountId", "")).strip(); None stands for the empty text,
\* which the handlers refuse.
AccountText(field) ==
    CASE field.form = "absent" -> None
      [] field.form = "null"   -> NullText
      [] OTHER                 -> field.text

\* Mutant: the suffix is dropped from the scope of an action.
ScopeSuffixDropped(c) == c.target

\* The scope suffix of an action is the account only when it is a string.
ScopeSuffix(c) ==
    IF c.op \in ActionOps
    THEN IF c.account.form = "string" THEN c.account.text ELSE None
    ELSE c.target

\* The primary key (scope, idempotency_key) of idempotency_records.  The code joins the
\* parts of a scope with colons, so that an action named like another one with a colon
\* and an account would share its slot; names with a colon are left out here.
Slot(c) == [op |-> c.op, target |-> ScopeSuffix(c), key |-> c.key]

Slots == {Slot(c) : c \in {d \in Calls : d.op \in IdempotentOps /\ d.key # None}}

\* A success payload: the request that executed, the account it acted for and
\* the secret it discloses, if any.
Payloads ==
    [requestId: Requests, account: AccountIds, value: Values \cup {None}]

Entries == [status_code: {200}, payload: Payloads]

ASSUME AbsentAssumption ==
    /\ None \notin AccountIds /\ None \notin Keys /\ None \notin Values
    /\ None \notin Targets /\ None \notin SealingKeys
    /\ None \notin Requests /\ None \notin Payloads /\ None \notin Entries

ASSUME BoundsAssumption == MaxAttempts \in Nat /\ MaxFaults \in Nat

ASSUME InputAssumption == Calls \subseteq CallType /\ Configs \subseteq ConfigType

\* Create has no target of its own; its scope is the same for every call.
ASSUME TargetAssumption ==
    \A c \in Calls : c.target = None <=> c.op \notin {"send", "update", "delete"}
=============================================================================
