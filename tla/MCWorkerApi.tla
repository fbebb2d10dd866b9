---------------------------- MODULE MCWorkerApi ----------------------------
(***************************************************************************)
(* Instances of WorkerApi for TLC.                                         *)
(***************************************************************************)
EXTENDS WorkerApi

CONSTANTS a1, a2, n0, t1, t2, k1, k2, v1, v2, v3, e1, e2

AbsentField == [form |-> "absent", text |-> None]
NullField == [form |-> "null", text |-> None]
Str(a) == [form |-> "string", text |-> a]
Num(a) == [form |-> "number", text |-> a]

Platform(op, target, key) ==
    [op |-> op, target |-> target, account |-> AbsentField, value |-> v1,
     valid |-> TRUE, key |-> key]

Action(op, account, value, key) ==
    [op |-> op, target |-> None, account |-> account, value |-> value,
     valid |-> TRUE, key |-> key]

Invalid(c) == [c EXCEPT !.valid = FALSE]

Environment(account, credentials) ==
    [account |-> account, proxyKey |-> e1, marketKey |-> e1, credentials |-> credentials]

AllAccounts == {a1, a2}
AllTargets == {t1, t2}
AllKeys == {k1, k2}
AllValues == {v1, v2, v3}
AllSealingKeys == {e1, e2}

\* Retries against a worker bound by its environment: a message and two applies of
\* different credentials, one key shared by two scopes.
RetryCalls ==
    {Platform("send", t1, k1),
     Action("applyAuth", Str(a1), v1, k1), Action("applyAuth", Str(a1), v2, k2)}
RetryConfigs == {Environment(a1, v1)}

\* Account actions for two accounts, one of them refused after it has bound; a message
\* between them.  The first two share a slot and differ in their payload, so that the
\* later one is answered by a replay, also after a restart.
TenantCalls ==
    {Action("applyAuth", Str(a1), v1, k1), Action("applyAuth", Str(a1), v2, k1),
     Invalid(Action("applyProxy", Str(a2), v3, k1)), Action("applyProxy", Num(a1), v3, k1),
     Action("revealProxy", Str(a1), v1, k1), Platform("send", t1, k1)}

\* The environment names no account, either account, or another sealing key.
TenantConfigs ==
    {Environment(None, v3), Environment(a1, None), Environment(a2, v3),
     [Environment(None, None) EXCEPT !.proxyKey = e2, !.marketKey = e2]}

\* One request of every way to end: rejected early, refused for its scope, a read
\* without a record, a recorded query, a command, one with a payload that is refused.
LiveCalls ==
    {Platform("send", t1, None), Action("unsupported", AbsentField, v1, k1),
     Platform("read", None, None), Action("metadata", AbsentField, v1, k1),
     Platform("create", None, k1), Invalid(Platform("update", t1, k1))}

\* The requests of the four statements the code does not keep.
RevealFirst == {Action("revealProxy", Str(a1), v1, k1), Action("applyProxy", Str(a2), v2, k1)}
NullAccount == {Action("applyAuth", NullField, v1, k1), Action("applyAuth", Str(a1), v2, k2)}
NumericAccounts == {Action("applyAuth", Num(a1), v1, k1), Action("applyAuth", Num(a2), v2, k1)}
Unbound == {Environment(None, None)}
=============================================================================
