------------------------- MODULE WorkerStateStorage -------------------------
(***************************************************************************)
(* storage.py: the four SQLite tables, one operator per method.  Every     *)
(* method holds _lock, opens a connection and commits before it returns,   *)
(* so each is one atomic, durable step; the tables survive a crash.        *)
(* A secret column is its value with the key that sealed it (AES-GCM): a   *)
(* reader whose key differs gets an InvalidTag exception, never a value.   *)
(***************************************************************************)
EXTENDS WorkerRequests

VARIABLES
    idempotency_records,  \* Slots -> entry or None
    runtime_binding,      \* account_id of the single row "runtime", or None
    proxy_credentials,    \* AccountIds -> sealed row or None
    marketplace_auth      \* AccountIds -> sealed row or None

storageVars ==
    <<idempotency_records, runtime_binding, proxy_credentials, marketplace_auth>>

Rows == [value: Values, sealedWith: SealingKeys]

StorageTypeOK ==
    /\ idempotency_records \in [Slots -> Entries \cup {None}]
    /\ runtime_binding \in AccountIds \cup {None}
    /\ proxy_credentials \in [AccountIds -> Rows \cup {None}]
    /\ marketplace_auth \in [AccountIds -> Rows \cup {None}]

\* _ensure_schema on a fresh database file.
StorageInit ==
    /\ idempotency_records = [s \in Slots |-> None]
    /\ runtime_binding = None
    /\ proxy_credentials = [a \in AccountIds |-> None]
    /\ marketplace_auth = [a \in AccountIds |-> None]

read_idempotency(s) == idempotency_records[s]

\* Mutant: the replay is computed but the INSERT is never committed.
WriteLost(s, status, payload) == UNCHANGED idempotency_records

\* INSERT OR REPLACE
write_idempotency(s, status, payload) ==
    idempotency_records' =
        [idempotency_records EXCEPT
            ![s] = [status_code |-> status, payload |-> payload]]

\* Mutant: the row is replaced instead of kept.
Rebind(a) == IF a = None THEN runtime_binding ELSE a

\* The account the table holds once bind_account_if_unset(a) has returned; None
\* stands for making no such call.
BindingAfter(a) == IF runtime_binding = None THEN a ELSE runtime_binding

bind_account_if_unset(a) == runtime_binding' = BindingAfter(a)

upsert_proxy_credentials(a, value, key) ==
    proxy_credentials' =
        [proxy_credentials EXCEPT ![a] = [value |-> value, sealedWith |-> key]]

upsert_marketplace_auth(a, value, key) ==
    marketplace_auth' =
        [marketplace_auth EXCEPT ![a] = [value |-> value, sealedWith |-> key]]

\* _decrypt succeeds: there is nothing to decrypt, or the key is the sealing one.
Opens(row, key) == row # None => row.sealedWith = key
=============================================================================
