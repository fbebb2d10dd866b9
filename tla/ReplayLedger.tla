---------------------------- MODULE ReplayLedger ----------------------------
(***************************************************************************)
(* What the worker promises a caller that retries, without processes,      *)
(* queues or tables: a ledger in which a slot is settled at most once, and *)
(* a tenant that is chosen at most once.  A caller is told a success only  *)
(* if it stands in the ledger, and every retry of the slot is told that    *)
(* same success.                                                           *)
(***************************************************************************)
CONSTANTS Slots, Tenants, Replies, None

VARIABLES
    ledger,  \* Slots -> reply or None
    tenant,  \* the only tenant served, or None
    told     \* <<slot, reply>> pairs callers have been told

ledgerVars == <<ledger, tenant, told>>

Init ==
    /\ ledger = [s \in Slots |-> None]
    /\ tenant = None
    /\ told = {}

ChooseTenant(t) ==
    /\ tenant = None
    /\ tenant' = t
    /\ UNCHANGED <<ledger, told>>

Settle(s, reply) ==
    /\ tenant # None
    /\ ledger[s] = None
    /\ ledger' = [ledger EXCEPT ![s] = reply]
    /\ UNCHANGED <<tenant, told>>

Tell(s) ==
    /\ ledger[s] # None
    /\ told' = told \cup {<<s, ledger[s]>>}
    /\ UNCHANGED <<ledger, tenant>>

Next ==
    \/ \E t \in Tenants : ChooseTenant(t)
    \/ \E s \in Slots : Tell(s) \/ \E reply \in Replies : Settle(s, reply)

Spec == Init /\ [][Next]_ledgerVars
=============================================================================
