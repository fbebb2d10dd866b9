---------------------------- MODULE Credentials ----------------------------
(***************************************************************************)
(* Which credentials a Playerok client is built from: a marketplaceAuth    *)
(* that an apply has stored, or the environment (models.py, storage.py,    *)
(* resolve_credentials in playerok_adapter.py).                            *)
(*                                                                         *)
(* A secret is a text that tells where it came from.                       *)
(***************************************************************************)
EXTENDS PayloadValues

CONSTANTS Secrets  \* the texts of credentials

ASSUME SecretsAssumption == Secrets \subseteq Texts

Names == {"token", "ddg5", "cookies", "user_agent"}

Schemes == {"tokens", "cookies"}

AuthPayloads ==
    [scheme: Schemes \cup {"golden_key"}, credentials: [Names -> Secrets \cup {None, Blank}]]

\* The PLAYEROK_* variables: WorkerConfig.load turns blank ones into None.
Environments == [Names -> Secrets \cup {None}]

Given(credentials) == {n \in Names : credentials[n] # None}

\* What Playerok needs under a scheme.
Required(scheme) == IF scheme = "tokens" THEN {"token", "ddg5"} ELSE {"cookies"}

\* Mutant: a key that is there will do, whatever its value.
KeysPresent(payload) ==
    payload.scheme \in Schemes /\ Required(payload.scheme) \subseteq Given(payload.credentials)

validate_marketplace_auth(payload) ==
    /\ payload.scheme \in Schemes
    /\ Given(payload.credentials) # {}
    /\ \A n \in Names : payload.credentials[n] # Blank
    /\ Required(payload.scheme) \subseteq Given(payload.credentials)

\* Blank values of a stored row are dropped, a row of nothing else counts as none.
read_marketplace_auth(row) ==
    IF row = None \/ \A n \in Names : row.credentials[n] \in {None, Blank} THEN None
    ELSE [row EXCEPT !.credentials = [n \in Names |-> IF @[n] = Blank THEN None ELSE @[n]]]

\* Mutant: an environment with cookies decides the scheme.
SchemeOfEnvironment(auth, env) ==
    IF env["cookies"] # None THEN "cookies" ELSE IF auth # None THEN auth.scheme ELSE "tokens"

Scheme(auth, env) ==
    IF auth # None THEN auth.scheme ELSE IF env["cookies"] # None THEN "cookies" ELSE "tokens"

_bootstrap_credentials_from_env(scheme, env) ==
    [n \in Names |->
        IF n \in Required(scheme) \cup {"user_agent"} THEN env[n] ELSE None]

\* PlayerokCredentials: what the scheme needs and the user agent, each from the
\* given credentials or else from the environment.
PlayerokCredentials(auth, env) ==
    LET scheme == Scheme(auth, env)
        given == IF auth # None THEN auth.credentials
                 ELSE _bootstrap_credentials_from_env(scheme, env)
    IN [scheme |-> scheme,
        credentials |-> [n \in Names |->
            IF n \in Required(scheme) \cup {"user_agent"} THEN Or(given[n], env[n]) ELSE None]]

Clients == [scheme: Schemes, credentials: [Names -> Secrets \cup {None}]]

\* resolve_credentials raises 400 if something the scheme needs is missing.
Usable(client) == Required(client.scheme) \subseteq Given(client.credentials)
=============================================================================
