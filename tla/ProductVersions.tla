-------------------------- MODULE ProductVersions --------------------------
(***************************************************************************)
(* playerok_adapter.py: a product that callers change through the worker   *)
(* while Playerok (moderation, a sale, the seller's own browser) changes   *)
(* it too.  A caller states the version it has seen as expectedVersion;    *)
(* the worker compares it with a fresh get_item and then sends update_item *)
(* without any condition.                                                  *)
(*                                                                         *)
(* Requests of the worker do not overlap (see WorkerApi); what happens at  *)
(* Playerok may fall between the two calls of one request.  An error other *)
(* than the version conflict leaves no trace, so it is not a step.         *)
(***************************************************************************)
EXTENDS Naturals

CONSTANTS
    None,
    Callers,
    Texts,     \* contents of a field
    Statuses,
    Patches,   \* the changes callers ask for
    MaxEdits   \* bound: changes of the product at Playerok, by anyone

VARIABLES
    stamped,     \* whether Playerok reports updated_at
    item,        \* external: the product as Playerok has it, or None
    request,     \* Callers -> what the caller saw and asks for, or None
    handler,     \* the caller whose update is between get_item and update_item
    raced,       \* history: the product changed at Playerok in between
    executions,  \* history: Callers -> executions of its request
    edits        \* changes so far, also what updated_at shows

vars == <<stamped, item, request, handler, raced, executions, edits>>

\* text: what _version_from_item digests (title, description, price, category);
\* hidden: what it leaves out (data fields, options, attachments).
Contents == [text: Texts, hidden: Texts, status: Statuses]

Items == [text: Texts, hidden: Texts, status: Statuses, stamp: 0..MaxEdits]

\* The fields a request names; None leaves one alone.
PatchType ==
    [text: Texts \cup {None}, hidden: Texts \cup {None},
     status: Statuses \cup {None}, quantity: BOOLEAN]

ASSUME AbsentAssumption == None \notin Texts \cup Statuses \cup Callers \cup Items

ASSUME PatchAssumption == Patches \subseteq PatchType

ASSUME BoundAssumption == MaxEdits \in Nat

\* The digest, taken as injective; `of` says which object it was taken from.
Versions == [of: {"item", "profile"}, text: Texts, status: Statuses, stamp: 0..MaxEdits]

\* Mutant: the digest leaves out updatedAt.
VersionUnstamped(i) ==
    [of |-> "item", text |-> i.text, status |-> i.status, stamp |-> 0]

\* _version_from_item of what get_item or update_item returns.
Version(i) == [of |-> "item", text |-> i.text, status |-> i.status, stamp |-> i.stamp]

\* The same function applied to an entry of get_items, which lacks attributes.
ProfileVersion(i) == [Version(i) EXCEPT !.of = "profile"]

\* A request of a caller: the item it saw and the version it was told of it,
\* what it wants, and whether it sends the version along.
Requests ==
    [base: Items, version: Versions, patch: Patches \cup {None}, guarded: BOOLEAN,
     answer: {"none", "ok", "conflict"}]

Deletes(r) == r.patch = None

\* The product with this content after the next change at Playerok.
Stamped(content) ==
    [text |-> content.text, hidden |-> content.hidden, status |-> content.status,
     stamp |-> IF stamped THEN edits + 1 ELSE 0]

Init ==
    /\ stamped \in BOOLEAN
    /\ item \in {i \in Items : i.stamp = 0}
    /\ request = [c \in Callers |-> None]
    /\ handler = None
    /\ raced = FALSE
    /\ executions = [c \in Callers |-> 0]
    /\ edits = 0

Changes(i) ==
    /\ item # None
    /\ edits < MaxEdits
    /\ edits' = edits + 1
    /\ item' = i

----------------------------------------------------------------------------
(* Playerok.                                                                *)

Edit(content) ==
    /\ Changes(Stamped(content))
    /\ raced' = (handler # None)
    /\ UNCHANGED <<stamped, request, handler, executions>>

Vanish ==
    /\ Changes(None)
    /\ raced' = (handler # None)
    /\ UNCHANGED <<stamped, request, handler, executions>>

----------------------------------------------------------------------------
(* The caller.  A request that failed may be sent again under its key; one  *)
(* that succeeded is only replayed.                                         *)

Ask(c, base, version, patch) ==
    /\ handler # c
    /\ \E guarded \in BOOLEAN :
          request' = [request EXCEPT ![c] =
                        [base |-> base, version |-> version, patch |-> patch,
                         guarded |-> guarded, answer |-> "none"]]
    /\ executions' = [executions EXCEPT ![c] = 0]
    /\ UNCHANGED <<stamped, item, handler, raced, edits>>

\* It asks after list_products, where an item whose get_item fails is listed from
\* its profile entry.
AskListed(c, patch) ==
    /\ handler = None
    /\ item # None
    /\ \E version \in {Version(item), ProfileVersion(item)} : Ask(c, item, version, patch)

\* It asks for a further change, with the version its last one was answered with.
AskAgain(c, patch) ==
    /\ request[c] # None
    /\ request[c].answer = "ok"
    /\ Ask(c, request[c].base, request[c].version, patch)

Open(c) == handler = None /\ request[c] # None /\ request[c].answer # "ok"

----------------------------------------------------------------------------
(* update_product.                                                          *)

\* Mutant: the comparison is missing.
ConflictNever(r) == FALSE

VersionConflict(r) == r.guarded /\ r.version # Version(item)

\* client.get_item finds the item, and the comparison of versions fails.
RefuseVersion(c) ==
    /\ Open(c)
    /\ ~Deletes(request[c])
    /\ item # None
    /\ ~request[c].patch.quantity
    /\ VersionConflict(request[c])
    /\ request' = [request EXCEPT ![c].answer = "conflict"]
    /\ UNCHANGED <<stamped, item, handler, raced, executions, edits>>

\* 409 for a quantity or another status, 404, 409 if nothing supported is asked.
Supported(r) ==
    /\ item # None
    /\ ~r.patch.quantity
    /\ r.patch.status \in {None, item.status}
    /\ r.patch.text # None \/ r.patch.hidden # None

\* All checks pass on what client.get_item returned; update_item comes next.
CheckItem(c) ==
    /\ Open(c)
    /\ ~Deletes(request[c])
    /\ Supported(request[c])
    /\ ~VersionConflict(request[c])
    /\ handler' = c
    /\ raced' = FALSE
    /\ UNCHANGED <<stamped, item, request, executions, edits>>

\* Mutant: a field the request does not name is cleared.
PatchedWithNone(r) == [item EXCEPT !.text = r.patch.text, !.hidden = r.patch.hidden]

\* Mutant: fields the request does not name are sent as the caller saw them.
PatchedOverSeen(r) ==
    [item EXCEPT !.text = IF r.patch.text = None THEN r.base.text ELSE r.patch.text,
                 !.hidden = IF r.patch.hidden = None THEN r.base.hidden ELSE r.patch.hidden]

\* update_item with None for every field the request does not name.
Patched(r) ==
    [item EXCEPT !.text = IF r.patch.text = None THEN @ ELSE r.patch.text,
                 !.hidden = IF r.patch.hidden = None THEN @ ELSE r.patch.hidden]

Execute(c, i) ==
    /\ Changes(i)
    /\ executions' = [executions EXCEPT ![c] = @ + 1]

\* Mutant: the reply carries the version the request was checked against.
VersionBefore(updated) == Version(item)

\* The version a reply carries.
VersionTold(updated) == Version(updated)

UpdateItem(c) ==
    /\ handler = c
    /\ item # None
    /\ LET updated == Stamped(Patched(request[c])) IN
         /\ Execute(c, updated)
         /\ request' = [request EXCEPT ![c].base = updated,
                                       ![c].version = VersionTold(updated),
                                       ![c].answer = "ok"]
    /\ handler' = None
    /\ UNCHANGED <<stamped, raced>>

\* update_item executes, but its answer or the record of it is lost.
UpdateUnheard(c) ==
    /\ handler = c
    /\ item # None
    /\ Execute(c, Stamped(Patched(request[c])))
    /\ handler' = None
    /\ UNCHANGED <<stamped, request, raced>>

\* Playerok refuses: the item is gone, or for a reason of its own.
UpdateRefused(c) ==
    /\ handler = c
    /\ handler' = None
    /\ UNCHANGED <<stamped, item, request, raced, executions, edits>>

----------------------------------------------------------------------------
(* delete_product: neither expectedVersion nor mode reaches the adapter.    *)

DeleteItem(c) ==
    /\ Open(c)
    /\ Deletes(request[c])
    /\ Execute(c, None)
    /\ \E answer \in {"none", "ok"} : request' = [request EXCEPT ![c].answer = answer]
    /\ UNCHANGED <<stamped, handler, raced>>

----------------------------------------------------------------------------

Next ==
    \/ Vanish \/ \E content \in Contents : Edit(content)
    \/ \E c \in Callers :
          \/ \E patch \in Patches \cup {None} : AskListed(c, patch) \/ AskAgain(c, patch)
          \/ RefuseVersion(c) \/ CheckItem(c)
          \/ UpdateItem(c) \/ UpdateUnheard(c) \/ UpdateRefused(c)
          \/ DeleteItem(c)

Spec == Init /\ [][Next]_vars

----------------------------------------------------------------------------
(* Properties.                                                              *)

TypeOK ==
    /\ stamped \in BOOLEAN
    /\ item \in Items \cup {None}
    /\ request \in [Callers -> Requests \cup {None}]
    /\ handler \in Callers \cup {None}
    /\ handler # None => request[handler] # None
    /\ raced \in BOOLEAN
    /\ executions \in [Callers -> Nat]
    /\ edits \in 0..MaxEdits

\* An update of c is executed in this step.
Updates(c) ==
    /\ executions'[c] = executions[c] + 1
    /\ ~Deletes(request[c])

\* A version conflict is real: unless the version came from a profile entry, the
\* product is not the one the caller saw when it decided.
ConflictsAreReal ==
    [][\A c \in Callers :
          /\ request[c] # None /\ request[c].version.of = "item"
          /\ request[c].answer # "conflict"
          /\ request'[c] = [request[c] EXCEPT !.answer = "conflict"]
          => item # request[c].base]_vars

\* A guarded update overwrites only what its caller has seen, if nothing happened
\* at Playerok between the two calls: other callers never get in between.  Without
\* updatedAt this covers only the fields the version is taken from.
UpdatesTheItemSeen ==
    [][\A c \in Callers :
          Updates(c) /\ request[c].guarded /\ ~raced =>
             LET base == request[c].base IN
               /\ item.text = base.text /\ item.status = base.status
               /\ stamped => item = base]_vars

\* With updatedAt in the version, a guarded update is executed once at most,
\* although a lost answer makes the caller send it again.
GuardedUpdateOnce ==
    \A c \in Callers :
        request[c] # None /\ request[c].guarded /\ stamped => executions[c] <= 1

\* What Playerok changed in a field that an update does not name survives it, also
\* when the change fell between the two calls.
ConcurrentEditsSurvive ==
    [][\A c \in Callers :
          Updates(c) =>
             LET patch == request[c].patch IN
               /\ patch.text = None => item'.text = item.text
               /\ patch.hidden = None => item'.hidden = item.hidden
               /\ item'.status = item.status]_vars

----------------------------------------------------------------------------
(* Statements of the repository that the code does not keep.                *)

\* playerok_adapter.py: a request whose expectedVersion is not the item's current
\* version is refused, so an update is executed on that version.
UpdateOnExpectedVersion ==
    [][\A c \in Callers :
          Updates(c) /\ request[c].guarded => Version(item) = request[c].version]_vars

\* models.py: a delete request has an expectedVersion, like an update.  So a product that
\* changed since its version was taken from it is not removed.
DeleteOnExpectedVersion ==
    [][\A c \in Callers :
          /\ executions'[c] = executions[c] + 1 /\ Deletes(request[c])
          /\ request[c].guarded /\ request[c].version.of = "item"
          => Version(item) = request[c].version]_vars
=============================================================================
