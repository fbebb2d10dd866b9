----------------------- MODULE ProductVersionsProofs -----------------------
(***************************************************************************)
(* Proofs about ProductVersions for every set of callers, field contents   *)
(* and patches, and every number of changes at Playerok.                   *)
(*                                                                         *)
(* None of the properties is inductive by itself.  What makes them hold is *)
(* that updated_at only grows, so that a stamp identifies the contents it  *)
(* was read with (SeenIsPast), and that a request in execution has passed  *)
(* a comparison nothing but Playerok can have invalidated (CheckHolds).    *)
(***************************************************************************)
EXTENDS ProductVersions, TLAPS

----------------------------------------------------------------------------
(* The inductive invariant.                                                 *)

\* What caller c was told comes from an item that existed, and if Playerok stamps
\* its items then the same stamp means the same item.
SeenBefore(c) ==
    request[c] # None =>
      LET base == request[c].base IN
        /\ request[c].version \in {Version(base), ProfileVersion(base)}
        /\ base.stamp <= edits
        /\ stamped /\ item # None /\ item.stamp = base.stamp => item = base

SeenIsPast ==
    /\ item # None => item.stamp <= edits
    /\ \A c \in Callers : SeenBefore(c)

\* An update between its two calls has passed the checks, on the item that is still
\* there unless Playerok changed it meanwhile.
CheckHolds ==
    handler # None =>
      /\ ~Deletes(request[handler])
      /\ request[handler].answer # "ok"
      /\ ~raced => Supported(request[handler]) /\ ~VersionConflict(request[handler])

\* A guarded request of c that was executed finds its version gone for good, so it
\* was executed once and is not in execution again.
StaysBehind(c) ==
    request[c] # None /\ request[c].guarded /\ stamped /\ executions[c] # 0 =>
      /\ executions[c] = 1
      /\ handler # c
      /\ \/ request[c].answer = "ok"
         \/ item = None
         \/ ~Deletes(request[c]) /\ item.stamp > request[c].version.stamp

OverwrittenStaysBehind == \A c \in Callers : StaysBehind(c)

Inv == TypeOK /\ SeenIsPast /\ CheckHolds /\ OverwrittenStaysBehind

----------------------------------------------------------------------------
(* The vocabulary.                                                          *)

\* An item has the fields its type says, and is not the absent one.
LEMMA ItemFields ==
    ASSUME NEW i \in Items
    PROVE  /\ i # None
           /\ i.text \in Texts /\ i.hidden \in Texts /\ i.status \in Statuses
           /\ i.stamp \in 0..MaxEdits /\ i.stamp \in Nat
  BY AbsentAssumption, BoundAssumption DEF Items

\* Two items with the same fields are the same.
LEMMA ItemEqual ==
    ASSUME NEW i \in Items, NEW j \in Items,
           i.text = j.text, i.hidden = j.hidden, i.status = j.status, i.stamp = j.stamp
    PROVE  i = j
  BY DEF Items

\* A version is the stated fields of the item it was taken from.
LEMMA VersionFields ==
    ASSUME NEW i \in Items
    PROVE  /\ Version(i) \in Versions /\ ProfileVersion(i) \in Versions
           /\ Version(i).of = "item" /\ ProfileVersion(i).of = "profile"
           /\ Version(i).stamp = i.stamp /\ ProfileVersion(i).stamp = i.stamp
           /\ Version(i) # ProfileVersion(i)
  BY DEF Version, ProfileVersion, Versions, Items

\* Equal versions of two items: the fields a version is taken from are equal.
LEMMA VersionsAgree ==
    ASSUME NEW i \in Items, NEW j \in Items,
           Version(i) \in {Version(j), ProfileVersion(j)}
    PROVE  i.text = j.text /\ i.status = j.status /\ i.stamp = j.stamp
<1>1. Version(i) = Version(j)
  BY VersionFields
<1> QED
  BY <1>1 DEF Version

\* A request has the fields its type says.
LEMMA RequestFields ==
    ASSUME TypeOK, NEW c \in Callers, request[c] # None
    PROVE  /\ request[c] \in Requests
           /\ request[c].base \in Items /\ request[c].version \in Versions
           /\ request[c].patch \in PatchType \cup {None}
           /\ request[c].guarded \in BOOLEAN
           /\ request[c].answer \in {"none", "ok", "conflict"}
  BY PatchAssumption DEF TypeOK, Requests

\* A change of the product at Playerok is an item with a new stamp.
LEMMA StampedType ==
    ASSUME TypeOK, edits < MaxEdits, NEW content,
           content.text \in Texts, content.hidden \in Texts, content.status \in Statuses
    PROVE  /\ Stamped(content) \in Items
           /\ Stamped(content).stamp <= edits + 1
           /\ stamped => Stamped(content).stamp = edits + 1
  BY BoundAssumption DEF Stamped, Items, TypeOK

\* What update_item makes of the item changes no status, and no field without a
\* patch.
LEMMA PatchedFields ==
    ASSUME TypeOK, NEW r \in Requests, ~Deletes(r), item # None
    PROVE  /\ Patched(r).text \in Texts /\ Patched(r).hidden \in Texts
           /\ Patched(r).status = item.status /\ item.status \in Statuses
           /\ r.patch.text = None => Patched(r).text = item.text
           /\ r.patch.hidden = None => Patched(r).hidden = item.hidden
<1>1. item \in Items
  BY DEF TypeOK
<1>2. r.patch \in PatchType
  BY PatchAssumption DEF Requests, Deletes
<1>3. /\ r.patch.text \in Texts \cup {None}
      /\ r.patch.hidden \in Texts \cup {None}
  BY <1>2 DEF PatchType
<1> QED
  BY <1>1, <1>3 DEF Patched, Items

----------------------------------------------------------------------------
(* What a change of the product leaves true.                                *)

\* The product changed: it is gone, or it has a stamp nobody has seen.
Changed ==
    /\ item # None
    /\ edits' = edits + 1 /\ edits' \in 0..MaxEdits
    /\ stamped' = stamped
    /\ \/ item' = None
       \/ /\ item' \in Items
          /\ item'.stamp <= edits'
          /\ stamped => item'.stamp = edits'

\* An edit or an update with well-typed contents changes the product.
LEMMA EditChanges ==
    ASSUME TypeOK, NEW content, stamped' = stamped,
           content.text \in Texts, content.hidden \in Texts, content.status \in Statuses,
           Changes(Stamped(content))
    PROVE  Changed
<1>1. edits < MaxEdits => edits + 1 \in 0..MaxEdits
  BY BoundAssumption DEF TypeOK
<1> QED
  BY <1>1, StampedType DEF Changes, Changed

\* So does a removal.
LEMMA RemovalChanges ==
    ASSUME TypeOK, stamped' = stamped, Changes(None)
    PROVE  Changed
  BY BoundAssumption DEF Changes, Changed, TypeOK

\* Whoever keeps its request over a change has still seen the past.
LEMMA ChangeKeepsSeen ==
    ASSUME Inv, Changed, NEW c \in Callers, request'[c] = request[c]
    PROVE  SeenBefore(c)'
<1> SUFFICES ASSUME request[c] # None
             PROVE  SeenBefore(c)'
  BY DEF SeenBefore
<1>1. request[c].base.stamp \in Nat /\ edits \in Nat
  BY RequestFields, ItemFields, BoundAssumption DEF Inv, TypeOK
<1>2. /\ request[c].version \in {Version(request[c].base), ProfileVersion(request[c].base)}
      /\ request[c].base.stamp <= edits
  BY DEF Inv, SeenIsPast, SeenBefore
<1>3. stamped /\ item' # None => item'.stamp # request[c].base.stamp
  BY <1>1, <1>2 DEF Changed
<1> QED
  BY <1>1, <1>2, <1>3 DEF SeenBefore, Changed, Version, ProfileVersion

\* The stamp of what a request has seen is not beyond the changes so far.
LEMMA VersionIsPast ==
    ASSUME Inv, NEW c \in Callers, request[c] # None
    PROVE  /\ request[c].version.stamp = request[c].base.stamp
           /\ request[c].version.stamp \in 0..edits
<1>1. request[c].base \in Items
  BY RequestFields DEF Inv
<1>2. /\ request[c].version \in {Version(request[c].base), ProfileVersion(request[c].base)}
      /\ request[c].base.stamp <= edits
  BY DEF Inv, SeenIsPast, SeenBefore
<1> QED
  BY <1>1, <1>2, VersionFields, ItemFields DEF Inv, TypeOK

\* Whoever keeps its request over a change stays behind.
LEMMA ChangeKeepsBehind ==
    ASSUME Inv, Changed, NEW c \in Callers, request'[c] = request[c],
           executions'[c] = executions[c], handler' \in {handler, None}
    PROVE  StaysBehind(c)'
<1> SUFFICES ASSUME request[c] # None, request[c].guarded, stamped, executions[c] # 0
             PROVE  StaysBehind(c)'
  BY DEF StaysBehind, Changed
<1>1. /\ executions[c] = 1 /\ handler # c
      /\ request[c].answer = "ok" \/ ~Deletes(request[c])
  BY DEF Inv, OverwrittenStaysBehind, StaysBehind, Changed
<1>2. item' # None => item'.stamp > request[c].version.stamp
  BY VersionIsPast DEF Inv, TypeOK, Changed
<1>3. handler' # c
  BY <1>1, AbsentAssumption
<1> QED
  BY <1>1, <1>2, <1>3 DEF StaysBehind, Deletes

----------------------------------------------------------------------------
(* Each action keeps the invariant.                                         *)

\* The initial states satisfy it.
LEMMA InitInv == Init => Inv
<1> SUFFICES ASSUME Init PROVE Inv
  OBVIOUS
<1>1. item \in Items /\ item.stamp = 0 /\ edits = 0
  BY DEF Init
<1>2. TypeOK
  <2>1. /\ request \in [Callers -> Requests \cup {None}]
        /\ executions \in [Callers -> Nat]
    BY DEF Init
  <2>2. edits \in 0..MaxEdits
    BY <1>1, BoundAssumption
  <2> QED
    BY <1>1, <2>1, <2>2 DEF Init, TypeOK
<1>3. \A c \in Callers : request[c] = None
  BY DEF Init
<1> QED
  BY <1>1, <1>2, <1>3 DEF Init, Inv, SeenIsPast, SeenBefore, CheckHolds,
     OverwrittenStaysBehind, StaysBehind

\* What happens at Playerok keeps it.
LEMMA PlayerokKeeps ==
    ASSUME Inv, Vanish \/ \E content \in Contents : Edit(content)
    PROVE  Inv'
<1>1. Changed
  BY EditChanges, RemovalChanges DEF Inv, Vanish, Edit, Contents
<1>2. UNCHANGED <<stamped, request, handler, executions>> /\ raced' = (handler # None)
  BY DEF Vanish, Edit
<1>3. TypeOK'
  BY <1>1, <1>2 DEF Inv, TypeOK, Changed
<1>4. SeenIsPast'
  <2>1. \A c \in Callers : SeenBefore(c)'
    BY <1>1, <1>2, ChangeKeepsSeen
  <2> QED
    BY <1>1, <2>1 DEF SeenIsPast, Changed
<1>5. CheckHolds'
  BY <1>2 DEF Inv, CheckHolds, Deletes
<1>6. OverwrittenStaysBehind'
  BY <1>1, <1>2, ChangeKeepsBehind DEF OverwrittenStaysBehind
<1> QED
  BY <1>3, <1>4, <1>5, <1>6 DEF Inv

\* Asking keeps it: the item seen is the current one, or the one the caller's own
\* update produced.
LEMMA AskKeeps ==
    ASSUME Inv, NEW c \in Callers, NEW patch \in Patches \cup {None},
           AskListed(c, patch) \/ AskAgain(c, patch)
    PROVE  Inv'
<1>1. PICK base, version, guarded :
        /\ handler # c /\ guarded \in BOOLEAN
        /\ request' = [request EXCEPT ![c] =
                         [base |-> base, version |-> version, patch |-> patch,
                          guarded |-> guarded, answer |-> "none"]]
        /\ executions' = [executions EXCEPT ![c] = 0]
        /\ UNCHANGED <<stamped, item, handler, raced, edits>>
        /\ \/ item # None /\ base = item /\ version \in {Version(item), ProfileVersion(item)}
           \/ /\ request[c] # None
              /\ base = request[c].base /\ version = request[c].version
  BY DEF AskListed, AskAgain, Ask
<1> DEFINE asked == [base |-> base, version |-> version, patch |-> patch,
                     guarded |-> guarded, answer |-> "none"]
<1>2. base \in Items /\ version \in {Version(base), ProfileVersion(base)} /\ base.stamp <= edits
      /\ (stamped /\ item # None /\ item.stamp = base.stamp => item = base)
  BY <1>1, RequestFields DEF Inv, TypeOK, SeenIsPast, SeenBefore
<1>3. asked \in Requests
  <2>1. version \in Versions
    BY <1>2, VersionFields
  <2> QED
    BY <1>1, <1>2, <2>1 DEF Requests
<1>4. /\ request'[c] = asked /\ executions'[c] = 0
      /\ \A d \in Callers : d # c => request'[d] = request[d] /\ executions'[d] = executions[d]
  BY <1>1 DEF Inv, TypeOK
<1>5. TypeOK'
  <2>1. request' \in [Callers -> Requests \cup {None}] /\ executions' \in [Callers -> Nat]
    BY <1>1, <1>3 DEF Inv, TypeOK
  <2>2. handler # None => request'[handler] # None
    BY <1>1, <1>4 DEF Inv, TypeOK
  <2> QED
    BY <1>1, <2>1, <2>2 DEF Inv, TypeOK
<1>6. SeenIsPast'
  <2>1. SeenBefore(c)'
    BY <1>1, <1>2, <1>4 DEF SeenBefore, Version, ProfileVersion
  <2>2. ASSUME NEW d \in Callers, d # c
        PROVE  SeenBefore(d)'
    BY <1>1, <1>4, <2>2 DEF Inv, SeenIsPast, SeenBefore, Version, ProfileVersion
  <2> QED
    BY <1>1, <2>1, <2>2 DEF Inv, SeenIsPast
<1>7. CheckHolds'
  BY <1>1, <1>4 DEF Inv, TypeOK, CheckHolds, Deletes, Supported, VersionConflict, Version
<1>8. OverwrittenStaysBehind'
  <2>1. StaysBehind(c)'
    BY <1>4 DEF StaysBehind
  <2>2. ASSUME NEW d \in Callers, d # c
        PROVE  StaysBehind(d)'
    BY <1>1, <1>4, <2>2 DEF Inv, OverwrittenStaysBehind, StaysBehind
  <2> QED
    BY <2>1, <2>2 DEF OverwrittenStaysBehind
<1> QED
  BY <1>5, <1>6, <1>7, <1>8 DEF Inv

\* A refusal for the version keeps it: only the answer changes.
LEMMA RefusalKeeps ==
    ASSUME Inv, NEW c \in Callers, RefuseVersion(c)
    PROVE  Inv'
<1>1. /\ handler = None /\ request[c] # None /\ request[c].answer # "ok"
      /\ request' = [request EXCEPT ![c].answer = "conflict"]
      /\ UNCHANGED <<stamped, item, handler, raced, executions, edits>>
  BY DEF RefuseVersion, Open
<1>2. request[c] \in Requests
  BY <1>1, RequestFields DEF Inv
<1>3. /\ request'[c] \in Requests
      /\ request'[c].base = request[c].base /\ request'[c].version = request[c].version
      /\ request'[c].guarded = request[c].guarded /\ request'[c].patch = request[c].patch
      /\ \A d \in Callers : d # c => request'[d] = request[d]
  BY <1>1, <1>2 DEF Inv, TypeOK, Requests
<1>4. TypeOK'
  BY <1>1, <1>3 DEF Inv, TypeOK
<1>5. ASSUME NEW d \in Callers
      PROVE  SeenBefore(d)' /\ StaysBehind(d)'
  <2>1. SeenBefore(d) /\ StaysBehind(d)
    BY DEF Inv, SeenIsPast, OverwrittenStaysBehind
  <2>2. CASE d = c
    BY <1>1, <1>3, <2>1, <2>2 DEF SeenBefore, StaysBehind, Deletes, Version, ProfileVersion
  <2>3. CASE d # c
    BY <1>1, <1>3, <2>1, <2>3 DEF SeenBefore, StaysBehind, Deletes, Version, ProfileVersion
  <2> QED
    BY <2>2, <2>3
<1>6. SeenIsPast'
  BY <1>1, <1>5 DEF Inv, SeenIsPast
<1> QED
  BY <1>1, <1>4, <1>5, <1>6 DEF Inv, CheckHolds, OverwrittenStaysBehind

\* The check establishes what it is for; a request that was executed before does not
\* pass it.
LEMMA CheckKeeps ==
    ASSUME Inv, NEW c \in Callers, CheckItem(c)
    PROVE  Inv'
<1>1. /\ request[c] # None /\ request[c].answer # "ok" /\ ~Deletes(request[c])
      /\ Supported(request[c]) /\ ~VersionConflict(request[c])
      /\ handler' = c /\ raced' = FALSE
      /\ UNCHANGED <<stamped, item, request, executions, edits>>
  BY DEF CheckItem, Open
<1>2. TypeOK'
  BY <1>1, AbsentAssumption DEF Inv, TypeOK
<1>3. SeenIsPast'
  BY <1>1 DEF Inv, SeenIsPast, SeenBefore, Version, ProfileVersion
<1>4. CheckHolds'
  BY <1>1 DEF CheckHolds, Deletes, Supported, VersionConflict, Version
<1>5. ASSUME request[c].guarded, stamped
      PROVE  executions[c] = 0
  <2>1. item \in Items /\ item # None
    BY <1>1 DEF Inv, TypeOK, Supported
  <2>2. item.stamp = request[c].version.stamp
    BY <1>1, <1>5, <2>1, VersionFields DEF VersionConflict
  <2>3. ~(item.stamp > request[c].version.stamp)
    BY <2>1, <2>2, ItemFields
  <2> QED
    BY <1>1, <1>5, <2>1, <2>3 DEF Inv, OverwrittenStaysBehind, StaysBehind
<1>6. OverwrittenStaysBehind'
  BY <1>1, <1>5 DEF Inv, OverwrittenStaysBehind, StaysBehind
<1> QED
  BY <1>2, <1>3, <1>4, <1>6 DEF Inv

\* What an executed update does, whether or not its answer arrives.
LEMMA UpdateExecutes ==
    ASSUME Inv, NEW c \in Callers, UpdateItem(c) \/ UpdateUnheard(c)
    PROVE  /\ request[c] # None /\ request[c] \in Requests /\ ~Deletes(request[c])
           /\ request[c].answer # "ok"
           /\ item' = Stamped(Patched(request[c])) /\ item' \in Items
           /\ Changed
           /\ executions' = [executions EXCEPT ![c] = @ + 1]
           /\ handler = c /\ handler' = None /\ raced' = raced
           /\ request[c].guarded /\ stamped => executions[c] = 0
<1>1. /\ handler = c /\ item # None /\ handler' = None
      /\ Execute(c, Stamped(Patched(request[c])))
      /\ stamped' = stamped /\ raced' = raced
  BY DEF UpdateItem, UpdateUnheard
<1>2. /\ request[c] # None /\ request[c] \in Requests /\ ~Deletes(request[c])
      /\ request[c].answer # "ok"
  BY <1>1, AbsentAssumption, RequestFields DEF Inv, TypeOK, CheckHolds
<1>3. /\ Patched(request[c]).text \in Texts /\ Patched(request[c]).hidden \in Texts
      /\ Patched(request[c]).status \in Statuses
  BY <1>1, <1>2, PatchedFields DEF Inv
<1>4. Changed
  BY <1>1, <1>3, EditChanges DEF Inv, Execute
<1>5. item' = Stamped(Patched(request[c])) /\ edits < MaxEdits
  BY <1>1 DEF Execute, Changes
<1>6. item' \in Items
  BY <1>3, <1>5, StampedType DEF Inv
<1>7. request[c].guarded /\ stamped => executions[c] = 0
  BY <1>1, <1>2 DEF Inv, OverwrittenStaysBehind, StaysBehind
<1> QED
  BY <1>1, <1>2, <1>4, <1>5, <1>6, <1>7 DEF Execute

\* An execution in place of c keeps the invariant if what it does to the request of c
\* does: the others keep theirs.
LEMMA ExecutionKeeps ==
    ASSUME Inv, Changed, NEW c \in Callers,
           handler \in {None, c}, handler' = None, raced' = raced,
           request' \in [Callers -> Requests \cup {None}],
           executions' = [executions EXCEPT ![c] = @ + 1],
           \A d \in Callers : d # c => request'[d] = request[d],
           SeenBefore(c)', StaysBehind(c)'
    PROVE  Inv'
<1>1. TypeOK'
  <2>1. executions' \in [Callers -> Nat]
    BY DEF Inv, TypeOK
  <2> QED
    BY <2>1 DEF Inv, TypeOK, Changed
<1>2. SeenIsPast'
  <2>1. \A d \in Callers : SeenBefore(d)'
    BY ChangeKeepsSeen
  <2> QED
    BY <2>1 DEF SeenIsPast, Changed
<1>3. OverwrittenStaysBehind'
  <2>1. ASSUME NEW d \in Callers, d # c
        PROVE  StaysBehind(d)'
    <3>1. executions'[d] = executions[d] /\ request'[d] = request[d]
      BY <2>1 DEF Inv, TypeOK
    <3> QED
      BY <2>1, <3>1, ChangeKeepsBehind
  <2> QED
    BY <2>1 DEF OverwrittenStaysBehind
<1> QED
  BY <1>1, <1>2, <1>3 DEF Inv, CheckHolds

\* An answered update keeps it: its caller has seen the new item.
LEMMA AnsweredKeeps ==
    ASSUME Inv, NEW c \in Callers, UpdateItem(c)
    PROVE  Inv'
<1> DEFINE r == request[c]
<1>1. /\ r # None /\ r \in Requests /\ item' \in Items /\ item' = Stamped(Patched(r))
      /\ Changed
      /\ executions' = [executions EXCEPT ![c] = @ + 1]
      /\ handler = c /\ handler' = None /\ raced' = raced
      /\ r.guarded /\ stamped => executions[c] = 0
  BY UpdateExecutes
<1>2. /\ item'.stamp <= edits' /\ VersionTold(item') \in Versions
      /\ VersionTold(item') = Version(item')
  BY <1>1, ItemFields, VersionFields DEF Changed, VersionTold
<1>3. request' = [request EXCEPT ![c].base = item', ![c].version = VersionTold(item'),
                                 ![c].answer = "ok"]
  BY <1>1 DEF UpdateItem
<1>4. /\ request'[c] \in Requests
      /\ request'[c].base = item' /\ request'[c].version = Version(item')
      /\ request'[c].answer = "ok" /\ request'[c].guarded = r.guarded
      /\ \A d \in Callers : d # c => request'[d] = request[d]
  BY <1>1, <1>2, <1>3 DEF Inv, TypeOK, Requests
<1>5. request' \in [Callers -> Requests \cup {None}]
  BY <1>3, <1>4 DEF Inv, TypeOK
<1>6. SeenBefore(c)'
  BY <1>2, <1>4 DEF SeenBefore, Version, ProfileVersion
<1>7. StaysBehind(c)'
  <2>1. executions'[c] = executions[c] + 1 /\ executions[c] \in Nat
    BY <1>1 DEF Inv, TypeOK
  <2>2. handler' # c
    BY <1>1, AbsentAssumption
  <2> QED
    BY <1>1, <1>4, <2>1, <2>2 DEF StaysBehind, Changed
<1> QED
  BY <1>1, <1>4, <1>5, <1>6, <1>7, ExecutionKeeps

\* An update whose answer is lost keeps it: its caller is left behind.
LEMMA UnheardKeeps ==
    ASSUME Inv, NEW c \in Callers, UpdateUnheard(c)
    PROVE  Inv'
<1> DEFINE r == request[c]
<1>1. /\ r # None /\ r \in Requests /\ item' \in Items
      /\ Changed
      /\ executions' = [executions EXCEPT ![c] = @ + 1]
      /\ handler = c /\ handler' = None /\ raced' = raced
      /\ r.guarded /\ stamped => executions[c] = 0
  BY UpdateExecutes
<1>2. request' = request
  BY DEF UpdateUnheard
<1>3. SeenBefore(c)'
  BY <1>1, <1>2, ChangeKeepsSeen
<1>4. StaysBehind(c)'
  <2> SUFFICES ASSUME r.guarded, stamped
               PROVE  StaysBehind(c)'
    BY <1>1, <1>2 DEF StaysBehind, Changed
  <2>1. executions'[c] = 1
    BY <1>1 DEF Inv, TypeOK
  <2>2. item'.stamp > r.version.stamp
    BY <1>1, VersionIsPast, ItemFields DEF Inv, TypeOK, Changed
  <2>3. handler' # c
    BY <1>1, AbsentAssumption
  <2>4. ~Deletes(r)
    BY UpdateExecutes
  <2> QED
    BY <1>2, <2>1, <2>2, <2>3, <2>4 DEF StaysBehind, Deletes
<1> QED
  BY <1>1, <1>2, <1>3, <1>4, ExecutionKeeps DEF Inv, TypeOK

\* A refused update keeps it.
LEMMA UpdateRefusedKeeps ==
    ASSUME Inv, NEW c \in Callers, UpdateRefused(c)
    PROVE  Inv'
<1>1. handler' = None /\ UNCHANGED <<stamped, item, request, raced, executions, edits>>
  BY DEF UpdateRefused
<1>2. TypeOK'
  BY <1>1 DEF Inv, TypeOK
<1>3. SeenIsPast'
  BY <1>1 DEF Inv, SeenIsPast, SeenBefore, Version, ProfileVersion
<1>4. OverwrittenStaysBehind'
  BY <1>1, AbsentAssumption DEF Inv, OverwrittenStaysBehind, StaysBehind
<1> QED
  BY <1>1, <1>2, <1>3, <1>4 DEF Inv, CheckHolds

\* A removal keeps it: no version matches a product that is gone.
LEMMA DeleteKeeps ==
    ASSUME Inv, NEW c \in Callers, DeleteItem(c)
    PROVE  Inv'
<1> DEFINE r == request[c]
<1>1. PICK answer \in {"none", "ok"} :
        /\ handler = None /\ handler' = None /\ raced' = raced /\ stamped' = stamped
        /\ r # None /\ Changes(None)
        /\ executions' = [executions EXCEPT ![c] = @ + 1]
        /\ request' = [request EXCEPT ![c].answer = answer]
  BY DEF DeleteItem, Open, Execute
<1>2. Changed /\ item # None /\ item' = None
  BY <1>1, RemovalChanges DEF Inv, Changes
<1>3. r \in Requests
  BY <1>1, RequestFields DEF Inv
<1>4. /\ request'[c] \in Requests
      /\ request'[c].base = r.base /\ request'[c].version = r.version
      /\ request'[c].guarded = r.guarded
      /\ \A d \in Callers : d # c => request'[d] = request[d]
  BY <1>1, <1>3 DEF Inv, TypeOK, Requests
<1>5. request' \in [Callers -> Requests \cup {None}]
  BY <1>1, <1>4 DEF Inv, TypeOK
<1>6. SeenBefore(c)'
  <2>1. r.version \in {Version(r.base), ProfileVersion(r.base)} /\ r.base.stamp <= edits
    BY <1>1 DEF Inv, SeenIsPast, SeenBefore
  <2>2. r.base.stamp <= edits'
    BY <1>2, <1>3, <2>1, ItemFields DEF Changed, Requests, Inv, TypeOK
  <2> QED
    BY <1>2, <1>4, <2>1, <2>2 DEF SeenBefore, Version, ProfileVersion
<1>7. StaysBehind(c)'
  <2> SUFFICES ASSUME r.guarded, stamped
               PROVE  StaysBehind(c)'
    BY <1>1, <1>4 DEF StaysBehind
  <2>1. executions[c] = 0
    <3>1. r.answer # "ok" /\ Deletes(r)
      BY DEF DeleteItem, Open
    <3> QED
      BY <1>1, <1>2, <3>1 DEF Inv, OverwrittenStaysBehind, StaysBehind
  <2> QED
    BY <1>1, <1>2, <2>1, AbsentAssumption DEF StaysBehind, Inv, TypeOK
<1> QED
  BY <1>1, <1>2, <1>4, <1>5, <1>6, <1>7, ExecutionKeeps

----------------------------------------------------------------------------
(* What holds in every state.                                               *)

\* Every step keeps the invariant.
LEMMA StepKeeps ==
    ASSUME Inv, [Next]_vars
    PROVE  Inv'
<1>1. CASE Vanish \/ \E content \in Contents : Edit(content)
  BY <1>1, PlayerokKeeps
<1>2. ASSUME NEW c \in Callers, NEW patch \in Patches \cup {None},
             AskListed(c, patch) \/ AskAgain(c, patch)
      PROVE  Inv'
  BY <1>2, AskKeeps
<1>3. ASSUME NEW c \in Callers, RefuseVersion(c) \/ CheckItem(c)
      PROVE  Inv'
  BY <1>3, RefusalKeeps, CheckKeeps
<1>4. ASSUME NEW c \in Callers, UpdateItem(c) \/ UpdateUnheard(c) \/ UpdateRefused(c)
      PROVE  Inv'
  BY <1>4, AnsweredKeeps, UnheardKeeps, UpdateRefusedKeeps
<1>5. ASSUME NEW c \in Callers, DeleteItem(c)
      PROVE  Inv'
  BY <1>5, DeleteKeeps
<1>6. CASE UNCHANGED vars
  BY <1>6 DEF vars, Inv, TypeOK, SeenIsPast, SeenBefore, CheckHolds, OverwrittenStaysBehind,
     StaysBehind, Deletes, Supported, VersionConflict, Version, ProfileVersion
<1> QED
  BY <1>1, <1>2, <1>3, <1>4, <1>5, <1>6 DEF Next

\* The invariant holds throughout.
THEOREM InvHolds == Spec => []Inv
  BY InitInv, StepKeeps, PTL DEF Spec

\* The product, the requests and the update in execution are well-typed: TypeOK.
THEOREM TypesHold == Spec => []TypeOK
<1>1. Inv => TypeOK
  BY DEF Inv
<1> QED
  BY <1>1, InvHolds, PTL

\* With updatedAt in the version, a guarded update is executed once at most however
\* often its caller repeats it: GuardedUpdateOnce.
THEOREM GuardedOnce == Spec => []GuardedUpdateOnce
<1>1. Inv => GuardedUpdateOnce
  <2> SUFFICES ASSUME Inv, NEW c \in Callers, request[c] # None, request[c].guarded, stamped
               PROVE  executions[c] <= 1
    BY DEF GuardedUpdateOnce
  <2>1. executions[c] \in Nat /\ (executions[c] # 0 => executions[c] = 1)
    BY DEF Inv, TypeOK, OverwrittenStaysBehind, StaysBehind
  <2> QED
    BY <2>1
<1> QED
  BY <1>1, InvHolds, PTL

----------------------------------------------------------------------------
(* What no step does.                                                       *)

\* Only the two outcomes of update_item execute an update.
LEMMA UpdatingSteps ==
    ASSUME Inv, [Next]_vars, NEW c \in Callers, Updates(c)
    PROVE  UpdateItem(c) \/ UpdateUnheard(c)
<1>1. executions \in [Callers -> Nat] /\ executions'[c] = executions[c] + 1
  BY DEF Inv, TypeOK, Updates
<1>2. executions'[c] # executions[c] /\ executions'[c] # 0
  BY <1>1
<1>3. ~UNCHANGED executions
  BY <1>2
<1>4. PICK d \in Callers :
        \/ \E patch \in Patches \cup {None} : AskListed(d, patch) \/ AskAgain(d, patch)
        \/ UpdateItem(d) \/ UpdateUnheard(d) \/ DeleteItem(d)
  BY <1>3 DEF Next, vars, Vanish, Edit, RefuseVersion, CheckItem, UpdateRefused
<1>5. ~(\E patch \in Patches \cup {None} : AskListed(d, patch) \/ AskAgain(d, patch))
  BY <1>1, <1>2 DEF AskListed, AskAgain, Ask
<1>6. executions' = [executions EXCEPT ![d] = @ + 1]
  BY <1>4, <1>5 DEF UpdateItem, UpdateUnheard, DeleteItem, Execute
<1>7. d = c
  BY <1>1, <1>2, <1>6
<1> QED
  BY <1>4, <1>5, <1>7 DEF DeleteItem, Updates

\* A refusal for the version is given to a caller whose item is no longer the one it
\* saw: ConflictsAreReal.
THEOREM ConflictsHaveCause == Spec => ConflictsAreReal
<1>1. ASSUME Inv, [Next]_vars, NEW c \in Callers,
             request[c] # None, request[c].version.of = "item",
             request[c].answer # "conflict",
             request'[c] = [request[c] EXCEPT !.answer = "conflict"]
      PROVE  item # request[c].base
  <2>1. request[c] \in Requests /\ request[c].base \in Items
    BY <1>1, RequestFields DEF Inv
  <2>2. request'[c].answer = "conflict" /\ request'[c] # request[c]
    BY <1>1, <2>1 DEF Requests
  <2>3. RefuseVersion(c)
    <3>1. request' # request
      BY <2>2
    <3>2. PICK d \in Callers :
            \/ \E patch \in Patches \cup {None} : AskListed(d, patch) \/ AskAgain(d, patch)
            \/ RefuseVersion(d) \/ UpdateItem(d) \/ DeleteItem(d)
      BY <1>1, <3>1 DEF Next, vars, Vanish, Edit, CheckItem, UpdateUnheard, UpdateRefused
    <3>3. \A e \in Callers : e # d => request'[e] = request[e]
      BY <1>1, <3>2 DEF AskListed, AskAgain, Ask, RefuseVersion, UpdateItem, DeleteItem, Inv,
         TypeOK
    <3>4. d = c
      BY <2>2, <3>3
    <3>5. request \in [Callers -> Requests \cup {None}]
      BY <1>1 DEF Inv, TypeOK
    <3>6. ~(\E patch \in Patches \cup {None} : AskListed(c, patch) \/ AskAgain(c, patch))
      BY <2>2, <3>5 DEF AskListed, AskAgain, Ask
    <3>7. ~UpdateItem(c) /\ ~DeleteItem(c)
      BY <2>1, <2>2, <3>5 DEF UpdateItem, DeleteItem, Requests
    <3> QED
      BY <3>2, <3>4, <3>6, <3>7
  <2>4. item \in Items /\ request[c].version # Version(item)
    BY <1>1, <2>3 DEF RefuseVersion, VersionConflict, Inv, TypeOK
  <2>5. request[c].version = Version(request[c].base)
    BY <1>1, <2>1, VersionFields DEF Inv, SeenIsPast, SeenBefore
  <2> QED
    BY <2>4, <2>5
<1>2. Inv /\ [Next]_vars =>
        [\A c \in Callers :
            /\ request[c] # None /\ request[c].version.of = "item"
            /\ request[c].answer # "conflict"
            /\ request'[c] = [request[c] EXCEPT !.answer = "conflict"]
            => item # request[c].base]_vars
  BY <1>1
<1> QED
  BY <1>2, InvHolds, PTL DEF Spec, ConflictsAreReal

\* A guarded update that nothing at Playerok came before is executed on the item its
\* caller saw: UpdatesTheItemSeen.
THEOREM SeenIsUpdated == Spec => UpdatesTheItemSeen
<1>1. ASSUME Inv, [Next]_vars, NEW c \in Callers,
             Updates(c), request[c].guarded, ~raced
      PROVE  /\ item.text = request[c].base.text /\ item.status = request[c].base.status
             /\ stamped => item = request[c].base
  <2>1. /\ handler = c /\ request[c] # None /\ item # None
    BY <1>1, UpdatingSteps, UpdateExecutes DEF Changed
  <2>2. item \in Items /\ request[c].base \in Items
    BY <1>1, <2>1, RequestFields DEF Inv, TypeOK
  <2>3. Version(item) = request[c].version
    BY <1>1, <2>1, AbsentAssumption DEF Inv, CheckHolds, VersionConflict
  <2>4. request[c].version \in {Version(request[c].base), ProfileVersion(request[c].base)}
    BY <1>1, <2>1 DEF Inv, SeenIsPast, SeenBefore
  <2>5. /\ item.text = request[c].base.text /\ item.status = request[c].base.status
        /\ item.stamp = request[c].base.stamp
    BY <2>2, <2>3, <2>4, VersionsAgree
  <2> QED
    BY <1>1, <2>1, <2>5 DEF Inv, SeenIsPast, SeenBefore
<1>2. Inv /\ [Next]_vars =>
        [\A c \in Callers :
            Updates(c) /\ request[c].guarded /\ ~raced =>
               LET base == request[c].base IN
                 /\ item.text = base.text /\ item.status = base.status
                 /\ stamped => item = base]_vars
  BY <1>1
<1> QED
  BY <1>2, InvHolds, PTL DEF Spec, UpdatesTheItemSeen

\* An update leaves alone what it does not name, whatever Playerok changed there
\* before update_item arrived: ConcurrentEditsSurvive.
THEOREM EditsSurvive == Spec => ConcurrentEditsSurvive
<1>1. ASSUME Inv, [Next]_vars, NEW c \in Callers, Updates(c)
      PROVE  /\ request[c].patch.text = None => item'.text = item.text
             /\ request[c].patch.hidden = None => item'.hidden = item.hidden
             /\ item'.status = item.status
  <2>1. /\ request[c] \in Requests /\ ~Deletes(request[c]) /\ item # None
        /\ item' = Stamped(Patched(request[c]))
    BY <1>1, UpdatingSteps, UpdateExecutes DEF Changed
  <2> QED
    BY <1>1, <2>1, PatchedFields DEF Stamped, Inv
<1>2. Inv /\ [Next]_vars =>
        [\A c \in Callers :
            Updates(c) =>
               LET patch == request[c].patch IN
                 /\ patch.text = None => item'.text = item.text
                 /\ patch.hidden = None => item'.hidden = item.hidden
                 /\ item'.status = item.status]_vars
  BY <1>1
<1> QED
  BY <1>2, InvHolds, PTL DEF Spec, ConcurrentEditsSurvive
=============================================================================
