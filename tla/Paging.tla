------------------------------- MODULE Paging -------------------------------
(***************************************************************************)
(* A caller reads a list page by page: GET conversations, messages or      *)
(* products with limit and cursor (main.py), where every request loads the *)
(* whole list from Playerok, in pages of its own (playerok_adapter.py),    *)
(* sorts it, drops what does not pass the filter of the request            *)
(* (onlyUnread, status) and cuts [cursor, cursor + limit) out of the rest. *)
(*                                                                         *)
(* The worker keeps nothing between two requests, and Playerok goes on     *)
(* between any two of its pages: entries arrive, conversations move to the *)
(* front with a new message, are read, products are sold or removed.       *)
(* No two entries have the same time, and every one has a time: a date     *)
(* that is missing or cannot be read becomes that of the request in the    *)
(* code.  An entry counts as it was when its page was read; of a product   *)
(* the code asks once more, for itself.  A page after which there is       *)
(* another one has an end cursor: without it the code would take it for    *)
(* the last.                                                               *)
(***************************************************************************)
EXTENDS Sequences, FiniteSets, Integers

CONSTANTS
    Entries,       \* identifiers, ordered: products are sorted by them
    PlatformPage,  \* entries in a page of Playerok (24 in the code)
    Limits,        \* limits a caller may ask for, valid or not
    MaxLimit,      \* the largest valid one (200 in the code)
    MaxTime        \* bound: changes of the list at Playerok

ASSUME EntriesAssumption == Entries \subseteq Nat /\ IsFiniteSet(Entries)

ASSUME BoundsAssumption ==
    /\ PlatformPage \in Nat \ {0} /\ MaxLimit \in Nat \ {0}
    /\ MaxTime \in Nat /\ Cardinality(Entries) <= MaxTime
    /\ Limits \subseteq Int

Lists == {"conversations", "messages", "products"}

VARIABLES
    list,    \* which list is read
    at,      \* external: Entries -> time of its latest activity, 0 when absent
    now,     \* external: the latest time
    filtered,\* whether the caller's requests have a filter
    passes,  \* external: the entries that pass it, all without one
    limit,   \* the caller's limit
    cursor,  \* the caller's cursor: an offset into the list
    state,   \* of the caller: "asks", "loads" (the worker loads the list), "done", "refused"
    loaded,  \* what the running request has loaded, as it showed then
    after,   \* end_cursor of the last page loaded: entries older than this follow
    got,     \* history: entries delivered, in order
    base,    \* history: the list when the caller began
    moved,   \* history: entries that arrived or moved since then
    gone     \* history: how many entries left the list since then

vars == <<list, at, now, filtered, passes, limit, cursor, state, loaded, after, got, base, moved, gone>>

Present == {e \in Entries : at[e] # 0}

Loadings == [entry: Entries, at: 1..MaxTime, passes: BOOLEAN]

\* Mutant: conversations and messages are sorted the oldest first.
OldestFirst(l, m) == IF list = "products" THEN l.entry > m.entry ELSE l.at < m.at

\* items.sort(key=..., reverse=True): createdAt or lastMessageAt, or productId.
Before(l, m) == IF list = "products" THEN l.entry > m.entry ELSE l.at > m.at

\* How many of them come before l.
Rank(loadings, l) == Cardinality({m \in loadings : Before(m, l)})

Sorted(loadings) ==
    [i \in 1..Cardinality(loadings) |-> (CHOOSE l \in loadings : Rank(loadings, l) = i - 1).entry]

Snapshot == {[entry |-> e, at |-> at[e], passes |-> e \in passes] : e \in Present}

Filtered(loadings) == {l \in loadings : l.passes}

Init ==
    /\ list \in Lists
    /\ at \in [Entries -> 0..Cardinality(Entries)]
    /\ \A e, f \in Present : e # f => at[e] # at[f]
    /\ now = Cardinality(Entries)
    /\ filtered \in BOOLEAN /\ (list = "messages" => ~filtered)
    /\ passes \in SUBSET Entries /\ (~filtered => passes = Entries)
    /\ limit \in Limits
    /\ cursor = 0
    /\ state = "asks"
    /\ loaded = {} /\ after = 0
    /\ got = <<>>
    /\ base = Sorted(Filtered(Snapshot))
    /\ moved = {} /\ gone = 0

----------------------------------------------------------------------------
(* Playerok.                                                                *)

\* A new entry, or a new message in a conversation, which may make it unread.
Active(e) ==
    /\ now < MaxTime
    /\ list = "conversations" \/ at[e] = 0
    /\ now' = now + 1
    /\ at' = [at EXCEPT ![e] = now + 1]
    /\ passes' \in {passes, passes \cup {e}}
    /\ moved' = moved \cup {e}
    /\ UNCHANGED <<list, filtered, limit, cursor, state, loaded, after, got, base, gone>>

Vanish(e) ==
    /\ now < MaxTime
    /\ at[e] # 0
    /\ now' = now + 1
    /\ at' = [at EXCEPT ![e] = 0]
    /\ gone' = gone + 1
    /\ UNCHANGED <<list, filtered, passes, limit, cursor, state, loaded, after, got, base, moved>>

\* A conversation is read, a product gets another status.
Change(e) ==
    /\ now < MaxTime
    /\ filtered /\ at[e] # 0
    /\ now' = now + 1
    /\ IF e \in passes
       THEN passes' = passes \ {e} /\ gone' = gone + 1 /\ UNCHANGED moved
       ELSE passes' = passes \cup {e} /\ moved' = moved \cup {e} /\ UNCHANGED gone
    /\ UNCHANGED <<list, at, filtered, limit, cursor, state, loaded, after, got, base>>

----------------------------------------------------------------------------
(* One GET.                                                                 *)

\* Mutants: a limit of zero is accepted, or any limit below the largest.
LimitFromZero(l) == l \in 0..MaxLimit
LimitUnderMax(l) == l <= MaxLimit

\* _normalize_limit
LimitAccepted(l) == l \in 1..MaxLimit

Refuse ==
    /\ state = "asks"
    /\ ~LimitAccepted(limit)
    /\ state' = "refused"
    /\ UNCHANGED <<list, at, now, filtered, passes, limit, cursor, loaded, after, got, base, moved, gone>>

Ask ==
    /\ state = "asks"
    /\ LimitAccepted(limit)
    /\ state' = "loads"
    /\ loaded' = {}
    /\ after' = MaxTime + 1
    /\ UNCHANGED <<list, at, now, filtered, passes, limit, cursor, got, base, moved, gone>>

\* External: the entries of one page of Playerok, the latest ones before the cursor.
Older == {l \in Snapshot : l.at < after}
PlatformEntries ==
    {l \in Older : Cardinality({m \in Older : m.at > l.at}) < PlatformPage}

\* get_chats, get_chat_messages or get_items with after_cursor, while there is a
\* next page.
Load ==
    /\ state = "loads"
    /\ Cardinality(Older) > PlatformPage
    /\ loaded' = loaded \cup PlatformEntries
    /\ \E last \in PlatformEntries :
          /\ \A l \in PlatformEntries : last.at <= l.at
          /\ after' = last.at
    /\ UNCHANGED <<list, at, now, filtered, passes, limit, cursor, state, got, base, moved, gone>>

\* Mutant: a page that is not full is not offered.
HasFullPage(end, length) == end + limit <= length

HasNext(end, length) == end < length

\* Mutant: the end of the slice is inclusive.
PageThrough(items, start, end) ==
    SubSeq(items, start + 1, IF end < Len(items) THEN end + 1 ELSE Len(items))

\* items[start:end]
Page(items, start, end) ==
    SubSeq(items, start + 1, IF end < Len(items) THEN end ELSE Len(items))

\* The last page, the sort, the filter and _paginate.
Deliver ==
    /\ state = "loads"
    /\ Cardinality(Older) <= PlatformPage
    /\ LET entries == Sorted(Filtered(loaded \cup PlatformEntries))
           end == cursor + limit IN
         /\ got' = got \o Page(entries, cursor, end)
         /\ IF HasNext(end, Len(entries))
            THEN state' = "asks" /\ cursor' = end
            ELSE state' = "done" /\ UNCHANGED cursor
    /\ loaded' = {}
    /\ after' = 0
    /\ UNCHANGED <<list, at, now, filtered, passes, limit, base, moved, gone>>

Read == Refuse \/ Ask \/ Load \/ Deliver

Next == Read \/ \E e \in Entries : Active(e) \/ Vanish(e) \/ Change(e)

Spec == Init /\ [][Next]_vars

\* The caller asks for the next page as long as there is one, and a request ends.
FairSpec == Spec /\ WF_vars(Read)

----------------------------------------------------------------------------
(* Properties.                                                              *)

IsIn(e, seq) == \E i \in DOMAIN seq : seq[i] = e

TypeOK ==
    /\ list \in Lists
    /\ at \in [Entries -> 0..MaxTime] /\ now \in 0..MaxTime
    /\ filtered \in BOOLEAN /\ passes \subseteq Entries
    /\ limit \in Limits /\ cursor \in Nat
    /\ state \in {"asks", "loads", "done", "refused"}
    /\ loaded \subseteq Loadings /\ after \in 0..(MaxTime + 1)
    /\ got \in Seq(Entries) /\ base \in Seq(Entries)
    /\ moved \subseteq Entries /\ gone \in 0..MaxTime

\* A list that does not change is delivered once, completely and in its order, by
\* whatever limit and however the pages of Playerok fall.
QuietListExact == state = "done" /\ moved = {} /\ gone = 0 => got = base

\* What was there when the caller began and only sees others arrive is delivered,
\* although every arrival shifts the offsets.  Conversations also move: one that
\* moves while it is between two pages of Playerok is missed, and what follows it
\* may be too, unless the list fits in one page.
NothingOvertaken ==
    state = "done" /\ gone = 0 /\ (list = "conversations" => Cardinality(Present) <= PlatformPage)
        => \A e \in Entries : IsIn(e, base) /\ e \notin moved => IsIn(e, got)

\* How often the list has changed since the caller began.
Changes == now - Cardinality(Entries)

\* onlyUnread and status filter before the offset is applied, so what leaves the
\* list (a conversation the caller has read, a product that was sold) pulls later
\* entries over the caller's cursor.  One entry is skipped for each that left, and in
\* conversations one for each move between two pages of Playerok: the same few may
\* move again and again.
MissesBounded ==
    state = "done" =>
        Cardinality({e \in Present \cap passes :
                        IsIn(e, base) /\ e \notin moved /\ ~IsIn(e, got)})
            <= IF list = "conversations" THEN Changes ELSE gone

\* An entry is delivered twice only if the list changed meanwhile, and not more
\* often than it did.
DuplicatesFromArrivals == Len(got) <= Cardinality({got[j] : j \in DOMAIN got}) + Changes

\* A caller that goes on asking reaches the end of the list.
ReadingEnds == <>(state \in {"done", "refused"})
=============================================================================
