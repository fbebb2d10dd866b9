--------------------------- MODULE MCAdapterCall ---------------------------
(***************************************************************************)
(* An instance of AdapterCall for TLC.  A request departs from a plain one *)
(* of its operation in one part, or in two that meet; Playerok, the item   *)
(* and the credentials vary with the requests they matter to.              *)
(***************************************************************************)
EXTENDS AdapterCall

SomeSecrets == {"env_token", "env_ddg5", "env_cookies", "token", "ddg5", "cookies", "agent"}

SomeTexts ==
    SomeSecrets \cup {WorkerStatus[name] : name \in DOMAIN WorkerStatus} \cup
    {"None", "approved", "c1", "c2", "c3", "t1", "t2", "f1", "f2", "f3",
     "color", "size", "slug", "a", "b", "path", "other", Remote, Missing}

SomeInput == "a"

----------------------------------------------------------------------------
(* Credentials.                                                             *)

Secret(prefix, token, ddg5, cookies, agent) ==
    [n \in Names |->
        CASE n = "token" /\ token -> prefix \o "token"
          [] n = "ddg5" /\ ddg5 -> prefix \o "ddg5"
          [] n = "cookies" /\ cookies -> prefix \o "cookies"
          [] n = "user_agent" /\ agent -> "agent"
          [] OTHER -> None]

Environment(token, ddg5, cookies) == Secret("env_", token, ddg5, cookies, FALSE)

SomeApplies ==
    LET whole == {Secret("", p[1], p[2], p[3], p[4]) : p \in [1..4 -> BOOLEAN]}
        blank == {[c EXCEPT ![n] = Blank] : c \in whole, n \in Names}
    IN [scheme: Schemes \cup {"golden_key"}, credentials: whole \cup blank] \cup {Malformed}

----------------------------------------------------------------------------
(* Playerok.                                                                *)

Field(id, required, type) == [id |-> id, required |-> required, type |-> type]

\* c1 has a required field beyond the page of two, c2 a first type without an id, and
\* c3 no other one.
Catalogue1 ==
    [c1 |-> [options |-> {<<"color", "a">>, <<"color", "b">>, <<"size", "a">>},
             types |-> <<"t1", "t2">>,
             fields |-> [t1 |-> <<Field("f1", TRUE, "ITEM_DATA"), Field("f2", FALSE, "ITEM_DATA"),
                                  Field("f3", TRUE, "ITEM_DATA")>>,
                         t2 |-> <<Field("f1", TRUE, "OBTAINING_DATA"),
                                  Field(Blank, TRUE, "ITEM_DATA")>>]],
     c2 |-> [options |-> {<<"size", "a">>, <<"size", "b">>}, types |-> <<Blank, "t2">>,
             fields |-> [t2 |-> <<Field("f2", TRUE, "ITEM_DATA")>>]],
     c3 |-> [options |-> {}, types |-> <<Blank>>, fields |-> [t1 |-> <<>>]]]

\* c1 offers less and asks for more, c2 is gone.
Catalogue2 ==
    [c1 |-> [options |-> {<<"size", "a">>}, types |-> <<>>,
             fields |-> [t1 |-> <<Field("f2", TRUE, "ITEM_DATA")>>]]]

SomeCatalogues == {Catalogue2}

Item1 ==
    [title |-> "a", price |-> 2, status |-> "APPROVED", category |-> "c1", type |-> "t1",
     dataFields |-> <<[name |-> "f1", value |-> "a"]>>, slug |-> None, raw |-> TRUE]

\* Its required field is empty, its type is not shown, or there is none to be found.
SomeItems ==
    <<Item1,
      [Item1 EXCEPT !.title = "b", !.dataFields = <<[name |-> "f1", value |-> Blank]>>,
                    !.slug = "slug", !.raw = FALSE],
      [Item1 EXCEPT !.type = None, !.status = "SOLD"],
      [Item1 EXCEPT !.price = None, !.category = None, !.type = None, !.dataFields = <<>>,
                    !.status = "NEW_ONE"],
      [Item1 EXCEPT !.category = None, !.type = None],
      [Item1 EXCEPT !.category = "c3", !.type = None, !.slug = "slug"]>>

ItemsOf == {SomeItems[i] : i \in DOMAIN SomeItems}

ChangedItems == {SomeItems[2]}

----------------------------------------------------------------------------
(* Requests.                                                                *)

Entry(name, value) == [name |-> name, value |-> value]

AnyPrice == {0, 1, 2, 3, 6, 7, 10, NaN, Infinity}

AnyMedia ==
    {<<>>, <<Blank>>, <<"path", "path">>, <<"path", Remote>>, <<Missing, Remote>>}

AnyOptions ==
    {Null, Malformed, <<Entry("color", "a"), Entry("color", "b")>>, <<Entry("color", Null)>>,
     <<Entry("color", Blank)>>, <<Entry("size", "a"), Entry("color", "a")>>,
     <<Entry("size", "b")>>}

AnyExtras ==
    {<<Entry("size", "a")>>, <<Entry("color", "b")>>, <<Entry("other", Malformed)>>,
     <<Entry("size", Null)>>, <<Entry("slug", "slug")>>}

AnyDataFields ==
    {None, Null, Malformed, <<Entry("f1", Null)>>, <<Entry("f1", Blank)>>,
     <<Entry("f1", "a"), Entry("f1", "b"), Entry("other", "a")>>, <<Entry("f2", "a")>>}

AnyList == {Malformed, <<>>, <<Blank, Null>>, <<"path", "other">>}

\* The attributes next to given ones.
Around(base) ==
    {base}
    \cup {[base EXCEPT !.options = o] : o \in AnyOptions}
    \cup {[base EXCEPT !.options = <<Entry("color", "a")>>, !.extras = e] : e \in AnyExtras}
    \cup {[base EXCEPT !.extras = e] : e \in AnyExtras}
    \cup {[base EXCEPT !.dataFields = d] : d \in AnyDataFields}

Fitting ==
    [NoAttributes EXCEPT !.gameCategoryId = <<"c1">>, !.obtainingTypeId = <<"t1">>,
                         !.dataFields = <<Entry("f1", "a")>>]

Create ==
    [Plain EXCEPT !.op = "create", !.title = "a", !.price = 4, !.attributes = Fitting]

Creates ==
    {[Create EXCEPT !.fit = FALSE], [Create EXCEPT !.attributes = None]}
    \cup {[Create EXCEPT !.attributes = a] : a \in Around(Fitting)}
    \cup {[Create EXCEPT !.attributes = [a EXCEPT !.obtainingTypeId = t]] :
            a \in {Fitting, [Fitting EXCEPT !.dataFields = None]}, t \in {<<>>, <<"t2">>}}
    \cup {[Create EXCEPT !.attributes.gameCategoryId = c] :
            c \in {<<>>, <<Blank, "c2">>, <<Null>>, <<"other">>}}
    \cup {[Create EXCEPT !.price = p] : p \in AnyPrice}
    \cup {[Create EXCEPT !.media = m] : m \in AnyMedia}

Update == [Plain EXCEPT !.op = "update"]

Updates ==
    {Update, [Update EXCEPT !.quantity = TRUE], [Update EXCEPT !.title = "b"]}
    \cup {[Update EXCEPT !.title = "b", !.version = Version(i)] : i \in ItemsOf}
    \cup {[Update EXCEPT !.status = s] : s \in {"active", "approved", "other"}}
    \cup {[Update EXCEPT !.price = p] : p \in AnyPrice}
    \cup {[Update EXCEPT !.media = m] : m \in AnyMedia}
    \cup {[Update EXCEPT !.title = t, !.attributes = a] :
            t \in {None, "b"}, a \in Around(NoAttributes) \cup Around(Fitting)}
    \cup {[Update EXCEPT !.attributes = [a EXCEPT !.gameCategoryId = c]] :
            a \in Around(NoAttributes), c \in {<<"c2">>}}
    \cup {[Update EXCEPT !.attributes = [NoAttributes EXCEPT !.removeAttachmentIds = l]] : l \in AnyList}
    \cup {[Update EXCEPT !.media = m,
                         !.attributes = [NoAttributes EXCEPT !.addAttachmentPaths = l]] :
            m \in {None, <<"path">>}, l \in AnyList}

Queries ==
    {[Plain EXCEPT !.op = "metadata",
                   !.attributes = [NoAttributes EXCEPT !.gameCategoryId = c, !.obtainingTypeId = t]] :
        c \in {<<>>, <<Null>>, <<"c1">>, <<"c2">>}, t \in {<<>>, <<"t2">>}}

Others ==
    {Plain, [Plain EXCEPT !.attachments = TRUE], [Plain EXCEPT !.fit = FALSE],
     [Plain EXCEPT !.op = "delete"]}

----------------------------------------------------------------------------

Situation(environment, start, requests, applies, listed) ==
    [env |-> environment, catalogue |-> Catalogue1, item |-> start,
     offered |-> [requests |-> requests, applies |-> applies, listed |-> listed]]

Bits(i) == [b \in 1..3 |-> (i \div 2^(b - 1)) % 2 = 1]

SomeSituations ==
    [i \in 1..8 |-> Situation(Environment(Bits(i)[1], Bits(i)[2], Bits(i)[3]), Item1,
                              Others, SomeApplies, FALSE)]
    \o <<Situation(Environment(TRUE, TRUE, FALSE), None, Creates \cup Queries, {}, FALSE)>>
    \o [i \in DOMAIN SomeItems |->
          Situation(Environment(TRUE, TRUE, FALSE), SomeItems[i], Updates, {}, TRUE)]
=============================================================================
