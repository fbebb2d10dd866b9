--------------------------- MODULE PayloadValues ---------------------------
(***************************************************************************)
(* The values a JSON payload is made of, as the worker tells them apart.   *)
(* It applies str() and strip() to most of them, so a number or a boolean  *)
(* is the text it prints as, and texts are taken as stripped.              *)
(***************************************************************************)
EXTENDS Integers

CONSTANTS
    None,      \* absent: a missing key, an unset variable, no row
    Null,      \* JSON null
    Blank,     \* a text of nothing but spaces
    NullText,  \* the text str() makes of null
    Malformed, \* a JSON value of another kind than the code looks for
    Texts      \* all other texts, and NullText

ASSUME TextAssumption ==
    /\ NullText \in Texts
    /\ {None, Null, Blank, Malformed} \cap Texts = {}
    /\ None \notin {Null, Blank, Malformed} /\ Blank \notin {Null, Malformed}

Scalars == Texts \cup {Blank, Null}

\* str(value).strip()
Text(value) == IF value = Null THEN NullText ELSE value

Or(value, default) == IF value # None THEN value ELSE default
=============================================================================
