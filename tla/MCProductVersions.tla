------------------------- MODULE MCProductVersions -------------------------
(***************************************************************************)
(* Instances of ProductVersions for TLC.                                   *)
(***************************************************************************)
EXTENDS ProductVersions, TLC

CONSTANTS c1, c2, x, y

TwoCallers == {c1, c2}
TwoTexts == {x, y}
TwoStatuses == {"active", "sold"}

Patch(text, hidden, status, quantity) ==
    [text |-> text, hidden |-> hidden, status |-> status, quantity |-> quantity]

\* A change of a field in the version that confirms the status, and one of a field
\* the version leaves out.
SomePatches == {Patch(x, None, "active", FALSE), Patch(None, x, None, FALSE)}

CallerSymmetry == Permutations(TwoCallers)
=============================================================================
