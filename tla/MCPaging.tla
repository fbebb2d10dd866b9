------------------------------ MODULE MCPaging ------------------------------
(***************************************************************************)
(* An instance of Paging for TLC.                                          *)
(***************************************************************************)
EXTENDS Paging

SomeEntries == 1..3
SomeLimits == -1..3
=============================================================================
