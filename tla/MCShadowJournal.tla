--------------------------- MODULE MCShadowJournal ---------------------------
(***************************************************************************)
(* ShadowJournal on small grids.                                           *)
(***************************************************************************)
EXTENDS ShadowJournal
=============================================================================
