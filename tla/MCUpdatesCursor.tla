--------------------------- MODULE MCUpdatesCursor ---------------------------
(* The bounds of MCUpdatesCursor.cfg: three updates are one lost, one passed by *)
(* a request and one pushed after it.                                           *)
EXTENDS UpdatesCursor
=============================================================================
