------------------------------ MODULE MCPaging ------------------------------
(***************************************************************************)
(* Five records, the oldest before the window; the second and the third    *)
(* may be of any kind.  They are of five papers, or the last two are of    *)
(* papers that are there already, or two that follow one another are.      *)
(***************************************************************************)
EXTENDS Paging

MCShapes ==
  {[r \in Records |-> CASE r = 1 -> old [] r = 2 -> a [] r = 3 -> b [] OTHER -> "plain"] :
     old \in {"plain", "undated"}, a, b \in {"plain", "untitled", "deleted", "undated", "other"}}

MCPapers == {<<1, 2, 3, 4, 5>>, <<1, 2, 3, 2, 3>>, <<1, 2, 2, 4, 2>>}
=============================================================================
