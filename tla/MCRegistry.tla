------------------------------ MODULE MCRegistry ------------------------------
(***************************************************************************)
(* Four versions of a file of two sources: the harvest and a feed, in     *)
(* both orders, with the set of a category and that of an archive; the     *)
(* first source as it was before migration 0003, with the second taken     *)
(* out; the first as a feed, with the second switched off.                 *)
(***************************************************************************)
EXTENDS Registry

Harvest(id, set) ==
  [id |-> id, kind |-> "arxiv_oai", params |-> [set |-> set], rest |-> "r1", active |-> TRUE]
Feed(id, rest) ==
  [id |-> id, kind |-> "rss", params |-> [url |-> "u"], rest |-> rest, active |-> TRUE]
Category(id) ==
  [id |-> id, kind |-> "arxiv_category", params |-> [category |-> <<"cs", "RO">>],
   rest |-> "r1", active |-> TRUE]

MCFiles ==
  {<<Harvest(1, <<"cs", "cs", "RO">>), Feed(2, "r1")>>,
   <<Feed(2, "r2"), Harvest(1, <<"cs">>)>>,
   <<Category(1)>>,
   <<[Feed(2, "r1") EXCEPT !.active = FALSE], Feed(1, "r1")>>}
=============================================================================
