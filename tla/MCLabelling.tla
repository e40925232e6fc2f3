----------------------------- MODULE MCLabelling -----------------------------
(***************************************************************************)
(* A preprint both of two sources carry, one more of each, one of them     *)
(* without an abstract; a source declares one domain, two, or none.        *)
(***************************************************************************)
EXTENDS Labelling

Doc(source, external_id, abstract) ==
  [source |-> source, external_id |-> external_id, abstract |-> abstract]

MCDocuments ==
  {Doc("oai", 1, TRUE), Doc("atom", 1, TRUE), Doc("oai", 2, TRUE), Doc("atom", 3, FALSE)}

MCTags == {<< >>, <<"energy">>, <<"energy", "quantum">>, <<"quantum">>}
=============================================================================
