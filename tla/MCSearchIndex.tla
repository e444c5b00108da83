--------------------------- MODULE MCSearchIndex ---------------------------
(* Values for the runs of SearchIndex *)
EXTENDS SearchIndex

TwoAssets == 1..2

(* One asset is there already; the other is, or arrives *)
OneOrBoth == 1..2
=============================================================================
