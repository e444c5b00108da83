----------------------------- MODULE MCCatalogPages -----------------------------
(* A small instance of CatalogPages for TLC. *)
EXTENDS CatalogPages, TLC

FourAssets == 1..4
\* Metadata rows were written in another order than the assets.
RowOrder == <<2, 1, 4, 3>>
\* Assets 1 and 2 come from one prompt.
Prompts == <<1, 1, 2, 3>>
Times == <<0, 2, 2, 0>>
\* One file whose time in nanoseconds is no double.
OddTimes == <<0, 1, 0, 0>>
\* Doubles near an odd time: the nearest one is before or after it.
Doubles == 0 :> 0 @@ 1 :> 2 @@ 2 :> 2 @@ 3 :> 2 @@ 4 :> 4 @@ 5 :> 6
\* Every asset matches by its prompt; some by their negative prompt or name too.
P == {"prompt"}
QueryHits == {<<P, P, P, P>>,
              <<P, {"prompt", "negative"}, P, {"negative"}>>,
              <<{"name", "prompt"}, P, {"name"}, P>>}
=============================================================================
