----------------------------- MODULE MCCatalogue -----------------------------
(* Four categories in two branches and one to come; three products.          *)
EXTENDS Catalogue
MCShelves ==
  [k \in 1..4 |-> CASE k \in {1, 3} -> [parent |-> 0, path |-> <<>>]
                    [] k = 2 -> [parent |-> 1, path |-> <<1>>]
                    [] k = 4 -> [parent |-> 3, path |-> <<3>>]]
MCMatrices == {<<"Red", "Redwood", "Blue">>, <<"Blue", "Red">>, <<"Redwood">>}
MCShort == [Red |-> "RED", Redwood |-> "RED", Blue |-> "BLU"]
MCLabels == {<<9, 6, 3, 8, 5, 0, 7>>, <<0, 5, 1, 0, 0, 0, 0>>}
Quiet == [treeOps |-> 0, goodsOps |-> 0, goodsKinds |-> {}, revOps |-> 0]
MCMixes == { [Quiet EXCEPT !.treeOps = 3],
             [Quiet EXCEPT !.goodsOps = 2, !.goodsKinds = {"create", "createFree", "delete"}],
             [Quiet EXCEPT !.goodsOps = 3, !.goodsKinds = {"create", "update"}],
             [Quiet EXCEPT !.goodsOps = 3, !.goodsKinds = {"create", "variants"}],
             [Quiet EXCEPT !.goodsOps = 2, !.goodsKinds = {"barcode"}],
             [Quiet EXCEPT !.revOps = 8] }
==============================================================================
