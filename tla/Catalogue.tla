------------------------------ MODULE Catalogue ------------------------------
(* The catalogue: categories, products and revisions side by side.          *)
EXTENDS CategoryTree, Products, Revisions

CONSTANT Mixes    \* how many requests of each part a behaviour has

VARIABLE mix
vars == <<tree, goods, book, mix>>

Init ==
  /\ mix \in Mixes
  /\ TreeInit /\ GoodsInit /\ RevisionsInit
  /\ treeOps = mix.treeOps /\ revOps = mix.revOps
  /\ goodsOps = mix.goodsOps /\ goodsKinds = mix.goodsKinds /\ unnumbered = ("createFree" \in mix.goodsKinds)

Next ==
  \/ TreeStep /\ UNCHANGED <<goods, book, mix>>
  \/ GoodsStep /\ UNCHANGED <<tree, book, mix>>
  \/ RevisionsStep /\ UNCHANGED <<tree, goods, mix>>

Spec == Init /\ [][Next]_vars

\* The server works on what it was asked; a shopkeeper without a product asks again.
FairSpec ==
  /\ Spec
  /\ \A d \in Desks : WF_vars(GoodsServe(d) /\ UNCHANGED <<tree, book, mix>>)
  /\ WF_vars(\E d \in Desks, price \in Prices : AskCreateFree(d, price) /\ UNCHANGED <<tree, book, mix>>)

-----------------------------------------------------------------------------

TypeOK ==
  /\ \A k \in Cats : cats[k].parent \in Cats \cup {0} /\ cats[k].path \in Seq(Cats)
  /\ skuLast \in 0..(MaxSku + 1) /\ skuLock \in Desks \cup {0}
  /\ \A p, q \in LiveProds : products[p].sku = products[q].sku => p = q
  /\ published \in 0..Len(revs) /\ draft \in 0..Len(revs)
  /\ skuLock # 0 => serving[skuLock].kind = "insert"

\* The goods and the revisions together: prices within MRPs, one variant for each
\* combination, no misread label, nothing published that one person alone saw.
GoodsSound ==
  /\ TypeOK /\ StoredWithinMrp /\ OneVariantEach /\ MisreadRefused
  /\ PublishedWasReviewed
==============================================================================
