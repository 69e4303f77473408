------------------------------ MODULE Products ------------------------------
(***************************************************************************)
(* Products, their SKUs, barcodes, prices and variants.  Every request     *)
(* reads and checks first; its transaction writes later, and the unique    *)
(* indexes decide what the checks missed.                                  *)
(***************************************************************************)
EXTENDS Integers, Sequences, FiniteSets, SequencesExt

CONSTANTS Prods,          \* product ids
          MaxSku,         \* SKU-000001 .. as numbers; drawn or typed
          Codes,          \* barcodes on packs
          Prices,         \* selling prices and MRPs in paise
          GstRate,        \* in percent
          Matrices,       \* variant matrices: sequences of combinations
          Short,          \* the first letters of a combination, as its SKU shows them
          Labels,         \* digits of printed labels, without the check digit
          DrawLimit,      \* SKU_DRAW_LIMIT
          Desks           \* product requests the server works on at a time

\* Mutant: two and one in turn.
WeightedSumDouble(digits) ==
  SumFunction([i \in DOMAIN digits |-> digits[i] * (IF (Len(digits) - i) % 2 = 0 THEN 2 ELSE 1)])

\* Right to left, three and one in turn.
WeightedSum(digits) ==
  SumFunction([i \in DOMAIN digits |-> digits[i] * (IF (Len(digits) - i) % 2 = 0 THEN 3 ELSE 1)])

CheckDigit(digits) == (10 - (WeightedSum(digits) % 10)) % 10
Gs1Valid(digits) == digits[Len(digits)] = CheckDigit(SubSeq(digits, 1, Len(digits) - 1))

ASSUME ProductsAssumption ==
  /\ MaxSku \in Nat /\ Prices \subseteq Nat /\ GstRate \in 0..100 /\ DrawLimit \in Nat \ {0}
  /\ 0 \notin Prods
  /\ \A x \in Matrices : x \in Seq(DOMAIN Short) /\ IsInjective(x)
  /\ \A label \in Labels : label \in Seq(0..9)

VARIABLES products,   \* Product rows
          skuLast,    \* NumberSequence PRODUCT_SKU
          skuLock,    \* who has that row locked, 0 when nobody
          variants,   \* ProductVariant rows with the combinations linked to them
          generated,  \* products and matrices a generation was confirmed for
          registry,   \* Barcode rows: the code entered and the label it was read from
          serving,    \* the product request of each desk
          unnumbered, \* somebody still wants a product without giving it a SKU
          outpaced,   \* ghost: products whose MRP was compared with a price replaced meanwhile
          goodsOps, goodsKinds

goods == <<products, skuLast, skuLock, variants, generated, registry, serving, unnumbered, outpaced, goodsOps, goodsKinds>>

Invoice == INSTANCE InvoiceMath WITH MoneyMax <- 0, CashierLimit <- 0, CustomCap <- 0, CustomTotalCap <- 0

NoJob == [kind |-> "none"]
NoProduct == [state |-> "none", sku |-> 0, code |-> "none", price |-> 0, mrp |-> 0]
LiveProds == {p \in Prods : products[p].state = "live"}

GoodsInit ==
  /\ products = [p \in Prods |-> NoProduct] /\ skuLast = 0 /\ skuLock = 0
  /\ variants = {} /\ generated = {} /\ registry = {}
  /\ serving = [d \in Desks |-> NoJob] /\ outpaced = {}

AskGoods(d, job) ==
  /\ serving[d] = NoJob /\ goodsOps > 0 /\ job.kind \in goodsKinds /\ goodsOps' = goodsOps - 1
  /\ serving' = [serving EXCEPT ![d] = job]
  /\ UNCHANGED <<products, skuLast, skuLock, variants, generated, registry, unnumbered, outpaced, goodsKinds>>

EndJob(d) == serving' = [serving EXCEPT ![d] = NoJob]
NextJob(d, job) == serving' = [serving EXCEPT ![d] = job]

-----------------------------------------------------------------------------
(* Prices.                                                                 *)

Inclusive(price) == Invoice!InclusiveUnitPrice(price, GstRate, 0)

\* Mutant: the MRP is compared with the price before tax.
MrpFitsBeforeTax(price, mrp) == mrp >= price

\* resolveMrp: PRICE_ABOVE_MRP otherwise.
MrpFits(price, mrp) == mrp >= Inclusive(price)

\* None given: the inclusive price itself.
ResolvedMrp(price, mrp) == IF mrp = 0 THEN Inclusive(price) ELSE mrp

\* assertBarcodeAvailable
CodeFree(code, self) == code = "none" \/ \A p \in LiveProds \ {self} : products[p].code # code

-----------------------------------------------------------------------------
(* Creation.                                                               *)

AskCreate(d, sku, code, price, mrp) ==
  /\ \A p \in LiveProds : products[p].sku # sku
  /\ CodeFree(code, 0) /\ MrpFits(price, ResolvedMrp(price, mrp))
  /\ AskGoods(d, [kind |-> "create", sku |-> sku, code |-> code, price |-> price, mrp |-> ResolvedMrp(price, mrp)])

\* Without a SKU; refused, the shopkeeper tries again.
AskCreateFree(d, price) ==
  /\ serving[d] = NoJob /\ "createFree" \in goodsKinds /\ unnumbered
  /\ \A e \in Desks : serving[e].kind \in {"createFree", "insert"} => ~serving[e].free
  /\ NextJob(d, [kind |-> "createFree", free |-> TRUE, price |-> price])
  /\ UNCHANGED <<products, skuLast, skuLock, variants, generated, registry, unnumbered, outpaced, goodsOps, goodsKinds>>

SkuTaken(n) == \E p \in LiveProds : products[p].sku = n

\* SKU_SEQUENCE_EXHAUSTED: every number it may draw is a live product's.
DrawsTaken(last) == \A n \in (last + 1)..(last + DrawLimit) : SkuTaken(n)

\* Mutant: the next number, taken or not.
NextFreeSkuBlind(last) == last + 1

\* nextFreeSku: numbers are drawn past SKUs that live products hold.
NextFreeSku(last) ==
  CHOOSE n \in (last + 1)..(last + DrawLimit) :
    ~SkuTaken(n) /\ \A m \in (last + 1)..(n - 1) : SkuTaken(m)

\* The sequence row stays locked until the transaction ends; exhausted, it ends at once.
DrawSku(d) ==
  LET r == serving[d]
  IN /\ r.kind = "createFree" /\ skuLock = 0
     /\ IF DrawsTaken(skuLast) THEN EndJob(d) /\ UNCHANGED skuLock
        ELSE /\ skuLock' = d
             /\ NextJob(d, [kind |-> "insert", free |-> TRUE, sku |-> NextFreeSku(skuLast), code |-> "none",
                            price |-> r.price, mrp |-> Inclusive(r.price)])
     /\ UNCHANGED <<products, skuLast, variants, generated, registry, unnumbered, outpaced, goodsOps, goodsKinds>>

TypedSku(d) ==
  LET r == serving[d]
  IN /\ r.kind = "create"
     /\ NextJob(d, [kind |-> "insert", free |-> FALSE, sku |-> r.sku, code |-> r.code, price |-> r.price, mrp |-> r.mrp])
     /\ UNCHANGED <<products, skuLast, skuLock, variants, generated, registry, unnumbered, outpaced, goodsOps, goodsKinds>>

\* Mutant: only the barcode is indexed.
KeysFreeCode(sku, code, self) ==
  \A p \in LiveProds \ {self} : code = "none" \/ products[p].code # code

\* The indexes (shop, sku) and (shop, barcode) of live rows.
KeysFree(sku, code, self) ==
  \A p \in LiveProds \ {self} : products[p].sku # sku /\ (code = "none" \/ products[p].code # code)

\* The insert with its events, or a rollback that undoes the draw as well.
Insert(d) ==
  LET r == serving[d]
      fresh == {p \in Prods : products[p].state = "none"}
  IN /\ r.kind = "insert" /\ fresh # {}
     /\ IF KeysFree(r.sku, r.code, 0)
        THEN /\ products' = [products EXCEPT ![CHOOSE p \in fresh : TRUE] =
                  [state |-> "live", sku |-> r.sku, code |-> r.code, price |-> r.price, mrp |-> r.mrp]]
             /\ skuLast' = IF r.free THEN r.sku ELSE skuLast
             /\ unnumbered' = IF r.free THEN FALSE ELSE unnumbered
        ELSE UNCHANGED <<products, skuLast, unnumbered>>
     /\ skuLock' = IF r.free THEN 0 ELSE skuLock
     /\ EndJob(d) /\ UNCHANGED <<variants, generated, registry, outpaced, goodsOps, goodsKinds>>

-----------------------------------------------------------------------------
(* Edits and deletion.                                                     *)

\* Mutant: the MRP is compared with the new price and left to the row.
PricePatchAlone(p, price) == [price |-> price]

\* What a PATCH of the selling price writes: the MRP with it, as it was read.
PricePatch(p, price) == [price |-> price, mrp |-> products[p].mrp]

\* A PATCH of the selling price, the MRP or the barcode: what it does not name comes
\* from the row as it is read here.  "seen" is the price the MRP was compared with.
AskUpdatePrice(d, p, price) ==
  /\ "update" \in goodsKinds /\ p \in LiveProds
  /\ MrpFits(price, products[p].mrp)
  /\ AskGoods(d, [kind |-> "update", id |-> p, seen |-> price, set |-> PricePatch(p, price)])

AskUpdateMrp(d, p, mrp) ==
  LET fitted == ResolvedMrp(products[p].price, mrp)
  IN /\ "update" \in goodsKinds /\ p \in LiveProds
     /\ MrpFits(products[p].price, fitted)
     /\ AskGoods(d, [kind |-> "update", id |-> p, seen |-> products[p].price, set |-> [mrp |-> fitted]])

AskUpdateCode(d, p, code) ==
  /\ "update" \in goodsKinds /\ p \in LiveProds
  /\ CodeFree(code, p)
  /\ AskGoods(d, [kind |-> "update", id |-> p, seen |-> products[p].price, set |-> [code |-> code]])

\* By id, whatever became of the row; a deleted one collides with nothing.
Update(d) ==
  LET r == serving[d]
      new == [f \in DOMAIN products[r.id] |-> IF f \in DOMAIN r.set THEN r.set[f] ELSE products[r.id][f]]
  IN /\ r.kind = "update"
     /\ IF new.state = "deleted" \/ KeysFree(new.sku, new.code, r.id)
        THEN /\ products' = [products EXCEPT ![r.id] = new]
             /\ outpaced' = CASE "mrp" \notin DOMAIN r.set -> outpaced
                             [] "mrp" \in DOMAIN r.set /\ new.price = r.seen -> outpaced \ {r.id}
                             [] "mrp" \in DOMAIN r.set /\ new.price # r.seen -> outpaced \cup {r.id}
        ELSE UNCHANGED <<products, outpaced>>
     /\ EndJob(d)
     /\ UNCHANGED <<skuLast, skuLock, variants, generated, registry, unnumbered, goodsOps, goodsKinds>>

AskDelete(d, p) == p \in LiveProds /\ AskGoods(d, [kind |-> "delete", id |-> p])

Delete(d) ==
  LET r == serving[d]
  IN /\ r.kind = "delete"
     /\ products' = [products EXCEPT ![r.id].state = "deleted"]
     /\ EndJob(d)
     /\ UNCHANGED <<skuLast, skuLock, variants, generated, registry, unnumbered, outpaced, goodsOps, goodsKinds>>

-----------------------------------------------------------------------------
(* Variants.                                                               *)

\* A combination's turn among those of its matrix that shorten alike.
Turn(x, i) == Cardinality({j \in 1..i : Short[x[j]] = Short[x[i]]})

\* Mutant: combinations that shorten alike share a SKU.
PlannedSkuPlain(p, x, i) == <<products[p].sku, Short[x[i]], 1>>

\* One SKU per combination, a later one that shortens alike gets a number.
PlannedSku(p, x, i) == <<products[p].sku, Short[x[i]], Turn(x, i)>>

AskVariants(d, p, x) ==
  /\ p \in LiveProds
  /\ AskGoods(d, [kind |-> "variants", id |-> p, matrix |-> x,
                  plan |-> [i \in DOMAIN x |-> PlannedSku(p, x, i)]])

TakenSkus(skus) == {v \in variants : v.sku \in skus}

\* The transaction's look at the SKUs: one of another product refuses the request.
FindTaken(d) ==
  LET r == serving[d]
      taken == TakenSkus(Range(r.plan))
  IN /\ r.kind = "variants"
     /\ IF \E v \in taken : v.prod # r.id THEN EndJob(d)
        ELSE NextJob(d, [kind |-> "expand", id |-> r.id, matrix |-> r.matrix, plan |-> r.plan,
                         own |-> {v.sku : v \in taken}])
     /\ UNCHANGED <<products, skuLast, skuLock, variants, generated, registry, unnumbered, outpaced, goodsOps, goodsKinds>>

\* createMany of the missing ones (all or nothing) and the links of all of them.
Expand(d) ==
  LET r == serving[d]
      new == {i \in DOMAIN r.plan : r.plan[i] \notin r.own}
      added == {[prod |-> r.id, sku |-> r.plan[i], is |-> {}] : i \in new}
      linked(v) == [v EXCEPT !.is = @ \cup {r.matrix[i] : i \in {j \in DOMAIN r.plan : r.plan[j] = v.sku}}]
  IN /\ r.kind = "expand"
     /\ IF TakenSkus({r.plan[i] : i \in new}) # {}
        THEN UNCHANGED <<variants, generated>>
        ELSE /\ variants' = {IF v.prod = r.id THEN linked(v) ELSE v : v \in variants \cup added}
             /\ generated' = generated \cup {<<r.id, r.matrix>>}
     /\ EndJob(d)
     /\ UNCHANGED <<products, skuLast, skuLock, registry, unnumbered, outpaced, goodsOps, goodsKinds>>

-----------------------------------------------------------------------------
(* Barcode registry.                                                       *)

\* An EAN typed from a label, one digit perhaps wrong.
AskBarcode(d, label, at, digit) ==
  LET typed == [label EXCEPT ![at] = digit]
  IN /\ Gs1Valid(typed) /\ \A b \in registry : b.code # typed
     /\ AskGoods(d, [kind |-> "barcode", code |-> typed, label |-> label])

\* The index (shop, code) decides between two who asked at once.
Register(d) ==
  LET r == serving[d]
  IN /\ r.kind = "barcode"
     /\ registry' = IF \E b \in registry : b.code = r.code THEN registry
                    ELSE registry \cup {[code |-> r.code, label |-> r.label]}
     /\ EndJob(d)
     /\ UNCHANGED <<products, skuLast, skuLock, variants, generated, unnumbered, outpaced, goodsOps, goodsKinds>>

-----------------------------------------------------------------------------

GoodsServe(d) ==
  \/ DrawSku(d) \/ TypedSku(d) \/ Insert(d) \/ Update(d) \/ Delete(d)
  \/ FindTaken(d) \/ Expand(d) \/ Register(d)

GoodsAsk(d) ==
  \/ /\ "create" \in goodsKinds
     /\ \E sku \in 1..MaxSku, code \in Codes \cup {"none"}, price \in Prices, mrp \in Prices \cup {0} :
          AskCreate(d, sku, code, price, mrp)
  \/ \E p \in LiveProds :
       \/ \E x \in Prices : AskUpdatePrice(d, p, x) \/ AskUpdateMrp(d, p, x)
       \/ AskUpdateMrp(d, p, 0)
       \/ \E code \in Codes \cup {"none"} : AskUpdateCode(d, p, code)
       \/ AskDelete(d, p)
       \/ \E x \in Matrices : AskVariants(d, p, x)
  \/ /\ "barcode" \in goodsKinds
     /\ \E payload \in Labels, digit \in 0..9 :
          LET label == Append(payload, CheckDigit(payload))
          IN \E at \in DOMAIN label : AskBarcode(d, label, at, digit)

GoodsStep ==
  \E d \in Desks :
    \/ serving[d] # NoJob /\ GoodsServe(d)
    \/ serving[d] = NoJob /\ goodsOps > 0 /\ GoodsAsk(d)
    \/ \E price \in Prices : AskCreateFree(d, price)

-----------------------------------------------------------------------------

\* A shopkeeper who leaves the SKU to the server gets a product whatever numbers were
\* typed in, unless all the numbers the server may draw are other products': a draw that
\* collides is not undone into the same collision for ever.
FreeSkuLands == unnumbered ~> (~unnumbered \/ DrawsTaken(skuLast))

\* Live products are stored with an MRP of at least one piece's price with tax, the
\* figure the checkout refuses above, whatever edits of one product cross.  The one
\* exception: an edit of the MRP alone lands on a price that another edit replaced
\* after the MRP was compared with it.
StoredWithinMrp ==
  \A p \in LiveProds \ outpaced : products[p].mrp >= Inclusive(products[p].price)

\* Two matrices number their combinations alike: no SKU means one combination in one of
\* them and another in the other.
NumberedAlike(x, y) ==
  \A i \in DOMAIN x, j \in DOMAIN y :
    (Short[x[i]] = Short[y[j]] /\ Turn(x, i) = Turn(y, j)) <=> (x[i] = y[j])

\* All the matrices a product was generated from do.
NamedAlike(p) ==
  \A g, h \in generated : g[1] = p /\ h[1] = p => NumberedAlike(g[2], h[2])

\* Every combination of a confirmed matrix has a variant, and while a product's matrices
\* name their combinations alike it has one alone, of that combination alone, however
\* often and by whomever it is generated.
OneVariantEach ==
  \A g \in generated : \A i \in DOMAIN g[2] :
    LET of == {v \in variants : v.prod = g[1] /\ g[2][i] \in v.is}
    IN of # {} /\ (NamedAlike(g[1]) => \E v \in of : v.is = {g[2][i]} /\ of = {v})

\* A label read with one wrong digit is never registered.
MisreadRefused == \A b \in registry : b.code = b.label
=============================================================================
