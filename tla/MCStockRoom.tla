---------------------------- MODULE MCStockRoom ----------------------------
EXTENDS StockRoom

CONSTANTS shop, back, asha, ravi, c1, c2, c3

R(kind, qty, ref) ==
  [kind |-> kind, item |-> shop, to |-> back, qty |-> qty, key |-> 0, actor |-> asha, ref |-> ref]

Sale == R("sale", 1, 0)
Receipt == [R("receipt", 1, 0) EXCEPT !.item = back]
Waste == [R("adjust", -1, 0) EXCEPT !.key = 1]
Opening == R("opening", 1, 0)
Import == R("import", 2, 0)
Transfer == [R("transfer", 1, 0) EXCEPT !.key = 1]
Hold == R("reserve", 2, 0)
Release == R("release", 0, 1)
Sweep == R("sweep", 0, 0)
Recon == R("recon", 0, 0)
Start == R("start", 0, 0)
Count == R("count", 1, 1)
Complete == R("complete", 0, 1)
Ask == R("ask", 0, 1)
AskLoss == R("ask", -1, 0)
Approve == [R("approve", 0, 1) EXCEPT !.actor = ravi]

Together(a, b, c) == [x \in Client |-> IF x = c1 THEN a ELSE IF x = c2 THEN b ELSE c]

\* Stock against the aggregate, the cache and the ledger.
Trade ==
  {Together(<<Sale>>, <<Receipt, Transfer>>, <<Recon>>),
   Together(<<Import, Opening>>, <<Sale>>, <<Import, Opening>>),
   Together(<<Waste, Sale>>, <<Waste, Transfer>>, <<Transfer, [Waste EXCEPT !.qty = -2]>>)}

Hold2 ==
  {Together(<<Hold, Release>>, <<Sale, [Transfer EXCEPT !.qty = 2]>>, <<Sweep>>),
   Together(<<Receipt, Hold, Release>>, <<Hold>>, <<Sweep>>)}

Stocktake ==
  {Together(<<Start, Count, Ask, Approve>>, <<Sale>>, <<Complete, Approve>>),
   Together(<<Start, Count, Ask>>, <<Sale, Approve>>, <<AskLoss, Approve>>)}

All == Trade \cup Hold2 \cup Stocktake

=============================================================================
