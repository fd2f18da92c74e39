-------------------------------- MODULE MCMarket --------------------------------
(* Small instances of the parts of Market.                                  *)
EXTENDS Market, TLC

CONSTANTS c1, c2, r1, r2, v1, v2, s1, s2, i1, k1, k2, k3, k4, k5

MarketSymmetry == Permutations(Calls) \cup Permutations(Ids) \cup Permutations(Seats)

(* Two vendors, one in a category and paid in a public asset, one in none,  *)
(* demo-only and priced in the private one.                                 *)
MCVendor ==
    (v1 :> [category |-> {"food"}, demo |-> FALSE, price |-> 1, asset |-> "LYTH",
            words |-> {}])
    @@ (v2 :> [category |-> {}, demo |-> TRUE, price |-> 2, asset |-> "pLYTH",
               words |-> {"restricted"}])

PlainAsset == [kind |-> "native", denomination |-> "public", status |-> "live",
               allowed |-> {}, blocked |-> {}, noted |-> FALSE]
MCAsset ==
    [a \in {"LYTH", "pLYTH", "wUSD", "oldUSD"} |->
        CASE a = "LYTH" -> PlainAsset
          [] a = "pLYTH" -> [PlainAsset EXCEPT !.denomination = "private"]
          [] a = "wUSD" -> [PlainAsset EXCEPT !.kind = "wrapped", !.noted = TRUE,
                                              !.blocked = {"escrow"}]
          [] a = "oldUSD" -> [PlainAsset EXCEPT !.kind = "mrc20", !.status = "deprecated",
                                                !.allowed = {"view"}]]

(* A denial, its lifting, a cap, a disabled policy, restrictions.           *)
MCPolicyPatches ==
    {[denylisted |-> TRUE], [denylisted |-> FALSE, max |-> {1}],
     [enabled |-> FALSE, max |-> {2}],
     [allowlisted |-> TRUE, assets |-> {"LYTH"}, categories |-> {"food"}]}

Order == [tool |-> "order_create", vendor |-> v1, quantity |-> 1, asset |-> {},
          words |-> {}, amount |-> {}, named |-> TRUE]
RiskCheck == [Order EXCEPT !.tool = "merchant_risk_check"]
MCOrderTasks ==
    {Order, [Order EXCEPT !.vendor = v2], [Order EXCEPT !.quantity = 2],
     [Order EXCEPT !.asset = {"wUSD"}], [Order EXCEPT !.asset = {"oldUSD"}],
     [Order EXCEPT !.vendor = v2, !.asset = {"LYTH"}],
     [Order EXCEPT !.words = {"blocked"}],
     [RiskCheck EXCEPT !.asset = {"oldUSD"}],
     [RiskCheck EXCEPT !.amount = {2}, !.named = FALSE],
     [Order EXCEPT !.tool = "order_quote", !.words = {"restricted"}]}

(* A new cap; an expiry and no cap.                                         *)
MCLimitPatches ==
    {[max |-> {2}, daily |-> {}, expires |-> {}, parties |-> {}],
     [max |-> {}, daily |-> {}, expires |-> {1}, parties |-> {v1}]}

(* Five clusters, one of which the registry may lack or rank last.          *)
MCRegistries ==
    {[known |-> {k1, k2, k3, k4, k5}, candidates |-> {k1, k2, k3, k4}],
     [known |-> {k1, k2, k3, k4, k5}, candidates |-> {k1, k2, k3, k4, k5}],
     [known |-> {k1, k2, k3, k4}, candidates |-> {k1, k2, k3, k4}]}
=============================================================================
