----------------------------- MODULE PurchaseCases ---------------------------
(* Listed orders and calls for TLC to judge: what OpenSea returns, and the  *)
(* variants that one wrong item, amount, fraction or route makes.           *)
EXTENDS Integers, Sequences

Item(type, token, id, amount, to) ==
  [type |-> type, token |-> token, id |-> id, start |-> amount, end |-> amount, to |-> to]

Native(amount, to) == Item(0, "zero", 0, amount, to)
Falling == [Native(4, "maker") EXCEPT !.end = 2]

Order(offerer, offer, consideration, fraction) ==
  [offerer |-> offerer, offer |-> offer, consideration |-> consideration,
   n |-> fraction[1], d |-> fraction[2], conduit |-> "zero"]

OffersMC ==
  {<<Item(type, "nft", id, units, "none")>> : type \in {2, 3}, id \in {1, 2}, units \in 0..2}
    \cup {<<Item(3, "other", 1, 1, "none")>>, <<Item(4, "nft", 1, 1, "none")>>,
          <<[Item(3, "nft", 1, 1, "none") EXCEPT !.end = 2]>>,
          <<Item(2, "nft", 1, 1, "none"), Item(2, "nft", 2, 1, "none")>>}

Asks ==
  {<<>>, <<Native(4, "maker")>>, <<Native(3, "maker")>>, <<Native(3, "maker"), Native(1, "fees")>>,
   <<Native(2, "maker"), Native(2, "fees")>>, <<Native(4, "maker"), Native(2, "buyer")>>,
   <<Falling>>, <<Native(4, "maker"), Falling>>, <<Item(1, "weth", 0, 4, "maker")>>,
   <<Native(2, "maker"), Item(1, "weth", 0, 2, "fees")>>}

ListedOrders ==
  {Order("maker", offer, asks, <<1, 1>>) : offer \in OffersMC, asks \in Asks}
    \cup {Order("buyer", <<Item(2, "nft", 1, 1, "none")>>, <<Native(4, "maker")>>, <<1, 1>>)}

Fractions == {<<1, 1>>, <<1, 2>>, <<2, 2>>, <<2, 4>>, <<0, 1>>, <<1, 0>>}

Calls(orders, targets, values, resolvers) ==
  [kind : {"standard"}, target : targets, value : values,
   resolvers : resolvers, orders : {<<o>> : o \in orders}, conduit : {"other"},
   recipient : {"other"}]

Resolver == [order |-> 0, side |-> 1, index |-> 0, id |-> 1]

\* A call for any order, when a good one is listed.
StandardCases ==
  [active : {TRUE}, live : {TRUE},
   listed : {Order("maker", <<offer>>, <<Native(4, "maker")>>, <<1, 1>>) :
               offer \in {Item(2, "nft", 1, 1, "none"), Item(3, "nft", 1, 1, "none"),
                          Item(3, "nft", 1, 2, "none")}},
   call : Calls({Order("maker", offer, asks, fraction) :
                   offer \in OffersMC, asks \in Asks, fraction \in Fractions},
                {"seaport"}, {1, 2, 4, 6}, {{}, {Resolver}})]

\* A call for the order that is listed.
ListedCases ==
  UNION {[active : BOOLEAN, live : BOOLEAN, listed : {o},
          call : Calls({[o EXCEPT !.n = fraction[1], !.d = fraction[2]] :
                          fraction \in {<<1, 1>>, <<1, 2>>, <<2, 4>>}},
                       {"seaport", "other"}, 1..6, {{}})] : o \in ListedOrders}

BasicCases ==
  [active : {TRUE}, live : {TRUE},
   listed : {Order("maker", <<Item(type, "nft", 1, 1, "none")>>, <<Native(4, "maker")>>,
                   <<1, 1>>) : type \in {2, 3}},
   call : [kind : {"basic"}, target : {"seaport"}, value : 3..6,
           route : {0, 1, 2, 4}, offerToken : {"nft", "other"}, offerId : {1, 2},
           offerAmount : {1, 2}, considerationToken : {"zero", "weth"},
           considerationId : {0, 1}, considerationAmount : 3..4,
           offerer : {"maker", "buyer"},
           recipients : {<<>>, <<[amount |-> 1, to |-> "fees"]>>,
                         <<[amount |-> 1, to |-> "buyer"], [amount |-> 1, to |-> "fees"]>>},
           conduit : {"other"}, recipient : {"buyer"}]]

PurchaseCalls == StandardCases \cup ListedCases \cup BasicCases
=============================================================================
