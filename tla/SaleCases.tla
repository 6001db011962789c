--------------------------- MODULE SaleCases -------------------------------
(* Calls of Seaport for TLC to judge: around what OpenSea returns, each in  *)
(* the variants that one wrong item, amount, fraction or route makes.       *)
EXTENDS Integers, Sequences

Item(type, token, id, start, end, to) ==
  [type |-> type, token |-> token, id |-> id, start |-> start, end |-> end, to |-> to]

Coin(amount, to) == Item(1, "weth", 0, amount, amount, to)
Nft(id, amount, to) == Item(2, "nft", id, amount, amount, to)
Wildcard(amount, to) == Item(4, "nft", 0, amount, amount, to)

Order(offerer, offer, consideration, fraction) ==
  [offerer |-> offerer, offer |-> offer, consideration |-> consideration,
   n |-> fraction[1], d |-> fraction[2], conduit |-> "zero"]

Fractions == {<<1, 1>>, <<1, 2>>, <<2, 2>>, <<0, 1>>}
Resolver(order, side, index, id) ==
  [order |-> order, side |-> side, index |-> index, id |-> id]

-----------------------------------------------------------------------------

Basic ==
  [kind : {"basic"}, target : {"seaport", "other"}, value : {3, 4}, route : {2, 4, 5},
   offerToken : {"weth", "other"}, offerId : {0, 1}, offerAmount : {3, 4},
   considerationToken : {"nft", "other"}, considerationId : {1, 2},
   considerationAmount : {1, 2}, offerer : {"buyer", "seller"},
   recipients : {<<>>, <<[amount |-> 1, to |-> "fees"]>>, <<[amount |-> 4, to |-> "fees"]>>,
                 <<[amount |-> 1, to |-> "seller"], [amount |-> 2, to |-> "fees"]>>},
   conduit : {"zero", "other"}, recipient : {"seller"}]

-----------------------------------------------------------------------------

Offered ==
  {Coin(4, "none"), Coin(3, "none"), Coin(2, "none"), Item(1, "weth", 0, 4, 2, "none"),
   Item(1, "other", 0, 4, 4, "none"), Item(0, "weth", 0, 4, 4, "none"), Nft(2, 1, "none")}

Asked ==
  {Nft(1, 1, "buyer"), Nft(1, 2, "buyer"), Nft(2, 1, "buyer"), Wildcard(1, "buyer"),
   Wildcard(2, "buyer"), Item(1, "other", 0, 1, 1, "buyer")}

Fees ==
  {Coin(1, "fees"), Coin(2, "fees"), Coin(4, "fees"), Coin(2, "seller"),
   Item(1, "weth", 0, 1, 2, "fees"), Item(1, "weth", 0, 1, 2, "seller"),
   Item(1, "other", 0, 1, 1, "fees"), Nft(1, 1, "fees"), Nft(2, 1, "fees")}

Offers1 == {<<a>> : a \in Offered} \cup {<<Coin(4, "none"), a>> : a \in Offered}

Asks == {<<a>> : a \in Asked}
          \cup {<<a, b>> : a \in Asked, b \in Fees}
          \cup {<<a, b, c>> : a \in {Nft(1, 1, "buyer"), Wildcard(2, "buyer")},
                              b \in Fees, c \in Fees}

Resolvers ==
  {{}, {Resolver(0, 1, 0, 1)}, {Resolver(0, 1, 0, 2)}, {Resolver(0, 1, 1, 1)},
   {Resolver(0, 0, 0, 1)}}

Standard ==
  [kind : {"standard"}, target : {"seaport"}, value : {2, 4}, resolvers : Resolvers,
   orders : {<<Order(offerer, offer, asks, fraction)>> :
               offerer \in {"buyer", "seller"}, offer \in Offers1, asks \in Asks,
               fraction \in Fractions},
   conduit : {"other"}, recipient : {"other"}]

-----------------------------------------------------------------------------

BuyerOrders ==
  {Order("buyer", <<pay>>, <<nft>>, fraction) :
     pay \in {Coin(4, "none"), Item(1, "other", 0, 4, 4, "none")},
     nft \in {Nft(1, 1, "buyer"), Nft(1, 2, "buyer"), Nft(2, 1, "buyer"), Wildcard(1, "buyer")},
     fraction \in {<<1, 1>>, <<1, 2>>}}

SellerOrders ==
  {[Order(offerer, <<nft>>, asks, <<1, 1>>) EXCEPT !.conduit = conduit] :
     offerer \in {"seller", "buyer"}, conduit \in {"zero", "other"},
     nft \in {Nft(1, 1, "none"), Nft(2, 1, "none")},
     asks \in {<<Coin(4, "seller")>>, <<Coin(3, "seller")>>, <<Coin(2, "seller")>>,
               <<Coin(3, "seller"), Coin(1, "fees")>>,
               <<Coin(1, "seller"), Coin(1, "fees")>>,
               <<Item(1, "weth", 0, 4, 2, "seller")>>}}

Fulfilments ==
  [offer : {<<<<1, 1>>>>, <<<<2, 1>>>>},
   consideration : {<<<<1, 1>>>>, <<<<2, 1>>>>, <<<<2, 2>>>>, <<<<2, 1>>, <<2, 2>>>>,
                    <<<<2, 1>>, <<2, 1>>>>}]

Match ==
  [kind : {"match"}, target : {"seaport"}, value : {2, 4},
   resolvers : {{}, {Resolver(0, 1, 0, 1)}, {Resolver(1, 1, 0, 1)}},
   orders : BuyerOrders \X SellerOrders, fulfillments : Fulfilments \X Fulfilments,
   conduit : {"other"}, recipient : {"other"}]

\* A denominator that has more bits than its type.
Wide ==
  [kind : {"standard"}, target : {"seaport"}, value : {1}, resolvers : {{}},
   orders : {<<Order("buyer", <<Coin(5, "none")>>, <<Nft(1, 5, "buyer")>>, <<1, 5>>)>>},
   conduit : {"other"}, recipient : {"other"}]

SellingCalls == Basic \cup Standard \cup Wide \cup Match
=============================================================================
