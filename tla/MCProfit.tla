------------------------------ MODULE MCProfit ------------------------------
(* Mints, price sources and offers for TLC to judge. *)
EXTENDS Profit

MintsMC ==
  [payment : {7}, currency : {"ETH", "USDG"}, native : {"ETH"}, gas : {2, 3},
   extra : {0, 1}, tokens : {1, 2}, profit : {0, 1}]
    \cup [payment : {5}, currency : {"HYPE"}, native : {"HYPE"}, gas : {1}, extra : {0},
          tokens : {2}, profit : {1}]

Nothing == [c \in Currencies |-> None]

Asset(id, symbol, price) == [id |-> id, symbol |-> symbol, price |-> price]

Down == [ok |-> FALSE, error |-> 0, assets |-> <<>>]

Listing(assets) == [ok |-> TRUE, error |-> 0, assets |-> assets]

SourcesMC ==
  {[configured |-> configured, environment |-> environment, feed |-> feed] :
     configured \in {Nothing, [Nothing EXCEPT !["USDG"] = 5],
                     [Nothing EXCEPT !["ETH"] = 7, !["USDG"] = 2],
                     [Nothing EXCEPT !["WETH"] = 6, !["USDG"] = 5]},
     environment \in {Nothing, [Nothing EXCEPT !["ETH"] = 7], [Nothing EXCEPT !["ETH"] = 0]},
     feed \in {[ETH |-> Down, HYPE |-> Listing(<<>>)],
               [ETH |-> Listing(<<Asset(32196, "HYPE", 9), Asset(1027, "ETH", 6)>>),
                HYPE |-> Listing(<<Asset(32196, "other", 1)>>)],
               [ETH |-> Listing(<<Asset(1027, "other", 5), Asset(2, "WETH", 9)>>),
                HYPE |-> Listing(<<Asset(1027, "ETH", 3), Asset(2, "HYPE", 8)>>)],
               [ETH |-> [Listing(<<Asset(1027, "ETH", 9)>>) EXCEPT !.error = 1006],
                HYPE |-> Down]}}

OffersMC ==
  {[currency |-> currency, gross |-> gross, fee |-> 1, seller |-> gross - paid, gas |-> gas,
    feeCap |-> 2, extra |-> extra, approval |-> 1 - extra] :
     currency \in {"WETH", "USDG"}, gross \in {8, 13, 22}, paid \in {1, 2},
     gas \in {1, 3}, extra \in {0, 1}}
    \cup {[currency |-> "WETH", gross |-> 60, fee |-> 30, seller |-> 30, gas |-> 1,
          feeCap |-> 2, extra |-> 1, approval |-> 0]}
=============================================================================
