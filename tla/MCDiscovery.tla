---------------------------- MODULE MCDiscovery -----------------------------
(* Collections of up to four pages for TLC. *)
EXTENDS Discovery

\* Pages in a row, a cursor that repeats, and a shorter list.
ChainsMC ==
  {[f |-> "c1", c1 |-> "c2", c2 |-> "c3", c3 |-> None],
   [f |-> "c1", c1 |-> "c2", c2 |-> "c3", c3 |-> "c2"],
   [f |-> "c2", c1 |-> None, c2 |-> None, c3 |-> "c1"],
   [f |-> None, c1 |-> None, c2 |-> "c1", c3 |-> "c3"]}

PlacesMC ==
  {[a |-> "f", b |-> "c3"], [a |-> "c1", b |-> "c2"], [a |-> "c1", b |-> "c1"]}

ValueMC == [a |-> 9, b |-> 10]

\* The returned call asks what the listing does, less or more.
AskedMC == [a |-> {7, 9, 12}, b |-> {10, 15}]

\* An order on the first page that OpenSea can never prepare.
BrokenPlaces == {[a |-> "f", b |-> "c1"]}

LongChains == {[f |-> "c1", c1 |-> "c2", c2 |-> "c3", c3 |-> None]}
=============================================================================
