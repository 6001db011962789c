------------------------------ MODULE Seaport ------------------------------
(***************************************************************************)
(* What Seaport 1.6 does with a call, as far as src/src/autosell.rs and    *)
(* src/src/autobuy.rs rely on it: the transfers that it makes, or that it  *)
(* reverts.                                                                *)
(*                                                                         *)
(* An item of an order is [type, token, id, start, end, to]: the type is   *)
(* Seaport's (0 native, 1 ERC-20, 2 ERC-721, 3 ERC-1155, 4 and 5 the same  *)
(* with a criterion), "to" the recipient of a consideration item.  An      *)
(* order is [offerer, offer, consideration, n, d, conduit], n / d being    *)
(* the fraction that is filled.  A call is basic, standard (fulfillOrder,  *)
(* fulfillAdvancedOrder) or a match.                                       *)
(***************************************************************************)
EXTENDS Integers, Sequences, FiniteSets, Functions

CONSTANT Caller  \* who calls

Item == [type : Nat, token : STRING, id : Nat, start : Nat, end : Nat, to : STRING]

Order == [offerer : STRING, offer : Seq(Item), consideration : Seq(Item), n : Nat, d : Nat,
          conduit : STRING]

Resolver == [order : Nat, side : {0, 1}, index : Nat, id : Nat]

\* Components count orders and items from 1.
Fulfilment == [offer : Seq(Nat \X Nat), consideration : Seq(Nat \X Nat)]

BasicCall ==
  [kind : {"basic"}, target : STRING, value : Nat, route : Nat, offerToken : STRING,
   offerId : Nat, offerAmount : Nat, considerationToken : STRING, considerationId : Nat,
   considerationAmount : Nat, offerer : STRING, recipients : Seq([amount : Nat, to : STRING]),
   conduit : STRING, recipient : STRING]

StandardCall ==
  {p \in [kind : {"standard"}, target : STRING, value : Nat, resolvers : SUBSET Resolver,
          orders : Seq(Order), conduit : STRING, recipient : STRING] :
     Len(p.orders) = 1 /\ IsFiniteSet(p.resolvers)}

MatchCall ==
  {p \in [kind : {"match"}, target : STRING, value : Nat, resolvers : SUBSET Resolver,
          orders : Seq(Order), fulfillments : Seq(Fulfilment), conduit : STRING,
          recipient : STRING] : IsFiniteSet(p.resolvers)}

Call == BasicCall \cup StandardCall \cup MatchCall

\* What resolves the criterion of an item; orders and items are counted from 0.
Resolving(p, order, side, index) ==
  {r \in p.resolvers : r.order = order /\ r.side = side /\ r.index = index}

Resolved(p, item, order, side, index) ==
  item.type \in {4, 5} => Cardinality(Resolving(p, order, side, index)) = 1

\* The asset an item stands for.
Asset(p, item, order, side, index) ==
  IF item.type \in {4, 5}
  THEN [type |-> item.type - 2, token |-> item.token,
        id |-> (CHOOSE r \in Resolving(p, order, side, index) : TRUE).id]
  ELSE [type |-> item.type, token |-> item.token, id |-> item.id]

\* An amount that varies over time is anything from its start to its end.
Amounts(item) ==
  IF item.start <= item.end THEN item.start..item.end ELSE item.end..item.start

\* A fill that is not exact reverts.
Exact(order, item) == \A a \in Amounts(item) : (a * order.n) % order.d = 0

\* A transfer is [asset, amount, from, to].
Transfer(asset, amount, from, to) ==
  [asset |-> asset, amount |-> amount, from |-> from, to |-> to]

\* The transfers of a call are a family of them: here, those of two sequences.
Both(first, second) ==
  [x \in ({0} \X DOMAIN first) \cup ({1} \X DOMAIN second) |->
     IF x[1] = 0 THEN first[x[2]] ELSE second[x[2]]]

\* What each part of a family amounts to.
AmountsOf(family) == [x \in DOMAIN family |-> family[x].amount]

-----------------------------------------------------------------------------

\* The routes on which an ERC-20 token is paid for the offerer's token are left out.
BasicReverts(p) ==
  CASE p.route \in {0, 1} -> p.considerationToken # "zero" \/ p.considerationId # 0
    [] p.route \in {4, 5} -> p.offerId # 0 \/ SumFunction(AmountsOf(p.recipients)) > p.offerAmount
    [] OTHER -> TRUE

\* The offerer gives money for the caller's token; others get theirs out of it.
BasicBid(p) ==
  LET nft == [type |-> p.route - 2, token |-> p.considerationToken,
              id |-> p.considerationId]
      money == [type |-> 1, token |-> p.offerToken, id |-> 0]
      left == p.offerAmount - SumFunction(AmountsOf(p.recipients))
  IN  Both(<<Transfer(nft, p.considerationAmount, Caller, p.offerer),
             Transfer(money, left, p.offerer, Caller)>>,
           [i \in DOMAIN p.recipients |->
              Transfer(money, p.recipients[i].amount, p.offerer, p.recipients[i].to)])

\* The caller pays the offerer and the others for the offerer's token.
BasicListing(p) ==
  LET nft == [type |-> p.route + 2, token |-> p.offerToken, id |-> p.offerId]
      money == [type |-> 0, token |-> "zero", id |-> 0]
  IN  Both(<<Transfer(nft, p.offerAmount, p.offerer, Caller),
             Transfer(money, p.considerationAmount, Caller, p.offerer)>>,
           [i \in DOMAIN p.recipients |->
              Transfer(money, p.recipients[i].amount, Caller, p.recipients[i].to)])

BasicTransfers(p) == IF p.route \in {0, 1} THEN BasicListing(p) ELSE BasicBid(p)

-----------------------------------------------------------------------------

\* Every amount of an order as it is when the call is mined.
AmountsNow(items) ==
  {a \in [DOMAIN items -> UNION {Amounts(items[i]) : i \in DOMAIN items}] :
     \A i \in DOMAIN items : a[i] \in Amounts(items[i])}

Share(order, amount) == (amount * order.n) \div order.d

\* The items of one side can be taken as they are.
Takes(p, items, side) ==
  \A i \in DOMAIN items : Resolved(p, items[i], 0, side, i - 1) /\ Exact(p.orders[1], items[i])

StandardReverts(p) ==
  ~Takes(p, p.orders[1].offer, 0) \/ ~Takes(p, p.orders[1].consideration, 1)

StandardTransfers(p, offered, asked) ==
  LET order == p.orders[1]
  IN  Both([i \in DOMAIN order.offer |->
              Transfer(Asset(p, order.offer[i], 0, 0, i - 1),
                       Share(order, offered[i]), order.offerer, p.recipient)],
           [i \in DOMAIN order.consideration |->
              Transfer(Asset(p, order.consideration[i], 0, 1, i - 1),
                       Share(order, asked[i]), Caller, order.consideration[i].to)])

-----------------------------------------------------------------------------
(* A match connects offered and asked items by <<order, item>>. *)

ItemAt(p, component) ==
  p.orders[component[1]].consideration[component[2]]

\* Every component of a fulfilment, as <<fulfilment, side, place>>.
Uses(p) ==
  UNION {{<<f, 0, k>> : k \in DOMAIN p.fulfillments[f].offer}
           \cup {<<f, 1, k>> : k \in DOMAIN p.fulfillments[f].consideration} :
         f \in DOMAIN p.fulfillments}

Used(p, use) ==
  IF use[2] = 0 THEN p.fulfillments[use[1]].offer[use[3]]
  ELSE p.fulfillments[use[1]].consideration[use[3]]

ItemsOf(p) ==
  UNION {{<<0, o, i>> : i \in DOMAIN p.orders[o].offer}
           \cup {<<1, o, i>> : i \in DOMAIN p.orders[o].consideration} : o \in DOMAIN p.orders}

\* The only item that a fulfilment takes from, and its order.
Source(p, f) == p.fulfillments[f].offer[1]

SourceOrder(p, f) == p.orders[Source(p, f)[1]]

SourceItem(p, f) == SourceOrder(p, f).offer[Source(p, f)[2]]

SourceResolved(p, f) ==
  Resolved(p, SourceItem(p, f), Source(p, f)[1] - 1, 0, Source(p, f)[2] - 1)

SourceAsset(p, f) == Asset(p, SourceItem(p, f), Source(p, f)[1] - 1, 0, Source(p, f)[2] - 1)

Has(p, f) == Share(SourceOrder(p, f), SourceItem(p, f).start)

\* The item that the component k of the fulfilment f gives to, x being <<f, k>>.
Target(p, x) == p.fulfillments[x[1]].consideration[x[2]]

Due(p, x) == Share(p.orders[Target(p, x)[1]], ItemAt(p, Target(p, x)).start)

TotalDue(p, f) ==
  SumFunction([k \in DOMAIN p.fulfillments[f].consideration |-> Due(p, <<f, k>>)])

\* Each consideration gets what it asks for out of one offer, exactly.
Fulfils(p, f) ==
  /\ SourceResolved(p, f)
  /\ Exact(SourceOrder(p, f), SourceItem(p, f))
  /\ \A k \in DOMAIN p.fulfillments[f].consideration :
       LET at == Target(p, <<f, k>>)
       IN  /\ Exact(p.orders[at[1]], ItemAt(p, at))
           /\ Resolved(p, ItemAt(p, at), at[1] - 1, 1, at[2] - 1)
           /\ Asset(p, ItemAt(p, at), at[1] - 1, 1, at[2] - 1) = SourceAsset(p, f)
  /\ TotalDue(p, f) <= Has(p, f)

UsedOnce(p, item) ==
  Cardinality({use \in Uses(p) : use[2] = item[1] /\ Used(p, use) = <<item[2], item[3]>>}) = 1

MatchReverts(p) ==
  \/ \E f \in DOMAIN p.fulfillments : ~Fulfils(p, f)
  \/ \E item \in ItemsOf(p) : ~UsedOnce(p, item)

\* Beside its components (k > 0) a fulfilment has what it leaves over, which goes to
\* the recipient of the call.
MatchTransfers(p) ==
  [x \in UNION {{f} \X (0 .. Len(p.fulfillments[f].consideration)) :
                f \in DOMAIN p.fulfillments} |->
     LET from == SourceOrder(p, x[1]).offerer
     IN  IF x[2] = 0
         THEN Transfer(SourceAsset(p, x[1]), Has(p, x[1]) - TotalDue(p, x[1]), from, p.recipient)
         ELSE Transfer(SourceAsset(p, x[1]), Due(p, x), from, ItemAt(p, Target(p, x)).to)]

-----------------------------------------------------------------------------

Reverts(call) ==
  CASE call.kind = "basic" -> BasicReverts(call)
    [] call.kind = "standard" -> StandardReverts(call)
    [] call.kind = "match" -> MatchReverts(call)

\* The transfers that a call can make when it does not revert.
Outcomes(call) ==
  CASE call.kind = "basic" -> {BasicTransfers(call)}
    [] call.kind = "standard" ->
         {StandardTransfers(call, offered, asked) :
            offered \in AmountsNow(call.orders[1].offer),
            asked \in AmountsNow(call.orders[1].consideration)}
    [] call.kind = "match" -> {MatchTransfers(call)}

\* The transfers of an asset to the caller, and from the caller.
Received(transfers, asset) ==
  {x \in DOMAIN transfers : transfers[x].asset = asset /\ transfers[x].to = Caller}

Spent(transfers, asset) ==
  {x \in DOMAIN transfers : transfers[x].asset = asset /\ transfers[x].from = Caller}

\* What the caller gains of an asset.
GainOf(transfers, asset) ==
  SumFunctionOnSet(AmountsOf(transfers), Received(transfers, asset))
    - SumFunctionOnSet(AmountsOf(transfers), Spent(transfers, asset))

Gain(transfers) ==
  [asset \in {transfers[x].asset : x \in DOMAIN transfers} |-> GainOf(transfers, asset)]

\* What the caller has to send with the call.
NativeDue(transfers) ==
  SumFunctionOnSet(AmountsOf(transfers),
    {x \in DOMAIN transfers : transfers[x].asset.type = 0 /\ transfers[x].from = Caller})
=============================================================================
