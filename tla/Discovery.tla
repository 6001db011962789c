----------------------------- MODULE Discovery -----------------------------
(***************************************************************************)
(* find_purchase of src/src/autobuy.rs and the loop around it: how a       *)
(* session looks through the pages of a collection's listings.  A cycle    *)
(* reads the first page and one later page; the cursor of the later page   *)
(* lives from cycle to cycle in memory.  An order in the price band is     *)
(* prepared: OpenSea returns the call that takes it, which may ask another *)
(* amount than the listing does, and that amount is judged at a price that *)
(* is looked up again before the call is signed.                           *)
(*                                                                         *)
(* OpenSea's pages and calls, the price of the native currency and         *)
(* failures are the environment's.                                         *)
(***************************************************************************)
EXTENDS Amounts, FiniteSets

CONSTANTS
  Cursors,     \* cursors of later pages
  Floor,       \* the first page, which has no cursor
  Orders,      \* listed orders
  Value,       \* what one unit of each costs by its listing, in the native currency
  Asked,       \* what a returned call that is accepted can ask for each
  Chains,      \* what OpenSea can answer as the next page of each page
  Places,      \* where it can have the orders
  Rates,       \* prices of the native currency
  Target,      \* target_price_usd
  Percent,     \* price_tolerance_percent
  Quantity,    \* how many to buy
  Broken,      \* orders whose preparation always fails with a retryable error
  MaxFailures, \* bound of other retryable failures
  MaxChanges,  \* bound of changes of the pages
  MaxMoves,    \* bound of changes of the price
  None

ASSUME PagesAssumption ==
  /\ None \notin Cursors \cup {Floor}
  /\ Chains \subseteq [Cursors \cup {Floor} -> Cursors \cup {None}]

ASSUME DiscoveryAssumption ==
  /\ Scale \in Nat \ {0}
  /\ Hundred \in Nat \ {0}
  /\ Value \in [Orders -> Nat]
  /\ Asked \in [Orders -> SUBSET Nat]
  /\ Rates \subseteq Nat
  /\ Target \in Nat
  /\ Percent \in 0..Hundred

VARIABLES
  after,    \* the cursor that each page names
  at,       \* the page each order is on
  rate,     \* the price of the native currency
  next,     \* DiscoveryCursor.next
  seen,     \* DiscoveryCursor.seen
  pc,       \* "idle", "fetch", "quote", "look", "prepare", "requote", "found", "end"
  index,    \* page_index
  todo,     \* orders of the page that are still to be looked at
  quoted,   \* the price in the snapshot of the page
  order,    \* the order that is prepared
  done,     \* orders that are completed or failed, or whose token was bought
  bought,   \* progress.purchased
  stable,   \* history: the pages are as they were when this lap began
  asked,    \* fulfillment.transaction.value of the order that is ready
  fresh,    \* history: prices since the order was ready
  failures, changes, moves

pages == <<after, at, changes>>
price == <<rate, moves>>
cursor == <<next, seen, stable>>
progress == <<done, bought>>
judged == <<asked, fresh>>
vars == <<pages, price, cursor, progress, pc, index, todo, quoted, order, judged, failures>>

Pages == Cursors \cup {Floor}

Init ==
  /\ after \in Chains
  /\ at \in Places
  /\ rate \in Rates
  /\ next = None
  /\ seen = {}
  /\ pc = "idle"
  /\ index = 0
  /\ todo = {}
  /\ quoted = None
  /\ order = None
  /\ done = {}
  /\ bought = 0
  /\ stable = TRUE
  /\ asked = None
  /\ fresh = {}
  /\ failures = 0
  /\ changes = 0
  /\ moves = 0

-----------------------------------------------------------------------------

Tick ==
  /\ pc = "idle"
  /\ bought < Quantity
  /\ pc' = "fetch"
  /\ index' = 0
  /\ UNCHANGED <<pages, price, cursor, progress, todo, quoted, order, judged, failures>>

On(page) == {o \in Orders : at[o] = page}

\* Mutant: the first page always restarts the lap.
FetchFloorRestarts ==
  /\ pc = "fetch"
  /\ index = 0
  /\ seen' = {} /\ next' = after[Floor] /\ stable' = TRUE
  /\ todo' = On(Floor)
  /\ pc' = "quote"
  /\ UNCHANGED <<pages, price, progress, index, quoted, order, judged, failures>>

\* The first page starts a lap when the one before is over.
FetchFloor ==
  /\ pc = "fetch"
  /\ index = 0
  /\ IF next = None
     THEN seen' = {} /\ next' = after[Floor] /\ stable' = TRUE
     ELSE UNCHANGED cursor
  /\ todo' = On(Floor)
  /\ pc' = "quote"
  /\ UNCHANGED <<pages, price, progress, index, quoted, order, judged, failures>>

\* Mutant: a cursor that comes again is followed.
FetchLaterAgain ==
  /\ pc = "fetch"
  /\ index = 1
  /\ seen' = seen \cup {next}
  /\ next' = after[next]
  /\ todo' = On(next)
  /\ pc' = "quote"
  /\ UNCHANGED <<pages, price, progress, index, quoted, order, stable, judged, failures>>

\* A later page moves the cursor, before anything on the page is looked at; a
\* cursor that comes again ends the lap and the cycle.
FetchLater ==
  /\ pc = "fetch"
  /\ index = 1
  /\ IF next \in seen
     THEN next' = None /\ seen' = {} /\ pc' = "idle" /\ UNCHANGED todo
     ELSE /\ seen' = seen \cup {next}
          /\ next' = after[next]
          /\ todo' = On(next)
          /\ pc' = "quote"
  /\ UNCHANGED <<pages, price, progress, index, quoted, order, stable, judged, failures>>

Quote ==
  /\ pc = "quote"
  /\ quoted' = rate
  /\ pc' = "look"
  /\ UNCHANGED <<pages, price, cursor, progress, index, todo, order, judged, failures>>

Eligible(value, usdPrice) == InBand(CostToUsd(value, usdPrice), Target, Percent)

Skip(o) ==
  /\ pc = "look"
  /\ o \in todo
  /\ o \in done \/ ~Eligible(Value[o], quoted)
  /\ todo' = todo \ {o}
  /\ UNCHANGED <<pages, price, cursor, progress, pc, index, quoted, order, judged, failures>>

Select(o) ==
  /\ pc = "look"
  /\ o \in todo \ done
  /\ Eligible(Value[o], quoted)
  /\ todo' = todo \ {o}
  /\ order' = o
  /\ pc' = "prepare"
  /\ UNCHANGED <<pages, price, cursor, progress, index, quoted, judged, failures>>

\* OpenSea does not have the order any more, its call is not as it should be, or it
\* cannot be simulated or is too dear.
Unavailable ==
  /\ pc = "prepare"
  /\ order \notin Broken
  /\ pc' = "look"
  /\ order' = None
  /\ UNCHANGED <<pages, price, cursor, progress, index, todo, quoted, judged, failures>>

Ready ==
  /\ pc = "prepare"
  /\ order \notin Broken
  /\ pc' = "requote"
  /\ asked' \in Asked[order]
  /\ fresh' = {rate}
  /\ UNCHANGED <<pages, price, cursor, progress, index, todo, quoted, order, failures>>

\* What is judged last is the value, at the price that is read again after the
\* preparation.
Judge(value) ==
  /\ pc = "requote"
  /\ IF Eligible(value, rate)
     THEN pc' = "found" /\ UNCHANGED <<order, judged>>
     ELSE pc' = "look" /\ order' = None /\ asked' = None /\ fresh' = {}
  /\ UNCHANGED <<pages, price, cursor, progress, index, todo, quoted, failures>>

\* Mutant: the listing's value is judged, at the new price.
RequoteListing == Judge(Value[order])

\* "The fulfillment value is authoritative": the amount of the returned call counts.
Requote == Judge(asked)

\* BuyRunner::run: the purchase is sent and settled (module AutoBuy).  An ERC-1155
\* order can be bought from again.
Buy ==
  /\ pc = "found"
  /\ \/ bought' = bought + 1 /\ done' \in {done, done \cup {order}}
     \/ bought' = bought /\ done' = done \cup {order}
  /\ pc' = "idle"
  /\ order' = None
  /\ asked' = None
  /\ fresh' = {}
  /\ todo' = {}
  /\ UNCHANGED <<pages, price, cursor, index, quoted, failures>>

\* The cycle goes on with a later page if there is one.
PageDone ==
  /\ pc = "look"
  /\ todo = {}
  /\ IF index = 0 /\ next # None THEN pc' = "fetch" /\ index' = 1
     ELSE pc' = "idle" /\ UNCHANGED index
  /\ UNCHANGED <<pages, price, cursor, progress, todo, quoted, order, judged, failures>>

\* A retryable error ends the cycle.
Fail ==
  /\ pc \in {"fetch", "quote", "prepare", "requote"}
  /\ \/ pc = "prepare" /\ order \in Broken /\ UNCHANGED failures
     \/ failures < MaxFailures /\ failures' = failures + 1
  /\ pc' = "idle"
  /\ todo' = {}
  /\ order' = None
  /\ asked' = None
  /\ fresh' = {}
  /\ UNCHANGED <<pages, price, cursor, progress, index, quoted>>

\* Everything is bought.
Complete ==
  /\ pc = "idle"
  /\ bought = Quantity
  /\ pc' = "end"
  /\ UNCHANGED <<pages, price, cursor, progress, index, todo, quoted, order, judged, failures>>

\* ctrl-C, or an error that is not retryable.
Stop ==
  /\ pc \notin {"found", "end"}
  /\ pc' = "end"
  /\ UNCHANGED <<pages, price, cursor, progress, index, todo, quoted, order, judged, failures>>

-----------------------------------------------------------------------------
(* The environment. *)

PriceMoves ==
  /\ moves < MaxMoves
  /\ \E new \in Rates \ {rate} :
       /\ rate' = new
       /\ fresh' = IF fresh = {} THEN {} ELSE fresh \cup {new}
  /\ moves' = moves + 1
  /\ UNCHANGED <<pages, cursor, progress, pc, index, todo, quoted, order, asked, failures>>

Relist ==
  /\ changes < MaxChanges
  /\ after' \in Chains
  /\ at' \in Places
  /\ changes' = changes + 1
  /\ stable' = FALSE
  /\ UNCHANGED <<price, next, seen, progress, pc, index, todo, quoted, order, judged, failures>>

Look == \E o \in Orders : Skip(o) \/ Select(o)

\* What find_purchase and its loop do by themselves.
Cycle ==
  \/ Tick \/ FetchFloor \/ FetchLater \/ Quote \/ Look \/ PageDone
  \/ Unavailable \/ Ready \/ Requote \/ Buy \/ Complete \/ Fail

Next == Cycle \/ Stop \/ PriceMoves \/ Relist

Spec == Init /\ [][Next]_vars

\* The poll timer ticks, and every request has a timeout.
FairSpec == Spec /\ WF_vars(Cycle)

-----------------------------------------------------------------------------
(* Properties. *)

\* Every variable has its type, and no more is bought than was asked for.
TypeOK ==
  /\ after \in Chains
  /\ at \in Places
  /\ rate \in Rates
  /\ next \in Cursors \cup {None}
  /\ seen \subseteq Cursors
  /\ pc \in {"idle", "fetch", "quote", "look", "prepare", "requote", "found", "end"}
  /\ index \in {0, 1}
  /\ todo \subseteq Orders
  /\ quoted \in Rates \cup {None}
  /\ order \in Orders \cup {None}
  /\ done \subseteq Orders
  /\ bought \in 0..Quantity
  /\ stable \in BOOLEAN
  /\ asked \in UNION {Asked[o] : o \in Orders} \cup {None}
  /\ fresh \subseteq Rates

\* While the pages stay as they are a lap reads them in their order and leaves none
\* out: each page that was read is the one that the page before it names, and the
\* cursor is what the last one names.
LapIsGapless ==
  stable /\ next # None =>
    LET read == Cardinality(seen)
    IN  \E lap \in [0..read -> Pages] :
          /\ lap[0] = Floor
          /\ \A i \in 1..read : lap[i] = after[lap[i - 1]]
          /\ seen = {lap[i] : i \in 1..read}
          /\ next = after[lap[read]]

\* What the call that is about to be signed asks is in the price band at a price that
\* held after the call was ready, whatever its listing cost when it was selected: it
\* is at most the upper bound, and less than the lower one by no more than the
\* rounding of its cost.
PaidWithinBand ==
  pc = "found" =>
    \E r \in fresh :
      /\ Hundred * (asked * r) <= Target * (Hundred + Percent) * Scale
      /\ Hundred * (asked * r + Scale) > Target * (Hundred - Percent) * Scale

\* The i-th page of the collection as it is now, 0 being the first.
Page[i \in Nat] ==
  IF i = 0 THEN Floor
  ELSE IF Page[i - 1] = None THEN None
  ELSE after[Page[i - 1]]

\* An order that could be bought now.
Wanted(o) ==
  /\ \E i \in 0..Cardinality(Cursors) : Page[i] # None /\ at[o] = Page[i]
  /\ o \notin done
  /\ Eligible(Value[o], rate)

IsLookedAt(o) == pc = "prepare" /\ order = o

\* "Preserve that later-page cursor so large collections still get complete
\* coverage": an order that stays listed, is not done and stays in the band is
\* looked at again and again, wherever it is, until the session ends.
Covered ==
  \A o \in Orders \ Broken :
    <>[]Wanted(o) => <>[](pc = "end") \/ []<>IsLookedAt(o)
=============================================================================
