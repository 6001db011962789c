------------------------------ MODULE Encoding -----------------------------
(***************************************************************************)
(* encode_fulfillment of src/src/autosell.rs, which sales and purchases    *)
(* share: the call of Seaport that is signed for the arguments that        *)
(* OpenSea has returned.  Calls are those of module Seaport.               *)
(***************************************************************************)
EXTENDS Integers, Sequences

CONSTANTS
  Wallet,  \* who signs
  Width    \* bits of a fill fraction's numerator and denominator (120 in Seaport)

Orders(p) == IF p.kind = "basic" THEN <<>> ELSE p.orders

\* Mutant: integers are cut to the width of their ABI type.
FitsAny(value) == TRUE

\* json_uint
Fits(value) == value < 2^Width

\* advanced_order_value
Encodable(p) == \A o \in DOMAIN Orders(p) : Fits(Orders(p)[o].n) /\ Fits(Orders(p)[o].d)

Cut(orders) ==
  [o \in DOMAIN orders |-> [orders[o] EXCEPT !.n = @ % 2^Width, !.d = @ % 2^Width]]

\* basic_order_value: the zero conduit key is Seaport itself, and Seaport pays the
\* caller.
EncodeBasic(p) == [p EXCEPT !.conduit = "zero"]

\* advanced_order_args, regular_order_args: the conduit key is zero, and the wallet
\* is paid, whatever OpenSea has put there.
EncodeStandard(p) == [p EXCEPT !.conduit = "zero", !.recipient = Wallet, !.orders = Cut(@)]

\* match_advanced_order_args: what a match leaves over goes to the wallet.
EncodeMatch(p) == [p EXCEPT !.recipient = Wallet, !.orders = Cut(@)]

Encode(p) ==
  CASE p.kind = "basic" -> EncodeBasic(p)
    [] p.kind = "standard" -> EncodeStandard(p)
    [] p.kind = "match" -> EncodeMatch(p)
=============================================================================
