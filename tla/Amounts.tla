------------------------------ MODULE Amounts ------------------------------
(***************************************************************************)
(* The integer arithmetic of src/src/pricing.rs, src/src/arithmetic.rs,    *)
(* src/src/autosell.rs and src/src/autobuy.rs: which way every division    *)
(* rounds.  Overflow of 256 bits, which the code refuses, is left out.     *)
(***************************************************************************)
EXTENDS Integers

CONSTANTS
  Scale,    \* smallest units of a currency in one of it (10^decimals)
  Fine,     \* steps of a feed's price in a micro-dollar
  Hundred   \* steps of the price tolerance in 100 %

\* div_ceil
CeilDiv(a, b) == (a + b - 1) \div b

\* amount_to_usd: what is received counts as the whole micro-dollars of it.
AmountToUsd(amount, price) == (amount * price) \div Scale

\* cost_to_usd
CostToUsd(amount, price) == CeilDiv(amount * price, Scale)

\* parse_price, of a text in Fine-ths of a micro-dollar; None stands for the error.
ParsePrice(text) == text \div Fine

\* scale_u128, by the multiplier m / parts: the product is exact, and rounded up once.
ScaleUp(value, m, parts) == CeilDiv(value * m, parts)

\* run_after_mint: what a token of a batch has to bring back.
ShareOf(total, tokens) == CeilDiv(total, tokens)

-----------------------------------------------------------------------------
(* AutoBuyConfig::price_band *)

BandLower(target, percent) == CeilDiv(target * (Hundred - percent), Hundred)

BandUpper(target, percent) == (target * (Hundred + percent)) \div Hundred

InBand(usd, target, percent) ==
  BandLower(target, percent) <= usd /\ usd <= BandUpper(target, percent)
=============================================================================
