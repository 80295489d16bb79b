--------------------------------- MODULE Amounts ---------------------------------
(***************************************************************************)
(* The arithmetic of launch: formatDecimals of src/utils/substrate.ts and  *)
(* the amounts of Job.launch.  JavaScript computes with binary floats, each*)
(* operation rounded to Precision bits, and BN makes an integer of the     *)
(* outcome: it cuts the fraction off and refuses what Precision bits do    *)
(* not count exactly.  A float is written <<n, d>>, its value n / d.       *)
(***************************************************************************)
EXTENDS Integers

CONSTANTS
    Precision,    \* bits of a float's mantissa (53)
    Decimals,     \* decimals of the chain's currency, as its registry tells (12)
    PriceScale,   \* task_bid_price is given in 1 / PriceScale of the currency
    Refused       \* stands for the error BN throws

(* What Precision bits count up to. *)
Limit == 2 ^ Precision

(* The scales are floats themselves, and a float tells percentages apart. *)
ASSUME AmountsAssumption ==
    /\ Precision \in Nat /\ Precision >= 8
    /\ Decimals \in Nat /\ 10 ^ Decimals \in 1 .. Limit
    /\ PriceScale \in 1 .. Limit
    /\ Refused \notin Int

(* A bound on exponents, of more than the amounts below come to; that of a double is 1074. *)
MaxExponent == 4 * Precision

(* The integer nearest to n / d, the even one of two. *)
Nearest(n, d) ==
    LET q == n \div d
        r == n % d
    IN IF 2 * r > d \/ (2 * r = d /\ q % 2 = 1) THEN q + 1 ELSE q

(* The float nearest to n / d: what a literal is read as, and an operation returns. *)
Float(n, d) ==
    IF n = 0 THEN <<0, 1>>
    ELSE IF n < Limit * d
    THEN LET e == CHOOSE e \in 0 .. MaxExponent :
                      /\ 2 * n * 2 ^ e >= Limit * d
                      /\ e = 0 \/ 2 * n * 2 ^ (e - 1) < Limit * d
         IN <<Nearest(n * 2 ^ e, d), 2 ^ e>>
    ELSE LET e == CHOOSE e \in 1 .. MaxExponent :
                      /\ n < Limit * d * 2 ^ e
                      /\ 2 * n >= Limit * d * 2 ^ e
         IN <<Nearest(n, d * 2 ^ e) * 2 ^ e, 1>>

Times(x, y) == Float(x[1] * y[1], x[2] * y[2])

(* new BN(x) *)
BN(x) == IF x[1] >= Limit * x[2] THEN Refused ELSE x[1] \div x[2]

(* Mutated: the amount is the float itself, whatever the decimals. *)
formatDecimalsNone(x) == BN(x)

formatDecimals(x) == BN(Times(x, <<10 ^ Decimals, 1>>))

(* oracle_stake, given in hundredths, as the percentage the pallet takes. *)
OracleStake(stake) == BN(Times(Float(stake, 100), <<100, 1>>))

(* Mutated: each task is priced in units before the sum is taken. *)
FormattedAmountPerTask(tasks, price) ==
    LET each == formatDecimals(Float(price, PriceScale))
    IN IF each = Refused THEN Refused ELSE tasks * each

(* job_total_tasks times task_bid_price, in units of the chain. *)
FormattedAmount(tasks, price) == formatDecimals(Times(<<tasks, 1>>, Float(price, PriceScale)))
================================================================================
