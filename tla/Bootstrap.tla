----------------------------- MODULE Bootstrap ------------------------------
(***************************************************************************)
(* stratify.bootstrap_stability: the percentile interval of a pass rate.   *)
(*                                                                         *)
(* Of 1000 resamples of n trials, k of them passing, about 1000 F(j) have  *)
(* at most j passes, F being the binomial distribution with rate k/n.  The *)
(* seed decides the exact counts, so the module gives every interval that  *)
(* counts within Slack of 1000 F(j) lead to.  Bounds are in units of       *)
(* 1/Scale.                                                                *)
(***************************************************************************)
EXTENDS Integers, Combinatorics, FiniteSetsExt

CONSTANTS Scale, Slack

(* np.quantile may land one fortieth of a step from a multiple of 1/n: for  *)
(* the bounds of n trials to be integers, 40 n divides Scale.  Slack is in *)
(* 0..24, so that the first and the last resamples are never in doubt.     *)

(* 1000 n^n F(j), and the resamples' number times n^n. *)
Cumulative(n, k, j) ==
  1000 * MapThenSumSet(LAMBDA i : choose(n, i) * k^i * (n - k)^(n - i), 0..j)

CanReach(n, k, j, rank) == Cumulative(n, k, j) + Slack * n^n >= rank * n^n
CanMiss(n, k, j, rank) == Cumulative(n, k, j) - Slack * n^n < rank * n^n

(* The passes the resample of that rank (1..1000, in increasing order) may *)
(* have.                                                                   *)
OrderStatistic(n, k, rank) ==
  { j \in 0..n : /\ CanReach(n, k, j, rank)
                 /\ j > 0 => CanMiss(n, k, j - 1, rank) }

(* The rank is the last with j passes, and the quantile lies part of the   *)
(* way (in fortieths) to the next resample.                                *)
Between(n, k, rank, fortieths) ==
  { j * (Scale \div n) + fortieths * (Scale \div (40 * n)) :
      j \in { i \in 0..(n - 1) : /\ CanReach(n, k, i, rank)
                                 /\ CanMiss(n, k, i, rank + 1) } }

Quantile(n, k, rank, fortieths) ==
  { j * (Scale \div n) : j \in OrderStatistic(n, k, rank) }
    \cup Between(n, k, rank, fortieths)

bootstrap_stability(n, k) ==
  IF k \in {0, n}
  THEN { <<k * (Scale \div n), k * (Scale \div n)>> }
  ELSE Quantile(n, k, 25, 39) \X Quantile(n, k, 975, 1)
=============================================================================
