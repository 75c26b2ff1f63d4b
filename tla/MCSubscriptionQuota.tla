------------------------- MODULE MCSubscriptionQuota -------------------------
(***************************************************************************)
(* Small instances of SubscriptionQuota for TLC.                           *)
(***************************************************************************)
EXTENDS SubscriptionQuota, TLC

OneTotal == <<3>>

TwoTotals == <<2, 3>>

Symmetry == Permutations(Requests)

(* Where every subscription was saved from an outdated copy, NotOvercharged *)
(* and UsedExact say nothing from then on.                                 *)
SomeFresh == stale # Subs
=============================================================================
