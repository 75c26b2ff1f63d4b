-------------------------- MODULE MCBillingSession --------------------------
(***************************************************************************)
(* Small instances of BillingSession for TLC.                              *)
(***************************************************************************)
EXTENDS BillingSession, TLC

Symmetry == Permutations(Requests)

Kind(playground, force, pref) ==
    [playground |-> playground, force |-> force, pref |-> pref]

FallbackKinds == {Kind(FALSE, FALSE, "wallet_first"),
                  Kind(FALSE, FALSE, "subscription_first"),
                  Kind(FALSE, FALSE, "subscription_only")}
EveryKind == {Kind(FALSE, FALSE, "wallet_only"),
              Kind(FALSE, TRUE, "wallet_only"),
              Kind(TRUE, FALSE, "wallet_only"),
              Kind(FALSE, TRUE, "subscription_first"),
              Kind(TRUE, FALSE, "wallet_first")}
=============================================================================
