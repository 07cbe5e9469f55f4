------------------------- MODULE MCBillingSession -------------------------
(* Instances of BillingSession for TLC. *)
EXTENDS BillingSession

\* Two requests already contend for every row.
TwoRequests == {1, 2}

Info(p, q, pg, f) == [pref |-> p, pre |-> q, playground |-> pg, force |-> f]

\* Both funding sources first, a free estimate in the playground (which has no
\* token), a negative estimate, and one beyond the wallet.
AllInfos ==
    {Info(p, 2, FALSE, FALSE) : p \in {"wallet_first", "subscription_first"}}
        \cup {Info("subscription_first", 0, TRUE, FALSE),
              Info("wallet_only", -1, FALSE, FALSE), Info("wallet_first", 6, FALSE, TRUE)}

SubscriptionInfos == {Info("subscription_only", 2, FALSE, FALSE)}
=============================================================================
