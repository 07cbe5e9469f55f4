----------------------------- MODULE MCPayments -----------------------------
(***************************************************************************)
(* Instances of the payments for TLC.                                      *)
(***************************************************************************)
EXTENDS Payments, TLC

CONSTANTS o1, o2, n1, n2

Unused == [gw |-> "none", sub |-> FALSE]
TopUpBy(g) == [gw |-> g, sub |-> FALSE]
SubBy(g) == [gw |-> g, sub |-> TRUE]

\* One order of every kind.
Alone == {(o1 :> k) @@ (o2 :> Unused) : k \in
            {TopUpBy(g) : g \in Gateways} \union {SubBy(g) : g \in Gateways \ {"waffo"}}}

\* Two subscription orders of one user.
TwoSubs == {(o1 :> SubBy(g)) @@ (o2 :> SubBy("creem")) : g \in {"stripe", "epay"}}

EveryMix == Alone \union TwoSubs
EpayOnly == {(o1 :> TopUpBy("epay")) @@ (o2 :> Unused)}
BothDatabases == {"server", "sqlite"}
OnServer == {"server"}
AllFaults == {"db", "crash"}
NoFaults == {}
=============================================================================
