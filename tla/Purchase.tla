------------------------------ MODULE Purchase ------------------------------
(***************************************************************************)
(* What the clan shop promises: coins are spent only as far as the clan has  *)
(* them, and a purchase that is voted on holds its price until it is settled *)
(* once, with the item or with the coins.                                    *)
(***************************************************************************)
EXTENDS Integers, FiniteSets

CONSTANTS VotingId, Coins, Price

VARIABLES
    coins,          \* of the clan
    open,           \* the purchases being voted on
    settled,        \* those that were
    items           \* in the clan's stock

vars == <<coins, open, settled, items>>

Init == coins = Coins /\ open = {} /\ settled = {} /\ items = 0

Buy ==
    /\ coins >= Price
    /\ coins' = coins - Price /\ items' = items + 1
    /\ UNCHANGED <<open, settled>>

Reserve(v) ==
    /\ coins >= Price /\ v \notin open \cup settled
    /\ coins' = coins - Price /\ open' = open \cup {v}
    /\ UNCHANGED <<settled, items>>

Settle(v) ==
    /\ v \in open
    /\ open' = open \ {v} /\ settled' = settled \cup {v}
    /\ \/ items' = items + 1 /\ UNCHANGED coins
       \/ coins' = coins + Price /\ UNCHANGED items

Next == Buy \/ \E v \in VotingId : Reserve(v) \/ Settle(v)

Spec == Init /\ [][Next]_vars

\* The clan's coins, the price held by open purchases and the price of the items
\* make up the coins at the start, and the clan is never in debt.
Conserved ==
    /\ coins >= 0
    /\ coins + Price * (Cardinality(open) + items) = Coins
============================================================================
