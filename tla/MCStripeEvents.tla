--------------------------- MODULE MCStripeEvents ---------------------------
(***************************************************************************)
(* Small instances of StripeEvents: histories of Stripe events.            *)
(***************************************************************************)
EXTENDS StripeEvents, TLC

CONSTANTS p1, p2

MCTargetAccount == [p \in Payment |-> "acct"]

Ev(id, type, created, charge, targets) ==
    [id |-> id, type |-> type, created |-> created, charge |-> charge,
     full |-> FALSE, payout |-> NoPayout, account |-> "acct",
     receipt |-> TRUE, targets |-> targets]

\* A payment that fails, succeeds and is refunded in part, and an event of
\* another account, which is refused.
Refunded ==
    {Ev("e1", "charge.failed", 1, "c1", <<p1>>),
     Ev("e2", "charge.succeeded", 2, "c2", <<p1>>),
     Ev("e3", "charge.refunded", 3, "c2", <<p1>>),
     [Ev("e4", "charge.dispute.created", 4, "c2", <<p1>>)
        EXCEPT !.account = "other"]}

PayoutEvent(id, created, type, targets) ==
    [Ev(id, type, created, NoCharge, targets) EXCEPT !.payout = "po"]

\* Two payments paid out together, before or after the charge of one of them
\* has succeeded, and an event of another environment.
PaidOut ==
    {Ev("e1", "charge.succeeded", 1, "c1", <<p1>>),
     Ev("e2", "charge.failed", 2, "c3", <<Foreign>>),
     PayoutEvent("e3", 3, "payout.created", <<p1, p2>>)}

\* A payout of a FormSG payment and of a charge made outside of FormSG.
MixedPayout ==
    {Ev("e1", "charge.succeeded", 1, "c1", <<p1>>),
     PayoutEvent("e2", 2, "payout.created", <<p1, Foreign>>)}

Symmetry == Permutations(Handler)

=============================================================================
