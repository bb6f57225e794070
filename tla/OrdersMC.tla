------------------------------ MODULE OrdersMC ------------------------------
(* Small instances of Orders for TLC. *)
EXTENDS Orders, TLC

CONSTANTS o1, o2, o3, u1, u2, vip, h1, h2, worker

Request(u, q) == [userId |-> u, categoryId |-> vip, quantity |-> q]

\* Two tickets for u1 and one for u1 or u2.
DtoOne == o1 :> Request(u1, 2)
DtoTwo == (o1 :> Request(u1, 2)) @@ (o2 :> Request(u1, 1))
DtoSingles == (o1 :> Request(u1, 1)) @@ (o2 :> Request(u1, 1)) @@ (o3 :> Request(u2, 1))
DtoThree == (o1 :> Request(u1, 2)) @@ (o2 :> Request(u1, 1)) @@ (o3 :> Request(u2, 1))

\* n tickets, part of the price back until some ticks before the event.
Vip(n, limit, percentage, hours) ==
    vip :> [totalStock |-> n, maxTicketsPerUser |-> limit, refundPolicy |-> "PARTIAL",
            refundPercentage |-> percentage, refundDeadlineHours |-> hours]
VipThree == Vip(3, 3, 50, 0)
VipOne == Vip(1, 2, 50, 1)
VipTwo == Vip(2, 2, 50, 1)
VipFour == Vip(4, 2, 50, 1)

Symmetry == Permutations({h1, h2})
=============================================================================
