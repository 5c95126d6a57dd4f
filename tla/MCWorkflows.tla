------------------------------ MODULE MCWorkflows ------------------------------
(* Model values for Workflows; the configurations give the bounds. *)
EXTENDS Workflows, TLC

CONSTANTS p1, p2, p3, r1, r2, o1, o2, v1, v2, s1, s2, s3, t1, t2

ExecsOf ==
  [payment |-> {p1, p2, p3}, returns |-> {r1, r2}, orders |-> {o1, o2}, vendor |-> {v1, v2},
   stock |-> {s1, s2, s3}, sale |-> {t1, t2}]

Execs == UNION {ExecsOf[f] : f \in DOMAIN ExecsOf}
FlowOf == [x \in Execs |-> CHOOSE f \in DOMAIN ExecsOf : x \in ExecsOf[f]]
\* Those of a workflow are about one thing, except the returns, r2's a large
\* refund; the payments, one per gateway, are considered one at a time.
AboutOf == [x \in Execs |-> IF x = r2 THEN 2 ELSE 1]
GatewayOf == (p1 :> "stripe") @@ (p2 :> "paypal") @@ (p3 :> "alipay")
LargeRefunds == {2}
\* What does not interact is considered by itself, and so is the membership.
Together == {{}, {p1}, {p2}, {p3}, {r1}, {r2}, {o1, o2}, {v1, v2}, {s1, s2, s3}, {t1, t2}}
=============================================================================
