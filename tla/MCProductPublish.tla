-------------------------- MODULE MCProductPublish --------------------------
(* Instances of ProductPublish for TLC. *)
EXTENDS ProductPublish, TLC

CONSTANTS c1, c2, k1, k2

\* By kind of id: TRUE is "-auto", FALSE a UI id.
OneRevisionIfAuto == [a \in BOOLEAN |-> IF a THEN 1 ELSE 2]
OneAttemptIfAuto == [a \in BOOLEAN |-> IF a THEN 1 ELSE 3]
FaultsIfAuto == [a \in BOOLEAN |-> a]

\* The edit makes the product one the checks refuse.
FirstOnly == {1}

\* Keys being interchangeable otherwise, the first request's key is called k1.
FirstUsesK1 == [c \in Call |-> IF c = c1 THEN {k1} ELSE Key]
=============================================================================
