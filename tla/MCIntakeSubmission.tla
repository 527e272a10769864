------------------------- MODULE MCIntakeSubmission -------------------------
(* Small instances of IntakeSubmission.                                       *)
EXTENDS IntakeSubmission, TLC

CONSTANTS w1, w2, post, alice, bob

MCPeople == Permutations(Approver)
One == {1}
Two == {1, 2}
=============================================================================
