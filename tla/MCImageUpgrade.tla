---------------------------- MODULE MCImageUpgrade ----------------------------
(* Instances of ImageUpgrade for TLC: cell0, or cell0 and cell1, each with *)
(* its conductor, and the API as the top-level service.                    *)
EXTENDS ImageUpgrade, TLC

CONSTANTS c0, c1, conductor0, conductor1, api

OneCell == <<c0>>
TwoCells == <<c0, c1>>
JustConductors == [c \in Cells |-> IF c = c0 THEN <<conductor0>> ELSE <<conductor1>>]
JustAPI == <<api>>
=============================================================================
