---------------------------- MODULE MCCellLifecycle ----------------------------
(* Instances of CellLifecycle for TLC: cell0 and cell1.                    *)
EXTENDS CellLifecycle, TLC

CONSTANTS cell0, cell1

TwoCells == <<cell0, cell1>>

OneOfEach == [c \in Cells |-> 1]
TwoOfEach == [c \in Cells |-> 2]
=============================================================================
