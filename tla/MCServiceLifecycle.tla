--------------------------- MODULE MCServiceLifecycle ---------------------------
EXTENDS ServiceLifecycle

(* Host names that contain the name of their own cell alone ...            *)
OwnHosts == { <<s, s>> : s \in Services }

(* ... and those of a cell whose name is part of the names of all others,  *)
(* such as cell1 among cell10 and cell11.                                  *)
ShortName == CHOOSE s \in Services : TRUE
PartOfOthers == OwnHosts \cup { <<ShortName, s>> : s \in Services }

(* One CR of any kind, beside one of another kind that is not there ...    *)
OneOfAnyKind ==
    { [kind |-> [s \in Services |-> IF s = ShortName THEN k ELSE other],
       there |-> {ShortName}, missing |-> 1, edits |-> 2, faults |-> 1] :
      <<k, other>> \in { <<k, CHOOSE j \in Kinds : j # k>> : k \in Kinds } }

(* ... and those that every cell has one of, where there are two cells.    *)
OneInEachCell(kinds, faultBound) ==
    { [kind |-> [s \in Services |-> k], there |-> Services,
       missing |-> 0, edits |-> 1, faults |-> faultBound] : k \in kinds }

TwoConductors == OneInEachCell({"NovaConductor"}, 0)
AllDeployments ==
    OneOfAnyKind \cup OneInEachCell({"NovaConductor", "NovaMetadata"}, 0)
        \cup OneInEachCell({"NovaNoVNCProxy"}, 1)
=============================================================================
