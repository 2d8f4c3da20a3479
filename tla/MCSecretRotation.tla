--------------------------- MODULE MCSecretRotation ---------------------------
(* Instances of SecretRotation for TLC: cell0 with its conductor, the API  *)
(* for the top level, and bounds on how often each credential is issued.   *)
EXTENDS SecretRotation, TLC

CONSTANTS cell0, conductor0, api

OneCell == <<cell0>>

UnitsOfOne == (conductor0 :> cell0) @@ (api :> Top)

ThreeOfAPI == [k \in Kinds |-> IF k = API THEN 3 ELSE 0]
OneAPIOneNotif == [k \in Kinds |-> IF k \in {API, Notif} THEN 1 ELSE 0]
=============================================================================
