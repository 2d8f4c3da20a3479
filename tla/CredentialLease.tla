--------------------------- MODULE CredentialLease ---------------------------
(***************************************************************************)
(* What secret rotation promises, with no controller in sight.  A          *)
(* credential is HELD while the consumer finalizer of Nova is on its       *)
(* Secret: its issuer (the infra-operator for a RabbitMQ user, the         *)
(* keystone-operator for an application credential) may not revoke it.  A  *)
(* credential is USED while a pod, or the pod template the next pod is     *)
(* started from, is configured with it.  A workload may only start to use  *)
(* what is held, and only what nobody uses may be let go.                  *)
(***************************************************************************)
CONSTANT Credential

VARIABLES held, used

vars == <<held, used>>

Init ==
    /\ held = {}
    /\ used = {}

(* The finalizer is put on some credentials.                               *)
Hold ==
    /\ held \subseteq held'
    /\ held' \subseteq Credential
    /\ UNCHANGED used

(* Workloads move to other credentials, all of them held.                  *)
Move ==
    /\ used' \subseteq held
    /\ UNCHANGED held

(* The finalizer is taken off credentials that nothing uses.               *)
Release ==
    /\ held' \subseteq held
    /\ used \subseteq held'
    /\ UNCHANGED used

Next == Hold \/ Move \/ Release

Spec == Init /\ [][Next]_vars
=============================================================================
