-------------------------- MODULE RestoreContract --------------------------
(***************************************************************************)
(* What a transactional change of a host promises, whatever makes it: the  *)
(* firewall manager of internal/netfilter and the subject transaction of   *)
(* internal/runner are both shown to implement it.                         *)
(*                                                                         *)
(* Resources are acquired only while the transaction is changing the host, *)
(* may go at any time after it has begun, and the transaction may call     *)
(* itself "verified" only when nothing is held that still acts on the host.*)
(***************************************************************************)
CONSTANTS
  Resource,  (* everything the transaction can hold                        *)
  Inert      (* the leftovers that neither run nor divert traffic          *)

VARIABLES
  held,      (* the resources of this transaction present on the host      *)
  outcome    (* where the transaction is                                   *)

contractVars == <<held, outcome>>

Outcome == {"idle", "changing", "restoring", "verified", "failed"}

ContractTypeOK ==
  /\ held \subseteq Resource
  /\ outcome \in Outcome

ContractInit ==
  /\ held = {}
  /\ outcome = "idle"

(* Nothing was touched yet: go on, or give up with empty hands. *)
Begin ==
  /\ outcome = "idle"
  /\ outcome' \in {"changing", "failed"}
  /\ UNCHANGED held

(* A change of the host, which may be the one that ends the transaction. *)
Acquire ==
  /\ outcome = "changing"
  /\ held \subseteq held' /\ held' \in SUBSET Resource
  /\ outcome' \in {"changing", "restoring"}

(* A resource may be released, disappear by itself or be taken by somebody *)
(* else, and what a transaction left behind may still go after its end.    *)
Release ==
  /\ outcome # "idle"
  /\ held' \in SUBSET held
  /\ UNCHANGED outcome

GiveBack ==
  /\ outcome = "changing"
  /\ outcome' = "restoring"
  /\ UNCHANGED held

Certify ==
  /\ outcome = "restoring"
  /\ held \subseteq Inert
  /\ outcome' = "verified"
  /\ UNCHANGED held

(* Admitting failure is always allowed; lying is not. *)
Admit ==
  /\ outcome \in {"idle", "changing", "restoring"}
  /\ outcome' = "failed"
  /\ UNCHANGED held

ContractNext ==
  Begin \/ Acquire \/ Release \/ GiveBack \/ Certify \/ Admit

ContractSpec == ContractInit /\ [][ContractNext]_contractVars
=============================================================================
