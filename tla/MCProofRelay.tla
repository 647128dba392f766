---------------------------- MODULE MCProofRelay ----------------------------
(* Instances of the escrow contract for TLC. *)
EXTENDS ProofRelayProps

CONSTANTS creator, v1, v2, operator,
          LastClassification,  \* when the keeper of the liveness instance stops
          MaxBalance   \* deposits the registry instance takes

OneSpec == {[verifierCount |-> 2, commitWindowSec |-> 1,
             revealWindowSec |-> 1, disputeWindowSec |-> 2]}

(* The registry after the admin approved everyone that registered: a state  *)
(* the program reaches before its first task.                               *)
Approved == [registered |-> TRUE, approved |-> TRUE, active |-> TRUE, stake |-> 0]
RoundInit ==
  Deployed([a \in Accounts |-> IF a \in Registrants THEN Approved ELSE NoVerifier])

-----------------------------------------------------------------------------
(* relay_task: one task from creation to the last payment.  The registry is *)
(* at rest; the adjudicator and the creator are verifiers too, and three    *)
(* verifiers compete for two slots.  The admin may make v1 a keeper and     *)
(* take the role back, at any moment.                                       *)
TaskNext ==
  \/ RoundNext
  \/ KeeperNext
  \/ DisputeNext
  \/ FallbackNext
  \/ PayoutNext
  \/ GrantRole(operator, "KEEPER", v1)
  \/ RevokeRole(operator, "KEEPER", v1)
  \/ Tick
TaskSpecification == RoundInit /\ [][TaskNext]_vars

(* The same, and the admin hands the PAUSER role to a verifier: the          *)
(* specification under which NoRoleHolderAtAll fails.                       *)
PauserSpecification ==
  RoundInit /\ [][TaskNext \/ GrantRole(operator, "PAUSER", v1)]_vars

-----------------------------------------------------------------------------
(* relay_liveness: the same with a pauser that may pause at any time and    *)
(* never unpause.  The task is created at the first instant and the keeper  *)
(* classifies no later than LastClassification, past its grace period, so   *)
(* that the clock's bound leaves every window time to pass.                 *)
LivenessNext ==
  \/ RoundNext /\ (creatorNonce' # creatorNonce => now = 0)
  \/ KeeperNext /\ now <= LastClassification
  \/ DisputeNext
  \/ FallbackNext
  \/ PayoutNext
  \/ SetPaused(operator, TRUE)
  \/ Tick
LivenessSpecification == RoundInit /\ [][LivenessNext]_vars /\ Fairness

-----------------------------------------------------------------------------
(* relay_registry: registration, stake and roles, without tasks.            *)
RegistrySpecification ==
  /\ Init
  /\ [][(RegistryNext \/ AdminNext \/ PayoutNext) /\ balance' <= MaxBalance]_vars
=============================================================================
