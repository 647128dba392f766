----------------------------- MODULE TaskEscrow -----------------------------
(***************************************************************************)
(* What an escrow owes the parties of its tasks, without saying how rounds, *)
(* disputes or splits work: money enters a task when it is opened and when  *)
(* it is contested, and leaves it only as the task closes or once it has    *)
(* closed, into the withdrawable credit of an account, and never more than  *)
(* the task holds.  ProofRelayProps shows that the contract implements it.  *)
(***************************************************************************)
EXTENDS Integers

CONSTANTS Tasks, Parties

VARIABLES
  phase,    \* of each task
  held,     \* what each task holds, in escrow or allocated
  credit    \* what each party can withdraw

vars == <<phase, held, credit>>

Phases == {"absent", "collecting", "provisional", "contested", "closed"}

Init ==
  /\ phase = [t \in Tasks |-> "absent"]
  /\ held = [t \in Tasks |-> 0]
  /\ credit = [a \in Parties |-> 0]

Move(t, from, to) == phase[t] \in from /\ phase' = [phase EXCEPT ![t] = to]

Open(t) ==
  /\ Move(t, {"absent"}, "collecting")
  /\ held' = [held EXCEPT ![t] = held'[t]]
  /\ held'[t] >= held[t]
  /\ UNCHANGED credit

Classify(t) ==
  Move(t, {"collecting"}, "provisional") /\ UNCHANGED <<held, credit>>

Contest(t) ==
  /\ Move(t, {"provisional"}, "contested")
  /\ held' = [held EXCEPT ![t] = held'[t]]
  /\ held'[t] >= held[t]
  /\ UNCHANGED credit

Close(t) ==
  Move(t, Phases \ {"absent", "closed"}, "closed") /\ UNCHANGED <<held, credit>>

(* A payment closes a task that was not contested any more; the payee may   *)
(* collect its whole credit in the same call.                               *)
Pay(t, a) ==
  /\ Move(t, {"collecting", "provisional", "closed"}, "closed")
  /\ held' = [held EXCEPT ![t] = held'[t]]
  /\ held'[t] \in 0..(held[t] - 1)
  /\ \/ credit' = [credit EXCEPT ![a] = @ + held[t] - held'[t]]
     \/ credit' = [credit EXCEPT ![a] = 0]

(* Credit also comes from a verifier's own stake. *)
ReturnStake(a) ==
  /\ credit' = [credit EXCEPT ![a] = credit'[a]]
  /\ credit'[a] > credit[a]
  /\ UNCHANGED <<phase, held>>

Collect(a) ==
  /\ credit[a] > 0
  /\ credit' = [credit EXCEPT ![a] = 0]
  /\ UNCHANGED <<phase, held>>

Next ==
  \/ \E t \in Tasks : Open(t) \/ Classify(t) \/ Contest(t) \/ Close(t)
  \/ \E t \in Tasks, a \in Parties : Pay(t, a)
  \/ \E a \in Parties : ReturnStake(a) \/ Collect(a)

Spec == Init /\ [][Next]_vars
=============================================================================
