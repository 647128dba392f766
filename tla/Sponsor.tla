------------------------------ MODULE Sponsor ------------------------------
(***************************************************************************)
(* The free first task (services/sponsor-service.ts): a slot is reserved in *)
(* the table, then the sponsor's own key creates the task, whose id is      *)
(* predicted from its nonce and checked after the receipt.                  *)
(*                                                                         *)
(* A request is its own manifest.  The chain gives the sponsor's tasks the  *)
(* ids 1, 2, ... in the order they are mined; a transaction whose sender    *)
(* gave up on the receipt may be mined later, before those sent after it.   *)
(***************************************************************************)
EXTENDS Naturals, Sequences, FiniteSets

CONSTANTS
  Grants,              \* the requests
  Beneficiary,         \* [Grants -> wallets]
  Nobody,
  maxPerAddress, maxTotal,
  MaxFaults            \* bound: calls, statements and receipts that fail

ASSUME SponsorAssumption ==
  /\ maxPerAddress \in Nat /\ maxTotal \in Nat /\ MaxFaults \in Nat
  /\ Nobody \notin Grants /\ IsFiniteSet(Grants)

VARIABLES
  sponsorships,  \* per request its row: status, task, whether its time ran out
  grant,         \* per request where it stands, and the id it predicted
  sending,       \* who is inside `serialize`
  sent,          \* broadcast and not mined, in the order of the key's nonces
  created,       \* the sponsor's tasks on the chain: whose manifest each has
  paused, faults,
  given_back     \* history: requests whose slot was given back, by the clock or as FAILED

sponsorVars == <<sponsorships, grant, sending, sent, created, paused, faults, given_back>>

NoSponsorship == [status |-> "none", task |-> 0, stale |-> FALSE]

SponsorInit ==
  /\ sponsorships = [g \in Grants |-> NoSponsorship]
  /\ grant = [g \in Grants |-> [at |-> "asked", predicted |-> 0]]
  /\ sending = Nobody /\ sent = <<>> /\ created = <<>>
  /\ paused = FALSE /\ faults = 0 /\ given_back = {}

Goes(g, at) == grant' = [grant EXCEPT ![g].at = at]
Mined(g) == \E i \in DOMAIN created : created[i] = g
Out(g) == Mined(g) \/ \E i \in DOMAIN sent : sent[i] = g

-----------------------------------------------------------------------------
(* Everything that makes a grant impossible is checked before a slot is taken.*)
AssertCanSponsor(g) ==
  /\ grant[g].at = "asked"
  /\ Goes(g, IF paused THEN "over" ELSE "reserve")
  /\ UNCHANGED <<sponsorships, sending, sent, created, paused, faults, given_back>>

(* COUNT_SQL: what is granted, and what is reserved and not too long ago.     *)
Counted ==
  {g \in Grants : \/ sponsorships[g].status = "GRANTED"
                  \/ sponsorships[g].status = "RESERVED" /\ ~sponsorships[g].stale}

(* Under the advisory lock, so in one step.                                   *)
Reserve(g) ==
  /\ grant[g].at = "reserve"
  /\ LET mine == {h \in Counted : Beneficiary[h] = Beneficiary[g]}
     IN IF Cardinality(Counted) >= maxTotal \/ Cardinality(mine) >= maxPerAddress
        THEN Goes(g, "over") /\ UNCHANGED sponsorships
        ELSE /\ sponsorships' = [sponsorships EXCEPT ![g].status = "RESERVED"]
             /\ Goes(g, "prepare")
  /\ UNCHANGED <<sending, sent, created, paused, faults, given_back>>

(* prepareTask returned; one at a time reads the nonce and broadcasts.        *)
Serialize(g) ==
  /\ grant[g].at = "prepare" /\ sending = Nobody
  /\ sending' = g
  /\ grant' = [grant EXCEPT ![g] = [at |-> "send", predicted |-> Len(created) + 1]]
  /\ UNCHANGED <<sponsorships, sent, created, paused, faults, given_back>>

Broadcast(g) ==
  /\ grant[g].at = "send"
  /\ sent' = Append(sent, g) /\ Goes(g, "receipt")
  /\ UNCHANGED <<sponsorships, sending, created, paused, faults, given_back>>

Receipt(g) ==
  /\ grant[g].at = "receipt" /\ ~(\E i \in DOMAIN sent : sent[i] = g)
  /\ Goes(g, IF Mined(g) THEN "check" ELSE "failed")
  /\ sending' = Nobody
  /\ UNCHANGED <<sponsorships, sent, created, paused, faults, given_back>>

(* The predicted id is read back: it must hold this request's manifest.       *)
CheckTask(g) ==
  /\ grant[g].at = "check"
  /\ Goes(g, IF /\ grant[g].predicted \in DOMAIN created
                /\ created[grant[g].predicted] = g THEN "settle" ELSE "failed")
  /\ UNCHANGED <<sponsorships, sending, sent, created, paused, faults, given_back>>

(* settle: GRANTED with its task, or FAILED, which frees the slot, whatever   *)
(* became of the transaction.                                                 *)
SettleGranted(g) ==
  /\ grant[g].at = "settle"
  /\ sponsorships' = [sponsorships EXCEPT ![g].status = "GRANTED", ![g].task = grant[g].predicted]
  /\ Goes(g, "over")
  /\ UNCHANGED <<sending, sent, created, paused, faults, given_back>>

SettleFailed(g) ==
  /\ grant[g].at = "failed"
  /\ sponsorships' = [sponsorships EXCEPT ![g].status = "FAILED", ![g].task = 0]
  /\ given_back' = given_back \cup {g}
  /\ Goes(g, "over")
  /\ UNCHANGED <<sending, sent, created, paused, faults>>

(* The preparation, the send, the wait for the receipt, the check or the      *)
(* statement throws; or settling the failure itself does, and is swallowed.   *)
GrantFails(g) ==
  /\ faults < MaxFaults /\ faults' = faults + 1
  /\ grant[g].at \in {"prepare", "send", "receipt", "check", "settle", "failed"}
  /\ Goes(g, IF grant[g].at = "failed" THEN "over" ELSE "failed")
  /\ sending' = IF sending = g THEN Nobody ELSE sending
  /\ UNCHANGED <<sponsorships, sent, created, paused, given_back>>

(* reserved_at alone decides: the request of the row may be finished, or still *)
(* preparing its task, sending it or waiting for the receipt.                 *)
ReservationLapses(g) ==
  /\ sponsorships[g].status = "RESERVED" /\ ~sponsorships[g].stale
  /\ sponsorships' = [sponsorships EXCEPT ![g].stale = TRUE]
  /\ given_back' = given_back \cup {g}
  /\ UNCHANGED <<grant, sending, sent, created, paused, faults>>

(* The chain mines the key's transactions in order; a paused contract reverts.*)
MineSponsored ==
  /\ sent # <<>> /\ sent' = Tail(sent)
  /\ created' = IF paused THEN created ELSE Append(created, Head(sent))
  /\ UNCHANGED <<sponsorships, grant, sending, paused, faults, given_back>>

PauseContract ==
  /\ ~paused /\ paused' = TRUE
  /\ UNCHANGED <<sponsorships, grant, sending, sent, created, faults, given_back>>

SponsorNext ==
  \/ \E g \in Grants :
        \/ AssertCanSponsor(g) \/ Reserve(g) \/ Serialize(g) \/ Broadcast(g) \/ Receipt(g)
        \/ CheckTask(g) \/ SettleGranted(g) \/ SettleFailed(g) \/ GrantFails(g)
        \/ ReservationLapses(g)
  \/ MineSponsored \/ PauseContract

SponsorSpec == SponsorInit /\ [][SponsorNext]_sponsorVars

-----------------------------------------------------------------------------
(* Both quotas, over the tasks of a set of requests.                          *)
QuotaOver(paid) ==
  /\ Cardinality(paid) <= maxTotal
  /\ \A g \in Grants :
       Cardinality({h \in paid : Beneficiary[h] = Beneficiary[g]}) <= maxPerAddress

(* "The quota is decided before the money moves": the tasks the sponsor pays  *)
(* for stay within both quotas, but for those of requests whose slot was      *)
(* given back, by the clock or by a failure, whatever they did before or do   *)
(* afterwards, and although a row that lapsed may still become GRANTED.       *)
WithinQuota == QuotaOver({g \in Grants : Out(g)} \ given_back)

(* The quota of all that is paid for, refuted by a request that is slower than *)
(* the time a reservation holds (SlowRequestsKeepQuota), and by one whose      *)
(* receipt timed out (FailedRequestsKeepQuota).                               *)
SlowRequestsKeepQuota ==
  QuotaOver({g \in Grants : Out(g) /\ sponsorships[g].status # "FAILED"})
FailedRequestsKeepQuota ==
  QuotaOver({g \in Grants : Out(g) /\ ~sponsorships[g].stale})

(* "A predicted id that turns out to name a different task is a failure":     *)
(* a granted row names the task that has the request's manifest, although     *)
(* transactions given up on are mined in between.                             *)
GrantedIsTheirs ==
  \A g \in Grants :
    sponsorships[g].status = "GRANTED" =>
      sponsorships[g].task \in DOMAIN created /\ created[sponsorships[g].task] = g
=============================================================================
