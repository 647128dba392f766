----------------------------- MODULE Directory -----------------------------
(***************************************************************************)
(* The verifier directory: the registry of the contract, the logs it emits, *)
(* the rows indexer/projections.ts keeps of them, and what GET /v1/verifiers *)
(* (apps/api/src/routes/verifiers.ts) shows of those rows.                   *)
(*                                                                         *)
(* A struct is read when its log is projected, from a node at or past the   *)
(* log's block (ReadModel says when that fails); one block is one time unit. *)
(* The reports' own columns, names and rates are left out.                  *)
(***************************************************************************)
EXTENDS Integers, Sequences, FiniteSets, FiniteSetsExt

CONSTANTS
  Operators,        \* addresses, numbered: the directory is ordered by address
  MinStake,
  OnlineWindow, DegradedWindow,
  LookupLimit,      \* WITHDRAWAL_LOOKUP_LIMIT
  MaxBlocks         \* bound: transactions and idle blocks

ASSUME DirectoryAssumption ==
  /\ Operators \subseteq Nat /\ MinStake \in Nat \ {0} /\ LookupLimit \in Nat
  /\ OnlineWindow \in Nat /\ DegradedWindow \in Nat /\ MaxBlocks \in Nat

VARIABLES
  registry,     \* per address: its VerifierRecord, whether it holds KEEPER_ROLE, its balance
  acted,        \* history: when the address last sent a transaction of its own
  logs,         \* logs the indexer has yet to project: [name, of, at]
  block,
  directory     \* the table `verifiers`

directoryVars == <<registry, acted, logs, block, directory>>

Never == 0
Stranger == [registered |-> FALSE, approved |-> FALSE, active |-> FALSE, stake |-> 0,
             keeper |-> FALSE, reports |-> 0, pending |-> 0]
NoEntry == [listed |-> FALSE]

DirectoryInit ==
  /\ registry = [v \in Operators |-> Stranger] /\ acted = [v \in Operators |-> Never]
  /\ logs = <<>> /\ block = 1 /\ directory = [v \in Operators |-> NoEntry]

-----------------------------------------------------------------------------
(* The contract.                                                             *)

Mined == block < MaxBlocks /\ block' = block + 1 /\ UNCHANGED directory
Emits(name, v) == logs' = Append(logs, [name |-> name, of |-> v, at |-> block'])
By(v) == acted' = [acted EXCEPT ![v] = block']

RegisterVerifier(v, value) ==
  /\ Mined /\ By(v)
  /\ registry[v].stake + value >= MinStake
  /\ registry' = [registry EXCEPT ![v].registered = TRUE, ![v].stake = @ + value,
                                  ![v].active = @ \/ ~registry[v].registered]
  /\ Emits("VerifierRegistered", v)

SetVerifierActive(v, active) ==
  /\ Mined /\ By(v) /\ registry[v].registered
  /\ registry' = [registry EXCEPT ![v].active = active]
  /\ Emits("VerifierActiveSet", v)

SetVerifierApproval(v, approved) ==
  /\ Mined /\ UNCHANGED acted
  /\ registry' = [registry EXCEPT ![v].approved = approved]
  /\ Emits("VerifierApprovalSet", v)

WithdrawStake(v, amount) ==
  /\ Mined /\ By(v)
  /\ LET record == registry[v]
     IN /\ amount <= record.stake
        /\ record.approved \/ record.active => record.stake - amount >= MinStake
  /\ registry' = [registry EXCEPT ![v].stake = @ - amount, ![v].pending = @ + amount]
  /\ Emits("StakeWithdrawn", v)

(* A grant of what is held, and every revocation, is silent.                  *)
GrantRole(v) ==
  /\ Mined /\ UNCHANGED acted
  /\ registry' = [registry EXCEPT ![v].keeper = TRUE]
  /\ IF registry[v].keeper THEN UNCHANGED logs ELSE Emits("RoleGranted", v)

RevokeRole(v) ==
  /\ Mined /\ UNCHANGED <<acted, logs>>
  /\ registry' = [registry EXCEPT ![v].keeper = FALSE]

CommitReport(v) ==
  /\ Mined /\ By(v)
  /\ registry[v].registered /\ registry[v].approved /\ registry[v].active
  /\ registry[v].reports = 0
  /\ registry' = [registry EXCEPT ![v].reports = 1]
  /\ Emits("ReportCommitted", v)

RevealReport(v) ==
  /\ Mined /\ By(v) /\ registry[v].reports = 1
  /\ registry' = [registry EXCEPT ![v].reports = 2]
  /\ Emits("ReportRevealed", v)

IdleBlock == Mined /\ UNCHANGED <<registry, acted, logs>>

-----------------------------------------------------------------------------
(* The projections.                                                          *)

DirectoryRow(v) == IF directory[v].listed THEN directory[v]
          ELSE [listed |-> TRUE, registered |-> FALSE, approved |-> FALSE, active |-> FALSE,
                stake |-> 0, role |-> "none", seenAt |-> Never]

Latest(a, b) == IF a > b THEN a ELSE b

(* refreshVerifierFromChain: the struct as it is now, the time of the log.    *)
Refreshed(row, v, at) ==
  [row EXCEPT !.registered = registry[v].registered, !.approved = registry[v].approved,
              !.active = registry[v].active, !.stake = registry[v].stake,
              !.seenAt = Latest(@, at)]

Touched(row, at) == [row EXCEPT !.seenAt = Latest(@, at)]

(* Mutant: withdrawals of stake have no projector. *)
Projected_NoStake(log) ==
  LET v == log.of
      row == DirectoryRow(v)
  IN CASE log.name \in {"ReportCommitted", "ReportRevealed", "StakeWithdrawn"} ->
            Touched(row, log.at)
       [] log.name = "RoleGranted" -> Refreshed([row EXCEPT !.role = "KEEPER"], v, log.at)
       [] OTHER -> Refreshed(row, v, log.at)

(* PROJECTORS: the row of the log's verifier afterwards.                      *)
Projected(log) ==
  LET v == log.of
      row == DirectoryRow(v)
  IN CASE log.name \in {"ReportCommitted", "ReportRevealed"} -> Touched(row, log.at)
       [] log.name = "RoleGranted" -> Refreshed([row EXCEPT !.role = "KEEPER"], v, log.at)
       [] OTHER -> Refreshed(row, v, log.at)

ProjectLog ==
  /\ logs # <<>>
  /\ directory' = [directory EXCEPT ![Head(logs).of] = Projected(Head(logs))]
  /\ logs' = Tail(logs)
  /\ UNCHANGED <<registry, acted, block>>

DirectoryNext ==
  \/ \E v \in Operators :
       \/ \E value \in 0..MinStake : RegisterVerifier(v, value)
       \/ \E on \in BOOLEAN : SetVerifierActive(v, on) \/ SetVerifierApproval(v, on)
       \/ \E amount \in 1..MinStake : WithdrawStake(v, amount)
       \/ GrantRole(v) \/ RevokeRole(v) \/ CommitReport(v) \/ RevealReport(v)
  \/ IdleBlock \/ ProjectLog

DirectorySpec == DirectoryInit /\ [][DirectoryNext]_directoryVars

-----------------------------------------------------------------------------
(* GET /v1/verifiers.                                                        *)

(* statusOf, of a row at the time of the request.                             *)
StatusOf(row) ==
  LET age == block - row.seenAt
  IN IF ~row.approved THEN "PENDING"
     ELSE IF ~row.active \/ row.seenAt = Never \/ age > DegradedWindow THEN "OFFLINE"
     ELSE IF age <= OnlineWindow THEN "ONLINE" ELSE "DEGRADED"

(* Role holders have rows, and are no verifiers.                              *)
Verified(row) == row.listed /\ (row.registered \/ row.approved)

Listed(filter) ==
  {v \in Operators : Verified(directory[v])
                     /\ (filter = "ALL" \/ StatusOf(directory[v]) = filter)}

(* ORDER BY approved, registered, address.                                    *)
Precedes(v, w) ==
  \/ directory[v].approved /\ ~directory[w].approved
  \/ /\ directory[v].approved = directory[w].approved
     /\ \/ directory[v].registered /\ ~directory[w].registered
        \/ directory[v].registered = directory[w].registered /\ v < w

(* Only the first rows have their balance read; the others show "0".          *)
ShownPending(filter, v) ==
  IF Cardinality({w \in Listed(filter) : Precedes(w, v)}) < LookupLimit
  THEN registry[v].pending ELSE 0

Summary(filter) ==
  [active |-> Cardinality({v \in Listed(filter) : directory[v].approved /\ directory[v].active}),
   online |-> Cardinality({v \in Listed(filter) : StatusOf(directory[v]) = "ONLINE"}),
   totalStaked |-> MapThenSumSet(LAMBDA v : directory[v].stake, Listed(filter))]

-----------------------------------------------------------------------------
(* The directory promises no row older than its log: whatever the order in    *)
(* which an operator registers, is approved, pauses, withdraws and works, and *)
(* however late the logs are projected, once none is left every row is the    *)
(* contract's record, and no registered or approved address is missing.       *)
DirectoryCatchesUp ==
  logs = <<>> =>
    \A v \in Operators :
      LET row == directory[v]
          record == registry[v]
      IN /\ record.registered \/ record.approved => row.listed
         /\ row.listed => /\ row.registered = record.registered
                          /\ row.approved = record.approved
                          /\ row.active = record.active
                          /\ row.stake = record.stake

(* projections.ts: "A verifier that acted on a task is alive; that is all     *)
(* `last_seen_at` claims".                                                    *)
SeenHasActed ==
  \A v \in Operators : directory[v].listed /\ directory[v].seenAt # Never =>
                         acted[v] >= directory[v].seenAt

(* verifiers.ts: "Past the cap the field is omitted rather than guessed".     *)
NoFabricatedZero ==
  \A v \in Listed("ALL") : ShownPending("ALL", v) = registry[v].pending

(* A summary is of the network, whatever rows the filter leaves.              *)
SummaryIgnoresFilter == Summary("ONLINE").totalStaked = Summary("ALL").totalStaked

(* The badge: a row that says KEEPER is a holder's.                           *)
BadgeIsHeld ==
  logs = <<>> => \A v \in Operators :
    directory[v].listed /\ directory[v].role = "KEEPER" => registry[v].keeper
=============================================================================
