# ProofRelay: verification project

TLA+ models of ProofRelay, the TLC configurations that check them, and theorems
about them that TLAPS proves. Paths below are relative to the repository's root.

- [1. The system](#1-the-system)
- [2. The modules](#2-the-modules)
- [3. The runs](#3-the-runs)
- [4. The proofs](#4-the-proofs)
- [5. What the project found](#5-what-the-project-found)
- [6. What is not modelled](#6-what-is-not-modelled)
- [7. Plan](#7-plan)

## 1. The system

A creator pays a bounty into a contract for the check of a set of claims. Approved
verifiers commit to a report, then reveal it. Off the chain, an orchestrator computes
a consensus of the reports and a keeper submits what it implies; a challenger may put
up a bond, and an adjudicator decides. Everything the website shows is a read model
of the chain's logs, kept in Postgres.

```
   creator, verifiers, challenger, pauser, anyone
        |  transactions                       ^ allocations, stake, refunds
        v                                     |
   ProofRelay.sol  <---- keeper key, adjudicator key ----+
        | logs (through RPC nodes that may lag)          |
        v                                                |
   indexer --> Postgres rows <--> jobs table <--> orchestrator, keeper
                    ^      ^            ^
               syncTask    |     artifact sync          (one API process)
                           |
   browser --> web server, routes (sign-in, idempotency, prepare, lists, pages)

   verifier worker (a process of its own): RPC, storage, a model, a journal file
   adjudicator     (a process of its own): RPC, storage, the adjudicator key
   roles.mjs       (an operator's script): the key files and the role table
```

The API, the indexer, the artifact sync, the orchestrator and the keeper share one
process (`apps/api/src/server.ts:56-91`) and run on timers of their own: they
interleave at every `await`. A verifier worker is another process, on another host,
with another clock, and so is the adjudicator.

### Inventory

| component | state | operations | hard because | correct when |
|---|---|---|---|---|
| Escrow contract `contracts/src/ProofRelay.sol` | tasks, registrations, slots, commitments, allocations, bonds, stake, liability counters, roles, pause | 21 external functions that write | any caller, any order; deadlines; a payee that calls back; integer division that leaves dust; a keeper or adjudicator that never acts | every unit held is owed to someone; nobody commits after a reveal; money that can still be contested does not move; every task ends without the keeper, the adjudicator or the pauser |
| Job queue `orchestrator/queue.ts` | rows of `jobs`: status, attempts, lease | enqueue, claim, complete, fail, reap | leases run out under a worker that is still at work; the claim loop and the reaper are separate statements | a job is handed out a bounded number of times, is never left running without a lease, and ends |
| Orchestrator `orchestrator/orchestrator.ts` | `consensus_results`, its jobs | sweep, evaluate, upload, upsert | reads the chain, then the clock, then rows, then writes; a lagging node and indexer; two processes at once | every report the chain counts is in the artifact that settles the task, and one set of reports has one hash |
| Keeper `orchestrator/keeper.ts` | none but the jobs | FINALIZATION and the fallbacks | a late receipt is retried; the fallback races the finalization; a cap on transactions; a call that throws ends the pass | a job that is DONE means a task that is settled; every overdue task is closed in the end |
| Engine `packages/consensus/src/engine.ts` | none (pure) | evaluate | ties, thresholds, duplicates, degraded reports | what was degraded decides nothing, and those it pays agree |
| Adjudicator `workers/adjudicator/src/adjudicator.ts` | none | re-examine the disputed claims, resolve | every read may fail; the verdict settled on is recomputed | a challenge is upheld exactly when the settled verdict is overturned |
| Indexer `indexer/indexer.ts`, `projections.ts` | cursor, event log, rows | a pass: scan, project, refresh | nodes that lag, structs newer than the log, numbering under concurrent writes | rows are no older than the logs scanned; PR numbers have no gap; no state stops the pass for good |
| Artifact sync `indexer/artifact-sync.ts` | artifacts, ARTIFACT_SYNC jobs, bodies | fetch, check the hash, store, mark | a batch claimed at once and worked through slowly; crash between two writes | a body marked verified hashes to what the chain committed to, and stays so |
| Task service `services/task-service.ts` | task and allocation rows | syncTask; details and lists | the rows of the indexer, from another height; a detail is several reads | it does not undo the indexer, nor stop it; a detail covers its own counts |
| Chain client `packages/chain-client/src/client.ts` | the nonce per key | read, send, wait for the receipt | one key shared by loops; a broadcast that failed or did not | no send is lost to another of the same process |
| Verifier worker `workers/verifier/src/worker.ts`, `journal.ts` | salts in a JSON file and its cache; the tick | register, find work, commit, resend, reveal, forget, collect | a lost salt is a commitment that cannot be revealed; crashes and failed calls anywhere | one commitment per task, and it is revealed; earnings are collected |
| Verifier pipeline, `compute-adapter` | none | read, pick spans, ask a model, score | a model that answers partly, wrongly, elsewhere or not at all | a verdict with weight was weighed on spans of every source |
| Idempotency `middleware/idempotency.ts` | one row per key | claim, replay, take over, complete, release | requests of one key interleaved between two statements | one run answers all, while nothing is lost |
| Sign-in `auth/siwe.ts`, `routes/auth.ts`, the client's session | nonces, sessions, the browser's token | challenge, verify, act, sign out, purge | a nonce used twice; an account switched while an answer is under way | one session per nonce, and requests that act as the connected wallet |
| Prepare service, fetcher, screening | none | screen, fetch, store, build a transaction | redirects, caps, failures, overlapping finds, entities | what is published is clean |
| Sponsor service `services/sponsor-service.ts` | `sponsored_tasks`, a queue of sends | reserve, send, settle | a predicted id, a receipt that is late | within the quotas, and each the requester's own task |
| Storage adapter `packages/storage-adapter` | mirror, console | put, get, gateway | an SDK that hangs, and a process-wide console | every call ends; what is served hashes to its name |
| Routes | none | cursors, the directory, statistics | rows that change under a reader | no row is missed |
| Process `server.ts`, `db`, `config` | loops, listener, pool | boot, health, shut down | loops in a transaction as the pool ends | nothing runs after the pool |
| Front end `proofrelay-frontend` | polls, writes, share cards | prepare, sign, watch, draw | accounts, answers and pauses that change between steps | nothing told about money is false |
| Scripts `scripts/roles.mjs` | key files, the role table | separate, apply | an apply that stops half-way | no role loses its last holder |
| Schemas, other scripts | none | | | |

The hazards this leads to are listed, each at its line, in `PROJECT.json`, with the
properties that look for them.

## 2. The modules

| module | models |
|---|---|
| `ProofRelay`, `ProofRelayProps` | `contracts/src/ProofRelay.sol`, one action per external function; its properties |
| `TaskEscrow` | abstract specification: what the contract promises about one task's money |
| `JobTable`, `JobQueue` | `orchestrator/queue.ts`, as operators on a table; workers that come, go and overrun their lease |
| `Settlement` | evaluation, finalization and expiry of one task, over `JobTable`, a chain and an indexer |
| `Evaluation` | `evaluateTask` of several processes, its hash, what readers are shown |
| `Keeper` | `tick`, `runFallbacks` of `keeper.ts` over several tasks |
| `Engine`, `Adjudication` | `consensus/src/engine.ts` as operators; the adjudicator on one dispute |
| `VerifierWorker`, `Earnings` | `worker.ts`, `journal.ts`: the round of a task; registration and rewards |
| `Compute` | `pipeline.ts`, `compute-adapter`: how a report comes about |
| `ReadModel` | `indexer.ts`, `projections.ts`, `artifact-sync.ts`, `syncTask` |
| `TaskView`, `Lists`, `Directory` | rows and structs of one task and what a reader sees; keyset pages; the verifier directory |
| `Sender` | `chain-client/src/client.ts`: loops that share a key |
| `Idempotency`, `SignIn`, `Sponsor` | the middleware; `siwe.ts` and the browser's session; the sponsored first task |
| `SourceText`, `Prepare` | markup and finds as functions; the request to prepare a task or evidence |
| `Storage` | `storage-adapter`, `verified-object.ts` |
| `Server`, `Roles` | the life of the API process; `roles.mjs` and `config/src/env.ts` |
| `Composer`, `ShareCard` | the browser's writes and polls; the web server's pages and cards |
| `MC*` | constants of the runs, symmetry, the unions of parts |
| `Services` | what parts that share no state promise together |
| `ProofRelayProofs`, `ProofRelayBooks` | theorems about the contract: types, solvency, rounds, disputes and roles; the money |
| `LoopProofs` | theorems about `JobQueue`, `VerifierWorker` and `Directory` |
| `SettlementProofs`, `ReadModelProofs` | theorems about `Settlement` and `ReadModel` |
| `VerdictProofs` | theorems about `Engine`, `Adjudication`, `Compute`, `Prepare` and `SourceText` |
| `ReaderProofs` | theorems about `Evaluation`, `Composer`, `Sender`, `TaskView`, `Lists` and `ShareCard` |
| `AccessProofs` | theorems about `Idempotency`, `Server`, `SignIn`, `Sponsor` and `Roles` |

A definition whose comment begins with *Mutant* is no part of any specification: it is
a mistake that the definition after it avoids, and `PROJECT.json` names the property
that finds it.

### ProofRelay

One variable per storage mapping or counter of the contract, named after it. An
external function is one action; its parameters are the caller and the
arguments that decide its outcome; each `require` or custom error is a conjunct, a
revert is a step that does not exist. Time is `block.timestamp`: `Tick` moves it by one
up to `MaxTime`, and the deadlines are compared as the code does (`<`, `<=`).

- `withdraw` and `refundCreator` send value last, after the state change and under a
  lock (`withdrawStake` only credits). `callee` is the account whose code is running inside such a
  call; until `CallReturns`, only functions without the lock are possible. A payee that
  reverts undoes everything, which is no step.
- A commitment hash is *own*, *copied* or *none*: what `computeCommitment` lets a
  reveal tell apart.
- Solidity's checked subtractions are guards of the form `amount <= bucket`: what would
  underflow reverts.
- Casts keep their width (`Uint32Size`, `Uint96Size`); `relay_registry` sets the 96-bit
  one to 3 so that the conversions bite.
- The hashes and pointers that are only stored are left out.

`TaskEscrow` knows only what is *held* for a task, what is *owed* and what is *paid*,
and in which order these may change. `ImplementsEscrow` says that every step of the
contract is one of its steps or a stutter, under the mapping in `ProofRelayProps`:
what a task holds is its escrow and its allocations, an account's credit its pending
withdrawals. What it adds to the accounting is *when*: a contested task pays nobody, a
payment closes its task, and a closed task takes nothing in.

### The queue, settlement, evaluation, the keeper

`JobTable` has the SQL statements as operators from table to table: `Enqueue` (with
the conflict on the idempotency key), `Claim`, `Complete`, `Fail`, `Reap`. `JobQueue`
adds workers: one holds claims it has not reported on, may lose the lease and still
report. `Fenced` says whether `complete` compares the lease's owner: the server never
passes the id that would make it so, and the instances have `Fenced = FALSE`, as
deployed. Back-off times are left out: a due job may be claimed at any later time.

`Settlement` has one task whose commitments are in. The chain reveals and mines; `logs`
are those the indexer has not projected; the orchestrator's handler is a sequence of
actions, one for each await, with what it read kept in `orch` until it is used; likewise
the keeper's tick. Artifacts are the set of reports they cover. `NodesLag` lets the
indexer's node answer from an older block; `MaxOutages` bounds crashes and failing
calls. The chain's own rules are the guards of `ProofRelay` for the functions concerned.

`Evaluation` drops the jobs and lets several processes evaluate the same task at once,
which is what a lost lease leads to: `evaluatedAt` and a report's bytes are data there, since
they decide the hash. The keeper in it reads the row, the task and the time in calls of
their own; the time may be the host's, so that it says *over* whether or not the chain does,
and a task whose verifiers have all revealed is settled before its window closes. `Keeper` drops the single task: rows that are due, a budget of
transactions per tick, and calls that throw in the middle of a pass.

### Engine and Adjudication

`Engine` is the pure function: who counts, which verdict a claim has, coverage, overlap,
the outcome and the beneficiaries. A panel is a set of reports. Its laws are evaluated on
every panel of `MCPanels`: up to four reports on two claims, over entries that support,
contradict, abstain, stand in for a model, cite another source or fall below the floor. `Adjudication` composes it with the tick that reads the
challenge, the snapshots and the reports, decides and submits.

### The worker and its report

`VerifierWorker` is one worker on one task. A tick is a sequence of RPCs and file writes,
with a crash possible between any two. A *build* is a report with its salt and
commitment; `disk` and `cache` are the journal file and the map in memory. A send may fail
before the broadcast or after it, and what was broadcast may be mined much later. `Skew`
is by how much the host's clock is ahead of the chain's. `Earnings` is the same loop's
other half: registration, and the collection of rewards over the tasks in view.
`Compute` follows one report: manifest, spans, the broker's session, the chat and its
retries, the rows of its answer, the lexical fallback and what the trace says of it.

### The read model and its readers

In `ReadModel` the chain is a sequence of blocks of one event. A struct read at a height
is its *version*, the number of the task's events it reflects; an allocation is counted in
the payments of one beneficiary. A pass of the indexer is one transaction, so one step;
one that throws rolls back and is no step, and whether it *would* throw is what
`NeverWedged` asks. `syncTask` reads at one height and writes later. Artifact jobs
follow `JobTable`'s columns with the artifact worker's own claim: a whole batch is
claimed and its leases may run out while the first is still fetched.

`TaskView` has the report, dispute and consensus rows of one task and a detail that is read
row by row and struct by struct while they change; `Lists` the three keyset-paged lists
and a reader with a cursor; `Directory` the verifier rows, their summary and their
page.

### Requests and processes

`Idempotency` has the middleware's two statements apart, so that anything may come
between them; `SignIn` the tables of the API with one browser that switches accounts;
`Sponsor` the reservations and one chain. `Prepare` follows a request through screening,
the fetches with their redirects and caps, and the uploads; the pure functions it uses are
in `SourceText`. `Storage` has the calls of a process overlap over one console and one
SDK that may hang. `Sender` has loops that share the key, with the nonce's read and
the broadcast as steps of their own. `Server` is the boot, the loops' passes, requests and
the way down. `Roles` is the key tool with a run that may die after any transaction.
`Composer` is a write from the click to the receipt, `ShareCard` the web server's page and
card of a task. What each leaves out is in its head comment.

Three of them rest on what the code does *not* look at. A row of the sponsor's table stops
counting when it is old, whatever its request is doing (`ReservationLapses`). `stripTagBlocks`
looks for tags in a lower-cased copy of the page and cuts the page itself at the places it
found (`StripTagBlocks`), which are others once a letter such as U+0130 becomes longer in
lower case. And of a preparation the browser compares the echoed text and the arguments, and
recomputes no hash (`Matches`), so that the manifest that is signed may be another than the
one that is shown.

## 3. The runs

No cfg checks deadlock, because every modelled history really ends: the task is
settled and paid and the bounded clock stands at its last instant, every job has ended,
every request is answered, or every block of the bounded chain is scanned. That nothing
gets stuck *before* that is what the liveness properties (and `NeverWedged`) say.

Several properties are conjunctions of named parts, each with its own comment where it is
defined:

| property | its parts |
|---|---|
| `BooksBalance` | `Accounted`, `ProvisionalIsWhole`, `CountsAgree` |
| `PaidAsDecided` | `PartiesOnly`, `ConsensusPaysInFull`, `VerdictFollowsMoney` |
| `AllocationsHold` | `FrozenWhileContestable`, `SettledForGood` |
| `JobsAreBacked` | `TypeOK`, `FinalizationHasArtifact`, `DoneMeansSettled` |
| `RowsAreSound` | `TypeOK`, `NumbersAreSlots`, `RowsFollowLogs` |
| `QueueSound` | `TypeOK`, `HandedOutBounded`, `RunningIsLeased` |
| `CommitmentIsKept` | `WorkerTypeOK`, `SaltSurvives`, `OneCommitment` |
| `GrantedToItsOwner` | `OneSessionPerNonce`, `ActsAsConnected`, `WithinQuota`, `GrantedIsTheirs` |
| `EvidenceIsFair` | `PublishedIsClean`, `SpansAreFair` |
| `VerdictsAreWeighed` | `SupportIsWeighed`, `DegradedCarriesNoWeight`, `PaidAgree` |
| `ShownIsTrue` | `CountsAreCovered`, `NothingSkipped`, `CardDrawsTheTask` |

### Expected to pass

**relay_task** (`MCProofRelay`, about 780,000 states). One task from creation to the
last payment. Four accounts: the creator, two verifiers, the operator; three accounts
compete as verifiers for two slots (the creator is one: the contract does not refuse it),
one of them also holds the adjudicator's role, the bounty of 45 does not divide
evenly, reward rates are none and all, `MaxTime` is 8, and the registry is at rest with
everyone approved; the admin may make one verifier a keeper at any moment, and take the role
back. Two slots are the least with a
quorum, a missing reveal, a winner and a loser; eight instants leave room for a
commit, a reveal, a dispute and an adjudication window with the instant before, at and
after each deadline. It checks, besides the type:

- `Solvent`, `BooksBalance`: the balance is the sum of the liabilities, each liability
  bucket is the sum of the records it stands for, unit by unit, dust included, what a
  classification sets aside is the whole bounty, and the counters match the records.
- `PaidAsDecided`, `NoRoleHolderChosen`: only parties of the task get its money, an
  agreement pays all of it out, the verdict follows the money, and whoever names the
  beneficiaries (the keeper of a consensus, the adjudicator of a challenge it upholds or
  rejects) sets nothing aside for a keeper, an adjudicator or an admin, as the roles are at
  that moment, but what all verifiers get whom a lost challenge froze.
- `SealedRound`: nobody commits once a report is public, and the first reveal shuts out
  nobody who still had a slot and time.
- `CreatorFirst`, `AllocationsHold`, `FailedChallengeMovesOnlyBond`: what a dispute, an
  expiry and a late call may change.
- `ImplementsEscrow`: refinement of `TaskEscrow`.

**relay_liveness** (355,000 states). The same task with a pauser that may pause and
never unpauses, and a keeper, an adjudicator, verifiers and a challenger that may never
act. `EveryTaskSettles`: the task reaches a final status. `EveryoneIsPaid`: what is owed
is withdrawn.
Fairness: time passes (`Tick`), a called payee returns, and *somebody* eventually
calls the exits that anyone may call (`finalizeTask`, `expireTask`, `expireDispute`) and
each payee its own claim and withdrawal. Nothing is assumed of a role holder, which is
what the grace periods in the contract are for. The weak form suffices: once open an
exit stays open, and a payee's code, which holds the lock, runs only as often as there is
credit to pay. The keeper, if it acts at all,
does so by `LastClassification` (5), past its grace period, and the task is created at the
first instant, so that the clock's bound (9) leaves every window time to pass; without
that the bound, not the code, would stop the task.

**relay_registry**. No task: registration, stake, credit, roles and pausing in every
order, with a 96-bit width of 3 so that the casts' limits are reached.
`AdminNeverLost`: no sequence of grants and revocations
leaves the contract without an admin.

**settlement** (1,530,000 states). Two verifiers (one is too few for a consensus that
can be incomplete), two attempts per job, one outage, a lagging node. `NothingReadIsIgnored`:
a settlement leaves out no reveal that stood on the chain when the keeper read the task.
`JobsAreBacked`: no finalization without an artifact of its task, and one that is DONE
has a task that is classified.
`ClassifiedOrStranded`: every task is classified in the end, or `Stranded`: an artifact
was written, which shuts the expiry fallback, and no job is left to submit it; under
fairness of blocks, mining, the indexer and
the process's timers, and strong fairness of the claims, since a job's availability comes
and goes with the leases.

**read_model** (2,370,000 states). Three tasks, two of them interchangeable, one manifest
hash shared by all, batches of 2 blocks, one confirmation, a node one block behind, four
blocks, two syncs. Three tasks are the least with which numbers assigned out of order can
collide; one drift block the least that makes a struct newer than the log being
projected. `RowsAreSound`: the sequence numbers, from which PR numbers are made, are
0..n-1, and no row is older than the logs scanned, unless a manual sync wrote it last.
`LedgerIsAReading`: until a claim or
a sync, an allocation row is what the chain owed at some height from the cursor on.
`NeverWedged`: in no reachable state would a pass over confirmed blocks throw, for ever
after, on the unique index. `VerifiedStays`: what was verified once stays so. All are
safety properties and assume no fairness. The node's lag is at most the number of
confirmations, as the default of 2 is meant to guarantee; with a lag of 2 and one
confirmation TLC finds `RowsAreSound` violated, and the theorems below have the bound as
a hypothesis.

#### Parts

The other modules share no variables with one another, so two runs hold
them all. `MCServices` and `MCServicesLive` extend the modules and add a
variable `part`: the initial state chooses one, its actions move it, and all other
variables stay at rest (`Rest(p)`). A behaviour is a behaviour of one part, the number of
states is the sum of theirs and not the product, and each property speaks of the variables
of its own part. No interaction is lost by this that the modules have.

**services** (2,733,000 states; `services.cfg`), 14 parts, safety only:

| part | bounds | property: what it shows |
|---|---|---|
| sign-in | 2 wallets, 2 nonces, clock 2 | `GrantedToItsOwner`: one session per nonce and for the wallet challenged; no request acts as another than the connected wallet, across switches, late answers, expiry and purge |
| sponsor | 3 requests of 2 addresses, 1 each, 2 in all, 1 fault | `GrantedToItsOwner`: quotas hold for all but requests whose slot was given back, by the clock or by a failure (section 5), and a grant names the requester's own task |
| prepare | 2 sources, 1 redirect, pages with nested and entity-spelt markup and with letters that grow in lower case, 2 finds in body or header | `EvidenceIsFair`: nothing stored of a source that was not refused has forbidden data in it, and no text of plain letters active markup (section 5 has the others) |
| scoring | 2 claims, 2 attempts, depths 2 and 4 | `VerdictsAreWeighed`: support has a span the model weighed; `EvidenceIsFair`: every source has its share of the spans |
| engine | panels of up to 4 reports on 2 claims | `VerdictsAreWeighed`: degraded reports change no verdict; any two who are paid share, on some claim, the verdict most hold or tie for |
| adjudicator | 4 disputed panels, a challenger that is a verifier or none, a failed tick | `DissentDoesNotUphold`: a challenge is upheld exactly when the settled verdict is overturned, although reports are missing, as long as that verdict leads by more than they are; and whoever made it is then not paid |
| lists | 3 rows, half-millisecond times, 4 writes, pages of 1 | `ShownIsTrue`: a reader misses no task or activity that was there throughout |
| task view | 1 verifier, 6 logs, 1 failure, 1 sync | `ShownIsTrue`: a detail has the rows its counts promise |
| roles | one role file, 2 keys to begin with, 2 edits, a run cut anywhere | `RolesStayHeld`: an apply takes no role from its last holder |
| server | 1 connection, 4 passes | `NothingAfterPoolEnd`: no loop or request is at work when the pool ends |
| composer | 2 accounts, 2 kinds of write, 2 clicks | `ToldIsTrue`: what the user is told of a transaction, one transaction a click, and the bounty and number of verifiers it carries |
| evaluation | 2 reports, 2 processes, 2 evaluations, 3 instants | `OneHashPerEvidence`: one set of reports has one hash, and what settles covers all that the keeper had read |
| share card | 2 visitors, 1 cached card, one change of the PR number | `ShownIsTrue`: a card draws what the task is when it is asked for, all but its PR number (section 5) |
| sender | 2 loops, 2 sends, 2 blips | `NeverLostToItself`: no send is refused for a sibling's nonce or takes its receipt |

Two of an actor (evaluators, loops, visitors, claims) are the least for a race; one fault or
failed tick is the least for a retry; the pages, panels, scorings and rows of `MCServices`
are listed there in full.

**services_live** (203,000 states; `services_live.cfg`), 7 parts, each under the fairness
of its own loop:

| part | bounds | properties | fairness and why |
|---|---|---|---|
| queue | 2 keys, 2 workers, 3 attempts | `QueueSound`, `EveryJobEnds` | `QueueFairness`: leases run out (a clock), the reaper and the claim run on timers; nothing is assumed of a worker that dies |
| worker | deadlines 2 and 5, host clock 1 ahead, 3 builds, 3 outages | `CommitmentIsKept`, `CommitmentIsRevealed` (unless the window closes first) | `CommitterFairness`: the loop goes on, what is broadcast is mined, time passes up to the commit deadline |
| idempotency | 3 clients, 2 questions, 2 losses, in-flight limit 1, retention 3 | `OneAnswerUnlessLost`, `EveryClientHears` | `ClientFairness`: handlers go on or are cut, a client asks again, time passes |
| storage | 1 call of 2 attempts, 1 crash | `EveryCallEnds` | `CallFairness`: a call goes on, were it only by its deadline |
| directory | 2 operators, 5 blocks | `DirectoryCatchesUp` | none: it speaks of states with no log left |
| earnings | 2 tasks, floor of 2 rewards, 1 failure | `RewardsAreCollected` | `EarnerFairness`: the loop's ticks |
| keeper | 4 overdue tasks (2 in the reveal, 1 in a consensus, 1 in dispute), 1 transaction a tick, 1 throw | `NobodyLeftBehind` | `KeepersFairness`: the keeper's timer, the clock, the indexer |

### Expected to fail

Each checks one sentence of the repository that the code does not keep; see section 5:
**job_fence**, **settlement_stuck**, **key_answers**, **never_registers**,
**adjudicator**.

Every property of a passing run has a mutant in `PROJECT.json`: a bug in one
definition under which that run finds the property violated.

## 4. The proofs

The theorems hold for every value of the constants that the named assumptions allow:
any finite set of accounts, any number of tasks, blocks, verifiers, keys, loops and
workers. Every safety property of a passing run is the property of a theorem.

| theorem | says | argument |
|---|---|---|
| `ProofRelayProofs!TypeCorrect` | `Spec => []TypeOK` | inductive: one lemma per function, and lemmas on integer division for the splits |
| `ProofRelayProofs!Solvency` | `Spec => []Solvent` | every action moves balance and buckets by the same amount |
| `ProofRelayProofs!Sealed` | `Spec => []SealedRound` | `SealInv`, from `TaskStep` |
| `ProofRelayProofs!CreatorIsFirst` | `Spec => []CreatorFirst` | a task is contested in one way (`Contests`), and otherwise its dispute rests |
| `ProofRelayProofs!AdminKept` | `Spec => []AdminNeverLost` | whoever revokes is an admin, and cannot name itself |
| `ProofRelayBooks!BooksKept` | `Spec => []BooksBalance` | `BooksInv` |
| `ProofRelayBooks!AllocationsKept` | `Spec => AllocationsHold` | `MoneyMoves` |
| `ProofRelayBooks!NoRoleHolderPaid` | `Spec => NoRoleHolderChosen` | only an outcome deals, and it deals to the set that was named: `BooksInv`, `DecidedInv` |
| `ProofRelayBooks!OnlyTheBondMoves` | `Spec => FailedChallengeMovesOnlyBond` | `BondDealt`, from the sums of `BooksInv` |
| `ProofRelayBooks!EscrowImplemented` | `Spec => ImplementsEscrow` | one lemma per abstract action |
| `ProofRelayBooks!PaidRight` | `Spec => []PaidAsDecided` | `DecidedInv` |
| `LoopProofs!QueueTypeCorrect`, `ClaimsBounded`, `RunningLeased`, `QueueIsSound` | `[]QueueSound` and its parts | `QueueInv` |
| `LoopProofs!Kept` | `[]CommitmentIsKept`, for a disk that does not fail | `KeptInv` |
| `LoopProofs!DirectoryIsTheRegistry` | `[]DirectoryCatchesUp` | `DirectoryInv` |
| `SettlementProofs!ReadsAreSettled`, `JobsBacked` | `[]NothingReadIsIgnored`, `[]JobsAreBacked` | `IInv` |
| `ReadModelProofs!RowsAreNumbered` | `[](TypeOK /\ NumbersAreSlots)` | `Orderly` |
| `ReadModelProofs!NeverStuck`, `VerifiedSticks` | `[]NeverWedged`, `VerifiedStays` | `Orderly` |
| `ReadModelProofs!RowsSound`, `LedgerReads` | `[]RowsAreSound`, `[]LedgerIsAReading`, if `NodeLag <= Confirmations` | `Orderly /\ Current` |
| `VerdictProofs!WeightOfDegraded`, `PaidOfOneMind` | `[]DegradedCarriesNoWeight`, `[]PaidAgree` | laws of the engine's operators, for any panel |
| `VerdictProofs!DissentAlone` | `[]DissentDoesNotUphold` | `AdjInv`, and laws of the majority when reports are missing (`LeadStands`) |
| `VerdictProofs!SupportWeighed`, `Weighed` | `[]SupportIsWeighed`, `[]VerdictsAreWeighed` | `ComputeInv` |
| `VerdictProofs!SpansFair` | `ComputeSpec => []SpansAreFair` | `SpanInv`, from a law of `SelectSpans` for any scores |
| `VerdictProofs!PublishedClean` | `PrepareSpec => []PublishedIsClean` | `PrepareInv`, from laws of the texts and of the matches |
| `VerdictProofs!EvidenceFair` | `[]EvidenceIsFair` | the two together |
| `ReaderProofs!EvidenceHashesOnce` | `[]OneHashPerEvidence` | `EvalInv`, with what the keeper holds (`KeepingOK`) and sent (`SentOK`) |
| `ReaderProofs!ToldTruly` | `[]ToldIsTrue` | `ComposerInv` |
| `ReaderProofs!OneKeyIsEnough` | `[]NeverLostToItself` | `NonceInv` |
| `ReaderProofs!DetailCovers`, `ListsSkipNothing`, `CardsAreDrawn`, `ShownTruly` | `[]ShownIsTrue` and its parts | `ViewInv`, `ListInv`, `ShareInv` |
| `AccessProofs!Replayed` | `[]OneAnswerUnlessLost` | while nothing is lost a row has one run, and answers come from the row |
| `AccessProofs!NothingIsCut` | `[]NothingAfterPoolEnd` | `DownInv` |
| `AccessProofs!OneSession`, `AsConnected`, `QuotaKept`, `GrantedTheirs`, `GrantedOnce` | `[]GrantedToItsOwner` and its parts | `SignInInv`, `SponsorInv` |
| `AccessProofs!NoRoleLeftEmpty` | `RolesStayHeld` | `RunInv` |

*The contract's type and solvency.* `TypeOK` is inductive alone: what is subtracted from a
bucket is there by a checked subtraction or because a share is no more than what is split,
for which the module has lemmas on division (`BpsBound`, `ShareBound`). `Solvent` is
inductive given `TypeOK`. There is one lemma per external function or group of them, and a
theorem joins them.

*The seal.* `SealedRound` is not inductive: an action that takes a slot needs to know
that taken slots never exceed the task's number. `SealInv == SealedRound /\ SlotsBound`
is. `TaskStep` says, once for all actions, in which ways a step may move one task's round;
the seal follows from that alone.

*The books.* `Total(f, S)` is the number of units `<<a, n>>` with `n` in `1..f[a]`, so that
a sum over a set splits, and changes at one point, by laws of `Cardinality` and without
induction (`TotalParts`, and lemmas for one and two points that change). That a bucket is
the sum of its entries is not inductive alone: an action that sets a task's allocations
anew must know what they were. `BooksInv` holds the four sums and, per task, that a task nobody opened
holds nothing (`Fresh`), that its counters are sizes (`Counted`) and what its status
says of its escrow and allocations (`SetAside`).

*What a step does to a task's money.* `MoneyMoves` says, once for all actions, that a
task's allocations rest, grow while it is not settled, are claimed once it is (or its
window is over), or are dealt again by an upheld challenge; `AllocationsHold` follows. A
step that gives a task its outcome is a classification, a cancellation or a fallback
(`EveryOutcomeMoves`), so that a consensus comes from the keeper's set, which excludes whoever
holds a role, and a task without an outcome has set nothing aside (`Fresh`); a step that
resolves a dispute comes from the adjudicator's set or, with an empty one, from all the
verifiers that were frozen. `NoRoleHolderChosen` is the two together.

*The refinement.* Under `PhaseMap` and `HeldMap` a step is a step of `TaskEscrow` for the
task it names and a stutter for every other. Where an action deals money out, the sums of
`BooksInv` say that what is held does not change; where it pays, that it falls by the
claim.

*Who is paid.* `PaidAsDecided` is not inductive either. `DecidedInv` adds that only an
account's own commitment was ever opened (`OwnReveals`), that a task has no outcome and no
rate before it is classified (`NotYet`), and that its dispute is blank before it is
challenged (`Unchallenged`); `PaysParties`, `PaysInFull` and `FollowsMoney` are the parts of
the property, stated per task.

*The queue.* That a job is handed out at most `MAX_ATTEMPTS` times is not inductive:
`attempts` in the row and the number of claims handed out may differ, since a stale
worker may report on a claim that was reaped. `QueueInv` adds, for each key, `ClaimsPaid`:
there is at most one claim more than `attempts` counts, none more while the job waits to
be claimed, and what waits has attempts left.

*The worker.* `KeptInv` says that the map in memory is the file's (`JournalInv`), that what
is on the chain or in the mempool was sent (`ChainInv`), and that only one build was ever
sent, which is the file's while the task lives and a record exists; without a record
something was sent only if the chain has it (`SentInv`).

*The directory.* The property speaks of states without logs only. `DirectoryInv` says of
any state that the row of an address agrees with its record unless a log is left that
will refresh it, and, because a log about reports refreshes nothing but a count, that
such a log is about a registered address.

*Settlement.* `NothingReadIsIgnored` compares what the keeper read with what settles, two
awaits later, and needs to know of every copy on the way: that logs, rows and artifacts are
of reveals the chain has (`ReadModelOK`); that the keeper, which reads the artifact before
the task, holds a part of the reveals it then read, so that a count that agrees is a set
that agrees (`OrchOK`); that a finalization in the mempool carries what was read, and that
at most one is awaited (`MempoolOK`); that a job with attempts left is not finished, a batch
is running, a finalization has an artifact and one that is DONE a settled task (`JobsOK`).
`IInv` is their conjunction, and one lemma per action keeps it.

*The rows.* A pass projects many logs in one step, so its lemmas are about one log
(`Refreshed`, `Applied`, `LogIsGood`), and `IngestedIs` carries them from the first log of a
batch to the last. `NumbersAreSlots` is not inductive over a pass: a new row is
inserted among parked ones and all are numbered again, and that the numbers are
0, 1, 2, ... afterwards holds since tasks with logs are ranked by their first log and the rest by
the time they were synced (`Dated`), each time once; a set of n that is numbered
below n, each number once, uses all of them (`Onto`). `Orderly` has this, the types, that the
chain's events of a task come in a lawful order (`Lawful`) and that what is
verified is proven. It holds however far nodes lag, and so do `NeverWedged` and
`VerifiedStays`. What rows *say* needs more: `Current` has `RowsFollowLogs` and that every
allocation is what was owed at some height from the cursor on (`Owed`). A struct read from
a node that lags more than the confirmations is older than the log that made the
indexer read it, hence the hypothesis. `Outstanding` counts over the events of a task;
`OutstandingIs` proves it equal to a closed form (`Standing`), in which the cases of
`PaymentReads` are decided.

*Verdicts.* The engine's laws are about every panel: striking what is degraded from the
reports changes neither who counts nor what is found (`StrippedOutcome`), and two verifiers
who are paid share the verdict of a claim that was agreed on (`PaidTogether`): by
`requiredAgreement` at least, with no model asserting the opposite, and not necessarily by
more than half. `AdjInv` says that a decision is what the reports that were read and the
second opinion make of each other (`Overturned`), and that the dispute's status follows the
decision. What the task settled on is another thing, the majority of *all* reports: `LeadStands`
counts that a verdict which leads every other by more reports than are missing is the
majority of those that were read too, and `OverturnedUnpaid` that whoever gave a verdict that is
overturned is not on the revised list, be its report among those read or not, since no other
report bears its name. `ComputeInv`
keeps, next to `SupportIsWeighed`, that nothing is reported before it was scored, and which
engine is at work at which stage.

*Spans.* `SelectSpans` is fair whatever the scores are. Scores with their tie-breaks are a
strict total order, so in a finite set the number of stronger spans is a rank that each
place has once (the lemmas about `Outranking`, `Top` and `Ranked`). The leaders are one per
source; if they take every slot, each shown span has a source of its own; if not, all
sources are in, the span after the best match overlaps none of them, and the two rounds of
`Fill` end with a set that is full or has taken all it may: the first adds only
new text, so an overlap is shown only when it had passed over everything else for overlapping
something taken. The code retains `max(8 * slots, 32)` spans of a source. No text in TLC's
instance is that long, so that only the proof shows that the cap costs no fairness: a span
overlaps at most three (`Covering`), so the taken ones cannot cover as many as a cut
source keeps, and new text fills the slots. `SpanInv` carries the law (`Fair`)
through the chat's retries.

*Texts.* They are of pages without letters that grow in lower case (`PlainTokens`), for which
the copy that is searched is the page itself (`PlainIsLowered`); of the others the model says
that their text slips by. What `WithoutCuts` leaves comes from the page, in its order, with spaces between
(`From`). A block of an element begins where its opening tag has a `>` somewhere after
it. After the pass for the element there is none (`Shut`), by induction on the places from
the last one down; the later pass for the other element, since what it leaves comes in the
page's order, opens none again. Decoding may spell new ones, and the last pass is after it.

*Matches.* `ResolveOverlaps` takes away matches, but every match is spoken for: one at least
as grave is kept (`Spoken`, `ResolveSpeaks`). A match falls only to one that `Prevails`
over it, which is as grave; and it may be replaced later only by one as grave again. Since
every kind in `BlockingKinds` is graver than the others, a snapshot in whose body or headers
such data is found keeps a blocking match and is refused: its body is emptied, and its headers
stay as they are, so that nothing is said of them. `PrepareInv` says of each published object
that it is clean in this sense, and that a manifest that vouches for its sources ends the
request.

*Evaluation.* One set of reports has one hash because the hash depends on the set and on
the reveals' times, which do not move. `EvalInv` says so of every attempt under way, of all
that was uploaded and of what is stored. It also says that the artifact the keeper holds covers
reveals the chain has, hence a part of those it reads next, so that a count which agrees is a
set which agrees, and that what it sends covers all it had read. That the chain has no more by
the time of the submission is not so (section 5).

*The composer, the sender.* `ComposerInv` ties each transaction to the write that made it
and to what was said of it: a wallet's failed call is never *unsent*, whether it broadcast or
not, and what was prepared passed `Matches`, so that the arguments were those typed. `NonceInv`: a nonce that is given and not broadcast is one
loop's alone and above every one used, what is mined has left the mempool, and what a loop
waits for is its own.

*Pages.* `ViewInv`: the counts of a row, wherever a copy of it is held, never exceed what the
reports of the chain account for, among the verifiers known so far once the detail has read
them (`Within`, which only grows). `ListInv`: what the reader is owed is still there, still
asked for, and seen or beyond its cursor; that a cursor loses nothing needs the rows' times to
be whole milliseconds, which those of artifacts are not. `ShareInv`: a kept card has the key
of the task it was drawn for, which has all that is drawn but the PR number.

*The key.* While nothing is lost (`KeyInv`): without a row nobody is past the insert, a row
without an answer has one run at most, and a row with an answer has no run and its answer is
everybody's.

*The server.* `DownInv`: which loops and requests each stage of the shutdown has
already seen off.

*Grants.* `SignInInv`: a token is the pair that begins with its nonce, the nonce of a session is
spent and stays so, and a request in flight carries a spent token, of the wallet it was sent for
if it still has a session. `SponsorInv`: what is out has a counted
row or its slot was given back, the counted rows of slots not given back are within both
quotas, and a settlement is
of the predicted task that its own transaction created.

*Roles.* `RunInv`: what is left of an `apply` grants before it revokes, revokes no
address it was to give the role to, and has a grant left for every such address that does not
hold its role yet. So at the first revocation every role with an address is held by it.

*Side by side.* `GrantedOnce`, `Weighed`, `EvidenceFair` and `ShownTruly` are of the conjunction of the
specifications of parts that share no variable, from the theorems of each.

*Induction.* What is defined from one number to the next (`views` and `Outstanding` of
`ReadModel`) is proved about in set form: `Counting` says that a set which has the first
of an interval and with each number the next has all of it, from the least element of a set of
naturals (`LeastOf`), and `ViewsExist` that such a function exists. `Fill`, `WithoutCuts` and
`ResolveOverlaps` are recursive functions too, and `CHOOSE` tells nothing of one until it is
known to exist: `TakenExist`, `LeftExist` and `ResolvedExist` build it place by place
(`UpTo`).

*Assumptions.* `AccountsAssumption`, `ParamsAssumption` and `InputsAssumption`
(`ProofRelay`): the accounts are a finite set without the zero address, rates are at most
10000 basis points, windows, stakes and inputs are naturals, and a task takes
at least one verifier. `JobTableAssumption`, `ClaimLimitAssumption`: `NoWorker` is no worker's
id, and `MAX_ATTEMPTS` and `ClaimLimit` are positive. `EngineAssumption`: a manifest has
finitely many claims, thresholds are percentages, and the inputs are panels (`ArePanel`).
`AdjudicationAssumption`: so are those of a dispute, with one report of a verifier, as the
contract stores them.
`ComputeAssumption`: a depth is positive, a row cites a sequence of numbers, each source has a
number of sentences, and scores are numbers. `PrepareAssumption`: limits are naturals, a page
is a sequence of tokens, and a find has a known shape and a place.
`EvaluationAssumption`, `TaskViewAssumption`, `SponsorAssumption`: finitely many reporters,
verifiers and requests. `SettlementAssumption`: the marks for *settled* and *absent* are no
verifier and no set of them.
`ReadModelAssumption`: every task has a manifest hash, a batch has a block, a job an attempt.
The others (`SignInAssumption`, `IdempotencyAssumption`, `WorkerAssumption`, `SenderAssumption`, `ServerAssumption`,
`ComposerAssumption`, `DirectoryAssumption`, `ListsAssumption`): limits and clocks are naturals,
and the names for *nobody* are nobody's. Each is evaluated by TLC in the runs of its module.
`Filed` in `Sender` and `PutRow` in `ReadModel` spell out a function where `:>` and `@@` would
do, because the provers do not expand those.

*Only model-checked*: liveness (fairness and `ENABLED` are outside what the prover does):
`EveryTaskSettles`, `EveryoneIsPaid`, `ClassifiedOrStranded`, `EveryJobEnds`,
`CommitmentIsRevealed`, `EveryClientHears`, `EveryCallEnds`, `RewardsAreCollected`,
`NobodyLeftBehind`.

## 5. What the project found

With a run that shows it:

1. `job_fence`. `complete` is said to make a stale writer update zero rows
   (`queue.ts:193-194`); the orchestrator passes an id the server never sets
   (`orchestrator.ts:215`, `server.ts:59-65`), and `fail` has no such condition. In the run the
   lease of a worker is reaped, another worker holds the job, and the first one's report
   still changes its row.
2. `settlement_stuck`. A finalization refused for `ARTIFACT_INCOMPLETE` is said to be
   recomputed (`keeper.ts:377-379`); nothing recomputes it, and the task is left to
   nobody, since the expiry fallback skips a task with an artifact.
3. `key_answers`. Two requests of one key are said never both to be fresh
   (`idempotency.ts:82-84`); one that loses the insert and finds no row runs without a
   claim (`idempotency.ts:109`) and completes whatever row has the key by then, so that the
   first answer is served to a second question (`12-14`).
4. `never_registers`. A registration that fails at start-up is said to be tried again by
   the next tick (`worker.ts:75`, `82`); no tick calls it.
5. `adjudicator`. A challenge is said to be upheld when it overturns the verdict the task
   settled on (`adjudicator.ts:205-206`); the code compares with a consensus over the reports
   that could be read, and a missing one changes it.

Met in the models, and kept without a run of their own. Each of these statements is
defined beside its module's properties, quotes the sentence it comes from, and is refuted
by TLC on the constants of the module's run (or those named):

| statement | source | what the code does instead |
|---|---|---|
| `ProofRelayProps!NoRoleHolderAtAll` | `ProofRelay.sol:1099`, `1114` | a holder of `PAUSER_ROLE` may be a beneficiary |
| `VerifierWorker!JournalledFirst` (`DiskFails = TRUE`) | `worker.ts:370-371`, `journal.ts:77` | a record the file refused stays in memory and is broadcast by the next tick |
| `ReadModel!ClaimedShowsTheSum` | `projections.ts:646-650` | a claimed row keeps the largest payment, not the sum |
| `Storage!ConsoleComesBack` (2 calls) | `zerog.ts:30-45` | the depth goes below zero, and a collector is restored as the console |
| `ShareCard!RatedIsSettled` | `server/og.ts:276-277` | a task in its dispute window has its ratings published |
| `ShareCard!PagesRun` | `server/index.ts:178`, `251-257` | the shell is read once, its scripts from disk on each request |
| `Engine!TieIsNoMajority` | `engine.ts:133` | abstentions that tie with another verdict are an agreed abstention |
| `Engine!DegradedRefunds` | `engine.ts:304-305` | the quorum counts reports, degraded or not: the task settles as CONFLICT and pays |
| `Engine!ConsensusNamesSomeone` | `engine.ts:374` | an agreement may name nobody, which the contract refuses |
| `Adjudication!UpheldIsWeighed` | `engine.ts:291` | a second pass that fell back to scoring words still overturns |
| `Compute!NamesWhoWeighed` | `llm.ts:573` | a trace names the model though no label of its answer was used |
| `Evaluation!StoredIsSettled` | `orchestrator.ts:454-456`, `544` | an evaluation that comes later overwrites the row whose hash is on the chain |
| `Evaluation!SettledCoversAll` | `keeper.ts:145-150`, `434`, `641-648` | a reveal mined after the task was read, and before the time was or the window really closed, is left out of what settles |
| `Evaluation!ShownIsAcceptable` | `orchestrator.ts:523` | a report the evaluation refuses is shown as a report |
| `TaskView!DriftIsDrift` | `task-service.ts:376` | logs and rows that are only behind are reported as drift |
| `TaskView!OverturnedIsNotAgreed` | `ProofRelay.sol:673` | the label reads the evaluation before the chain, and still says how many agree |
| `TaskView!ReviewedOnce` | `task-service.ts:1694` | a disputed task past its deadline counts twice |
| `Lists!NoArtifactSkipped` | `artifacts.ts:237`, `cursor.ts:27` | the cursor drops what is finer than a millisecond, and a late row falls behind it |
| `Directory!SeenHasActed` | `projections.ts:387` | any refresh of the row, an approval by the admin included, counts as being seen |
| `Directory!NoFabricatedZero` | `verifiers.ts:50-52`, `304-305`, `347` | past the cap zeroes are shown |
| `Directory!SummaryIgnoresFilter` | `routes/verifiers.ts` | the summary is of the filtered rows |
| `Directory!BadgeIsHeld` | `projections.ts` | a role revoked keeps its badge |
| `Earnings!NoEarningsDie` | `worker.ts:187-188` | a task that leaves the window of view takes its reward with it |
| `Prepare!AllTextsInert` | `source-fetcher.ts:285-286`, `332` | after letters that are longer in lower case the wrong part is cut, and a tag stays |
| `Prepare!HeadersAreClean` | `prepare-service.ts:372-384` | a refused source keeps the headers the find was in |
| `Sponsor!SlowRequestsKeepQuota` | `sponsor-service.ts:92-96`, `103` | a reservation lapses by its age, while its request may still broadcast |
| `Sponsor!FailedRequestsKeepQuota` | `sponsor-service.ts:92-96`, `355` | a receipt that times out gives the slot back at once |
| `ShareCard!CardIsCurrent` | `server/index.ts:211`, `214` | the PR number is drawn, moves, and is no part of the cache's key |
| `Composer!TextAsTyped`, `SourcesAsAsked` | `useProofRelay.ts:573-580` | the hash that is signed is not computed from the echoed text, and sources are not compared |
| `Composer!RefusedIsUnposted` | `VerificationTasks.tsx:272` | a wallet that broadcast and did not answer is shown as nothing escrowed |
| `Composer!UnconfirmedIsUnposted` | `api.ts:117` | a user who was never told of a task may have posted it |
| `Composer!PageIsWhole` | `useProofRelay.ts:77`, `122-125` | polling stops at a terminal status, before the rows behind it are in |
| `Composer!PreparedForPayer` | `useProofRelay.ts` | the account may be switched between preparing and signing |

`PROJECT.json` lists the most telling of these as findings. Seen in reading, and not in a
model:

- A second task with the same manifest is not marked verified (`artifact-sync.ts:543-548`).
- `syncTask` may write an older struct over a newer row (`task-service.ts:1340`);
  `RowsFollowLogs` allows it until the next log of the task.
- Two tasks written by `syncTask` before their logs are seen keep the order of arrival,
  and swap numbers when a third task is inserted (`projections.ts:20-24`, `265-270`).
- The revised list of beneficiaries may include the challenger
  (`adjudicator.ts:257-264`), which the contract refuses until the dispute expires.

## 6. What is not modelled

- *Inside the modelled components*: back-off times of the queue (a due job may be
  claimed at any later moment); the instants at which a fetch or an SDK call times out
  (a call may fail at any moment); gas; the casts of deadlines to 32 and 64 bits, which
  first bite in 2106; reorganisations of the chain deeper than the indexer's
  confirmations, from which it keeps no way back; the bodies of reports and evidence,
  which artifact sync treats as it does manifests.
- *Content*: prompts, the words that make a score, the patterns that make a find, and
  confidences are given as small sets of outcomes. A hash stands for its content.
- *Components*: schemas (types, canonical JSON, hashing: no state), request parsing and
  validation, the sums of the statistics route, rendering, metrics and logging, ABI
  tables, and the scripts other than `roles.mjs`, which are one-shot calls of what is
  modelled. No server code constructs the sponsor service at this commit; it is modelled
  as its own code and tests use it.
- *Trusted*: that viem's nonce manager, which is a dependency, gives out each nonce once.
  `Sender` has its calls as `client.ts` makes them; the first sends of a key that was never
  used are where an implementation of it could differ.
- *Wallets*: a transaction that its user replaces or speeds up in the wallet. A slip of the
  places in `stripTagBlocks` is by whole tokens of a page, not by letters of one.
- *Composition*: the modules meet in `Settlement` (queue, chain, indexer, orchestrator,
  keeper), `ReadModel` (chain, indexer, sync, artifact worker) and `Adjudication`
  (engine, dispute). The contract's full state is not composed with any off-chain
  module: these carry the guards of the functions they call.

## 7. Plan

Done: the contract with its invariants, refinement, liveness and the proofs of all its
safety properties; the queue, settlement, evaluation and the keeper; engine and
adjudicator; worker, report and earnings; the read model and its readers; the requests,
the process, the key tool and the front end's own logic; and a proof of every safety
property that a passing run checks.

Left, in the order of what it would add:

1. A composition of the chain client's nonces (`Sender`) with the jobs of `Settlement`, for
   two keepers with one key.
2. Two tasks in `Settlement`, and reorganisations in `ReadModel`, if the indexer gains
   a way back from them.
