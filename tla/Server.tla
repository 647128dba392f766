------------------------------- MODULE Server -------------------------------
(***************************************************************************)
(* The life of the API process (apps/api/src/server.ts): the guards and the *)
(* loops it starts, the requests and health probes it serves, and the way   *)
(* down after a signal.  A loop's work is modelled elsewhere; here it is a  *)
(* pass that begins on a timer and holds a transaction until it ends.       *)
(***************************************************************************)
EXTENDS Integers, FiniteSets

CONSTANTS
  Requests,        \* connections a client may use
  MaxPasses        \* bound: passes begun

ASSUME ServerAssumption == MaxPasses \in Nat

VARIABLES
  process,    \* where the process is
  loop,       \* per loop: [armed, pass, stopping]
  request,    \* per connection: where its request is
  probing,    \* dependencies a health probe still waits for, or has given up on
  purging,    \* the housekeeping timer's purge is at work
  passes,
  cut         \* what the end of the process interrupted

serverVars == <<process, loop, request, probing, purging, passes, cut>>

Loops == {"indexer", "artifactSync", "orchestrator", "keeper"}
Rearmed == {"indexer", "artifactSync"}     \* a timeout set again by each pass, not an interval
Dependencies == {"database", "storage", "compute", "chain"}
Off == [armed |-> FALSE, pass |-> FALSE, stopping |-> FALSE]

ServerInit ==
  /\ process = "boot" /\ loop = [l \in Loops |-> Off]
  /\ request = [r \in Requests |-> "none"]
  /\ probing = [r \in Requests |-> {}]
  /\ purging = FALSE /\ passes = 0 /\ cut = {}

InPass == {l \in Loops : loop[l].pass}
Served == {r \in Requests : request[r] \in {"open", "probing", "counting"}}

-----------------------------------------------------------------------------
(* A deployment without an address, or without a block to start from, is      *)
(* refused before anything is started.                                        *)
RefuseConfig ==
  /\ process = "boot" /\ process' = "failed"
  /\ UNCHANGED <<loop, request, probing, purging, passes, cut>>

(* The loops first; those of the configuration, artifactSync always.          *)
StartLoops ==
  /\ process = "boot" /\ process' = "starting"
  /\ \E enabled \in SUBSET {"indexer", "orchestrator"} :
       loop' = [l \in Loops |->
         [Off EXCEPT !.armed = \/ l = "artifactSync" \/ l \in enabled
                               \/ l = "keeper" /\ "orchestrator" \in enabled]]
  /\ UNCHANGED <<request, probing, purging, passes, cut>>

(* Then the port, and only then the handlers of the signals.                  *)
Listen ==
  /\ process = "starting" /\ process' = "up"
  /\ UNCHANGED <<loop, request, probing, purging, passes, cut>>

(* The port is taken, or a signal comes while nobody handles it.              *)
DieAtBoot ==
  /\ process = "starting" /\ process' = "failed"
  /\ UNCHANGED <<loop, request, probing, purging, passes, cut>>

Running == process \in {"starting", "up", "closing", "stopping"}

(* A timer fires.  An interval that finds a pass at work does nothing.        *)
PassBegins(l) ==
  /\ Running /\ loop[l].armed /\ ~loop[l].pass
  /\ passes < MaxPasses /\ passes' = passes + 1
  /\ loop' = [loop EXCEPT ![l].pass = TRUE, ![l].armed = l \notin Rearmed]
  /\ UNCHANGED <<process, request, probing, purging, cut>>

(* Whatever it threw is logged; schedule() does nothing once stopping.        *)
PassEnds(l) ==
  /\ Running \/ process = "ending"
  /\ loop[l].pass
  /\ loop' = [loop EXCEPT ![l].pass = FALSE,
                          ![l].armed = IF l \in Rearmed THEN ~loop[l].stopping ELSE @]
  /\ UNCHANGED <<process, request, probing, purging, passes, cut>>

(* Nobody awaits the purge.                                                   *)
Housekeeping ==
  /\ process \in {"up", "closing"} /\ ~purging /\ purging' = TRUE
  /\ process = "up"
  /\ UNCHANGED <<process, loop, request, probing, passes, cut>>

PurgeEnds ==
  /\ process \in {"up", "closing", "stopping", "ending"} /\ purging /\ purging' = FALSE
  /\ UNCHANGED <<process, loop, request, probing, passes, cut>>

-----------------------------------------------------------------------------
(* A closing server refuses what comes over a connection it still has.        *)
Arrive(r) ==
  /\ process \in {"up", "closing"} /\ request[r] = "none"
  /\ request' = [request EXCEPT ![r] = IF process = "up" THEN "open" ELSE "refused"]
  /\ UNCHANGED <<process, loop, probing, purging, passes, cut>>

(* A route's handler, or the error handler, answers.                          *)
AnswerRequest(r) ==
  /\ request[r] = "open" /\ request' = [request EXCEPT ![r] = "answered"]
  /\ UNCHANGED <<process, loop, probing, purging, passes, cut>>

(* GET /health: four probes at once.                                          *)
ProbeHealth(r) ==
  /\ request[r] = "open" /\ request' = [request EXCEPT ![r] = "probing"]
  /\ probing' = [probing EXCEPT ![r] = Dependencies]
  /\ UNCHANGED <<process, loop, purging, passes, cut>>

Probed(r) ==
  /\ probing[r] # {}
  /\ \E dependency \in probing[r] : probing' = [probing EXCEPT ![r] = @ \ {dependency}]
  /\ UNCHANGED <<process, loop, request, purging, passes, cut>>

(* All have answered, or the timer has and their work goes on unheard; then   *)
(* the queue is counted, with no timer.                                       *)
ProbesOver(r) ==
  /\ request[r] = "probing" /\ request' = [request EXCEPT ![r] = "counting"]
  /\ UNCHANGED <<process, loop, probing, purging, passes, cut>>

AnswerHealth(r) ==
  /\ request[r] = "counting" /\ request' = [request EXCEPT ![r] = "answered"]
  /\ UNCHANGED <<process, loop, probing, purging, passes, cut>>

HangUp(r) ==
  /\ request[r] \in {"answered", "refused"} /\ probing[r] = {}
  /\ process = "up"
  /\ request' = [request EXCEPT ![r] = "none"]
  /\ UNCHANGED <<process, loop, probing, purging, passes, cut>>

-----------------------------------------------------------------------------
(* The first signal; a second one finds it shutting down.                     *)
Signal ==
  /\ process = "up" /\ process' = "closing"
  /\ UNCHANGED <<loop, request, probing, purging, passes, cut>>

(* app.close: no new connection, and the requests that are in end.            *)
ListenerClosed ==
  /\ process = "closing" /\ Served = {}
  /\ process' = "stopping"
  /\ loop' = [l \in Loops |-> [loop[l] EXCEPT !.stopping = TRUE, !.armed = FALSE]]
  /\ UNCHANGED <<request, probing, purging, passes, cut>>

(* Mutant: stop() clears the timers and returns. *)
Stopped_AtOnce == TRUE

(* Every stop() waits for the pass of its loop.                               *)
Stopped == InPass = {}

LoopsStopped ==
  /\ process = "stopping" /\ Stopped /\ process' = "ending"
  /\ UNCHANGED <<loop, request, probing, purging, passes, cut>>

(* pool.end() waits for the statements that hold a client; then exit.         *)
PoolEnded ==
  /\ process = "ending" /\ ~purging
  /\ \A r \in Requests : "database" \notin probing[r]
  /\ process' = "exited" /\ cut' = InPass \cup Served
  /\ UNCHANGED <<loop, request, probing, purging, passes>>

ServerNext ==
  \/ RefuseConfig \/ StartLoops \/ Listen \/ DieAtBoot
  \/ \E l \in Loops : PassBegins(l) \/ PassEnds(l)
  \/ Housekeeping \/ PurgeEnds
  \/ \E r \in Requests : \/ Arrive(r) \/ AnswerRequest(r) \/ ProbeHealth(r) \/ Probed(r)
                         \/ ProbesOver(r) \/ AnswerHealth(r) \/ HangUp(r)
  \/ Signal \/ ListenerClosed \/ LoopsStopped \/ PoolEnded

ServerSpec == ServerInit /\ [][ServerNext]_serverVars

-----------------------------------------------------------------------------
(* server.ts: "the listener closes first so nothing new arrives, then the     *)
(* loops are allowed to finish the transaction each is holding".  Once the    *)
(* pool is ending no loop is in a pass, armed for another, or serving.        *)
NothingAfterPoolEnd ==
  process \in {"ending", "exited"} =>
    /\ cut = {} /\ Served = {}
    /\ \A l \in Loops : ~loop[l].pass /\ ~loop[l].armed
=============================================================================
