------------------------------ MODULE ShareCard ------------------------------
(***************************************************************************)
(* The web server in front of the app (proofrelay-frontend/server): the page *)
(* of a task with its head rebuilt around what the API says, the share card  *)
(* drawn for it and kept for a while, and the built shell, read once.        *)
(*                                                                         *)
(* A task is what the API shows of it.  A card is the fields drawn on it and *)
(* stands for its own PNG; wrapping, escaping and colours are left out, and  *)
(* so is what of the card never changes.                                    *)
(***************************************************************************)
EXTENDS Integers, Sequences, FiniteSets, SequencesExt

CONSTANTS
  SharedTasks,
  Visitors,        \* browsers and crawlers
  NoRating,
  reportsPerTask,
  MAX_ENTRIES,     \* cards that are kept
  TTL,             \* minutes a card is good for
  Renumberings,    \* bound: moves <<from, to>> of a task's handle ("PR-1")
  MaxMinutes,      \* bound: the clock
  MaxBuilds        \* bound: builds of the client

ASSUME ShareCardAssumption ==
  /\ reportsPerTask \in Nat \ {0} /\ MAX_ENTRIES \in Nat \ {0} /\ TTL \in Nat
  /\ Renumberings \subseteq Nat \X Nat /\ MaxMinutes \in Nat /\ MaxBuilds \in Nat \ {0}

VARIABLES
  shared,      \* per task: its handle, status, reveals, and whether manifest and result are in
  visit,       \* per visitor: the request it made and what it was answered
  cards,       \* the cache: the oldest first
  minute,
  rasteriser,  \* whether this deployment can draw
  bundle,       \* the bundle on the disk
  shell        \* the bundle whose shell is in memory, or 0

shareVars == <<shared, visit, cards, minute, rasteriser, bundle, shell>>
served == <<visit, cards, rasteriser, shell>>

Away == [at |-> "away"]

ShareInit ==
  /\ shared = [t \in SharedTasks |-> [ref |-> 1, status |-> "IN REVIEW", revealed |-> 0,
                                      manifest |-> FALSE, consensus |-> FALSE]]
  /\ visit = [v \in Visitors |-> Away] /\ cards = <<>> /\ minute = 0
  /\ rasteriser \in BOOLEAN /\ bundle = 1 /\ shell = 0

-----------------------------------------------------------------------------
(* What the API comes to say of a task.                                       *)
Becomes(t, row) == shared' = [shared EXCEPT ![t] = row] /\ UNCHANGED <<served, minute, bundle>>

RevealShows(t) ==
  /\ shared[t].status = "IN REVIEW" /\ ~shared[t].consensus
  /\ shared[t].revealed < reportsPerTask
  /\ Becomes(t, [shared[t] EXCEPT !.revealed = @ + 1])

ManifestShows(t) == ~shared[t].manifest /\ Becomes(t, [shared[t] EXCEPT !.manifest = TRUE])

(* A task that is indexed late takes its place in the order of creation, and   *)
(* others move: up by one, or back when only syncs had ordered them.          *)
Renumbered(t) ==
  \E move \in Renumberings :
    move[1] = shared[t].ref /\ Becomes(t, [shared[t] EXCEPT !.ref = move[2]])

(* The orchestrator stores its result, then the chain is told.                *)
ResultShows(t) ==
  /\ shared[t].revealed > 0 /\ ~shared[t].consensus
  /\ Becomes(t, [shared[t] EXCEPT !.consensus = TRUE])

StatusShows(t) ==
  \E status \in {"DISPUTED", "VERIFIED", "CONFLICT"} :
    /\ shared[t].consensus
    /\ shared[t].status = "IN REVIEW" \/ (shared[t].status = "DISPUTED" /\ status # "DISPUTED")
    /\ Becomes(t, [shared[t] EXCEPT !.status = status])

CacheMinute == minute < MaxMinutes /\ minute' = minute + 1 /\ UNCHANGED <<shared, served, bundle>>

(* vite renames every output by its content.                                  *)
Rebuild == bundle < MaxBuilds /\ bundle' = bundle + 1 /\ UNCHANGED <<shared, served, minute>>

-----------------------------------------------------------------------------
(* cardFromTask: the handle, with the manifest's title once that is read.     *)
CardFromTask(t) ==
  LET s == shared[t] IN
  [taskId |-> t, ref |-> s.ref, status |-> s.status, revealed |-> s.revealed,
   titled |-> s.manifest, claims |-> IF s.manifest THEN 1 ELSE 0,
   agreement |-> IF s.consensus THEN "settled" ELSE "revealed"]

(* All that is drawn but the handle.                                          *)
CardKey(card) == <<card.taskId, card.status, card.revealed, card.claims, card.agreement>>

Kept(key) == {i \in DOMAIN cards : cards[i].key = key}
Fresh(key) == {i \in Kept(key) : minute - cards[i].at <= TTL}

(* Map.delete: a key has one entry at most.                                   *)
Deleted(key) == IF Kept(key) = {} THEN cards ELSE RemoveAt(cards, CHOOSE i \in Kept(key) : TRUE)

(* remember: a new entry is the last, and the oldest goes when they are many. *)
Remembered(key, png) ==
  LET all == Append(Deleted(key), [key |-> key, png |-> png, at |-> minute])
  IN IF Len(all) > MAX_ENTRIES THEN Tail(all) ELSE all

(* claimReviewLd: a rating of each claim, once there is a result.             *)
Rated(t) == shared[t].consensus

Replied(v, with) == visit' = [visit EXCEPT ![v] = with]
Unmoved == UNCHANGED <<shared, minute, bundle, rasteriser>>

(* A share link: the task is fetched, or the fetch fails or is too slow, and  *)
(* the page is served either way, with the ratings there are.                *)
OpenTaskPage(v) ==
  /\ visit[v] = Away
  /\ \E t \in SharedTasks, reached \in BOOLEAN :
       Replied(v, [at |-> "page", rated |-> IF reached /\ Rated(t) THEN CardFromTask(t).status ELSE NoRating,
                    shell |-> IF shell = 0 THEN bundle ELSE shell])
  /\ shell' = IF shell = 0 THEN bundle ELSE shell
  /\ UNCHANGED cards /\ Unmoved

(* The page's script: the file, or a 404 when a rebuild has removed it.       *)
LoadScript(v) ==
  /\ visit[v].at = "page"
  /\ Replied(v, [at |-> IF visit[v].shell = bundle THEN "running" ELSE "blank"])
  /\ UNCHANGED <<cards, shell>> /\ Unmoved

(* /og/task: a card that is kept is the answer, else one is drawn.            *)
AskForCard(v) ==
  /\ visit[v] = Away
  /\ \E t \in SharedTasks :
       LET card == CardFromTask(t)
           hits == Fresh(CardKey(card))
       IN /\ cards' = IF hits = {} THEN Deleted(CardKey(card)) ELSE cards
          /\ IF hits # {}
             THEN Replied(v, [at |-> "png", card |-> card, png |-> cards[CHOOSE i \in hits : TRUE].png])
             ELSE Replied(v, [at |-> "drawing", card |-> card])
  /\ UNCHANGED shell /\ Unmoved

CardNotFound(v) == visit[v] = Away /\ Replied(v, [at |-> "404"]) /\ UNCHANGED <<cards, shell>> /\ Unmoved

DrawCard(v) ==
  /\ visit[v].at = "drawing" /\ rasteriser
  /\ cards' = Remembered(CardKey(visit[v].card), visit[v].card)
  /\ Replied(v, [at |-> "png", card |-> visit[v].card, png |-> visit[v].card])
  /\ UNCHANGED shell /\ Unmoved

DrawFails(v) ==
  /\ visit[v].at = "drawing" /\ Replied(v, [at |-> "404"])
  /\ UNCHANGED <<cards, shell>> /\ Unmoved

Leaves(v) ==
  /\ visit[v].at \in {"page", "png", "404", "running", "blank"} /\ Replied(v, Away)
  /\ UNCHANGED <<cards, shell>> /\ Unmoved

ShareNext ==
  \/ \E t \in SharedTasks : RevealShows(t) \/ ManifestShows(t) \/ ResultShows(t) \/ StatusShows(t)
                           \/ Renumbered(t)
  \/ CacheMinute \/ Rebuild
  \/ \E v \in Visitors :
       \/ OpenTaskPage(v) \/ LoadScript(v) \/ AskForCard(v) \/ CardNotFound(v)
       \/ DrawCard(v) \/ DrawFails(v) \/ Leaves(v)

ShareSpec == ShareInit /\ [][ShareNext]_shareVars

-----------------------------------------------------------------------------
(* A card that is served, kept or drawn, says what the API said of the task    *)
(* when it was asked for it, however the task and the other requests moved,   *)
(* in all but the handle: its status and reveals, its title and claims, and   *)
(* how many agree.                                                           *)
ButHandle(card) == [card EXCEPT !.ref = 0]

CardDrawsTheTask ==
  \A v \in Visitors : visit[v].at = "png" => ButHandle(visit[v].png) = ButHandle(visit[v].card)

(* index.ts: "Keyed on what the card actually draws, not on the task id"; the  *)
(* handle is drawn and is no part of the key.                                 *)
CardIsCurrent == \A v \in Visitors : visit[v].at = "png" => visit[v].png = visit[v].card

(* og.ts: "Only a settled task has ratings to publish. An open one is a       *)
(* question."                                                                *)
RatedIsSettled ==
  \A v \in Visitors : visit[v].at = "page" =>
    visit[v].rated \in {NoRating, "VERIFIED", "CONFLICT", "NO QUORUM"}

(* index.ts: "The build does not change under a running process": every page  *)
(* it serves finds its script.                                               *)
PagesRun == \A v \in Visitors : visit[v].at # "blank"
=============================================================================
