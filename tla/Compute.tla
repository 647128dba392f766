------------------------------ MODULE Compute ------------------------------
(***************************************************************************)
(* How a verifier's report comes about (workers/verifier/src/pipeline.ts):  *)
(* the manifest and its snapshots are read and checked, each claim gets     *)
(* candidate spans (packages/compute-adapter/src/local.ts), a model labels  *)
(* them (llm.ts, behind a router or a provider that broker.ts finds), and   *)
(* whatever it did not label usably is scored lexically (entailment.ts).    *)
(*                                                                         *)
(* A text is a number of sentences, a span two of them, its score a number  *)
(* chosen freely, and a fact a kind and a value.  Confidences, the curves   *)
(* behind them, prompts and traces' timings are left out.                   *)
(***************************************************************************)
EXTENDS Integers, FiniteSets, Sequences, SequencesExt

CONSTANTS
  Claims,
  Sentences,        \* per source of the manifest the sentences of its text
  Status,           \* per source what its fetch came to
  Scorings,         \* how the spans may score: [Claims -> [Spans -> Nat]]
  Rows,             \* what the model may say of a claim
  FactsOf,          \* [Claims -> the facts a claim asserts]
  SpanFacts,        \* the sets of facts a span may state
  Depths,           \* evidence depths
  supportThreshold,
  maxAttempts,
  PinnedServes      \* whether a pinned provider serves the model asked for

VARIABLES
  build,       \* where the build stands: at, driver, depth, corpus, attempt
  session,     \* the broker's provider: "none", or whether it serves the model
  score,       \* per claim the scores of the spans
  candidates,  \* per claim the spans the model is shown, best first
  answer,      \* per claim the row of the model's answer
  results,     \* per claim what is reported
  trace        \* of the scoring: whose model it names, whether it is verified

computeVars == <<build, session, score, candidates, answer, results, trace>>
reported == <<answer, results, trace>>

Lesser(m, n) == IF m < n THEN m ELSE n
Greater(m, n) == IF m > n THEN m ELSE n

(* splitSpans: a window of two sentences at every sentence.                   *)
SplitSpans(s) ==
  {[source |-> s, start |-> i, end |-> Lesser(i + 2, Sentences[s] + 1)] : i \in 1..Sentences[s]}

Spans == UNION {SplitSpans(s) : s \in DOMAIN Sentences}

ASSUME ComputeAssumption ==
  /\ Depths \subseteq Nat \ {0} /\ \A row \in Rows : row.spanIndexes \in Seq(Int)
  /\ Sentences \in Seq(Nat) /\ Scorings \subseteq [Claims -> [Spans -> Nat]]

(* spanIndexes count from 0; confident: a number between 0 and 1.             *)
NoAnswerRow == [verdict |-> "none", spanIndexes |-> <<>>, confident |-> FALSE]
Verdicts == {"SUPPORTED", "CONTRADICTED", "INSUFFICIENT_EVIDENCE"}
NoResult == [verdict |-> "none", degraded |-> FALSE, cites |-> 0, states |-> {}]
NoScore == [s \in Spans |-> 0]
NoTrace == [model |-> "none", verified |-> FALSE]

ComputeInit ==
  /\ build = [at |-> "idle", driver |-> "none", depth |-> 0, corpus |-> {}, attempt |-> 0]
  /\ session = "none" /\ trace = NoTrace
  /\ score = [c \in Claims |-> NoScore] /\ candidates = [c \in Claims |-> <<>>]
  /\ answer = [c \in Claims |-> NoAnswerRow]
  /\ results = [c \in Claims |-> NoResult]

At(at) == build' = [build EXCEPT !.at = at]

-----------------------------------------------------------------------------
(* Which spans a claim is judged against.                                    *)

Overlap(s, t) == s.source = t.source /\ s.start < t.end /\ t.start < s.end

(* Ties are broken by the source's hash, then by place.                       *)
Stronger(by, s, t) ==
  \/ by[s] > by[t]
  \/ by[s] = by[t] /\ (s.source < t.source \/ (s.source = t.source /\ s.start < t.start))

Outranking(by, S, s) == Cardinality({t \in S : Stronger(by, t, s)})
Top(by, S, n) == {s \in S : Outranking(by, S, s) < n}
Ranked(by, S) == [i \in 1..Cardinality(S) |-> CHOOSE s \in S : Outranking(by, S, s) = i - 1]

(* The spans of `rest`, best first, while there are slots: if `fresh`, those   *)
(* that overlap nothing taken.                                                *)
Take(taken, s, slots, fresh) ==
  IF Cardinality(taken) < slots /\ (fresh => \A t \in taken : ~Overlap(t, s))
  THEN taken \cup {s} ELSE taken

Fill(taken, rest, slots, fresh) ==
  LET Taken[n \in 0..Len(rest)] ==
        IF n = 0 THEN taken ELSE Take(Taken[n - 1], rest[n], slots, fresh)
  IN  Taken[Len(rest)]

(* What comes next after the best match, in its source.                       *)
Following(tops, rest) ==
  LET after == {s \in rest : \E top \in tops : s.source = top.source /\ s.start >= top.end}
  IN  {s \in after : \A t \in after : s.start <= t.start}

(* Of each source more than the budget is retained.  One span per source      *)
(* first, the one after the best match, then new text, and anything once no   *)
(* text is new.                                                               *)
SelectSpans(by, texts, limit) ==
  LET slots == Greater(1, limit)
      retained == UNION {Top(by, SplitSpans(s), Greater(8 * slots, 32)) : s \in texts}
      leaders == UNION {Top(by, SplitSpans(s), 1) : s \in texts}
      seated == Top(by, leaders, slots)
      rest == retained \ leaders
      next == IF Cardinality(seated) < slots
              THEN seated \cup Following(Top(by, seated, 1), rest) ELSE seated
      fresh == Fill(next, Ranked(by, rest), slots, TRUE)
  IN  Ranked(by, Fill(fresh, Ranked(by, rest), slots, FALSE))

-----------------------------------------------------------------------------
(* The lexical scorer.                                                       *)

(* scoreSpan: the weighted overlap of the words and facts of each claim with   *)
(* those of each span.                                                        *)
ScoreSpans == Scorings

(* factualTokens: dates, versions, percentages and numbers in a normal form,   *)
(* of the claim and of the span it is judged by.                              *)
StatedFacts == [Claims -> SpanFacts]

(* compareFacts: the facts for which the span states another of their kind.   *)
Contradicted(claimFacts, spanFacts) ==
  {f \in claimFacts \ spanFacts : \E g \in spanFacts : g.kind = f.kind}

(* Refutation comes before the threshold, and above a floor of 0.6 of it.     *)
Judge(claimFacts, spanFacts, bestScore, conservative) ==
  IF Contradicted(claimFacts, spanFacts) # {} /\ 10 * bestScore >= 6 * supportThreshold
  THEN "CONTRADICTED"
  ELSE IF bestScore < supportThreshold \/ conservative THEN "INSUFFICIENT_EVIDENCE" ELSE "SUPPORTED"

ScoreClaim(c, texts, depth, facts, conservative) ==
  LET sources == SelectSpans(score[c], texts, depth)
  IN [verdict |-> IF Len(sources) = 0 THEN "INSUFFICIENT_EVIDENCE"
                  ELSE Judge(FactsOf[c], facts, score[c][sources[1]], conservative),
      degraded |-> conservative, cites |-> Len(sources), states |-> facts]

-----------------------------------------------------------------------------
(* buildReport: the manifest and every snapshot it kept, each as it was named.*)
LoadManifest ==
  /\ build.at = "idle"
  /\ \E driver \in {"local", "router", "broker"}, depth \in Depths :
        build' = [build EXCEPT !.at = "corpus", !.driver = driver, !.depth = depth]
  /\ UNCHANGED <<session, score, candidates, reported>>

(* Storage answers with other bytes, or does not answer.                      *)
NotWhatWasNamed ==
  /\ build.at \in {"idle", "corpus"} /\ At("failed")
  /\ UNCHANGED <<session, score, candidates, reported>>

LoadCorpus ==
  /\ build.at = "corpus"
  /\ build' = [build EXCEPT !.at = IF build.driver = "broker" /\ session = "none"
                                   THEN "resolve" ELSE "score",
                            !.corpus = {s \in DOMAIN Sentences : Status[s] \in {"OK", "TRUNCATED"}}]
  /\ UNCHANGED <<session, score, candidates, reported>>

(* broker.resolve: a pinned provider is taken as it is, another by its model; *)
(* the session is kept, and a failure is not.                                 *)
ResolveProvider ==
  /\ build.at = "resolve"
  /\ \/ session' \in {"serves", IF PinnedServes THEN "serves" ELSE "other"} /\ At("score")
     \/ session' = "none" /\ At("failed")
  /\ UNCHANGED <<score, candidates, reported>>

(* The texts' scores for each claim, and the candidates a model is shown.      *)
GatherCandidates ==
  /\ build.at = "score"
  /\ At(IF build.driver = "local" THEN "lexical" ELSE "chat")
  /\ score' \in ScoreSpans
  /\ candidates' = [c \in Claims |-> SelectSpans(score'[c], build.corpus, Greater(build.depth, 3))]
  /\ UNCHANGED <<session, reported>>

Degraded(facts) == [c \in Claims |-> ScoreClaim(c, build.corpus, build.depth, facts[c], TRUE)]

(* What the scoring leaves behind: its local variables are gone.              *)
Scored(rows, report, named) ==
  /\ At("report")
  /\ answer' = rows /\ results' = report /\ trace' = named
  /\ score' = [c \in Claims |-> NoScore] /\ candidates' = [c \in Claims |-> <<>>]
  /\ UNCHANGED session

(* LocalComputeAdapter.scoreEvidence: the engine the operator chose.          *)
ScoreLocally ==
  /\ build.at = "lexical"
  /\ \E facts \in StatedFacts :
        Scored([c \in Claims |-> NoAnswerRow],
               [c \in Claims |-> ScoreClaim(c, build.corpus, build.depth, facts[c], FALSE)],
               [model |-> "local", verified |-> FALSE])

(* A call fails and is retried, but for errors no retry would mend.           *)
ChatFails ==
  /\ build.at = "chat"
  /\ \/ /\ build.attempt + 1 < maxAttempts
        /\ build' = [build EXCEPT !.attempt = @ + 1]
        /\ UNCHANGED <<session, score, candidates, reported>>
     \/ \E facts \in StatedFacts :
           Scored([c \in Claims |-> NoAnswerRow], Degraded(facts), [model |-> "local", verified |-> FALSE])

(* A row is used as it is or not at all: one of three verdicts, indexes into   *)
(* the spans it was shown, some where it asserts something, and a confidence.  *)
CitationsUsable(row, shown) ==
  /\ \A i \in DOMAIN row.spanIndexes : row.spanIndexes[i] \in 0..(shown - 1)
  /\ row.verdict # "INSUFFICIENT_EVIDENCE" => row.spanIndexes # <<>>

Usable(row, shown) == row.verdict \in Verdicts /\ CitationsUsable(row, shown) /\ row.confident

FromModel(row, depth) ==
  [verdict |-> row.verdict, degraded |-> FALSE,
   cites |-> Lesser(Len(row.spanIndexes), depth), states |-> {}]

(* parseJson, salvageRows: the rows of a completion, or those that arrived     *)
(* whole before it was cut.                                                   *)
SomeRows == {rows \in [Claims -> Rows] : \E c \in Claims : rows[c] # NoAnswerRow}

ChatAnswers ==
  /\ build.at = "chat"
  /\ \E rows \in SomeRows, facts \in StatedFacts, tee \in BOOLEAN :
        Scored(rows,
               [c \in Claims |->
                  IF Usable(rows[c], Len(candidates[c])) THEN FromModel(rows[c], build.depth)
                  ELSE ScoreClaim(c, build.corpus, build.depth, facts[c], TRUE)],
               [model |-> "model", verified |-> tee])

ComputeNext ==
  \/ LoadManifest \/ NotWhatWasNamed \/ LoadCorpus \/ ResolveProvider \/ GatherCandidates
  \/ ScoreLocally \/ ChatFails \/ ChatAnswers

ComputeSpec == ComputeInit /\ [][ComputeNext]_computeVars

-----------------------------------------------------------------------------
(* "Overlap is not entailment": but where the operator chose the lexical       *)
(* engine, a claim is reported as supported only if a model said so of this   *)
(* claim, citing spans; and no assertion is reported without a source.        *)
SupportIsWeighed ==
  \A c \in Claims :
    /\ (results[c].verdict = "SUPPORTED" /\ build.driver # "local") =>
          answer[c].verdict = "SUPPORTED" /\ ~results[c].degraded
    /\ results[c].verdict \in {"SUPPORTED", "CONTRADICTED"} => results[c].cites # 0

(* "Source diversity comes first", "require new text", "must never mean        *)
(* showing the model LESS": a claim is shown as many spans as there are, up to *)
(* the slots; from as many sources as can be; and two that overlap only when   *)
(* whatever was left out overlaps something shown too.                         *)
SpansAreFair ==
  build.at = "chat" =>
    \A c \in Claims :
      LET slots == Greater(build.depth, 3)
          shown == ToSet(candidates[c])
          texts == {s \in build.corpus : Sentences[s] > 0}
          spans == UNION {SplitSpans(s) : s \in texts}
      IN /\ Cardinality(shown) = Lesser(slots, Cardinality(spans))
         /\ Cardinality({s.source : s \in shown}) = Lesser(slots, Cardinality(texts))
         /\ (\E s, t \in shown : s # t /\ Overlap(s, t)) =>
               \A s \in spans \ shown : \E t \in shown : Overlap(s, t)

(* llm.ts: "The trace must not describe a response we threw away": a report    *)
(* that names the model, and may carry its attestation, has a claim it weighed.*)
NamesWhoWeighed ==
  trace.model = "model" => \E c \in Claims : ~results[c].degraded
=============================================================================
