---------------------------- MODULE MCServices ----------------------------
(* Instances for TLC of the parts that serve one request, one pass or one  *)
(* page at a time, and of which no progress is asked.  They share nothing, *)
(* so a behaviour is that of one part, `part`, and the others rest: one    *)
(* run checks them all, at the cost of the sum of their states.            *)
EXTENDS Services, MCAdjudication, Roles, Server, Composer, Evaluation, Sender

CONSTANTS wa, wb   \* wallets

VARIABLE part

Parts ==
  {"sign-in", "sponsor", "prepare", "compute", "engine", "adjudication", "lists",
   "task view", "roles", "server", "composer", "evaluation", "share card", "sender"}

-----------------------------------------------------------------------------
(* Sponsorships: two for one wallet, one for another. *)
MCBeneficiary == <<wa, wa, wb>>

(* Prepare: markup as it comes and escaped, after letters that grow or not;  *)
(* data in bodies and headers.                                             *)
MCTokens == {"<script", "</script", ">", "&lt;script", "&gt;", "text", "U+0130"}
MCPages == UNION {[1..n -> MCTokens] : n \in 0..4}
Find(shape, valid, words, digits, field, from, to) ==
  [shape |-> shape, valid |-> valid, words |-> words, digits |-> digits, field |-> field,
   from |-> from, to |-> to, deep |-> FALSE]
MCFinds ==
  {Find("email", {}, {}, 0, "body", 1, 6),
   Find("digits", {"card"}, {"phone"}, 16, "body", 3, 7),
   Find("digits", {}, {"phone"}, 10, "body", 0, 4),
   Find("hex", {}, {"key"}, 0, "headers", 0, 4),
   Find("digits", {"version"}, {"phone"}, 9, "body", 5, 6),
   [Find("pem", {}, {}, 0, "body", 0, 4) EXCEPT !.deep = TRUE]}

(* Compute: a long source, a truncated one and one that was blocked.       *)
MCSentences == <<4, 1, 2>>
MCStatus == <<"OK", "TRUNCATED", "BLOCKED">>
LocalSpans == {s \in Spans : s.source < 3}
Level(f) == [s \in Spans |-> IF s \in DOMAIN f THEN f[s] ELSE 0]
MCScorings ==
  {[c \in Claims |-> IF c = 1 THEN Level(f) ELSE [s \in Spans |-> 5]] :
     f \in [LocalSpans -> {3, 5}] \cup {[s \in LocalSpans |-> 2]}}
Fact(kind, value) == [kind |-> kind, value |-> value]
MCFactsOf == [c \in Claims |-> IF c = 1 THEN {Fact("date", 1), Fact("version", 1)} ELSE {}]
MCSpanFacts == {{}, {Fact("date", 1)}, {Fact("date", 2)}}
ModelRow(v, i, ok) == [verdict |-> v, spanIndexes |-> i, confident |-> ok]
MCRows ==
  {NoAnswerRow,
   ModelRow("SUPPORTED", <<0>>, TRUE), ModelRow("SUPPORTED", <<>>, TRUE),
   ModelRow("SUPPORTED", <<7>>, TRUE), ModelRow("CONTRADICTED", <<0, 1, 2>>, TRUE),
   ModelRow("CONTRADICTED", <<1>>, FALSE), ModelRow("INSUFFICIENT_EVIDENCE", <<>>, TRUE),
   ModelRow("maybe", <<0>>, TRUE)}

(* Share card: an older task is indexed late, once.                        *)
MCRenumberings == {<<1, 2>>}

-----------------------------------------------------------------------------
(* A part that rests has one initial state.                                *)
Resting ==
  /\ part # "composer" => account = wa
  /\ part # "evaluation" => body = [v \in Reporters |-> "good"]
  /\ part # "lists" => reader.list = "tasks"
  /\ part # "share card" => rasteriser

ServicesInit ==
  /\ part \in Parts
  /\ SignInInit /\ SponsorInit /\ PrepareInit /\ ComputeInit /\ EngineInit /\ AdjInit
  /\ ListsInit /\ ViewInit /\ RolesInit /\ ServerInit /\ ComposerInit /\ EvalInit
  /\ ShareInit /\ SenderInit
  /\ Resting

(* All parts but p rest. *)
Rest(p) ==
  /\ UNCHANGED part
  /\ p # "sign-in" => UNCHANGED signVars
  /\ p # "sponsor" => UNCHANGED sponsorVars
  /\ p # "prepare" => UNCHANGED prepareVars
  /\ p # "compute" => UNCHANGED computeVars
  /\ p # "engine" => UNCHANGED panel
  /\ p # "adjudication" => UNCHANGED adjVars
  /\ p # "lists" => UNCHANGED listVars
  /\ p # "task view" => UNCHANGED viewVars
  /\ p # "roles" => UNCHANGED rolesVars
  /\ p # "server" => UNCHANGED serverVars
  /\ p # "composer" => UNCHANGED composerVars
  /\ p # "evaluation" => UNCHANGED evalVars
  /\ p # "share card" => UNCHANGED shareVars
  /\ p # "sender" => UNCHANGED senderVars

ServicesNext ==
  \/ part = "sign-in" /\ SignInNext /\ Rest("sign-in")
  \/ part = "sponsor" /\ SponsorNext /\ Rest("sponsor")
  \/ part = "prepare" /\ PrepareNext /\ Rest("prepare")
  \/ part = "compute" /\ ComputeNext /\ Rest("compute")
  \/ part = "engine" /\ EngineNext /\ Rest("engine")
  \/ part = "adjudication" /\ AdjNext /\ Rest("adjudication")
  \/ part = "lists" /\ ListsNext /\ Rest("lists")
  \/ part = "task view" /\ ViewNext /\ Rest("task view")
  \/ part = "roles" /\ RolesNext /\ Rest("roles")
  \/ part = "server" /\ ServerNext /\ Rest("server")
  \/ part = "composer" /\ ComposerNext /\ Rest("composer")
  \/ part = "evaluation" /\ EvalNext /\ Rest("evaluation")
  \/ part = "share card" /\ ShareNext /\ Rest("share card")
  \/ part = "sender" /\ SenderNext /\ Rest("sender")

servicesVars ==
  <<part, signVars, sponsorVars, prepareVars, computeVars, panel, adjVars,
    listVars, viewVars, rolesVars, serverVars, composerVars, evalVars,
    shareVars, senderVars>>

ServicesSpec == ServicesInit /\ [][ServicesNext]_servicesVars

=============================================================================
