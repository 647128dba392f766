------------------------------- MODULE Prepare -------------------------------
(***************************************************************************)
(* A request to prepare a task or a challenge (services/prepare-service.ts):*)
(* what the user typed is screened, the sources are fetched one after the   *)
(* other (fetcher/source-fetcher.ts), what came back is screened, and the   *)
(* snapshots, then the manifest or the evidence, go to permanent storage.   *)
(*                                                                         *)
(* Of a text the state keeps whether it is inert; what it carries is chosen *)
(* when it is screened.  Addresses are classes of addresses.                *)
(***************************************************************************)
EXTENDS SourceText

CONSTANTS
  MaxSources, MaxRedirects,
  AllowPrivate,   \* FETCH_ALLOW_PRIVATE
  Pages,          \* pages a source may answer with, each prefix of one being one
  Finds,          \* what texts and headers may carry
  MaxFinds        \* bound: finds in one source

ASSUME PrepareAssumption ==
  /\ MaxSources \in Nat /\ MaxRedirects \in Nat /\ MaxFinds \in Nat /\ AllowPrivate \in BOOLEAN
  /\ Pages \subseteq Seq(Tokens)
  /\ \A f \in Finds : /\ f.shape \in Shapes /\ f.words \subseteq Nearby /\ f.valid \subseteq Checks
                     /\ f.from \in Nat /\ f.to \in Nat

VARIABLES
  asking,      \* the request: which, where it stands, sources to go, its answer
  hop,         \* of the fetch at work: the redirects followed
  snapshots,   \* what was fetched, in order
  published    \* what is in storage: snapshots, and the manifest or the evidence

prepareVars == <<asking, hop, snapshots, published>>

PrepareInit ==
  /\ asking = [what |-> "none", at |-> "idle", left |-> 0, answer |-> "none"]
  /\ hop = 0 /\ snapshots = <<>> /\ published = {}

Stands(at) == asking' = [asking EXCEPT !.at = at]
Fails(answer) == asking' = [asking EXCEPT !.at = "over", !.answer = answer]

Screened(finds) == ScreenForPersonalData({f \in finds : ~f.deep})

-----------------------------------------------------------------------------
(* What the user typed, inline texts included, has no personal data in it.    *)
PrepareRequest(what, sources, typed) ==
  /\ asking.at = "idle"
  /\ asking' = IF Screened(typed) = {}
               THEN [what |-> what, at |-> "chain", left |-> sources, answer |-> "none"]
               ELSE [what |-> what, at |-> "over", left |-> 0, answer |-> "PERSONAL_DATA_REJECTED"]
  /\ UNCHANGED <<hop, snapshots, published>>

NextSource(left) == IF left = 0 THEN "screen" ELSE "source"

(* The protocol's parameters and the minimum bounty, or the challenged task.  *)
ReadChain ==
  /\ asking.at = "chain"
  /\ \/ Stands(NextSource(asking.left))
     \/ \E answer \in {"CHAIN_UNAVAILABLE",
                       IF asking.what = "task" THEN "VALIDATION_FAILED" ELSE "TASK_NOT_FOUND"} :
          Fails(answer)
  /\ UNCHANGED <<hop, snapshots, published>>

(* fetchSource never throws: the snapshot says what went wrong.               *)
Finish(status, text) ==
  /\ snapshots' = Append(snapshots, [status |-> status, text |-> text, finds |-> {}])
  /\ asking' = [asking EXCEPT !.left = @ - 1, !.at = NextSource(asking.left - 1)]
  /\ hop' = 0
  /\ UNCHANGED published

(* "slipped": active, of a page that holds a letter longer in lower case.     *)
StoredTexts ==
  {IF Inert(ToStoredText(page, html)) THEN "inert"
   ELSE IF page \in Seq(PlainTokens) THEN "active" ELSE "slipped" :
     page \in Pages, html \in BOOLEAN}

InlineSnapshot(text, truncated) ==
  /\ asking.at = "source" /\ asking.what = "task"
  /\ Finish(IF truncated THEN "TRUNCATED" ELSE "OK", text)

(* The absolute http(s) URL of an allowed port, without credentials.          *)
ParseTarget ==
  /\ asking.at \in {"source", "redirect"}
  /\ \/ Stands("resolve") /\ UNCHANGED <<hop, snapshots, published>>
     \/ Finish("REJECTED", "empty")

(* classifyAddress: a literal that cannot be parsed, or that no rule calls     *)
(* global, is "reserved".                                                     *)
AddressClasses ==
  {"public", "loopback", "private", "link-local", "carrier-grade-nat", "unique-local",
   "multicast", "broadcast", "unspecified", "ipv4-mapped", "reserved"}

RELAXABLE == {"loopback", "private", "unique-local"}
Allowed(class) == class = "public" \/ (AllowPrivate /\ class \in RELAXABLE)

(* Every answer is looked at, at every hop, and the first one is dialled.     *)
ResolveTarget(answers) ==
  /\ asking.at = "resolve"
  /\ IF answers # {} /\ \A class \in answers : Allowed(class)
     THEN Stands("connected") /\ UNCHANGED <<hop, snapshots, published>>
     ELSE Finish("REJECTED", "empty")

DoesNotResolve == asking.at = "resolve" /\ Finish("SOURCE_UNAVAILABLE", "empty")

(* The timer over all the hops, a broken connection, a status that is not 2xx.*)
NoAnswer == asking.at = "connected" /\ Finish("SOURCE_UNAVAILABLE", "empty")

Redirected ==
  /\ asking.at = "connected"
  /\ IF hop >= MaxRedirects
     THEN Finish("REJECTED", "empty")
     ELSE hop' = hop + 1 /\ Stands("redirect") /\ UNCHANGED <<snapshots, published>>

(* readCapped stops at the cap, wherever in the page that is.                 *)
ReadBody(text, truncated) ==
  /\ asking.at = "connected"
  /\ Finish(IF truncated THEN "TRUNCATED" ELSE "OK", text)

-----------------------------------------------------------------------------
(* screenSnapshots over the bytes and the headers that came back; none came   *)
(* with what was blocked.                                                     *)
ScreenSnapshots(carried) ==
  /\ asking.at = "screen"
  /\ snapshots' = [i \in DOMAIN snapshots |->
       [snapshots[i] EXCEPT !.finds =
          {f \in carried[i] : IF f.field = "headers" THEN snapshots[i].status # "REJECTED"
                             ELSE snapshots[i].text # "empty"}]]
  /\ asking' = [asking EXCEPT !.at = "upload", !.left = Len(snapshots)]
  /\ UNCHANGED <<hop, published>>

Blocked(snapshot) ==
  \E match \in Screened(snapshot.finds) : match.kind \in BlockingKinds

(* The source is refused, never the request: its text is dropped, its headers *)
(* and the hash of the text stay.                                             *)
Emptied(snapshot) ==
  [snapshot EXCEPT !.status = "REJECTED", !.text = "empty",
                   !.finds = {f \in @ : f.field = "headers"}]

PublicDataOnly == \A i \in DOMAIN snapshots : Screened(snapshots[i].finds) = {}

UploadSnapshot ==
  /\ asking.at = "upload" /\ asking.left > 0
  /\ LET next == snapshots[Len(snapshots) - asking.left + 1]
     IN  published' = published \cup {IF Blocked(next) THEN Emptied(next) ELSE next}
  /\ asking' = [asking EXCEPT !.left = @ - 1]
  /\ UNCHANGED <<hop, snapshots>>

(* What was stored before it stays stored.                                    *)
UploadFails ==
  /\ asking.at = "upload" /\ Fails("STORAGE_UPLOAD_FAILED")
  /\ UNCHANGED <<hop, snapshots, published>>

(* The manifest vouches for what was screened; the evidence names its sources *)
(* and the reports revealed so far.  The call to the chain that follows each  *)
(* may fail, and leaves it in storage.                                        *)
StoreManifest ==
  /\ asking.at = "upload" /\ asking.left = 0 /\ asking.what = "task"
  /\ published' = published \cup {[status |-> "manifest", publicDataOnly |-> PublicDataOnly]}
  /\ \E answer \in {"prepared", "CHAIN_UNAVAILABLE", "VALIDATION_FAILED"} : Fails(answer)
  /\ UNCHANGED <<hop, snapshots>>

StoreEvidence ==
  /\ asking.at = "upload" /\ asking.left = 0 /\ asking.what = "challenge"
  /\ published' = published \cup {[status |-> "evidence"]}
  /\ Fails("prepared") \/ Fails("CHAIN_UNAVAILABLE")
  /\ UNCHANGED <<hop, snapshots>>

-----------------------------------------------------------------------------
Answers == {A \in SUBSET AddressClasses : Cardinality(A) <= 2}
FewFinds == {F \in SUBSET Finds : IsFiniteSet(F) /\ Cardinality(F) <= MaxFinds}

PrepareNext ==
  \/ \E what \in {"task", "challenge"}, n \in 0..MaxSources, typed \in FewFinds :
       PrepareRequest(what, n, typed)
  \/ ReadChain \/ ParseTarget \/ DoesNotResolve \/ NoAnswer \/ Redirected
  \/ \E answers \in Answers : ResolveTarget(answers)
  \/ \E text \in StoredTexts, truncated \in BOOLEAN :
       InlineSnapshot(text, truncated) \/ ReadBody(text, truncated)
  \/ \E carried \in [DOMAIN snapshots -> FewFinds] : ScreenSnapshots(carried)
  \/ UploadSnapshot \/ UploadFails \/ StoreManifest \/ StoreEvidence

PrepareSpec == PrepareInit /\ [][PrepareNext]_prepareVars

-----------------------------------------------------------------------------
Kinds(finds) == {KindOf(f) : f \in {g \in finds : ~g.deep}} \ {"none"}

(* prepare-service.ts: of some kinds of data "copying it into permanent       *)
(* content-addressed storage is the harm, whoever published it first".  No    *)
(* body that was screened is stored with such data in it, nor are the headers *)
(* of a source that was not refused, whatever else overlaps it; no stored     *)
(* text holds a block of script or style, whatever its entities spelt, unless *)
(* a letter of its page grew in lower case; and a manifest that vouches for   *)
(* its sources has none in which anything was found.                          *)
PublishedIsClean ==
  \A object \in published :
    CASE object.status = "manifest" ->
           object.publicDataOnly =>
             \A i \in DOMAIN snapshots : Kinds(snapshots[i].finds) = {}
      [] object.status = "evidence" -> TRUE
      [] OTHER ->
           /\ object.text # "active"
           /\ Kinds({f \in object.finds : f.field = "body" \/ object.status # "REJECTED"})
                \cap BlockingKinds = {}

Sources == {object \in published : object.status \notin {"manifest", "evidence"}}

(* source-fetcher.ts, of StripActiveMarkup: "Removes <script> and <style> from *)
(* text that is about to be stored".  False: after letters that are longer in *)
(* lower case a tag is looked for further on than it stands in the text.      *)
AllTextsInert == \A object \in Sources : object.text \in {"inert", "empty"}

(* prepare-service.ts, of a source that is refused: "nothing that must not be  *)
(* republished is uploaded".  False of what was found in its headers, which   *)
(* are stored as they came.                                                   *)
HeadersAreClean == \A object \in Sources : Kinds(object.finds) \cap BlockingKinds = {}
=============================================================================
