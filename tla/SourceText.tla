----------------------------- MODULE SourceText -----------------------------
(***************************************************************************)
(* What becomes of the text of a source before it is published: the markup  *)
(* that is taken out of it (fetcher/source-fetcher.ts) and the personal     *)
(* data that is found in it (fetcher/safety.ts).                            *)
(*                                                                         *)
(* A page is a sequence of tokens: the tags of the two active elements, a   *)
(* bare ">", the same written as entities, and any other text.  The letter  *)
(* U+0130 is longer in lower case; its token is as many of them as shift    *)
(* what follows by a token.  A find is a stretch of a field with what the   *)
(* patterns, the checksums and the words around it say of it.               *)
(***************************************************************************)
EXTENDS Integers, Sequences, FiniteSets

Tokens ==
  {"<script", "</script", "<style", "</style", ">", "&lt;script", "&lt;/script", "&lt;style",
   "&lt;/style", "&gt;", "text", "U+0130", "&#304;"}
PlainTokens == Tokens \ {"U+0130", "&#304;"}

Elements == {"script", "style"}
Opening == [script |-> "<script", style |-> "<style"]
Closing == [script |-> "</script", style |-> "</style"]
Space == "text"

PositionsOf(page, token, from) == {i \in from..Len(page) : page[i] = token}
Least(S) == CHOOSE i \in S : \A j \in S : i <= j

(* The ends of the closing tags of an element: one that its ">" follows.      *)
ClosingTags(page, element, from) ==
  {i + 1 : i \in {k \in PositionsOf(page, Closing[element], from) :
                    k < Len(page) /\ page[k + 1] = ">"}}

(* scan[from] is the first stretch to be taken out of what is left from a     *)
(* place on; each leaves a space.  A scan may be of a longer text.            *)
Cut(first, last) == [first |-> first, last |-> last]
NoCut == Cut(0, 0)

Slice(page, from, to) == SubSeq(page, from, IF to <= Len(page) THEN to ELSE Len(page))

WithoutCuts(page, scan) ==
  LET Kept[from \in DOMAIN scan] ==
        IF scan[from] = NoCut THEN SubSeq(page, from, Len(page))
        ELSE Append(Slice(page, from, scan[from].first - 1), Space) \o Kept[scan[from].last + 1]
  IN  Kept[1]

(* toLowerCase, with the tokens where it leaves them.                         *)
Lowered(page) ==
  LET Grown(i) == Cardinality({k \in 1..(i - 1) : page[k] = "U+0130"})
      Now(i) == i + Grown(i)
      Stay(k) == {i \in DOMAIN page : page[i] # "U+0130" /\ Now(i) = k}
  IN  [k \in 1..(Now(Len(page) + 1) - 1) |->
         IF Stay(k) = {} THEN "text" ELSE page[CHOOSE i \in Stay(k) : TRUE]]

(* A block that is opened and never closed takes the rest of the page with it; *)
(* an opening tag that never ends stays as it is, with all that follows it.   *)
BlockFrom(page, element, from) ==
  LET opens == PositionsOf(page, Opening[element], from)
      ends == PositionsOf(page, ">", Least(opens) + 1)
      closes == ClosingTags(page, element, Least(ends) + 1)
  IN  IF opens = {} \/ ends = {} THEN NoCut
      ELSE Cut(Least(opens), IF closes = {} THEN Len(page) ELSE Least(closes))

(* Blocks are looked for in the lower-cased text, and what is kept is sliced   *)
(* from the text itself at the places found there.                            *)
StripTagBlocks(page, element) ==
  LET lower == Lowered(page)
  IN  WithoutCuts(page, [from \in 1..(Len(lower) + 1) |-> BlockFrom(lower, element, from)])

StripActiveMarkup(page) == StripTagBlocks(StripTagBlocks(page, "script"), "style")

DecodeEntities(page) ==
  LET Decoded(token) == CASE token = "&lt;script" -> "<script"
                          [] token = "&lt;/script" -> "</script"
                          [] token = "&lt;style" -> "<style"
                          [] token = "&lt;/style" -> "</style"
                          [] token = "&gt;" -> ">"
                          [] token = "&#304;" -> "U+0130"
                          [] OTHER -> token
  IN  [i \in DOMAIN page |-> Decoded(page[i])]

(* The tags that are left, the last of which the byte cap may have cut.       *)
TagFrom(page, from) ==
  LET opens == {i \in from..Len(page) : page[i] \in {"<script", "</script", "<style", "</style"}}
      ends == PositionsOf(page, ">", Least(opens) + 1)
  IN  IF opens = {} THEN NoCut
      ELSE Cut(Least(opens), IF ends = {} THEN Len(page) ELSE Least(ends))

WithoutTags(page) ==
  WithoutCuts(page, [from \in 1..(Len(page) + 1) |-> TagFrom(page, from)])

(* Entities are decoded last, and may have spelt what was just taken out.     *)
HtmlToText(page) == StripActiveMarkup(DecodeEntities(WithoutTags(StripActiveMarkup(page))))

ToStoredText(page, html) == IF html THEN HtmlToText(page) ELSE StripActiveMarkup(page)

(* No block of an active element begins in the text.                          *)
Inert(page) ==
  \A i, j \in DOMAIN page :
    (i < j /\ page[j] = ">") => page[i] \notin {Opening[e] : e \in Elements}

-----------------------------------------------------------------------------
Rank == [private_key |-> 5, payment_card |-> 4, national_id |-> 3, email |-> 2, phone |-> 1]
BlockingKinds == {"private_key", "payment_card", "national_id"}

(* contextRegex, hasContext: what is spoken of within 72 characters before a   *)
(* match or 40 after it, or in the name of its field.                         *)
Nearby == {"phone", "ssn", "nik", "aadhaar", "nino", "key"}

(* luhn, looksLikeCard, looksLikeNik, looksLikeSsn, SEMVER, ISO_DATE: the tests *)
(* a run of digits passes.                                                    *)
Checks == {"card", "nik", "ssn", "version"}

(* The patterns a match may be of.                                            *)
Shapes == {"email", "pem", "wif", "hex", "phrase", "ssn", "npwp", "nino", "aadhaar", "digits"}

(* A run of digits, by the first rule it meets; most of the rules ask for a   *)
(* word nearby, a valid card number for none.                                 *)
NumericKind(find) ==
  IF "card" \in find.valid THEN "payment_card"
  ELSE IF \/ find.digits = 16 /\ ("nik" \in find.valid \/ "nik" \in find.words)
          \/ find.digits = 9 /\ "ssn" \in find.valid /\ "ssn" \in find.words
          \/ find.digits = 12 /\ "aadhaar" \in find.words
       THEN "national_id"
  ELSE IF find.digits \in 8..15 /\ "version" \notin find.valid /\ "phone" \in find.words
       THEN "phone"
  ELSE "none"

KindOf(find) ==
  CASE find.shape = "email" -> "email"
    [] find.shape \in {"pem", "wif"} -> "private_key"
    [] find.shape \in {"hex", "phrase"} -> IF "key" \in find.words THEN "private_key" ELSE "none"
    [] find.shape = "ssn" -> IF "ssn" \in find.valid THEN "national_id" ELSE "none"
    [] find.shape = "npwp" -> "national_id"
    [] find.shape \in {"nino", "aadhaar"} ->
         IF find.shape \in find.words THEN "national_id" ELSE "none"
    [] find.shape = "digits" -> NumericKind(find)

ScanField(finds) ==
  {[kind |-> KindOf(f), field |-> f.field, from |-> f.from, to |-> f.to] :
     f \in {g \in finds : KindOf(g) # "none"}}

Clash(a, b) == a.field = b.field /\ a.from < b.to /\ b.from < a.to
Longer(a, b) == a.to - a.from > b.to - b.from
Earlier(a, b) ==
  \/ a.from < b.from
  \/ a.from = b.from /\ Rank[a.kind] > Rank[b.kind]
  \/ a.from = b.from /\ a.kind = b.kind /\ Longer(a, b)

(* Mutant: the longer of two spans that overlap stays.                        *)
Prevails_Longer(span, other) == Longer(span, other)

(* Of two spans that overlap the graver stays, or the longer of two alike.    *)
Prevails(span, other) ==
  \/ Rank[span.kind] > Rank[other.kind]
  \/ span.kind = other.kind /\ Longer(span, other)

KeepSpan(kept, span) ==
  LET clash == {other \in kept : Clash(span, other)}
      other == CHOOSE o \in clash : TRUE
  IN  IF clash = {} THEN kept \cup {span}
      ELSE IF Prevails(span, other) THEN (kept \ {other}) \cup {span}
      ELSE kept

InOrder(spans) ==
  [i \in 1..Cardinality(spans) |->
     CHOOSE s \in spans : Cardinality({t \in spans : Earlier(t, s)}) = i - 1]

ResolveOverlaps(spans) ==
  LET Kept[n \in 0..Cardinality(spans)] ==
        IF n = 0 THEN {} ELSE KeepSpan(Kept[n - 1], InOrder(spans)[n])
  IN  Kept[Cardinality(spans)]

ScreenForPersonalData(finds) ==
  LET FieldsOf == {f.field : f \in finds}
  IN  UNION {ResolveOverlaps(ScanField({f \in finds : f.field = name})) : name \in FieldsOf}
=============================================================================
