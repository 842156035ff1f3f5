----------------------------- MODULE TextReview -----------------------------
(***************************************************************************)
(* What the rewrite service demands of a text of the language model before *)
(* it becomes a draft: the schema (schemas.py), the filters 1 to 5 and the *)
(* report they make (rewrite_review.run_filters_1_5, review_report), the   *)
(* answer of the semantic review (quality_gate), and the choice of the     *)
(* facts that a rewrite must keep (orchestrator._quality_required_facts).  *)
(*                                                                         *)
(* Beside the tokens of FactDiff a text has quotes: the quoted words,      *)
(* whether a speaker is named beside it, and the office given to the       *)
(* speaker, or "".  Reworded are the pairs of quotes whose similarity is   *)
(* between the two thresholds; above the upper one they count as the same. *)
(***************************************************************************)
EXTENDS FactDiff, BodyFormat

CONSTANTS
    Cyrillic, Latin,  \* words by their letters; others have neither
    Reworded,         \* pairs of quotes between _FUZZY_DISTORTED and _FUZZY_OK
    Foreign,          \* words with characters no Russian text may have
    DefaultPhrases,   \* DEFAULT_BANNED_PHRASES: phrase to category
    FactLimit,        \* QUALITY_REQUIRED_FACT_LIMIT
    NumberLimit,      \* QUALITY_REQUIRED_NUMBER_LIMIT
    TitleMin, BodyMin \* the least letters of a title, and of a body

ASSUME TokenAssumption ==
    /\ \A w \in Words :
          /\ w[1] = "name" => w[2] \in Seq(STRING) \ {<<>>}
          /\ w[1] = "quote" => w[2] \in Seq(STRING)
    /\ FactLimit \in Nat /\ NumberLimit \in Nat

Quote(words, attributed, office) == <<"quote", words, attributed, office>>

(* The words of a text, those of its quotes and names among them *)
Spelled(token) ==
    CASE token[1] = "word" -> <<token[2]>>
      [] token[1] = "name" -> token[2]
      [] token[1] = "quote" -> IF token[4] = "" THEN token[2] ELSE Append(token[2], token[4])
      [] OTHER -> <<"">>
Spoken(text) == FlattenSeq([i \in DOMAIN text |-> Spelled(text[i])])
(* The extractors of facts read quotes like the rest *)
Unquoted(text) ==
    FlattenSeq([i \in DOMAIN text |->
        IF text[i][1] = "quote" THEN [n \in DOMAIN text[i][2] |-> Word(text[i][2][n])]
        ELSE <<text[i]>>])

-----------------------------------------------------------------------------
(* Filter 4: quotes *)

ScriptKind(words) ==
    LET cyrillic == ToSet(words) \cap Cyrillic # {} latin == ToSet(words) \cap Latin # {} IN
    CASE cyrillic /\ latin -> "mixed" [] cyrillic /\ ~latin -> "cyrillic"
      [] latin /\ ~cyrillic -> "latin" [] OTHER -> "other"
OtherScript(kind) == CASE kind = "cyrillic" -> "latin" [] kind = "latin" -> "cyrillic" [] OTHER -> "none"
QuotedIn(text) == {text[i][2] : i \in {n \in DOMAIN text : text[n][1] = "quote"}}
IsBilingual(words, source) ==
    LET other == OtherScript(ScriptKind(words)) quoted == {ScriptKind(q) : q \in QuotedIn(source)} IN
    /\ other # "none"
    /\ (quoted # {} /\ quoted \subseteq {other, "other"}) \/ ScriptKind(Spoken(source)) = other

Occurs(words, text) ==
    \E i \in 0..(Len(text) - Len(words)) : \A k \in DOMAIN words : text[i + k] = words[k]
(* Mutant: what is not found may be a translation of anything *)
BestRatioLenient(words, source) ==
    IF Occurs(words, Spoken(source)) \/ QuotedIn(source) # {} THEN "ok" ELSE "invented"

BestRatio(words, source) ==
    CASE Occurs(words, Spoken(source)) -> "ok"
      [] OTHER -> IF \E pair \in Reworded : pair[1] = words /\ Occurs(pair[2], Spoken(source))
                  THEN "distorted" ELSE "invented"
(* A translated quote cannot be compared: a warning only *)
QuoteJudged(words, source) ==
    LET ratio == BestRatio(words, source) IN
    IF ratio # "ok" /\ IsBilingual(words, source) THEN "bilingual" ELSE ratio
QuoteFindings(source, text) ==
    LET quotes == {i \in DOMAIN text : text[i][1] = "quote"}
        Judged(i) == QuoteJudged(text[i][2], source) IN
    {Finding("quotes", Judged(i), i, IF Judged(i) = "bilingual" THEN "warning" ELSE "critical") :
        i \in {n \in quotes : Judged(n) # "ok"}}
    \cup {Finding("quotes", "attribution", i, "warning") :
        i \in {n \in quotes : Judged(n) # "invented" /\ ~text[n][3]}}
    \cup {Finding("quotes", "office", i, "warning") :
        i \in {n \in quotes : text[n][4] \notin ToSet(Spoken(source)) \cup {""}}}

-----------------------------------------------------------------------------
(* Filter 5: banned phrases.  A list is a function from phrases to         *)
(* categories, "" where none is given; an empty list stands for the        *)
(* defaults, which a saved list can only add to or put in another category *)

ParseBannedPhrases(list) ==
    IF DOMAIN list = {} THEN DefaultPhrases
    ELSE [p \in DOMAIN list |-> IF list[p] = "" THEN "other" ELSE list[p]]
MergeBannedPhrases(list) ==
    [p \in DOMAIN list \cup DOMAIN DefaultPhrases |->
        IF p \in DOMAIN list THEN list[p] ELSE DefaultPhrases[p]]
GetBannedPhrases(list) == MergeBannedPhrases(ParseBannedPhrases(list))

(* Words of quotes are not looked at *)
BannedFindings(text, catalog) ==
    {Finding("banned", catalog[text[i][2]], i,
             IF catalog[text[i][2]] = "investment" THEN "critical" ELSE "warning") :
        i \in {n \in DOMAIN text : text[n][1] = "word" /\ text[n][2] \in DOMAIN catalog}}

(* The title against the first sentence of the body *)
TitleLeadFindings(title, body) ==
    LET lead == SplitParagraphs(body)[1]
        words == ToSet(title) shared == words \cap ToSet(lead[1]) IN
    IF /\ title # <<>>
       /\ \/ title = lead[1] \/ title = FlattenSeq(lead)
          \/ Cardinality(words) >= 3 /\ shared = words
          \/ Cardinality(words) >= 4 /\ 100 * Cardinality(shared) >= 85 * Cardinality(words)
    THEN {Finding("title_lead", "repeated", 0, "warning")} ELSE {}

-----------------------------------------------------------------------------
(* Facts are pairs of a kind and the tokens of the line *)

TokensOf(facts) == FlattenSeq([i \in DOMAIN facts |-> facts[i][2]])
WhoOf(facts) ==
    LET tokens == FlattenSeq([i \in DOMAIN facts |-> IF facts[i][1] = "who" THEN facts[i][2] ELSE <<>>]) IN
    FlattenSeq([i \in DOMAIN tokens |-> IF tokens[i][1] = "name" THEN <<tokens[i][2]>> ELSE <<>>])
NumberFacts(facts) == Cardinality({i \in DOMAIN facts : facts[i][1] = "number"})

(* All facts of a short list, of a long one first the first of each kind; *)
(* of the figures only the first few                                      *)
Leading(facts) ==
    LET kinds == <<"essence", "who", "when", "number", "what">>
        Of(kind) == {i \in DOMAIN facts : facts[i][1] = kind} IN
    FlattenSeq([k \in DOMAIN kinds |->
        IF Of(kinds[k]) = {} THEN <<>> ELSE <<facts[First(Of(kinds[k]))]>>])
PassedOver(fact, chosen, facts) ==
    \/ fact[1] = "number" /\ NumberFacts(chosen) >= NumberLimit
    \/ Len(facts) > FactLimit /\ (Len(chosen) >= FactLimit \/ fact \in ToSet(chosen))
RequiredFacts(facts) ==
    LET chosen[n \in 0..Len(facts)] ==
            IF n = 0 THEN IF Len(facts) > FactLimit THEN Leading(facts) ELSE <<>>
            ELSE LET before == chosen[n - 1] IN
                 IF PassedOver(facts[n], before, facts) THEN before ELSE Append(before, facts[n]) IN
    SubSeq(chosen[Len(facts)], 1, Least(Len(chosen[Len(facts)]), FactLimit))
RequiredText(facts) == TokensOf(RequiredFacts(facts))

(* run_filters_1_5: the text is title and body *)
RunFilters(source, facts, title, body, catalog) ==
    LET text == title \o Flat(body) IN
    CompareFacts(Unquoted(source), Unquoted(text), RequiredText(facts), WhoOf(facts)).findings
        \cup QuoteFindings(source, text)
        \cup BannedFindings(text, catalog)
        \cup TitleLeadFindings(title, body)

CriticalIn(findings) == {f \in findings : f.severity = "critical"}
Verdict(findings) ==
    CASE CriticalIn(findings) # {} -> "blocked"
      [] CriticalIn(findings) = {} /\ findings # {} -> "needs_attention"
      [] OTHER -> "publishable"

(* review_rewrite: whether the model approves is not asked; language and   *)
(* policy block whatever the severity of the findings                      *)
Answers == [language: BOOLEAN, blocking: BOOLEAN,
            severity: {"none", "warning", "critical", "unknown"}]
SemanticFindings(answer) ==
    (IF answer.severity = "none" THEN {}
     ELSE {Finding("semantic", "meaning", 0,
                   IF answer.severity = "critical" THEN "critical" ELSE "warning")})
    \cup (IF answer.language THEN {Finding("semantic", "language", 0, "critical")} ELSE {})
    \cup (IF answer.blocking THEN {Finding("semantic", "blocking", 0, "critical")} ELSE {})

-----------------------------------------------------------------------------
(* RewriteResultSchema.  What the model wrote in a language that is not    *)
(* enabled is dropped, in every enabled one it must have written           *)

ValidIn(locale, text) ==
    /\ locale \in text.written
    /\ LenSentence(text.title) >= TitleMin
    /\ Acceptable(text.body)
    /\ LenParagraph(FlattenSeq(text.body)) >= BodyMin
    /\ locale = "ru" =>
         \A token \in ToSet(text.title \o Flat(text.body)) : ToSet(Spelled(token)) \cap Foreign = {}
Valid(text, locales) == \A locale \in locales : ValidIn(locale, text)

(* parse_output_locales: Russian when nothing valid is given *)
ParseOutputLocales(raw) == IF raw \cap {"ru", "en"} = {} THEN {"ru"} ELSE raw \cap {"ru", "en"}

(* resolve_export_language and project_export_item: the languages an item *)
(* is exported in; without a valid query those enabled now                *)
ExportLocales(query, locales) ==
    CASE query \in {"ru", "en"} -> {query}
      [] query = "all" -> {"ru", "en"}
      [] OTHER -> locales
=============================================================================
