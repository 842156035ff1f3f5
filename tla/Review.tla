------------------------------- MODULE Review -------------------------------
(***************************************************************************)
(* One cluster from its sources to the exported article, as far as what is *)
(* written matters: the sources and the facts extracted from them, the     *)
(* attempts of rewrite_cluster with the answers of the language model, the *)
(* review of each, the draft with its report, and what the export shows of *)
(* it.  An administrator changes the gate, the banned phrases and the      *)
(* languages at any time.                                                  *)
(*                                                                         *)
(* How an attempt is paid for and repeated is the subject of Rotation;     *)
(* here a failed attempt is just followed by another one, and the review   *)
(* is one step although its calls take a while: the text under review is   *)
(* the attempt's own, and its settings are read once.                      *)
(***************************************************************************)
EXTENDS TextReview

CONSTANTS
    Topics,           \* what the stories are about
    Sources(_),       \* the source texts on a topic
    Registers(_),     \* the lists of facts an enrichment may extract
    Replies(_, _),    \* the texts the model may answer with, on a topic to a source
    BannedLists(_),   \* the lists of phrases an administrator saves
    LocaleChoices(_), \* the languages an administrator chooses
    MaxAttempts,      \* MAX_ATTEMPTS
    None

ASSUME StoryAssumption ==
    \A t \in Topics :
        /\ Sources(t) \subseteq Seq(Words)
        /\ Registers(t) \subseteq Seq(STRING \X Seq(Words))
        /\ \A s \in Sources(t) : \A reply \in Replies(t, s) :
              reply.title \in Seq(Words) /\ reply.body \in Seq(Seq(Seq(Words)))

VARIABLES
    stage,       \* "new", "rewriting", "drafted" or "dead"
    topic, source, facts,
    active,      \* the languages rewrite_cluster read at its start
    attempt,     \* the attempt that runs
    draft,       \* the draft with its report, or None
    strict,      \* quality_gate.enabled
    banned,      \* compliance.banned_phrases
    locales      \* rewrite.output_locales

vars == <<stage, topic, source, facts, active, attempt, draft, strict, banned, locales>>
story == <<topic, source, facts, active>>
settings == <<strict, banned, locales>>

Init ==
    /\ stage = "new" /\ topic \in Topics
    /\ source = <<>> /\ facts = <<>> /\ active = {} /\ attempt = 1 /\ draft = None
    /\ strict = FALSE /\ banned = <<>> /\ locales = ParseOutputLocales({})

-----------------------------------------------------------------------------
(* The cluster is dispatched *)
Begin ==
    /\ stage = "new"
    /\ stage' = "rewriting" /\ active' = locales
    /\ source' \in Sources(topic) /\ facts' \in Registers(topic)
    /\ UNCHANGED <<topic, attempt, draft, settings>>

(* An attempt for nothing *)
Retry ==
    /\ IF attempt = MaxAttempts THEN stage' = "dead" /\ UNCHANGED attempt
       ELSE attempt' = attempt + 1 /\ UNCHANGED stage
    /\ UNCHANGED draft
Store(text, findings) ==
    /\ stage' = "drafted"
    /\ draft' = [title |-> text.title, body |-> SplitParagraphs(text.body), locales |-> active,
                 findings |-> findings, strict |-> strict,
                 disclaimer |-> \E f \in findings : f.filter = "banned" /\ f.what = "investment"]
    /\ UNCHANGED attempt
(* One text of the model.  The semantic review is only asked under the     *)
(* strict gate, and about a text that no other filter blocks               *)
Attempt(text) ==
    LET findings == RunFilters(source, facts, text.title, text.body, GetBannedPhrases(banned)) IN
    /\ stage = "rewriting"
    /\ \/ ~Valid(text, active) /\ Retry
       \/ Valid(text, active) /\ ~strict /\ Store(text, findings)
       \/ /\ Valid(text, active) /\ strict /\ CriticalIn(findings) # {}
          /\ Retry
       \/ /\ Valid(text, active) /\ strict /\ CriticalIn(findings) = {}
          /\ \/ Retry    \* the answer is not of the schema
             \/ \E answer \in Answers :
                   LET all == findings \cup SemanticFindings(answer) IN
                   IF CriticalIn(all) # {} THEN Retry ELSE Store(text, all)
    /\ UNCHANGED <<story, settings>>

(* Of the settings only the languages are read once there is a draft *)
SwitchGate ==
    /\ stage \in {"new", "rewriting"}
    /\ strict' = ~strict
    /\ UNCHANGED <<stage, story, attempt, draft, banned, locales>>
SaveBannedPhrases ==
    /\ stage \in {"new", "rewriting"}
    /\ \E list \in BannedLists(topic) : banned' = ParseBannedPhrases(list)
    /\ UNCHANGED <<stage, story, attempt, draft, strict, locales>>
SetOutputLocales ==
    /\ \E raw \in LocaleChoices(topic) : locales' = ParseOutputLocales(raw)
    /\ UNCHANGED <<stage, story, attempt, draft, strict, banned>>

Next ==
    \/ Begin \/ \E text \in Replies(topic, source) : Attempt(text)
    \/ SwitchGate \/ SaveBannedPhrases \/ SetOutputLocales

Spec == Init /\ [][Next]_vars

-----------------------------------------------------------------------------
(* What the draft says, and what an export with the given query shows of it *)
Text == draft.title \o Flat(draft.body)
ExportBody == NormalizeBodyParagraphs(draft.body)
ShownLocales(query) == draft.locales \cap ExportLocales(query, locales)

Unblocked == draft # None /\ Verdict(draft.findings) # "blocked"
Corpus == IF RequiredText(facts) = <<>> THEN Unquoted(source) ELSE RequiredText(facts)

(* A draft that is not blocked has a figure of its own for every sum, coin *)
(* amount and percentage it must keep: one figure never stands for two.    *)
(* (fact_diff.py: required_text is the must-keep set)                      *)
KeptOrBlocked ==
    Unblocked =>
        LET req == Numbers(Corpus) rew == Numbers(Unquoted(Text))
            needed == {i \in DOMAIN req : req[i].kind # "plain"} IN
        \E f \in Injection(needed, DOMAIN rew) : \A i \in needed : NumbersMatch(req[i], rew[f[i]])

(* A draft that is not blocked has no sum, year or quote that its sources  *)
(* do not have ("anything in the rewrite must appear somewhere in the      *)
(* sources"); a quote may be a translation of one.                         *)
Grounded ==
    Unblocked =>
        LET text == Unquoted(Text) IN
        /\ \A r \in ToSet(Numbers(text)) :
             r.kind = "plain" \/ \E s \in ToSet(Numbers(Unquoted(source))) : NumbersMatch(s, r)
        /\ Years(text) \subseteq Years(Unquoted(source)) \cup Years(Corpus)
        /\ \A words \in QuotedIn(Text) :
             Occurs(words, Spoken(source)) \/ IsBilingual(words, source)

(* A draft that repeats its sources word for word is blocked for no fact,  *)
(* if the facts are all from the sources and in their order.  That order   *)
(* matters because the dates are matched greedily: 6 May, May and 5 May of *)
(* the facts are not all found in May, 5 May and 6 May.  Nor may two       *)
(* figures be a power of ten apart: the first is then distorted by the     *)
(* second.                                                                 *)
InOrder(Key(_), part, whole) ==
    \A i, j \in DOMAIN part : i < j =>
        \E k, l \in DOMAIN whole :
            k < l /\ Key(part[i]) = Key(whole[k]) /\ Key(part[j]) = Key(whole[l])
RepetitionPasses ==
    /\ draft # None /\ Text = source
    /\ ToSet(TokensOf(facts)) \subseteq ToSet(Unquoted(source))
    /\ InOrder(DateKey, Dates(Corpus), Dates(Unquoted(source)))
    /\ InOrder(HitKey, Numbers(Corpus), Numbers(Unquoted(source)))
    /\ LET src == Numbers(Unquoted(source)) IN
       \A i, j \in DOMAIN src : ~IsMagnitudeDistortion(src[i], src[j])
    => \A f \in CriticalIn(draft.findings) : f.filter \in {"quotes", "banned", "semantic"}

(* How often a text says a word, and whether an export must cut the body   *)
(* inside a word to come to three paragraphs                               *)
Count(t, s) == Cardinality({i \in DOMAIN s : s[i] = t})
CutInsideWord(body) ==
    Len(Flat(body)) < Expected \/ (Len(body) = 2 /\ Len(FlattenSeq(body[Longest(body)])) < 2)

(* An export shows every word of the draft as often as it is in it, in     *)
(* three paragraphs, and in the order of the draft if that had three or    *)
(* more; and it shows every language of the draft if asked for all.        *)
ShownWhole ==
    draft # None /\ ~CutInsideWord(draft.body) =>
        LET shown == Flat(ExportBody) body == Flat(draft.body) IN
        /\ Len(ExportBody) = Expected
        /\ \A t \in ToSet(shown \o body) : Count(t, shown) = Count(t, body)
        /\ Len(draft.body) >= Expected => shown = body
        /\ draft.locales # {} /\ ShownLocales("all") = draft.locales
=============================================================================
