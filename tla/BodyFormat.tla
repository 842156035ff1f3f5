----------------------------- MODULE BodyFormat -----------------------------
(***************************************************************************)
(* The paragraphs of an article (libs/common/rewrite_body_format): how a   *)
(* body is split, and how the api brings it to three paragraphs whenever   *)
(* it shows or exports a draft.                                            *)
(*                                                                         *)
(* A body is the sequence of its paragraphs, a paragraph the sequence of   *)
(* its sentences, a sentence that of its words, of which only the number   *)
(* of their letters matters here.  Left out are the bodies that are cut    *)
(* inside a word: those of fewer than three words, and those of two        *)
(* paragraphs of which the longest is one word (Review.CutInsideWord).     *)
(***************************************************************************)
EXTENDS Integers, Sequences, FiniteSets, SequencesExt

CONSTANTS Words, Letters    \* Letters[w]: length of word w

ASSUME LettersAssumption == Letters \in [Words -> Nat \ {0}]

Expected == 3    \* EXPECTED_PARAGRAPH_COUNT

Flat(body) == FlattenSeq(FlattenSeq(body))
Total(lengths) ==
    LET sum[n \in 0..Len(lengths)] == IF n = 0 THEN 0 ELSE sum[n - 1] + lengths[n] IN
    sum[Len(lengths)]
Joined(lengths) == IF lengths = <<>> THEN 0 ELSE Total(lengths) + Len(lengths) - 1
WordLengths(sentence) == [i \in DOMAIN sentence |-> Letters[sentence[i]]]
LenSentence(sentence) == Joined(WordLengths(sentence))
SentenceLengths(paragraph) == [i \in DOMAIN paragraph |-> LenSentence(paragraph[i])]
LenParagraph(paragraph) == Joined(SentenceLengths(paragraph))

(* A text without breaks is split into its sentences *)
SplitParagraphs(body) ==
    IF Len(body) = 1 /\ Len(body[1]) > 1 THEN [i \in DOMAIN body[1] |-> <<body[1][i]>>] ELSE body

(* The first index at which f is least *)
Leftmost(f) ==
    CHOOSE i \in DOMAIN f : /\ \A j \in DOMAIN f : f[i] <= f[j]
                            /\ \A j \in 1..(i - 1) : f[i] < f[j]

(* Each part goes to the group that is shortest so far *)
Deal(groups, part, length) ==
    [groups EXCEPT ![Leftmost([g \in DOMAIN groups |-> groups[g].length])] =
        [parts |-> Append(@.parts, part), length |-> @.length + length + 1]]
GroupIntoN(parts, lengths, count) ==
    LET groups[n \in 0..Len(parts)] ==
            IF n = 0 THEN [g \in 1..count |-> [parts |-> <<>>, length |-> 0]]
            ELSE Deal(groups[n - 1], parts[n], lengths[n])
        dealt == groups[Len(parts)] IN
    IF Len(parts) <= count THEN [i \in DOMAIN parts |-> <<parts[i]>>]
    ELSE [g \in 1..count |-> dealt[g].parts]
GroupWords(sentence, count) ==
    LET groups == GroupIntoN(sentence, WordLengths(sentence), count) IN
    [g \in DOMAIN groups |-> <<groups[g]>>]
GroupSentences(paragraph, count) == GroupIntoN(paragraph, SentenceLengths(paragraph), count)

Longest(paras) == Leftmost([i \in DOMAIN paras |-> -LenParagraph(paras[i])])
SplitLongestParagraph(paras) ==
    LET idx == Longest(paras)
        split == IF Len(paras[idx]) > 1 THEN GroupSentences(paras[idx], 2)
                 ELSE GroupWords(paras[idx][1], 2) IN
    SubSeq(paras, 1, idx - 1) \o split \o SubSeq(paras, idx + 1, Len(paras))

(* Mutant: the first two always become one, and trade places *)
MergeFirst(paras) == <<paras[2] \o paras[1]>> \o SubSeq(paras, 3, Len(paras))
(* The two neighbours that are shortest together become one *)
MergeShortest(paras) ==
    LET best == Leftmost([i \in 1..(Len(paras) - 1) |->
                             LenParagraph(paras[i]) + LenParagraph(paras[i + 1])]) IN
    SubSeq(paras, 1, best - 1) \o <<paras[best] \o paras[best + 1]>>
        \o SubSeq(paras, best + 2, Len(paras))

CoalesceToCount(paras) ==
    LET merged[n \in 0..(Len(paras) - Expected)] ==
            IF n = 0 THEN paras ELSE MergeShortest(merged[n - 1]) IN
    IF Len(paras) < Expected THEN SplitLongestParagraph(paras)
    ELSE merged[Len(paras) - Expected]

(* One paragraph of one sentence is grouped by its words *)
NormalizeBodyParagraphs(body) ==
    LET paras == SplitParagraphs(body) IN
    CASE Len(paras) \in {0, Expected} -> paras
      [] Len(paras) = 1 -> GroupWords(paras[1][1], Expected)
      [] OTHER -> CoalesceToCount(paras)

(* Counts what normalization makes of the body: a bound of six paragraphs  *)
(* is met by every body (_normalize_and_validate_active_locales)           *)
ParagraphCount(body) == Len(SplitParagraphs(NormalizeBodyParagraphs(body)))
Acceptable(body) == ParagraphCount(body) \in 1..6
=============================================================================
