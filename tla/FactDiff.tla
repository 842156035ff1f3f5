------------------------------ MODULE FactDiff ------------------------------
(***************************************************************************)
(* The deterministic fact filters of the rewrite service: what a rewrite   *)
(* misses, invents or distorts of its sources (fact_diff.compare_facts).   *)
(*                                                                         *)
(* A text is the sequence of what the extractors find in it: figures,      *)
(* dates, names and the words of a direction.  A figure is written with    *)
(* four leading digits and the order of the first one, a currency sign and *)
(* a suffix, for which the letter of a next word passes too: the code      *)
(* reads 5 members as 5 m.  Spelling, separators and the fuzzy comparison  *)
(* of names are left out: Alike holds the pairs of words that fold or blur *)
(* into each other, the places of _PLACE_ALIASES among them.               *)
(***************************************************************************)
EXTENDS Integers, Sequences, FiniteSets, SequencesExt

CONSTANTS
    Alike,        \* pairs of words of names that pass for one another
    Opposite      \* _DIRECTION_PAIRS: a sequence of pairs

MaxPlainDigits == 7        \* _MAX_PLAIN_DIGITS
CoverageFloorPct == 35     \* _COVERAGE_FLOOR_PCT
CoverageMinAnchors == 3    \* _COVERAGE_MIN_ANCHORS

(* What is written: tokens of a text *)
Figure(digits, order, currency, suffix) == <<"figure", digits, order, currency, suffix>>
Date(day, month, year, iso) == <<"date", day, month, year, iso>>    \* 0: not given
Name(words) == <<"name", words>>
Word(w) == <<"word", w>>

-----------------------------------------------------------------------------
(* Figures *)

KindOf(currency, suffix) ==
    CASE suffix = "percent" -> "percent"
      [] suffix = "coin" -> "crypto"
      [] suffix \notin {"percent", "coin"} /\ (currency \/ suffix \in {"k", "million", "billion"})
           -> "money"
      [] OTHER -> "plain"
OrderOf(suffix) ==
    CASE suffix \in {"thousand", "k"} -> 3
      [] suffix = "million" -> 6
      [] suffix \in {"bn", "billion"} -> 9
      [] OTHER -> 0
Hit(m, order, kind, suffixed) == [m |-> m, order |-> order, kind |-> kind, suffixed |-> suffixed]
Plain(n) == CASE n < 10 -> Hit(n * 1000, 0, "plain", FALSE)
              [] n >= 10 /\ n < 100 -> Hit(n * 100, 1, "plain", FALSE)
              [] OTHER -> Hit(n, 3, "plain", FALSE)

(* Long plain numbers are ids of posts and transactions; day and year of a *)
(* date are plain numbers too, in the iso form also the month.             *)
HitsOf(token) ==
    CASE token[1] = "figure" ->
           LET kind == KindOf(token[4], token[5]) IN
           IF kind = "plain" /\ token[3] >= MaxPlainDigits THEN <<>>
           ELSE <<Hit(token[2], token[3] + OrderOf(token[5]), kind,
                      token[5] \in {"thousand", "k", "million", "bn", "billion"})>>
      [] token[1] = "date" /\ token[5] -> <<Plain(token[4]), Plain(token[3]), Plain(token[2])>>
      [] token[1] = "date" /\ ~token[5] ->
           (IF token[2] = 0 THEN <<>> ELSE <<Plain(token[2])>>)
               \o (IF token[4] = 0 THEN <<>> ELSE <<Plain(token[4])>>)
      [] OTHER -> <<>>

(* The elements of s of which no earlier one has the same key *)
Distinct(s, keys) ==
    LET kept[n \in 0..Len(s)] ==
            IF n = 0 THEN <<>>
            ELSE IF \E j \in 1..(n - 1) : keys[j] = keys[n] THEN kept[n - 1]
            ELSE Append(kept[n - 1], s[n]) IN
    kept[Len(s)]
HitKey(h) == <<h.m, h.order, h.kind>>
Numbers(text) ==
    LET hits == FlattenSeq([i \in DOMAIN text |-> HitsOf(text[i])]) IN
    Distinct(hits, [i \in DOMAIN hits |-> HitKey(hits[i])])

SameValue(a, b) == a.m = b.m /\ a.order = b.order
Least(a, b) == IF a < b THEN a ELSE b
Significant(m) == CASE m % 1000 = 0 -> 1 [] m % 1000 # 0 /\ m % 100 = 0 -> 2
                    [] m % 100 # 0 /\ m % 10 = 0 -> 3 [] OTHER -> 4
Printed(a) == IF a.order + 1 > Significant(a.m) THEN a.order + 1 ELSE Significant(a.m)
SameSignificantDigits(a, b) ==
    LET drop == 10 ^ (4 - Least(4, Least(Printed(a), Printed(b)))) IN
    a.m \div drop = b.m \div drop

(* A power of ten apart, up to 0.08 of its logarithm *)
IsMagnitudeDistortion(a, b) ==
    /\ a.order # b.order /\ SameSignificantDigits(a, b)
    /\ 1000 * a.m <= 1202 * b.m /\ 1000 * b.m <= 1202 * a.m

(* Money whose suffix the other side has left out *)
Shortened(hi, lo) ==
    /\ hi.m = lo.m /\ hi.order - lo.order \in {3, 6, 9}
    /\ hi.kind = "money" /\ lo.kind \in {"money", "plain"}
    /\ hi.suffixed /\ ~lo.suffixed
NumbersMatch(a, b) == SameValue(a, b) \/ Shortened(a, b) \/ Shortened(b, a)

-----------------------------------------------------------------------------
(* Dates: month 0 does not occur, a day or year of 0 is not given *)

DatesOf(token) == IF token[1] = "date" THEN <<token>> ELSE <<>>
DateKey(d) == <<d[2], d[3], d[4], d[5] /\ (d[2] < 10 \/ d[3] < 10)>>
Dates(text) ==
    LET dates == FlattenSeq([i \in DOMAIN text |-> DatesOf(text[i])]) IN
    Distinct(dates, [i \in DOMAIN dates |-> DateKey(dates[i])])
DateCovers(src, rew) ==
    /\ src[3] = rew[3]
    /\ \/ src[2] = 0 /\ src[4] = 0
       \/ /\ 0 \in {src[2], rew[2]} \/ src[2] = rew[2]
          /\ 0 \in {src[4], rew[4]} \/ src[4] = rew[4]
Years(text) ==
    {d[4] : d \in {t \in ToSet(text) : t[1] = "date" /\ t[4] # 0}} \cup
    {f[2] : f \in {t \in ToSet(text) : t[1] = "figure" /\ t[3] = 3 /\ t[2] \div 100 = 20}}

-----------------------------------------------------------------------------
(* Names: single words are none, unless a fact names them as actor *)

NamesOf(token) == IF token[1] = "name" /\ Len(token[2]) > 1 THEN <<token[2]>> ELSE <<>>
Names(text, who) ==
    LET all == who \o FlattenSeq([i \in DOMAIN text |-> NamesOf(text[i])]) IN Distinct(all, all)
SameWord(v, w) == v = w \/ <<v, w>> \in Alike \/ <<w, v>> \in Alike
NamesFuzzyMatch(a, b) == \E v \in ToSet(a), w \in ToSet(b) : SameWord(v, w)
WordsOf(text) == UNION {ToSet(t[2]) : t \in {x \in ToSet(text) : x[1] = "name"}}
(* Mutant: a family name alone is no mention *)
MentionedInFull(name, text, who) ==
    \E other \in ToSet(Names(text, who)) : NamesFuzzyMatch(name, other)
Mentioned(name, text, who) ==
    \/ \E other \in ToSet(Names(text, who)) : NamesFuzzyMatch(name, other)
    \/ \E w \in WordsOf(text) : SameWord(Last(name), w)

-----------------------------------------------------------------------------
(* Every left element, in order, takes the first right one that fits and   *)
(* that no other has taken; fits are the pairs of a left and a right one   *)
First(indices) == CHOOSE i \in indices : \A k \in indices : i <= k
Greedy(count, fits, taken) ==
    LET pairs[n \in 0..count] ==
            IF n = 0 THEN taken
            ELSE LET before == pairs[n - 1]
                     free == {f[2] : f \in {g \in fits : g[1] = n /\ \A p \in before : p[2] # g[2]}} IN
                 IF free = {} \/ \E p \in before : p[1] = n THEN before
                 ELSE before \cup {<<n, First(free)>>} IN
    pairs[count]
Lefts(pairs) == {p[1] : p \in pairs}

Anchors == {"money", "crypto", "percent"}
Finding(filter, what, which, severity) ==
    [filter |-> filter, what |-> what, which |-> which, severity |-> severity]

Matching(req, rew) == {p \in (DOMAIN req) \X (DOMAIN rew) : NumbersMatch(req[p[1]], rew[p[2]])}
Distorting(req, rew) ==
    {p \in (DOMAIN req) \X (DOMAIN rew) : IsMagnitudeDistortion(req[p[1]], rew[p[2]])}
Covering(req, rew) == {p \in (DOMAIN req) \X (DOMAIN rew) : DateCovers(req[p[1]], rew[p[2]])}

(* Mutant: a figure may stand for several *)
KeptAgain(req, rew) == Matching(req, rew)

(* Figures: kept or distorted of those required; foreign to the sources,   *)
(* where the first source figure that matches or distorts decides          *)
Kept(req, rew) == Greedy(Len(req), Matching(req, rew), {})
Taken(req, rew) == Greedy(Len(req), Distorting(req, rew), Kept(req, rew))
FirstRelated(src, r) ==
    LET near == {i \in DOMAIN src : NumbersMatch(src[i], r) \/ IsMagnitudeDistortion(src[i], r)} IN
    IF near = {} THEN 0 ELSE First(near)
NumberFindings(req, src, rew) ==
    UNION {
        {Finding("distorted", "required", p[1], "critical") : p \in Taken(req, rew) \ Kept(req, rew)},
        {Finding("missing", "figure", i, "critical") :
            i \in {n \in DOMAIN req \ Lefts(Taken(req, rew)) : req[n].kind # "plain"}},
        {Finding("invented", "figure", j, "critical") :
            j \in {n \in DOMAIN rew : FirstRelated(src, rew[n]) = 0 /\ rew[n].kind # "plain"}},
        {Finding("distorted", "figure", j, "critical") :
            j \in {n \in DOMAIN rew : LET f == FirstRelated(src, rew[n]) IN
                                      f # 0 /\ ~NumbersMatch(src[f], rew[n])}}}

(* Dates: a year that is added must be a year of the sources.  Dates of    *)
(* different years cover each other in no case, so the wrong year of a     *)
(* date is a missing date and an invented one, never a distorted one.      *)
DateFindings(req, src, rew, years) ==
    LET covered(r) == \E s \in ToSet(src) :
            /\ DateCovers(s, r) \/ DateCovers(r, s)
            /\ r[4] # 0 /\ s[4] = 0 => r[4] \in years IN
    {Finding("missing", "date", i, IF req[i][2] = 0 /\ req[i][4] = 0 THEN "warning" ELSE "critical") :
        i \in DOMAIN req \ Lefts(Greedy(Len(req), Covering(req, rew), {}))}
    \cup {Finding("invented", "date", j, "critical") : j \in {n \in DOMAIN rew : ~covered(rew[n])}}

(* One word of a pair in the sources, only the other in the rewrite *)
DirectionFindings(sources, rewrite) ==
    LET src == {t[2] : t \in {x \in ToSet(sources) : x[1] = "word"}}
        rew == {t[2] : t \in {x \in ToSet(rewrite) : x[1] = "word"}} IN
    {Finding("distorted", "direction", p, "critical") :
        p \in {n \in DOMAIN Opposite : \E l, r \in ToSet(Opposite[n]) :
                  l # r /\ l \in src /\ r \in rew /\ l \notin rew}}

(* compare_facts: required is what the facts chosen for the gate contain,  *)
(* or the sources; who are the actors of all facts                         *)
CompareFacts(sources, rewrite, required, who) ==
    LET corpus == IF required = <<>> THEN sources ELSE required
        req == Numbers(corpus) rew == Numbers(rewrite)
        names == Names(corpus, who) mentions == Names(rewrite, <<>>)
        years == Years(sources) \cup Years(corpus)
        lost == {i \in DOMAIN names : ~Mentioned(names[i], rewrite, <<>>)}
        anchors == {i \in DOMAIN req : req[i].kind \in Anchors}
        total == Cardinality(anchors) + Len(names)
        matched == Cardinality(anchors \cap Lefts(Taken(req, rew))) + Len(names) - Cardinality(lost) IN
    [findings |-> UNION {
        NumberFindings(req, Numbers(sources), rew),
        DateFindings(Dates(corpus), Dates(sources), Dates(rewrite), years),
        {Finding("invented", "year", y, "critical") : y \in Years(rewrite) \ years},
        DirectionFindings(sources, rewrite),
        {Finding("missing", "name", i, "critical") : i \in lost},
        {Finding("invented", "name", i, "warning") :
            i \in {n \in DOMAIN mentions : ~Mentioned(mentions[n], sources, who)}},
        IF total >= CoverageMinAnchors /\ 200 * matched < 2 * CoverageFloorPct * total - total + 1
        THEN {Finding("missing", "coverage", 0, "critical")} ELSE {}},
     base |-> Len(req) + Len(Dates(corpus)) + Len(names)]
=============================================================================
