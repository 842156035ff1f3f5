------------------------------ MODULE MCReview ------------------------------
(* Review over stories of seven kinds, each with the texts that matter to it *)
EXTENDS Review

Headline == Word("headline")
(* Sums of which two are a power of ten apart, one shortened, a plain count *)
Sums == {Figure(5000, 0, TRUE, "million"), Figure(5000, 1, TRUE, "million"),
         Figure(5000, 0, TRUE, "none"), Figure(5000, 0, FALSE, "none")}
(* Two days of a month, and the month alone with its year *)
Days == {Date(6, 5, 0, FALSE), Date(5, 5, 0, FALSE), Date(0, 5, 2026, FALSE)}
People == {Name(<<"Ann", "Lee">>), Name(<<"Bob">>), Name(<<"Anna", "Li">>), Word("rose"), Word("fell")}
Said == {Quote(<<"we", "grow">>, TRUE, "founder"), Quote(<<"we", "grew">>, FALSE, ""),
         Quote(<<"my", "rastem">>, TRUE, ""), Word("we"), Word("grow")}
Advice == {Word("buy now"), Word("big step"), Quote(<<"buy now">>, TRUE, ""), Word("zhong")}

UpTo(S, n) == UNION {[1..k -> S] : k \in 0..n}
Texts == [figures |-> UpTo(Sums, 2), dates |-> UpTo(Days, 3), people |-> UpTo(People, 2),
          quotes |-> UpTo(Said, 2), advice |-> UpTo(Advice, 2)]
Sums2 == {Figure(5000, 0, TRUE, "none"), Figure(7000, 0, TRUE, "none")}
Counts == UpTo(Sums2 \cup {Figure(3000, 0, FALSE, "percent")}, 3)

MCTopics == {"figures", "dates", "people", "quotes", "advice", "register", "layout"}
MCSources(t) ==
    CASE t \in DOMAIN Texts -> {<<Headline>> \o s : s \in Texts[t]}
      [] OTHER -> {<<Headline, Figure(5000, 0, TRUE, "none"), Figure(7000, 0, TRUE, "none")>>}
FactsOf(kind, s) == IF s = <<>> THEN <<>> ELSE <<<<kind, s>>>>
MCRegisters(t) ==
    CASE t = "figures" -> {FactsOf("what", s) : s \in Texts[t]}
      [] t = "dates" -> {FactsOf("when", s) : s \in Texts[t]}
      [] t = "people" -> {FactsOf(k, s) : k \in {"who", "what"}, s \in UpTo(People, 1)}
      [] t = "register" ->
           UpTo({<<"number", <<f>>>> : f \in Sums2}
                    \cup {<<"what", <<Figure(3000, 0, FALSE, "percent")>>>>, <<"essence", <<Headline>>>>}, 3)
      [] OTHER -> {<<>>}

(* Layouts: words of one to six letters in paragraphs and sentences *)
Alphabet == <<Word("a"), Word("bb"), Word("ccc"), Word("dddd"), Word("eeeee"), Word("ffffff")>>
Laid(words, breaks) ==    \* before each word: nothing, a sentence's or a paragraph's end
    LET Put(body, i) ==
            LET p == Len(body) n == Len(body[p]) IN
            CASE breaks[i] = 0 -> [body EXCEPT ![p][n] = Append(@, words[i])]
              [] breaks[i] = 1 -> [body EXCEPT ![p] = Append(@, <<words[i]>>)]
              [] OTHER -> Append(body, <<<<words[i]>>>>) IN
    FoldLeft(Put, <<<<<<words[1]>>>>>>, [i \in 1..(Len(words) - 1) |-> i + 1])
Layouts == UNION {{Laid(SubSeq(Alphabet, 1, n), b) : b \in [2..n -> 0..2]} : n \in 3..6}

(* Texts of one sentence: short ones on the topic, and the source repeated *)
OneSentence(body) == [title |-> <<Headline>>, body |-> <<<<body>>>>, written |-> {"ru", "en"}]
MCReplies(t, s) ==
    CASE t = "layout" ->
           {[title |-> <<Headline>>, body |-> b, written |-> w] : b \in Layouts, w \in SUBSET {"ru", "en"}}
      [] OTHER ->
           LET short == CASE t = "register" -> Counts [] t = "dates" -> UpTo(Days, 1)
                          [] t = "people" -> UpTo(People, 1) [] OTHER -> Texts[t] IN
           {OneSentence(b) : b \in (short \cup {SubSeq(s, 2, Len(s))}) \ {<<>>}}
               \cup {[title |-> <<>>, body |-> <<>>, written |-> {"ru"}]}
MCBannedLists(t) ==
    IF t = "advice" THEN {<<>>, [p \in {"big step", "buy now"} |-> IF p = "buy now" THEN "" ELSE "investment"]}
    ELSE {}
MCLocaleChoices(t) == IF t = "layout" THEN {{"en"}, {"ru", "en"}, {}} ELSE {}

MCWords == {Headline} \cup Sums \cup Days \cup People \cup Said \cup Advice \cup ToSet(Alphabet) \cup Sums2
    \cup {Figure(3000, 0, FALSE, "percent")}
MCLetters == [w \in MCWords |->
    IF w \in ToSet(Alphabet) THEN CHOOSE n \in 1..6 : Alphabet[n] = w ELSE 8]
MCAlike == {<<"Ann", "Anna">>, <<"Lee", "Li">>}
MCOpposite == <<<<"rose", "fell">>>>
MCReworded == {<<<<"we", "grew">>, <<"we", "grow">>>>}
MCDefaultPhrases == [p \in {"buy now", "big step"} |-> IF p = "buy now" THEN "investment" ELSE "evaluation"]
MCCyrillic == {"my", "rastem", "Anna", "Li"}
MCLatin == {"we", "grow", "grew", "headline", "Ann", "Lee", "Bob"}
=============================================================================
