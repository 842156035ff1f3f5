---------------------------- MODULE MCExportFeed ----------------------------
(* Three drafts, of which one is published, regenerated and marked           *)
(* meanwhile, with and without a reference and twice in one batch; walks     *)
(* over what is not consumed, by the defaults, and over what changed since   *)
(* the first day.                                                            *)
EXTENDS ExportFeed, TLC

CONSTANTS r, s, ref, other

Plain == [consumed |-> None, statuses |-> {"queue"}, since |-> None,
          generated_since |-> None, freshness |-> None, max_age |-> None, limit |-> 1]
MCQueries == {[Plain EXCEPT !.consumed = FALSE, !.limit = None], [Plain EXCEPT !.since = 1]}

Unset == [freshness |-> None, max_age |-> None, limit |-> None]
MCDefaults == {Unset, [freshness |-> "today", max_age |-> 1, limit |-> 2]}

MCBatches == {<<<<2, None>>>>, <<<<2, ref>>, <<2, other>>>>}

Symmetry == Permutations(Requests)
=============================================================================
