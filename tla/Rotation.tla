------------------------------ MODULE Rotation ------------------------------
(***************************************************************************)
(* The rewrite service: EnrichCluster and then RewriteCluster of the       *)
(* articles the worker sends, each RPC in a thread of its own, over the    *)
(* paid language-model slots (services/rewrite/app).                       *)
(*                                                                         *)
(* A call of call_with_rotation starts at one slot and walks every         *)
(* configured slot once until one answers.  The threads share three things *)
(* in the database, each read first and committed later: the round-robin   *)
(* cursor, the list of enabled slots, and the usage rows.                  *)
(*                                                                         *)
(* Abstracted: of a prompt only the pass it belongs to, of an answer only  *)
(* how it is judged, of a usage row only that it exists (its counters are  *)
(* read by nobody but the admin page).  The cursor is 0 when its row does  *)
(* not exist yet.                                                          *)
(***************************************************************************)
EXTENDS Naturals, FiniteSets

CONSTANTS
    Articles,     \* clusters being enriched and rewritten
    Slots,        \* PRIMARY_ALIASES
    Position,     \* Position[s]: the place of slot s in PRIMARY_ALIASES, from 0
    Keyed,        \* slots with an API key in the environment
    Editor,       \* the slot preferred for the length editor (anthropic)
    Excluded,     \* articles the worker drops after their enrichment
    Choices,      \* the sets of slots an administrator enables
    Recorded,     \* usage rows that exist from earlier calls
    MaxAttempts,  \* MAX_ATTEMPTS of the two RPCs
    Nothing       \* no slot

ASSUME RotationAssumption ==
    /\ IsFiniteSet(Slots)
    /\ Position \in [Slots -> 0..(Cardinality(Slots) - 1)]
    /\ \A s, t \in Slots : Position[s] = Position[t] => s = t
    /\ Keyed \subseteq Slots
    /\ Editor \in Slots
    /\ MaxAttempts \in Nat \ {0}
    /\ Nothing \notin Slots
    /\ Choices \subseteq (SUBSET Slots) \ {{}}
    /\ Recorded \subseteq Slots \X {"success", "error"}

VARIABLES
    cursor,    \* llm.round_robin_index
    enabled,   \* llm.enabled_providers
    usage,     \* the rows of llm_rotation_usage: <<slot, kind of reply>>
    pc,        \* pc[a]: what the thread of article a does next
    rpc,       \* rpc[a]: its RPC; history: the requests it paid for
    call,      \* call[a]: its call_with_rotation
    failed,    \* history: slots that failed in that call
    picks,     \* history: picks[s]: the times the cursor chose s, while calm
    calm       \* history: no pick overtook another, no slot was switched

vars == <<cursor, enabled, usage, pc, rpc, call, failed, picks, calm>>
shared == <<cursor, enabled, usage>>
load == <<picks, calm>>

-----------------------------------------------------------------------------
Replies == {"success", "error"}
Busy == {"call", "pick", "walk", "record", "judge"}
Results == {"drafted", "exhausted", "rejected", "lost"}
Rpc == [method: {"enrich", "rewrite"}, pass: {"main", "review", "translate"},
        attempt: 1..MaxAttempts, pin: Slots \cup {Nothing},
        editing: {"none", "draft", "active"}, keys: SUBSET Slots, paid: Nat]
Call == [keys: SUBSET Slots, left: SUBSET Slots, slot: Slots \cup {Nothing},
         reply: Replies, index: Nat, found: BOOLEAN]

TypeOK ==
    /\ cursor \in Nat
    /\ enabled \in Choices
    /\ usage \subseteq Slots \X Replies
    /\ pc \in [Articles -> {"idle", "enriched"} \cup Busy \cup Results]
    /\ rpc \in [Articles -> Rpc]
    /\ call \in [Articles -> Call]
    /\ failed \in [Articles -> SUBSET Slots]
    /\ picks \in [Slots -> Nat]
    /\ calm \in BOOLEAN
    /\ \A a \in Articles : pc[a] \in {"walk", "record", "judge"} =>
          call[a].slot \in call[a].left /\ call[a].left \subseteq call[a].keys

\* llm_provider_keys and configured_primaries.
Configured == enabled \cap Keyed

NoRpc == [method |-> "enrich", pass |-> "main", attempt |-> 1, pin |-> Nothing,
          editing |-> "none", keys |-> {}, paid |-> 0]
NoCall == [keys |-> {}, left |-> {}, slot |-> Nothing, reply |-> "error",
           index |-> 0, found |-> FALSE]
NoPicks == [s \in Slots |-> 0]

Init ==
    /\ cursor = 0 /\ usage = Recorded
    /\ enabled \in Choices
    /\ pc = [a \in Articles |-> "idle"]
    /\ rpc = [a \in Articles |-> NoRpc]
    /\ call = [a \in Articles |-> NoCall]
    /\ failed = [a \in Articles |-> {}]
    /\ picks = NoPicks /\ calm = TRUE

-----------------------------------------------------------------------------
\* primaries[index % len(primaries)]
Chosen(keys, index) ==
    CHOOSE s \in keys : Cardinality({t \in keys : Position[t] < Position[s]})
                            = index % Cardinality(keys)
First(keys) == Chosen(keys, 0)

\* _ordered_primaries_from: primaries[start:] + primaries[:start], of which
\* Nearest is the first that is left.
Distance(s, t) ==
    IF Position[s] <= Position[t] THEN Position[t] - Position[s]
    ELSE Position[t] + Cardinality(Slots) - Position[s]
Nearest(start, left) ==
    CHOOSE s \in left : \A t \in left : Distance(start, s) <= Distance(start, t)

\* The thread of a goes on to label, with its RPC now r and outside a call.
Leave(a, label, r) ==
    /\ pc' = [pc EXCEPT ![a] = label]
    /\ rpc' = [rpc EXCEPT ![a] = r]
    /\ call' = [call EXCEPT ![a] = NoCall]
    /\ failed' = [failed EXCEPT ![a] = {}]

End(a, result) == Leave(a, result, NoRpc)

\* The thread of a goes on to label, in the call c.
Proceed(a, label, c) ==
    /\ pc' = [pc EXCEPT ![a] = label]
    /\ call' = [call EXCEPT ![a] = c]
    /\ UNCHANGED rpc

\* The slots of keys are walked from start on.
Walk(a, keys, start) ==
    Proceed(a, "walk", [NoCall EXCEPT !.keys = keys, !.left = keys,
                                      !.slot = Nearest(start, keys)])

\* AllKeysExhaustedError ends the RPC with UNAVAILABLE; the translation of the
\* sources swallows it.
Exhausted(a) == End(a, IF rpc[a].pass = "translate" THEN "drafted" ELSE "exhausted")

\* A slip: MAX_ATTEMPTS are the retries.
OneMoreAttempt(a, editing) ==
    IF rpc[a].attempt > MaxAttempts THEN End(a, "rejected")
    ELSE Leave(a, "call", [rpc[a] EXCEPT !.attempt = @ + 1, !.pass = "main",
                                         !.editing = editing])

\* The attempt was for nothing: RuntimeError once there were MAX_ATTEMPTS.
NextAttempt(a, editing) ==
    IF rpc[a].attempt = MaxAttempts THEN End(a, "rejected")
    ELSE Leave(a, "call", [rpc[a] EXCEPT !.attempt = @ + 1, !.pass = "main",
                                         !.editing = editing])

-----------------------------------------------------------------------------
\* The worker calls EnrichCluster, and RewriteCluster with the context it got
\* back, llm_key_alias included.  The keys of a rewrite are read here, once.
StartEnrich(a) ==
    /\ pc[a] = "idle"
    /\ Leave(a, "call", NoRpc)
    /\ UNCHANGED <<shared, load>>

StartRewrite(a) ==
    /\ pc[a] = "enriched" /\ a \notin Excluded
    /\ Leave(a, "call", [NoRpc EXCEPT !.method = "rewrite", !.pin = rpc[a].pin,
                                      !.keys = Configured])
    /\ UNCHANGED <<shared, load>>

\* The rewrite itself is the only pass that does not advance the cursor.
Pinned(a) == rpc[a].method = "rewrite" /\ rpc[a].pass = "main"

\* editor_preferred_alias
Prefer(a, keys) ==
    IF rpc[a].editing = "active" /\ Editor \in keys THEN Editor ELSE rpc[a].pin

\* A slip: the keys are those of now.
KeysNow(a) == Configured

\* All attempts of a rewrite use the keys it started with.
KeysFor(a) == IF Pinned(a) THEN rpc[a].keys ELSE Configured

\* call_with_rotation: the preferred slot, the slot under the cursor, or the
\* first one.  Without a slot the call fails at once.
BeginCall(a) ==
    LET keys == KeysFor(a)
        prefer == Prefer(a, keys)
    IN
    /\ pc[a] = "call"
    /\ \/ keys = {} /\ Exhausted(a)
       \/ /\ keys # {} /\ Pinned(a)
          /\ Walk(a, keys, IF prefer \in keys THEN prefer ELSE First(keys))
          /\ UNCHANGED failed
       \/ /\ keys # {} /\ ~Pinned(a)
          /\ Proceed(a, "pick", [NoCall EXCEPT !.keys = keys, !.index = cursor])
          /\ UNCHANGED failed
    /\ UNCHANGED <<shared, load>>

\* A slip: the cursor stays on the slot.
StayOn(index) == IF index = 0 THEN 1 ELSE index

Advance(index) == index + 1

\* A row the session found missing was inserted by another one meanwhile.
CursorCollides(c) == c.index = 0 /\ cursor # 0

\* pick_next_primary writes what it read plus one, over any other pick; also
\* over a first one, if set_setting, which looks for the row again, finds it.
PickCommits(a) ==
    LET c == call[a]
        slot == Chosen(c.keys, c.index)
    IN
    /\ pc[a] = "pick"
    /\ cursor' = Advance(c.index)
    /\ calm' = (calm /\ cursor = c.index)
    /\ picks' = IF calm' THEN [picks EXCEPT ![slot] = @ + 1] ELSE NoPicks
    /\ Walk(a, c.keys, slot)
    /\ UNCHANGED <<enabled, usage, failed>>

\* If it does not, the commit raises IntegrityError, which no handler of the
\* RPC catches.
PickCollides(a) ==
    /\ pc[a] = "pick" /\ CursorCollides(call[a])
    /\ End(a, "lost")
    /\ UNCHANGED <<shared, load>>

\* The provider answers, or fails (its own time limit included); then
\* _record_usage looks for the row.
SlotReplies(a, reply) ==
    LET slot == call[a].slot IN
    /\ pc[a] = "walk"
    /\ pc' = [pc EXCEPT ![a] = "record"]
    /\ call' = [call EXCEPT ![a].reply = reply,
                            ![a].found = <<slot, reply>> \in usage]
    /\ rpc' = [rpc EXCEPT ![a].paid = @ + 1]
    /\ failed' = [failed EXCEPT ![a] = IF reply = "error" THEN @ \cup {slot} ELSE @]
    /\ UNCHANGED <<shared, load>>

RecordCollides(c) == ~c.found /\ <<c.slot, c.reply>> \in usage

\* A slip: the walk ends at the last slot of the list.
LeftToTheEnd(c) == {s \in c.left \ {c.slot} : Position[s] > Position[c.slot]}

LeftAfter(c) == c.left \ {c.slot}

\* The commit of _record_usage; after an error the walk goes on.
RecordCommits(a) ==
    LET c == call[a]
        left == LeftAfter(c)
    IN
    /\ pc[a] = "record" /\ ~RecordCollides(c)
    /\ usage' = usage \cup {<<c.slot, c.reply>>}
    /\ \/ /\ c.reply = "success"
          /\ Proceed(a, "judge", c)
          /\ UNCHANGED failed
       \/ c.reply = "error" /\ left = {} /\ Exhausted(a)
       \/ /\ c.reply = "error" /\ left # {}
          /\ Proceed(a, "walk", [c EXCEPT !.left = left,
                                          !.slot = Nearest(c.slot, left)])
          /\ UNCHANGED failed
    /\ UNCHANGED <<cursor, enabled, load>>

RecordFails(a) ==
    /\ pc[a] = "record" /\ RecordCollides(call[a])
    /\ End(a, "lost")
    /\ UNCHANGED <<shared, load>>

-----------------------------------------------------------------------------
\* enrich_cluster: the answer is a valid EnrichResultSchema, or not.
JudgeEnrichment(a) ==
    /\ pc[a] = "judge" /\ rpc[a].method = "enrich"
    /\ \/ Leave(a, "enriched", [NoRpc EXCEPT !.pin = call[a].slot])
       \/ NextAttempt(a, "none")
    /\ UNCHANGED <<shared, load>>

\* rewrite_cluster.  An answer that is no JSON; a JSON text that is invalid, or
\* too short, or rejected by the filters of the strict gate; a text that goes
\* to the semantic review of the strict gate, or is done.
JudgeRewrite(a) ==
    /\ pc[a] = "judge" /\ Pinned(a)
    /\ \/ NextAttempt(a, IF rpc[a].editing = "none" THEN "none" ELSE "active")
       \/ NextAttempt(a, "draft")
       \/ NextAttempt(a, "active")
       \/ Leave(a, "call", [rpc[a] EXCEPT !.pass = "review"])
       \/ End(a, "drafted")
    /\ UNCHANGED <<shared, load>>

\* review_rewrite: the text is rejected; or accepted, and the sources are
\* translated or not.
JudgeReview(a) ==
    /\ pc[a] = "judge" /\ rpc[a].pass = "review"
    /\ \/ NextAttempt(a, "active")
       \/ Leave(a, "call", [rpc[a] EXCEPT !.pass = "translate"])
       \/ End(a, "drafted")
    /\ UNCHANGED <<shared, load>>

\* _translate_sources_best_effort: whatever the answer is worth.
JudgeTranslation(a) ==
    /\ pc[a] = "judge" /\ rpc[a].pass = "translate"
    /\ End(a, "drafted")
    /\ UNCHANGED <<shared, load>>

-----------------------------------------------------------------------------
\* set_enabled_providers: an administrator switches slots; an empty choice is
\* replaced by the default.
SwitchSlots(S) ==
    /\ S # enabled
    /\ enabled' = S
    /\ calm' = FALSE /\ picks' = NoPicks
    /\ UNCHANGED <<cursor, usage, pc, rpc, call, failed>>

\* The rewrite service restarts: the RPC of a is lost.
Restart(a) ==
    /\ pc[a] \in Busy
    /\ End(a, "lost")
    /\ UNCHANGED <<shared, load>>

-----------------------------------------------------------------------------
RpcStep(a) ==
    \/ BeginCall(a) \/ PickCommits(a) \/ PickCollides(a)
    \/ \E reply \in Replies : SlotReplies(a, reply)
    \/ RecordCommits(a) \/ RecordFails(a)
    \/ JudgeEnrichment(a) \/ JudgeRewrite(a) \/ JudgeReview(a) \/ JudgeTranslation(a)

Next ==
    \/ \E a \in Articles : StartEnrich(a) \/ StartRewrite(a) \/ RpcStep(a) \/ Restart(a)
    \/ \E S \in Choices : SwitchSlots(S)

Spec == Init /\ [][Next]_vars

-----------------------------------------------------------------------------
\* "Round-robin cursor over configured paid LLM slots": while picks do not
\* overlap and the slots are not switched, the load of the slots is even.
EvenLoad ==
    calm => \A s, t \in Configured : picks[s] <= picks[t] + 1

\* "RewriteCluster reuses ClusterContext.llm_key_alias", "fallback only when
\* the assigned slot fails for this call": a text is by the slot that did the
\* enrichment, unless that slot failed, lost its key, or the text is the length
\* editor's.
SameAuthor ==
    \A a \in Articles :
        pc[a] = "judge" /\ Pinned(a) =>
            \/ call[a].slot = rpc[a].pin
            \/ rpc[a].pin \in failed[a] \/ rpc[a].pin \notin rpc[a].keys
            \/ rpc[a].editing = "active"

\* "All primary provider slots failed for this call": a call that gives up has
\* called every slot that it had a key for.
ExhaustedAfterAll ==
    [][\A a \in Articles :
         pc[a] = "record" /\ pc'[a] \in {"exhausted", "drafted"}
            => failed[a] = call[a].keys]_vars

\* "After this many failed attempts the caller dead-letters instead of retrying
\* forever": the requests one RPC pays for are bounded, those of the review and
\* of the translation included.
SpendBounded ==
    LET n == Cardinality(Slots)
    IN \A a \in Articles :
         rpc[a].paid <= IF rpc[a].method = "enrich" THEN MaxAttempts * n
                                                    ELSE MaxAttempts * 2 * n + n
=============================================================================
