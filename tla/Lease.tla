------------------------------- MODULE Lease -------------------------------
(***************************************************************************)
(* What the editing lock of one draft promises (libs/db/models.py,         *)
(* DraftLock; services/api/app/websocket/lock_manager.py): one holder at a *)
(* time, never replaced by another while the lease lives, and a holder who *)
(* is away loses it in the end.                                            *)
(***************************************************************************)
CONSTANTS
    Users,
    Nobody

VARIABLES
    holder,   \* who may edit the draft
    away      \* users without a live tab on the draft

vars == <<holder, away>>

Init == holder = Nobody /\ away = Users

\* Users come and go at any time, also in the step that changes the holder.
ComeAndGo == away' \in SUBSET Users

Take(u) == holder = Nobody /\ holder' = u /\ ComeAndGo
Drop(u) == holder = u /\ holder' = Nobody /\ ComeAndGo
Idle    == holder' = holder /\ ComeAndGo

\* The lease of a holder who is away ends.
Lapse(u) == u \in away /\ Drop(u)

Next == Idle \/ \E u \in Users : Take(u) \/ Drop(u)

Spec == Init /\ [][Next]_vars /\ \A u \in Users : WF_vars(Lapse(u))
=============================================================================
