------------------------------ MODULE EditLock ------------------------------
(***************************************************************************)
(* The editing lock and the presence line of one draft page                *)
(* (services/api/app/websocket/lock_manager.py, presence.py, router.py,    *)
(* with the page's script).                                                *)
(*                                                                         *)
(* A page opens a socket, claims the lock, beats every minute and lets go  *)
(* when it is left.  The lock is a DraftLock row per user; a partial       *)
(* unique index admits one such row per draft.  After every message the    *)
(* coroutine of the socket reads the editor and tells the tabs of the room *)
(* one by one, so reports of different coroutines may overtake each other. *)
(* The handlers themselves run on one event loop without an await: each is *)
(* one step.                                                               *)
(***************************************************************************)
EXTENDS Naturals

CONSTANTS
    Users,
    Tabs,
    Owner,          \* Owner[t]: the user whose browser tab t is
    Sleepy,         \* tabs whose computer may sleep or crash
    Restarts,       \* whether the api process may restart
    Nobody,
    Unknown         \* nothing was reported to the tab yet

ASSUME LockAssumption ==
    /\ Owner \in [Tabs -> Users] /\ Sleepy \subseteq Tabs
    /\ Restarts \in BOOLEAN
    /\ Nobody \notin Users /\ Unknown \notin Users \cup {Nobody}

VARIABLES
    lock,        \* lock[u]: the editing row of user u
    client,      \* client[t]: the browser's end of the socket of tab t
    joined,      \* hub.rooms: the tabs the server knows
    mail,        \* mail[t]: the report the coroutine of tab t is sending
    view         \* view[t]: the editor that tab t shows

lockVars == <<lock, client, joined, mail, view>>
tabs == <<client, joined, mail, view>>

-----------------------------------------------------------------------------
Report == [editor: Users \cup {Nobody}, left: SUBSET Tabs]
Quiet == [editor |-> Nobody, left |-> {}]
OpenSockets == {"opening", "awake", "asleep"}

LockTypeOK ==
    /\ lock \in [Users -> {"none", "live", "expired"}]
    /\ client \in [Tabs -> OpenSockets \cup {"leaving", "closed"}]
    /\ joined \subseteq Tabs
    /\ mail \in [Tabs -> Report]
    /\ view \in [Tabs -> Users \cup {Nobody, Unknown}]

LockInit ==
    /\ lock = [u \in Users |-> "none"]
    /\ client = [t \in Tabs |-> "closed"]
    /\ joined = {}
    /\ mail = [t \in Tabs |-> Quiet]
    /\ view = [t \in Tabs |-> Unknown]

-----------------------------------------------------------------------------
\* _purge_expired
Purged(rows) == [u \in Users |-> IF rows[u] = "expired" THEN "none" ELSE rows[u]]

Holding(rows) == {u \in Users : rows[u] # "none"}

\* A slip: a room without editor is reported as never reported.
EditorUnknown(rows) == IF Holding(rows) = {} THEN Unknown
                       ELSE CHOOSE u \in Holding(rows) : TRUE
EditorOf(rows) == IF Holding(rows) = {} THEN Nobody
                  ELSE CHOOSE u \in Holding(rows) : TRUE

\* A slip: the tab that caused the report is left out.
ReportToOthers(t, rows, room) ==
    /\ lock' = Purged(rows)
    /\ mail' = [mail EXCEPT ![t] = [editor |-> EditorOf(Purged(rows)),
                                    left   |-> room \ {t}]]

\* _broadcast_room_state: current_editor purges and reads; the payload goes to
\* the tabs that are in the room now.
StartReport(t, rows, room) ==
    /\ lock' = Purged(rows)
    /\ mail' = [mail EXCEPT ![t] = [editor |-> EditorOf(Purged(rows)),
                                    left   |-> room]]

Free(t) == mail[t].left = {}   \* its coroutine waits for a message

\* The page opens its socket.
Connect(t) ==
    /\ client[t] = "closed" /\ t \notin joined /\ Free(t)
    /\ client' = [client EXCEPT ![t] = "opening"]
    /\ joined' = joined \cup {t}
    /\ view' = [view EXCEPT ![t] = Unknown]
    /\ StartReport(t, lock, joined')

\* A slip: there is no unique index.
NeverRefused(rows, u) == FALSE

Refused(rows, u) == Holding(rows) \ {u} # {}

\* claim_editing: purge, then take or renew the own row; the index refuses the
\* row while another user has one (claim_denied).
Claim(t) ==
    LET u    == Owner[t]
        rows == Purged(lock)
    IN /\ client[t] = "opening" /\ Free(t)
       /\ client' = [client EXCEPT ![t] = "awake"]
       /\ StartReport(t, IF Refused(rows, u) THEN rows ELSE [rows EXCEPT ![u] = "live"],
                      joined)
       /\ UNCHANGED <<joined, view>>

\* heartbeat: an own row is live again, even one that had expired.
Heartbeat(t) ==
    /\ client[t] = "awake" /\ Free(t)
    /\ StartReport(t, [lock EXCEPT ![Owner[t]] = IF @ = "none" THEN @ ELSE "live"],
                   joined)
    /\ UNCHANGED <<client, joined, view>>

\* release_editing, which the page sends when it is left: the row of the user
\* goes, whichever tab claimed it.
ReleaseEditing(t) ==
    /\ client[t] = "leaving" /\ Free(t)
    /\ client' = [client EXCEPT ![t] = "closed"]
    /\ StartReport(t, [lock EXCEPT ![Owner[t]] = "none"], joined)
    /\ UNCHANGED <<joined, view>>

\* WebSocketDisconnect: leave the room, release again, tell the others.
Disconnect(t) ==
    /\ client[t] = "closed" /\ t \in joined /\ Free(t)
    /\ joined' = joined \ {t}
    /\ StartReport(t, [lock EXCEPT ![Owner[t]] = "none"], joined')
    /\ UNCHANGED <<client, view>>

\* One send of a report; a dead socket is skipped.
Deliver(t, to) ==
    /\ to \in mail[t].left
    /\ mail' = [mail EXCEPT ![t].left = @ \ {to}]
    /\ view' = IF client[to] \in OpenSockets
               THEN [view EXCEPT ![to] = mail[t].editor] ELSE view
    /\ UNCHANGED <<lock, client, joined>>

-----------------------------------------------------------------------------
\* The editor leaves the page.
Leave(t) ==
    /\ client[t] = "awake"
    /\ client' = [client EXCEPT ![t] = "leaving"]
    /\ UNCHANGED <<lock, joined, mail, view>>

\* The computer sleeps (no heartbeats) and wakes, or dies.
Sleep(t) ==
    /\ t \in Sleepy /\ client[t] = "awake"
    /\ client' = [client EXCEPT ![t] = "asleep"]
    /\ UNCHANGED <<lock, joined, mail, view>>

Wake(t) ==
    /\ client[t] = "asleep"
    /\ client' = [client EXCEPT ![t] = "awake"]
    /\ UNCHANGED <<lock, joined, mail, view>>

Die(t) ==
    /\ t \in Sleepy /\ client[t] \in OpenSockets
    /\ client' = [client EXCEPT ![t] = "closed"]
    /\ UNCHANGED <<lock, joined, mail, view>>

\* Five minutes without a heartbeat: no tab of u sends any.
Expire(u) ==
    /\ lock[u] = "live"
    /\ \A t \in Tabs : Owner[t] = u => client[t] \notin {"opening", "awake"}
    /\ lock' = [lock EXCEPT ![u] = "expired"]
    /\ UNCHANGED tabs

\* The api restarts: the connections are gone, the rows stay.
Restart ==
    /\ Restarts /\ joined # {}
    /\ joined' = {}
    /\ mail' = [t \in Tabs |-> Quiet]
    /\ client' = [t \in Tabs |-> "closed"]
    /\ UNCHANGED <<lock, view>>

-----------------------------------------------------------------------------
Handle(t) ==
    \/ Connect(t) \/ Claim(t) \/ Heartbeat(t) \/ ReleaseEditing(t)
    \/ Disconnect(t)

Browser(t) == Leave(t) \/ Sleep(t) \/ Wake(t) \/ Die(t)

LockNext ==
    \/ \E t \in Tabs : Handle(t) \/ Browser(t) \/ \E to \in Tabs : Deliver(t, to)
    \/ \E u \in Users : Expire(u)
    \/ Restart

LockSpec == LockInit /\ [][LockNext]_lockVars

\* The event loop serves every coroutine; an awake tab beats every minute; the
\* clock runs.  Nobody has to open, leave or wake.
LockFairness ==
    /\ \A t \in Tabs : /\ SF_lockVars(Heartbeat(t))
                       /\ SF_lockVars(ReleaseEditing(t)) /\ SF_lockVars(Disconnect(t))
                       /\ \A to \in Tabs : WF_lockVars(Deliver(t, to))
    /\ \A u \in Users : WF_lockVars(Expire(u))

LockFairSpec == LockSpec /\ LockFairness

-----------------------------------------------------------------------------
\* "A lock past expiry is treated as released": the holder of the lease.
Editor == IF {u \in Users : lock[u] = "live"} = {} THEN Nobody
          ELSE CHOOSE u \in Users : lock[u] = "live"
Away == {u \in Users : \A t \in Tabs :
            Owner[t] = u => client[t] \notin {"opening", "awake"}}

\* The lock is a lease: see module Lease.
Promise == INSTANCE Lease WITH holder <- Editor, away <- Away
LockIsALease == Promise!Spec

\* One editing row per draft, expired ones included: what the unique index
\* demands, the handlers keep without ever meeting an error they do not catch.
OneEditingRow == \A u, v \in Holding(lock) : u = v

\* However the reports of the coroutines overtake each other, once the editor
\* stays the same every tab that stays awake comes to show it.
PresenceConverges ==
    \A x \in Users \cup {Nobody} : \A t \in Tabs :
        <>[](Editor = x /\ client[t] = "awake" /\ t \in joined)
            => <>[](view[t] = x)
=============================================================================
