--------------------------- MODULE StreamPromise ---------------------------
(***************************************************************************)
(* What the feed stream promises (docs/feed.md, "snapshot-then-deltas"):   *)
(* a consumer's first frame is a snapshot, no older than the moment it was *)
(* attached; then comes every later event, once and in order, for as long  *)
(* as it is connected; no event comes before the snapshot.  Nothing is     *)
(* said about buffers, tokens or locks.                                    *)
(***************************************************************************)
EXTENDS Integers

CONSTANTS Conns, MaxEvents

VARIABLES
    written,  \* changes made to the feed
    sent,     \* changes announced, in order
    link,     \* per consumer: "off", "waiting" for its snapshot, "synced"
    pos,      \* per consumer, the last event accounted for
    view      \* per consumer, the change whose state it holds

pvars == <<written, sent, link, pos, view>>

Init ==
    /\ written = 0
    /\ sent = 0
    /\ link = [c \in Conns |-> "off"]
    /\ pos = [c \in Conns |-> 0]
    /\ view = [c \in Conns |-> 0]

Write ==
    /\ written < MaxEvents
    /\ written' = written + 1
    /\ UNCHANGED <<sent, link, pos, view>>

Announce ==
    /\ sent < written
    /\ sent' = sent + 1
    /\ UNCHANGED <<written, link, pos, view>>

Attach(c) ==
    /\ link[c] = "off"
    /\ link' = [link EXCEPT ![c] = "waiting"]
    /\ pos' = [pos EXCEPT ![c] = sent]
    /\ UNCHANGED <<written, sent, view>>

Snapshot(c) ==
    /\ link[c] = "waiting"
    /\ \E v \in pos[c]..written : view' = [view EXCEPT ![c] = v]
    /\ link' = [link EXCEPT ![c] = "synced"]
    /\ UNCHANGED <<written, sent, pos>>

\* The next event, and no other.
Deliver(c) ==
    /\ link[c] = "synced"
    /\ pos[c] < sent
    /\ pos' = [pos EXCEPT ![c] = @ + 1]
    /\ view' = [view EXCEPT ![c] = pos[c] + 1]
    /\ UNCHANGED <<written, sent, link>>

\* The consumer forgets nothing it holds; when it comes back it starts anew.
Detach(c) ==
    /\ link[c] # "off"
    /\ link' = [link EXCEPT ![c] = "off"]
    /\ pos' = [pos EXCEPT ![c] = 0]
    /\ view' = [view EXCEPT ![c] = 0]
    /\ UNCHANGED <<written, sent>>

Next ==
    \/ Write \/ Announce
    \/ \E c \in Conns : Attach(c) \/ Snapshot(c) \/ Deliver(c) \/ Detach(c)

Spec == Init /\ [][Next]_pvars
=============================================================================
