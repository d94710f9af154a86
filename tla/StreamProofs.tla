---------------------------- MODULE StreamProofs ----------------------------
(***************************************************************************)
(* The stream hub keeps its promise, for any number of connections, tokens *)
(* and events and any buffer.                                              *)
(*                                                                         *)
(* A subscriber's buffer holds exactly the events after the last one it    *)
(* was given, up to the last one broadcast (Live); one whose buffer was    *)
(* full has lost an event, and is in Broadcast's list or cancelled.        *)
(* A handler that runs on outside the map is cancelled.  A snapshot is     *)
(* rendered after the subscription, so it is no older than the buffer.     *)
(* For a revoked token, CloseToken has a stream in its list until it has   *)
(* cancelled it (Revoking).                                                *)
(***************************************************************************)
EXTENDS StreamHub, FiniteSetTheorems, TLAPS

Outside == {"idle", "subscribe"}
Waiting == {"recheck", "accept", "render", "send"}

\* Connection c in state s, when S is the map, O Broadcast's list, n events
\* have been broadcast and w changes written.
LiveAt(c, s, S, O, n, w) ==
    /\ s.pc \in Outside => /\ c \notin S /\ s.cause = "none" /\ s.ch = <<>>
                           /\ s.got = 0 /\ s.view = 0 /\ s.begun = FALSE
    /\ s.pc \notin Outside => c \in S \/ s.cause # "none"
    /\ \A k \in 1..Len(s.ch) : s.ch[k] = s.got + k
    /\ s.got + Len(s.ch) <= n
    /\ c \in S \ O => s.got + Len(s.ch) = n
    /\ Len(s.ch) <= Buffer
    /\ s.pc \in Waiting => s.view = 0 /\ s.begun = FALSE
    /\ s.pc = "send" => s.got <= s.snap /\ s.snap <= w
    /\ s.pc = "pump" => s.begun = TRUE \/ s.cause # "none"
    /\ s.pc = "pump" /\ s.begun = TRUE => s.got <= s.view /\ s.view <= w

Live == \A c \in Conns : LiveAt(c, conn[c], subs, over, sent, written)

Base ==
    /\ written \in 0..MaxEvents /\ sent \in 0..written
    /\ tokens \in [Tokens -> {"unborn", "live", "gone"}]
    /\ revoke \in [Tokens -> {"none", "match", "cancel", "done"}]
    /\ matched \in [Tokens -> SUBSET Conns]
    /\ hub \in {"up", "draining", "down"}
    /\ conn \in [Conns -> Connection]
    /\ faults \in 0..MaxFaults

\* The map, the wait group and Broadcast's list.
Counted ==
    /\ subs \subseteq Conns /\ over \subseteq subs /\ IsFiniteSet(subs)
    /\ Cardinality(subs) <= MaxStreams /\ wg = Cardinality(subs)

Revoking ==
    /\ \A t \in Tokens : revoke[t] # "none" => tokens[t] = "gone"
    /\ \A c \in Conns : conn[c].pc \in Streaming /\ conn[c].cause = "none" =>
          /\ revoke[conn[c].tok] # "done"
          /\ revoke[conn[c].tok] = "cancel" => c \in matched[conn[c].tok]
    /\ \A t \in Tokens : \A c \in matched[t] : conn[c].pc \notin Outside

StreamInv == Base /\ Counted /\ Live /\ Revoking

-----------------------------------------------------------------------------
LEMMA ClosedType == Closed \in Connection
<1>1. (CHOOSE t \in Tokens : TRUE) \in Tokens
  BY StreamAssumption
<1>2. <<>> \in Seq(1..MaxEvents) /\ 0 \in 0..MaxEvents
  BY StreamAssumption
<1> QED BY <1>1, <1>2 DEF Closed, Connection, Phases, Causes

\* Taking an event off a buffer.
LEMMA PopType ==
    ASSUME NEW S, NEW q \in Seq(S), q # <<>>
    PROVE  /\ Head(q) \in S /\ Head(q) = q[1] /\ Tail(q) \in Seq(S)
           /\ Len(q) \in Nat /\ Len(q) >= 1 /\ Len(Tail(q)) = Len(q) - 1
           /\ \A k \in 1..Len(Tail(q)) : Tail(q)[k] = q[k + 1]
<1>1. Len(q) \in Nat /\ Len(q) >= 1
  OBVIOUS
<1>2. Head(q) \in S /\ Head(q) = q[1]
  BY <1>1
<1>3. Tail(q) \in Seq(S) /\ Len(Tail(q)) = Len(q) - 1
  BY <1>1
<1>4. \A k \in 1..Len(Tail(q)) : Tail(q)[k] = q[k + 1]
  BY <1>1
<1> QED BY <1>1, <1>2, <1>3, <1>4

\* A buffer that holds consecutive events does so after the handler took one ...
LEMMA PopRun ==
    ASSUME NEW S, NEW q \in Seq(S), q # <<>>, NEW g \in Nat, \A k \in 1..Len(q) : q[k] = g + k
    PROVE  /\ Head(q) = g + 1 /\ Len(Tail(q)) \in Nat /\ Len(Tail(q)) <= Len(q)
           /\ Head(q) + Len(Tail(q)) = g + Len(q)
           /\ \A k \in 1..Len(Tail(q)) : Tail(q)[k] = Head(q) + k
<1>1. Len(q) \in Nat /\ Len(q) >= 1
  OBVIOUS
<1>2. Head(q) = g + 1
  <2>1. Head(q) = q[1]
    BY <1>1
  <2>2. q[1] = g + 1
    BY <1>1
  <2> QED BY <2>1, <2>2
<1>3. Len(Tail(q)) = Len(q) - 1
  BY <1>1
<1>4. ASSUME NEW k \in 1..Len(Tail(q)) PROVE Tail(q)[k] = Head(q) + k
  <2>1. Tail(q)[k] = q[k + 1]
    BY <1>1
  <2>2. k + 1 \in 1..Len(q)
    BY <1>1, <1>3
  <2>3. q[k + 1] = g + (k + 1)
    BY <2>2
  <2> QED BY <2>1, <2>3, <1>2, <1>3, <1>1
<1>5. Len(Tail(q)) \in Nat /\ Len(Tail(q)) <= Len(q)
  BY <1>1, <1>3
<1>6. Head(q) + Len(Tail(q)) = g + Len(q)
  BY <1>1, <1>2, <1>3
<1> QED BY <1>2, <1>4, <1>5, <1>6

\* ... and after Broadcast added the next one.
LEMMA PushRun ==
    ASSUME NEW S, NEW q \in Seq(S), NEW g \in Nat, NEW e \in S, e = g + Len(q) + 1,
           \A k \in 1..Len(q) : q[k] = g + k
    PROVE  /\ Len(Append(q, e)) = Len(q) + 1
           /\ \A k \in 1..Len(Append(q, e)) : Append(q, e)[k] = g + k
<1>1. Len(q) \in Nat
  OBVIOUS
<1>2. Len(Append(q, e)) = Len(q) + 1
  BY <1>1
<1>3. ASSUME NEW k \in 1..Len(Append(q, e)) PROVE Append(q, e)[k] = g + k
  <2>1. CASE k = Len(q) + 1
    <3>1. Append(q, e)[k] = e
      BY <2>1, <1>1
    <3> QED BY <3>1, <2>1, <1>1
  <2>2. CASE k \in 1..Len(q)
    <3>1. Append(q, e)[k] = q[k]
      BY <2>2, <1>1
    <3> QED BY <3>1, <2>2
  <2> QED BY <2>1, <2>2, <1>1, <1>2
<1> QED BY <1>2, <1>3

LEMMA CancelledKeeps ==
    ASSUME NEW s \in Connection, NEW k \in Causes, k # "none"
    PROVE  LET r == Cancelled(s, k)
           IN  /\ r \in Connection /\ r.cause # "none"
               /\ r.pc = s.pc /\ r.tok = s.tok /\ r.ch = s.ch /\ r.got = s.got
               /\ r.snap = s.snap /\ r.view = s.view /\ r.begun = s.begun
BY DEF Cancelled, Connection

LEMMA GoesType ==
    ASSUME faults \in 0..MaxFaults, NEW ok \in BOOLEAN, Goes(ok)
    PROVE  faults' \in 0..MaxFaults
BY StreamAssumption DEF Goes

\* Hub.unsubscribe keeps the count, whoever calls it and however often.
LEMMA ReleaseCounts ==
    ASSUME Counted, NEW c \in Conns, Release(c), over' = over \ {c}
    PROVE  Counted'
<1>1. CASE c \in subs
  <2>1. IsFiniteSet(subs') /\ Cardinality(subs') = Cardinality(subs) - 1
    BY <1>1, FS_RemoveElement DEF Counted, Release
  <2>2. Cardinality(subs) \in Nat
    BY FS_CardinalityType DEF Counted
  <2> QED BY <1>1, <2>1, <2>2, StreamAssumption DEF Counted, Release
<1>2. CASE c \notin subs
  BY <1>2 DEF Counted, Release
<1> QED BY <1>1, <1>2

-----------------------------------------------------------------------------
(* Base *)

\* Steps of the hub, of tokens and of a single connection keep the types.
LEMMA BaseStep == StreamInv /\ [Next]_vars => Base'
<1> SUFFICES ASSUME StreamInv, [Next]_vars PROVE Base'
  OBVIOUS
<1> USE StreamAssumption
<1>t. /\ written \in 0..MaxEvents /\ sent \in 0..written /\ MaxEvents \in Nat
      /\ conn \in [Conns -> Connection] /\ matched \in [Tokens -> SUBSET Conns] /\ Base
      /\ sent \in 0..MaxEvents
  BY DEF StreamInv, Base
<1>s. ASSUME NEW c \in Conns, NEW s \in Connection, conn' = [conn EXCEPT ![c] = s]
      PROVE  conn' \in [Conns -> Connection]
  BY <1>s, <1>t
<1>f. ASSUME NEW ok \in BOOLEAN, Goes(ok)
      PROVE  faults' \in 0..MaxFaults
  BY <1>f, <1>t, GoesType DEF Base
<1>p. ASSUME NEW c \in Conns, NEW pc \in Phases
      PROVE  [conn[c] EXCEPT !.pc = pc] \in Connection
  BY <1>t DEF Connection
<1>c. ASSUME NEW c \in Conns, NEW k \in Causes, k # "none"
      PROVE  Cancelled(conn[c], k) \in Connection
  BY <1>c, <1>t, CancelledKeeps
<1>1. CASE Write
  BY <1>1, <1>t DEF Write, Base
<1>2. CASE Broadcast
  <2>1. sent' \in 0..written /\ sent + 1 \in 1..MaxEvents
    BY <1>2, <1>t DEF Broadcast
  <2>2. \A c \in Conns : [conn[c] EXCEPT !.ch = Append(@, sent + 1)] \in Connection
    <3> TAKE c \in Conns
    <3>1. conn[c] \in Connection /\ conn[c].ch \in Seq(1..MaxEvents)
      BY <1>t DEF Connection
    <3>2. Append(conn[c].ch, sent + 1) \in Seq(1..MaxEvents)
      BY <2>1, <3>1
    <3> QED BY <3>1, <3>2 DEF Connection
  <2>3. conn' \in [Conns -> Connection]
    BY <1>2, <1>t, <2>2 DEF Broadcast
  <2> QED BY <1>2, <1>t, <2>1, <2>3 DEF Broadcast, Base
<1>3. CASE Shutdown
  <2>1. conn' \in [Conns -> Connection]
    BY <1>3, <1>t, <1>c DEF Shutdown, Causes
  <2> QED BY <1>3, <1>t, <2>1 DEF Shutdown, Base
<1>4. CASE ShutdownReturns
  BY <1>4, <1>t, <1>f DEF ShutdownReturns, Base
<1>5. ASSUME NEW t \in Tokens, MintToken(t) \/ DeleteToken(t)
      PROVE  Base'
  BY <1>5, <1>t DEF MintToken, DeleteToken, Base
<1>6. ASSUME NEW t \in Tokens, MatchToken(t)
      PROVE  Base'
  <2>1. {c \in subs : conn[c].tok = t} \subseteq Conns
    BY DEF StreamInv, Counted
  <2> QED BY <1>6, <1>t, <2>1 DEF MatchToken, Base
<1>7. ASSUME NEW t \in Tokens, CloseToken(t)
      PROVE  Base'
  <2>1. conn' \in [Conns -> Connection]
    BY <1>7, <1>t, <1>c DEF CloseToken, Causes
  <2> QED BY <1>7, <1>t, <2>1 DEF CloseToken, Base
<1>8. ASSUME NEW c \in Conns, DropSlow(c)
      PROVE  Base'
  BY <1>8, <1>t, <1>s, <1>c DEF DropSlow, Base, Causes
<1>9. ASSUME NEW c \in Conns, NEW t \in Tokens, Authenticate(c, t)
      PROVE  Base'
  <2>1. [Closed EXCEPT !.pc = "subscribe", !.tok = t] \in Connection
    BY ClosedType DEF Connection, Phases
  <2> QED BY <1>9, <1>t, <1>s, <2>1 DEF Authenticate, Base
<1>10. ASSUME NEW c \in Conns, Subscribe(c)
       PROVE  Base'
  <2>1. [conn[c] EXCEPT !.pc = "recheck", !.got = sent] \in Connection
    BY <1>t DEF Connection, Phases
  <2>2. \/ conn' = [conn EXCEPT ![c] = Closed]
        \/ conn' = [conn EXCEPT ![c] = [conn[c] EXCEPT !.pc = "recheck", !.got = sent]]
    BY <1>10, <1>t DEF Subscribe, End
  <2>3. conn' \in [Conns -> Connection]
    BY <2>1, <2>2, <1>s, ClosedType
  <2> QED BY <1>10, <1>t, <2>3 DEF Subscribe, Base
<1>11. ASSUME NEW c \in Conns, Recheck(c) \/ Accept(c) \/ PumpDone(c) \/ CloseExit(c)
       PROVE  Base'
  <2>1. conn' \in [Conns -> Connection]
    <3>1. \E pc \in Phases : conn' = [conn EXCEPT ![c] = [conn[c] EXCEPT !.pc = pc]]
      BY <1>11 DEF Recheck, Accept, PumpDone, CloseExit, Move, Phases
    <3> QED BY <3>1, <1>s, <1>p
  <2>2. faults' \in 0..MaxFaults
    BY <1>11, <1>t, <1>f DEF Recheck, Accept, PumpDone, CloseExit, Base
  <2> QED BY <1>11, <1>t, <2>1, <2>2 DEF Recheck, Accept, PumpDone, CloseExit, Base
<1>12. ASSUME NEW c \in Conns, RenderSnapshot(c) \/ SendSnapshot(c) \/ PumpEvent(c)
       PROVE  Base'
  <2>0. conn[c] \in Connection
    BY <1>t
  <2>1. [conn[c] EXCEPT !.pc = "send", !.snap = written] \in Connection
    BY <2>0, <1>t DEF Connection, Phases
  <2>2. [conn[c] EXCEPT !.pc = "pump", !.view = conn[c].snap, !.begun = TRUE] \in Connection
    BY <2>0 DEF Connection, Phases
  <2>3. conn[c].ch # <<>> =>
          [conn[c] EXCEPT !.ch = Tail(conn[c].ch), !.got = Head(conn[c].ch), !.view = Head(conn[c].ch)] \in Connection
    <3> SUFFICES ASSUME conn[c].ch # <<>>
                 PROVE  [conn[c] EXCEPT !.ch = Tail(conn[c].ch), !.got = Head(conn[c].ch),
                                        !.view = Head(conn[c].ch)] \in Connection
      OBVIOUS
    <3>1. conn[c].ch \in Seq(1..MaxEvents)
      BY <2>0 DEF Connection
    <3>2. Head(conn[c].ch) \in 1..MaxEvents /\ Tail(conn[c].ch) \in Seq(1..MaxEvents)
      BY <3>1, PopType
    <3>3. Head(conn[c].ch) \in 0..MaxEvents
      BY <3>2
    <3> QED BY <2>0, <3>2, <3>3 DEF Connection
  <2>4. \A k \in {"internal", "peerGone"}, pc \in {"pump", "close"} :
          [Cancelled(conn[c], k) EXCEPT !.pc = pc] \in Connection
    <3> TAKE k \in {"internal", "peerGone"}, pc \in {"pump", "close"}
    <3>1. Cancelled(conn[c], k) \in Connection
      BY <1>c DEF Causes
    <3> QED BY <3>1 DEF Connection, Phases
  <2>5. faults' \in 0..MaxFaults
    BY <1>12, <1>f DEF RenderSnapshot, SendSnapshot, PumpEvent
  <2>6. conn' \in [Conns -> Connection]
    <3>1. RenderSnapshot(c) => conn' \in [Conns -> Connection]
      BY <1>t, <2>1, <2>4 DEF RenderSnapshot
    <3>2. SendSnapshot(c) => conn' \in [Conns -> Connection]
      BY <1>t, <2>2, <2>4 DEF SendSnapshot
    <3>3. PumpEvent(c) => conn' \in [Conns -> Connection]
      BY <1>t, <2>3, <2>4 DEF PumpEvent
    <3> QED BY <1>12, <3>1, <3>2, <3>3
  <2> QED BY <1>12, <1>t, <2>5, <2>6 DEF RenderSnapshot, SendSnapshot, PumpEvent, Base
<1>13. ASSUME NEW c \in Conns, NEW k \in {"peerGone", "pingFailed"}, PeerGone(c, k)
       PROVE  Base'
  BY <1>13, <1>t, <1>s, <1>c, <1>f DEF PeerGone, Base, Causes
<1>14. ASSUME NEW c \in Conns, Leave(c)
       PROVE  Base'
  BY <1>14, <1>t, <1>s, ClosedType DEF Leave, End, Forget, Base
<1>15. CASE UNCHANGED vars
  BY <1>15, <1>t DEF vars, Base
<1> QED
  BY <1>1, <1>2, <1>3, <1>4, <1>5, <1>6, <1>7, <1>8, <1>9, <1>10, <1>11, <1>12, <1>13, <1>14, <1>15
  DEF Next, HandlerStep, RevokeStep

LEMMA CountedStep == StreamInv /\ [Next]_vars => Counted'
<1> SUFFICES ASSUME StreamInv, [Next]_vars PROVE Counted'
  OBVIOUS
<1> USE StreamAssumption
<1>1. CASE UNCHANGED <<subs, wg, over>>
  BY <1>1 DEF StreamInv, Counted
<1>2. CASE Broadcast
  BY <1>2 DEF Broadcast, Overflowing, StreamInv, Counted
<1>3. ASSUME NEW c \in Conns, Release(c), over' = over \ {c}
      PROVE  Counted'
  BY <1>3, ReleaseCounts DEF StreamInv
<1>4. ASSUME NEW c \in Conns, Subscribe(c)
      PROVE  Counted'
  <2>1. c \notin subs
    BY <1>4 DEF Subscribe, StreamInv, Live, LiveAt, Outside
  <2>2. CASE hub = "up" /\ Room
    <3>1. IsFiniteSet(subs') /\ Cardinality(subs') = Cardinality(subs) + 1
      BY <1>4, <2>1, <2>2, FS_AddElement DEF Subscribe, StreamInv, Counted
    <3>2. Cardinality(subs) \in Nat
      BY FS_CardinalityType DEF StreamInv, Counted
    <3> QED BY <1>4, <2>2, <3>1, <3>2 DEF Subscribe, Room, StreamInv, Counted
  <2>3. CASE ~(hub = "up" /\ Room)
    BY <1>4, <2>3, <1>1 DEF Subscribe
  <2> QED BY <2>2, <2>3
<1>5. ASSUME NEW c \in Conns, DropSlow(c) \/ Leave(c)
      PROVE  Counted'
  BY <1>5, <1>3 DEF DropSlow, Leave, Forget
<1> QED
  BY <1>1, <1>2, <1>4, <1>5
  DEF Next, vars, Write, Shutdown, ShutdownReturns, MintToken, DeleteToken, RevokeStep, MatchToken,
      CloseToken, Authenticate, HandlerStep, Recheck, Accept, RenderSnapshot, SendSnapshot, PumpEvent,
      PumpDone, CloseExit, PeerGone

-----------------------------------------------------------------------------
(* Buffers and snapshots *)

\* A connection that a step leaves alone.
LEMMA LiveKept ==
    ASSUME StreamInv, Base', NEW q \in Conns, conn'[q] = conn[q], sent' = sent, written <= written',
           q \in subs' <=> q \in subs, q \in over' <=> q \in over
    PROVE  LiveAt(q, conn'[q], subs', over', sent', written')
<1>1. LiveAt(q, conn[q], subs, over, sent, written) /\ conn[q] \in Connection
  BY DEF StreamInv, Live, Base
<1>2. /\ conn[q].view \in 0..MaxEvents /\ conn[q].snap \in 0..MaxEvents
      /\ written \in 0..MaxEvents /\ written' \in 0..MaxEvents
  BY <1>1 DEF Connection, StreamInv, Base
<1> QED BY <1>1, <1>2, StreamAssumption DEF LiveAt

\* A connection that is cancelled, and is not in Broadcast's list afterwards
\* unless it is in the map.
LEMMA LiveCancelled ==
    ASSUME StreamInv, NEW q \in Conns, NEW k \in Causes, k # "none",
           conn[q].pc \notin Outside, conn'[q] = Cancelled(conn[q], k),
           UNCHANGED <<sent, written>>, q \in subs' \ over' => q \in subs \ over
    PROVE  LiveAt(q, conn'[q], subs', over', sent', written')
<1>1. LiveAt(q, conn[q], subs, over, sent, written) /\ conn[q] \in Connection
  BY DEF StreamInv, Live, Base
<1> QED BY <1>1, CancelledKeeps DEF LiveAt

\* A subscriber is in a phase of its handler's that has it in the map.
LEMMA SubsInside ==
    ASSUME StreamInv, NEW c \in Conns
    PROVE  /\ LiveAt(c, conn[c], subs, over, sent, written) /\ conn[c] \in Connection
           /\ c \in subs => conn[c].pc \notin Outside
           /\ over \subseteq subs
           /\ sent \in Nat /\ written \in Nat /\ sent <= written
           /\ conn[c].got \in Nat /\ conn[c].ch \in Seq(1..MaxEvents) /\ Len(conn[c].ch) \in Nat
<1>1. LiveAt(c, conn[c], subs, over, sent, written) /\ conn[c] \in Connection /\ over \subseteq subs
      /\ sent \in Nat /\ written \in Nat /\ sent <= written
  BY StreamAssumption DEF StreamInv, Live, Base, Counted
<1>2. conn[c].got \in Nat /\ conn[c].ch \in Seq(1..MaxEvents) /\ Len(conn[c].ch) \in Nat
  BY <1>1 DEF Connection
<1> QED BY <1>1, <1>2 DEF LiveAt

\* A connection keeps the invariant through each thing that happens to it:
\* Broadcast adds the next event ...
LEMMA PushLive ==
    ASSUME NEW c, NEW S, NEW P, NEW n \in Nat, NEW w \in Nat, NEW s \in Connection,
           c \in S, n + 1 \in 1..MaxEvents, Len(s.ch) < Buffer, LiveAt(c, s, S, {}, n, w)
    PROVE  LiveAt(c, [s EXCEPT !.ch = Append(s.ch, n + 1)], S, P, n + 1, w)
<1> USE StreamAssumption
<1> DEFINE q == s.ch
           r == [s EXCEPT !.ch = Append(q, n + 1)]
<1>1. /\ r.pc = s.pc /\ r.cause = s.cause /\ r.got = s.got /\ r.snap = s.snap
      /\ r.view = s.view /\ r.begun = s.begun /\ r.ch = Append(q, n + 1)
  BY DEF Connection
<1>2. s.got \in Nat /\ q \in Seq(1..MaxEvents) /\ Len(q) \in Nat
  BY DEF Connection
<1>3. s.got + Len(q) = n /\ \A k \in 1..Len(q) : q[k] = s.got + k
  BY DEF LiveAt
<1> HIDE DEF q
<1>4. n + 1 = s.got + Len(q) + 1
  BY <1>2, <1>3
<1>5. Len(Append(q, n + 1)) = Len(q) + 1 /\ \A k \in 1..Len(Append(q, n + 1)) : Append(q, n + 1)[k] = s.got + k
  BY <1>2, <1>3, <1>4, PushRun
<1>6. Len(q) + 1 <= Buffer /\ s.got + (Len(q) + 1) = n + 1
  BY <1>2, <1>3 DEF q
<1> HIDE DEF r
<1>7. Len(r.ch) = Len(q) + 1 /\ \A k \in 1..Len(r.ch) : r.ch[k] = r.got + k
  BY <1>1, <1>5
<1>8. r.got + Len(r.ch) = n + 1 /\ Len(r.ch) <= Buffer
  BY <1>1, <1>6, <1>7
<1>9. r.pc \notin Outside
  BY <1>1 DEF LiveAt
<1>10. LiveAt(c, r, S, P, n + 1, w)
  BY <1>1, <1>7, <1>8, <1>9 DEF LiveAt
<1> QED BY <1>10 DEF r, q

\* ... pump takes the next one ...
LEMMA PopLive ==
    ASSUME NEW c, NEW S, NEW O, NEW n \in Nat, NEW w \in Nat, n <= w, NEW s \in Connection,
           s.pc = "pump", s.ch # <<>>, LiveAt(c, s, S, O, n, w)
    PROVE  LiveAt(c, [s EXCEPT !.ch = Tail(s.ch), !.got = Head(s.ch), !.view = Head(s.ch)], S, O, n, w)
<1> USE StreamAssumption
<1> DEFINE q == s.ch
           r == [s EXCEPT !.ch = Tail(q), !.got = Head(q), !.view = Head(q)]
<1>1. /\ r.pc = "pump" /\ r.cause = s.cause /\ r.begun = s.begun /\ r.ch = Tail(q)
      /\ r.got = Head(q) /\ r.view = Head(q)
  BY DEF Connection
<1>2. s.got \in Nat /\ q \in Seq(1..MaxEvents) /\ Len(q) \in Nat /\ q # <<>>
  BY DEF Connection
<1>3. /\ \A k \in 1..Len(q) : q[k] = s.got + k
      /\ s.got + Len(q) <= n /\ (c \in S \ O => s.got + Len(q) = n) /\ Len(q) <= Buffer
      /\ (c \in S \/ s.cause # "none") /\ (s.begun = TRUE \/ s.cause # "none")
  BY DEF LiveAt, Outside
<1> HIDE DEF q, r
<1>4. /\ Head(q) = s.got + 1 /\ Len(Tail(q)) \in Nat /\ Len(Tail(q)) <= Len(q)
      /\ Head(q) + Len(Tail(q)) = s.got + Len(q)
      /\ \A k \in 1..Len(Tail(q)) : Tail(q)[k] = Head(q) + k
  BY <1>2, <1>3, PopRun
<1>8. r.got \in Nat /\ Len(r.ch) \in Nat /\ r.got + Len(r.ch) = s.got + Len(q) /\ Len(r.ch) <= Len(q)
  BY <1>1, <1>2, <1>4
<1>9. \A k \in 1..Len(r.ch) : r.ch[k] = r.got + k
  BY <1>1, <1>4
<1>10. Len(r.ch) <= Buffer
  BY <1>2, <1>3, <1>8
<1>5. /\ r.got \in Nat /\ Len(r.ch) \in Nat /\ Len(r.ch) <= Buffer /\ r.got + Len(r.ch) = s.got + Len(q)
      /\ \A k \in 1..Len(r.ch) : r.ch[k] = r.got + k
  BY <1>8, <1>9, <1>10
<1>11. r.got + Len(r.ch) <= n /\ (c \in S \ O => r.got + Len(r.ch) = n)
  BY <1>3, <1>8
<1>12. r.got <= w
  BY <1>8, <1>11
<1>6. r.got <= w /\ r.view = r.got /\ r.got + Len(r.ch) <= n /\ (c \in S \ O => r.got + Len(r.ch) = n)
  BY <1>1, <1>11, <1>12
<1>7. LiveAt(c, r, S, O, n, w)
  BY <1>1, <1>3, <1>5, <1>6 DEF LiveAt, Outside, Waiting
<1> QED BY <1>7 DEF r, q

\* ... the snapshot is rendered and sent ...
LEMMA SnapshotLive ==
    ASSUME NEW c, NEW S, NEW O, NEW n \in Nat, NEW w \in Nat, n <= w, NEW s \in Connection,
           LiveAt(c, s, S, O, n, w)
    PROVE  /\ s.pc = "render" => LiveAt(c, [s EXCEPT !.pc = "send", !.snap = w], S, O, n, w)
           /\ s.pc = "send" =>
                LiveAt(c, [s EXCEPT !.pc = "pump", !.view = s.snap, !.begun = TRUE], S, O, n, w)
<1> USE StreamAssumption
<1>0. s.got \in Nat /\ Len(s.ch) \in Nat
  BY DEF Connection
<1>1. ASSUME s.pc = "render"
      PROVE  LiveAt(c, [s EXCEPT !.pc = "send", !.snap = w], S, O, n, w)
  <2> DEFINE r == [s EXCEPT !.pc = "send", !.snap = w]
  <2>1. /\ r.pc = "send" /\ r.cause = s.cause /\ r.ch = s.ch /\ r.got = s.got /\ r.begun = s.begun
        /\ r.view = s.view /\ r.snap = w
    BY DEF Connection
  <2>2. s.got <= w
    BY <1>0 DEF LiveAt
  <2> HIDE DEF r
  <2>3. LiveAt(c, r, S, O, n, w)
    BY <1>1, <2>1, <2>2 DEF LiveAt, Outside, Waiting
  <2> QED BY <2>3 DEF r
<1>2. ASSUME s.pc = "send"
      PROVE  LiveAt(c, [s EXCEPT !.pc = "pump", !.view = s.snap, !.begun = TRUE], S, O, n, w)
  <2> DEFINE r == [s EXCEPT !.pc = "pump", !.view = s.snap, !.begun = TRUE]
  <2>1. /\ r.pc = "pump" /\ r.cause = s.cause /\ r.ch = s.ch /\ r.got = s.got /\ r.begun = TRUE
        /\ r.view = s.snap
    BY DEF Connection
  <2> HIDE DEF r
  <2>3. LiveAt(c, r, S, O, n, w)
    BY <1>2, <2>1 DEF LiveAt, Outside, Waiting
  <2> QED BY <2>3 DEF r
<1> QED BY <1>1, <1>2

\* ... the handler moves on without it, or is cancelled and ends.
LEMMA MoveLive ==
    ASSUME NEW c, NEW S, NEW O, NEW n, NEW w, NEW s \in Connection, LiveAt(c, s, S, O, n, w),
           s.pc \notin Outside
    PROVE  /\ \A pc \in {"accept", "leave", "render", "close"} :
                 (pc = "accept" => s.pc = "recheck") /\ (pc = "render" => s.pc = "accept")
                 => LiveAt(c, [s EXCEPT !.pc = pc], S, O, n, w)
           /\ \A k \in Causes \ {"none"}, pc \in {"pump", "close"} :
                 (pc = "pump" => s.pc = "render")
                 => LiveAt(c, [Cancelled(s, k) EXCEPT !.pc = pc], S, O, n, w)
<1>1. ASSUME NEW pc \in {"accept", "leave", "render", "close"},
             pc = "accept" => s.pc = "recheck", pc = "render" => s.pc = "accept"
      PROVE  LiveAt(c, [s EXCEPT !.pc = pc], S, O, n, w)
  <2> DEFINE r == [s EXCEPT !.pc = pc]
  <2>1. /\ r.pc = pc /\ r.cause = s.cause /\ r.ch = s.ch /\ r.got = s.got /\ r.begun = s.begun
        /\ r.view = s.view
    BY DEF Connection
  <2> HIDE DEF r
  <2>3. LiveAt(c, r, S, O, n, w)
    BY <1>1, <2>1 DEF LiveAt, Outside, Waiting
  <2> QED BY <2>3 DEF r
<1>2. ASSUME NEW k \in Causes \ {"none"}, NEW pc \in {"pump", "close"}, pc = "pump" => s.pc = "render"
      PROVE  LiveAt(c, [Cancelled(s, k) EXCEPT !.pc = pc], S, O, n, w)
  <2> DEFINE r == [Cancelled(s, k) EXCEPT !.pc = pc]
  <2>1. /\ r.pc = pc /\ r.cause # "none" /\ r.ch = s.ch /\ r.got = s.got /\ r.begun = s.begun
        /\ r.view = s.view
    BY CancelledKeeps DEF Connection
  <2> HIDE DEF r
  <2>3. LiveAt(c, r, S, O, n, w)
    BY <1>2, <2>1 DEF LiveAt, Outside, Waiting
  <2> QED BY <2>3 DEF r
<1> QED BY <1>1, <1>2

LEMMA BroadcastLive ==
    ASSUME StreamInv, Broadcast, NEW q \in Conns
    PROVE  LiveAt(q, conn'[q], subs', over', sent', written')
<1> USE StreamAssumption
<1>1. /\ LiveAt(q, conn[q], subs, {}, sent, written) /\ conn[q] \in Connection
      /\ sent \in Nat /\ written \in Nat /\ Len(conn[q].ch) \in Nat
  BY SubsInside DEF Broadcast
<1>2. /\ sent' = sent + 1 /\ written' = written /\ subs' = subs /\ over' = Overflowing
      /\ sent + 1 \in 1..MaxEvents
  BY <1>1 DEF Broadcast, StreamInv, Base
<1>3. CASE q \in subs /\ Len(conn[q].ch) < Buffer
  <2>1. conn'[q] = [conn[q] EXCEPT !.ch = Append(conn[q].ch, sent + 1)]
    BY <1>3 DEF Broadcast
  <2> QED BY <1>1, <1>2, <1>3, <2>1, PushLive
<1>4. CASE ~(q \in subs /\ Len(conn[q].ch) < Buffer)
  <2>1. conn'[q] = conn[q]
    BY <1>4 DEF Broadcast
  <2>2. q \in subs => q \in over'
    BY <1>1, <1>2, <1>4 DEF Overflowing, LiveAt
  <2>3. conn[q].got \in Nat
    BY <1>1 DEF Connection
  <2> QED BY <1>1, <1>2, <2>1, <2>2, <2>3 DEF LiveAt
<1> QED BY <1>3, <1>4

\* A step of a connection's own handler that changes neither the map nor
\* Broadcast's list.
LEMMA HandlerLive ==
    ASSUME StreamInv, NEW c \in Conns,
           \/ Recheck(c) \/ Accept(c) \/ RenderSnapshot(c) \/ SendSnapshot(c)
           \/ PumpEvent(c) \/ PumpDone(c) \/ CloseExit(c)
    PROVE  LiveAt(c, conn'[c], subs', over', sent', written')
<1> SUFFICES LiveAt(c, conn'[c], subs, over, sent, written)
  BY DEF Recheck, Accept, RenderSnapshot, SendSnapshot, PumpEvent, PumpDone, CloseExit
<1>0. conn \in [Conns -> Connection]
  BY DEF StreamInv, Base
<1>1. /\ LiveAt(c, conn[c], subs, over, sent, written) /\ conn[c] \in Connection
      /\ sent \in Nat /\ written \in Nat /\ sent <= written
  BY SubsInside
<1>4. CASE Recheck(c) \/ Accept(c) \/ PumpDone(c) \/ CloseExit(c)
  <2>1. \E pc \in {"accept", "leave", "render", "close"} :
          /\ conn'[c] = [conn[c] EXCEPT !.pc = pc] /\ conn[c].pc \notin Outside
          /\ pc = "accept" => conn[c].pc = "recheck"
          /\ pc = "render" => conn[c].pc = "accept"
    BY <1>4, <1>0 DEF Recheck, Accept, PumpDone, CloseExit, Move, Outside
  <2> PICK pc \in {"accept", "leave", "render", "close"} : <2>1!(pc)
    BY <2>1
  <2>2. LiveAt(c, [conn[c] EXCEPT !.pc = pc], subs, over, sent, written)
    BY <1>1, MoveLive
  <2> QED BY <2>2
<1>c. ASSUME NEW k \in {"internal", "peerGone"}, NEW pc \in {"pump", "close"}, conn[c].pc \notin Outside,
             conn'[c] = [Cancelled(conn[c], k) EXCEPT !.pc = pc], pc = "pump" => conn[c].pc = "render"
      PROVE  LiveAt(c, conn'[c], subs, over, sent, written)
  <2>1. k \in Causes \ {"none"}
    BY DEF Causes
  <2>2. LiveAt(c, [Cancelled(conn[c], k) EXCEPT !.pc = pc], subs, over, sent, written)
    BY <2>1, <1>c, <1>1, MoveLive
  <2> QED BY <2>2, <1>c
<1>5. CASE RenderSnapshot(c)
  <2>1. conn[c].pc = "render" /\ \/ conn'[c] = [conn[c] EXCEPT !.pc = "send", !.snap = written]
                                 \/ conn'[c] = [Cancelled(conn[c], "internal") EXCEPT !.pc = "pump"]
    BY <1>5, <1>0 DEF RenderSnapshot
  <2>2. LiveAt(c, [conn[c] EXCEPT !.pc = "send", !.snap = written], subs, over, sent, written)
    BY <2>1, <1>1, SnapshotLive
  <2> QED BY <2>1, <2>2, <1>c DEF Outside
<1>6. CASE SendSnapshot(c)
  <2>1. conn[c].pc = "send"
        /\ \/ conn'[c] = [conn[c] EXCEPT !.pc = "pump", !.view = conn[c].snap, !.begun = TRUE]
           \/ conn'[c] = [Cancelled(conn[c], "peerGone") EXCEPT !.pc = "close"]
    BY <1>6, <1>0 DEF SendSnapshot
  <2>2. LiveAt(c, [conn[c] EXCEPT !.pc = "pump", !.view = conn[c].snap, !.begun = TRUE],
               subs, over, sent, written)
    BY <2>1, <1>1, SnapshotLive
  <2> QED BY <2>1, <2>2, <1>c DEF Outside
<1>7. CASE PumpEvent(c)
  <2>1. conn[c].pc = "pump" /\ conn[c].ch # <<>>
        /\ \/ conn'[c] = [conn[c] EXCEPT !.ch = Tail(conn[c].ch), !.got = Head(conn[c].ch),
                                         !.view = Head(conn[c].ch)]
           \/ conn'[c] = [Cancelled(conn[c], "peerGone") EXCEPT !.pc = "close"]
    BY <1>7, <1>0 DEF PumpEvent
  <2>2. LiveAt(c, [conn[c] EXCEPT !.ch = Tail(conn[c].ch), !.got = Head(conn[c].ch),
                                  !.view = Head(conn[c].ch)], subs, over, sent, written)
    BY <2>1, <1>1, PopLive
  <2> QED BY <2>1, <2>2, <1>c DEF Outside
<1> QED BY <1>4, <1>5, <1>6, <1>7

\* A slot without a subscriber.
LEMMA ClosedLive ==
    ASSUME NEW c, NEW S, NEW O, NEW n \in Nat, NEW w, c \notin S
    PROVE  /\ LiveAt(c, Closed, S, O, n, w)
           /\ \A t \in Tokens : LiveAt(c, [Closed EXCEPT !.pc = "subscribe", !.tok = t], S, O, n, w)
<1> USE StreamAssumption
<1>1. ASSUME NEW r \in Connection, r.pc \in Outside, r.cause = "none", r.ch = <<>>, r.got = 0, r.view = 0, r.begun = FALSE
      PROVE  LiveAt(c, r, S, O, n, w)
  <2>1. Len(r.ch) = 0 /\ 1..Len(r.ch) = {}
    BY <1>1
  <2> QED BY <1>1, <2>1 DEF LiveAt, Outside, Waiting
<1>2. Closed.pc = "idle" /\ Closed.cause = "none" /\ Closed.ch = <<>> /\ Closed.got = 0 /\ Closed.view = 0
      /\ Closed.begun = FALSE
  BY DEF Closed
<1>3. LiveAt(c, Closed, S, O, n, w)
  BY <1>1, <1>2, ClosedType DEF Outside
<1>4. ASSUME NEW t \in Tokens
      PROVE  LiveAt(c, [Closed EXCEPT !.pc = "subscribe", !.tok = t], S, O, n, w)
  <2> DEFINE r == [Closed EXCEPT !.pc = "subscribe", !.tok = t]
  <2>1. r.pc = "subscribe" /\ r.cause = "none" /\ r.ch = <<>> /\ r.got = 0 /\ r.view = 0 /\ r.begun = FALSE
    BY DEF Closed
  <2>2. r \in Connection
    BY ClosedType DEF Connection, Phases
  <2> HIDE DEF r
  <2>3. LiveAt(c, r, S, O, n, w)
    BY <1>1, <2>1, <2>2 DEF Outside
  <2> QED BY <2>3 DEF r
<1> QED BY <1>3, <1>4

\* Hub.subscribe: nothing broadcast before is owed, everything after is.
LEMMA SubscribedLive ==
    ASSUME NEW c, NEW S, NEW O, NEW n \in Nat, NEW w, NEW s \in Connection, s.pc = "subscribe",
           LiveAt(c, s, S, O, n, w), NEW T, c \in T
    PROVE  LiveAt(c, [s EXCEPT !.pc = "recheck", !.got = n], T, O, n, w)
<1> DEFINE r == [s EXCEPT !.pc = "recheck", !.got = n]
<1>1. /\ r.pc = "recheck" /\ r.cause = s.cause /\ r.ch = s.ch /\ r.got = n
      /\ r.view = s.view /\ r.begun = s.begun
  BY DEF Connection
<1>2. s.ch = <<>> /\ s.view = 0 /\ s.begun = FALSE
  BY DEF LiveAt, Outside
<1>3. Len(r.ch) = 0 /\ 1..Len(r.ch) = {}
  BY <1>1, <1>2
<1> HIDE DEF r
<1>4. LiveAt(c, r, T, O, n, w)
  BY <1>1, <1>2, <1>3, StreamAssumption DEF LiveAt, Outside, Waiting
<1> QED BY <1>4 DEF r

LEMMA LiveStep == StreamInv /\ [Next]_vars => Live'
<1> SUFFICES ASSUME StreamInv, [Next]_vars, NEW q \in Conns
             PROVE  LiveAt(q, conn'[q], subs', over', sent', written')
  BY DEF Live
<1> DEFINE Goal == LiveAt(q, conn'[q], subs', over', sent', written')
<1>b. Base'
  BY BaseStep
<1>t. /\ conn \in [Conns -> Connection] /\ conn[q] \in Connection /\ conn[q].pc \in Phases
      /\ written \in Nat /\ sent \in Nat
      /\ LiveAt(q, conn[q], subs, over, sent, written) /\ (q \in subs => conn[q].pc \notin Outside)
      /\ over \subseteq subs
  <2>1. conn \in [Conns -> Connection]
    BY DEF StreamInv, Base
  <2> QED BY <2>1, SubsInside DEF Connection
<1>1. ASSUME UNCHANGED <<conn, sent, subs, over>>, written' \in {written, written + 1}
      PROVE  Goal
  BY <1>1, <1>b, <1>t, LiveKept
<1>2. ASSUME NEW c \in Conns, c # q, NEW s, conn' = [conn EXCEPT ![c] = s], UNCHANGED <<sent, written>>,
             q \in subs' <=> q \in subs, q \in over' <=> q \in over
      PROVE  Goal
  <2>1. conn'[q] = conn[q] /\ written <= written'
    BY <1>2, <1>t
  <2> QED BY <1>2, <1>b, <2>1, LiveKept
<1>3. CASE UNCHANGED vars
  BY <1>1, <1>3 DEF vars
<1>4. CASE Write \/ ShutdownReturns \/ \E t \in Tokens : MintToken(t) \/ DeleteToken(t) \/ MatchToken(t)
  BY <1>1, <1>4 DEF Write, ShutdownReturns, MintToken, DeleteToken, MatchToken
<1>5. CASE Broadcast
  BY <1>5, BroadcastLive
<1>6. ASSUME NEW k \in Causes, k # "none", conn[q].pc \notin Outside, conn'[q] = Cancelled(conn[q], k),
             UNCHANGED <<sent, written>>, q \in subs' \ over' => q \in subs \ over
      PROVE  Goal
  BY <1>6, LiveCancelled
<1>7. CASE Shutdown
  <2>1. CASE conn[q].pc \in Phases \ {"idle", "subscribe"}
    <3>1. conn[q].pc \notin Outside /\ "shutdown" \in Causes
      BY <2>1 DEF Outside, Causes
    <3>2. conn'[q] = Cancelled(conn[q], "shutdown")
      BY <1>7, <2>1 DEF Shutdown
    <3> QED BY <3>1, <3>2, <1>6, <1>7 DEF Shutdown
  <2>2. CASE conn[q].pc \notin Phases \ {"idle", "subscribe"}
    <3>1. conn'[q] = conn[q] /\ written <= written'
      BY <1>7, <2>2, <1>t DEF Shutdown
    <3> QED BY <3>1, <1>b, <1>7, LiveKept DEF Shutdown
  <2> QED BY <2>1, <2>2
<1>8. ASSUME NEW t \in Tokens, CloseToken(t)
      PROVE  Goal
  <2>1. CASE q \in matched[t]
    <3>1. conn[q].pc \notin Outside /\ "revoked" \in Causes
      BY <2>1 DEF StreamInv, Revoking, Causes
    <3>2. conn'[q] = Cancelled(conn[q], "revoked")
      BY <1>8, <2>1 DEF CloseToken
    <3> QED BY <3>1, <3>2, <1>6, <1>8 DEF CloseToken
  <2>2. CASE q \notin matched[t]
    <3>1. conn'[q] = conn[q] /\ written <= written'
      BY <1>8, <2>2, <1>t DEF CloseToken
    <3> QED BY <3>1, <1>b, <1>8, LiveKept DEF CloseToken
  <2> QED BY <2>1, <2>2
<1>9. ASSUME NEW c \in Conns, DropSlow(c)
      PROVE  Goal
  <2>1. CASE c = q
    <3>1. conn[q].pc \notin Outside /\ "slowConsumer" \in Causes
      BY <1>9, <2>1, <1>t DEF DropSlow, Causes
    <3>2. conn'[q] = Cancelled(conn[q], "slowConsumer") /\ q \notin subs'
      BY <1>9, <2>1, <1>t DEF DropSlow, Release
    <3> QED BY <3>1, <3>2, <1>6, <1>9 DEF DropSlow
  <2>2. CASE c # q
    BY <1>9, <2>2, <1>2 DEF DropSlow, Release
  <2> QED BY <2>1, <2>2
<1>10. ASSUME NEW c \in Conns, NEW t \in Tokens, Authenticate(c, t)
       PROVE  Goal
  <2>1. CASE c = q
    <3>1. q \notin subs
      BY <1>10, <2>1, <1>t DEF Authenticate, Outside
    <3>2. LiveAt(q, [Closed EXCEPT !.pc = "subscribe", !.tok = t], subs, over, sent, written)
      BY <3>1, <1>t, ClosedLive
    <3>3. conn'[q] = [Closed EXCEPT !.pc = "subscribe", !.tok = t]
      BY <1>10, <2>1, <1>t DEF Authenticate
    <3> QED BY <3>2, <3>3, <1>10 DEF Authenticate
  <2>2. CASE c # q
    BY <1>10, <2>2, <1>2 DEF Authenticate
  <2> QED BY <2>1, <2>2
<1>11. ASSUME NEW c \in Conns, Subscribe(c)
       PROVE  Goal
  <2>1. CASE c = q /\ hub = "up" /\ Room
    <3>1. conn'[q] = [conn[q] EXCEPT !.pc = "recheck", !.got = sent] /\ q \in subs' /\ conn[q].pc = "subscribe"
      BY <1>11, <2>1, <1>t DEF Subscribe
    <3>2. LiveAt(q, [conn[q] EXCEPT !.pc = "recheck", !.got = sent], subs', over, sent, written)
      BY <3>1, <1>t, SubscribedLive
    <3> QED BY <3>1, <3>2, <1>11 DEF Subscribe
  <2>2. CASE c = q /\ ~(hub = "up" /\ Room)
    <3>1. conn'[q] = Closed /\ q \notin subs' /\ conn[q].pc = "subscribe"
      BY <1>11, <2>2, <1>t DEF Subscribe, End, Outside
    <3>2. LiveAt(q, Closed, subs', over, sent, written)
      BY <3>1, <1>t, ClosedLive
    <3> QED BY <3>1, <3>2, <1>11 DEF Subscribe
  <2>3. CASE c # q
    <3>1. conn'[q] = conn[q] /\ written <= written' /\ (q \in subs' <=> q \in subs)
      BY <1>11, <2>3, <1>t DEF Subscribe, End
    <3> QED BY <3>1, <1>11, <1>b, LiveKept DEF Subscribe
  <2> QED BY <2>1, <2>2, <2>3
<1>12. ASSUME NEW c \in Conns,
              \/ Recheck(c) \/ Accept(c) \/ RenderSnapshot(c) \/ SendSnapshot(c)
              \/ PumpEvent(c) \/ PumpDone(c) \/ CloseExit(c)
       PROVE  Goal
  <2>1. CASE c = q
    BY <1>12, <2>1, HandlerLive
  <2>2. CASE c # q
    <3>1. conn'[q] = conn[q]
      BY <1>12, <2>2, <1>t
      DEF Recheck, Accept, Move, RenderSnapshot, SendSnapshot, PumpEvent, PumpDone, CloseExit
    <3>2. UNCHANGED <<sent, written, subs, over>>
      BY <1>12 DEF Recheck, Accept, RenderSnapshot, SendSnapshot, PumpEvent, PumpDone, CloseExit
    <3> QED BY <3>1, <3>2, <1>b, <1>t, LiveKept
  <2> QED BY <2>1, <2>2
<1>13. ASSUME NEW c \in Conns, NEW k \in {"peerGone", "pingFailed"}, PeerGone(c, k)
       PROVE  Goal
  <2>1. CASE c = q
    <3>1. conn[q].pc \notin Outside /\ k \in Causes /\ k # "none" /\ conn'[q] = Cancelled(conn[q], k)
      BY <1>13, <2>1, <1>t DEF PeerGone, Outside, Causes
    <3> QED BY <3>1, <1>6, <1>13 DEF PeerGone
  <2>2. CASE c # q
    BY <1>13, <2>2, <1>2 DEF PeerGone
  <2> QED BY <2>1, <2>2
<1>14. ASSUME NEW c \in Conns, Leave(c)
       PROVE  Goal
  <2>1. CASE c = q
    <3>1. conn'[q] = Closed /\ q \notin subs'
      BY <1>14, <2>1, <1>t DEF Leave, End, Release
    <3>2. LiveAt(q, Closed, subs', over', sent, written)
      BY <3>1, <1>t, ClosedLive
    <3> QED BY <3>1, <3>2, <1>14 DEF Leave
  <2>2. CASE c # q
    BY <1>14, <2>2, <1>2 DEF Leave, End, Release, Forget
  <2> QED BY <2>1, <2>2
<1> QED
  BY <1>3, <1>4, <1>5, <1>7, <1>8, <1>9, <1>10, <1>11, <1>12, <1>13, <1>14
  DEF Next, HandlerStep, RevokeStep

-----------------------------------------------------------------------------
(* Revocation *)

\* What Revoking says of one connection, in two parts.
Exposed(s) == s.pc \in Streaming /\ s.cause = "none"
RevokedAt(c, s, rev, mat) ==
    Exposed(s) => rev[s.tok] # "done" /\ (rev[s.tok] = "cancel" => c \in mat[s.tok])
MatchedAt(c, s, mat) == \A t \in Tokens : c \in mat[t] => s.pc \notin Outside

\* A step after which a connection is exposed only if it was before, with the
\* same token, and which neither advances a revocation nor drops it from a list.
LEMMA RevokedKept ==
    ASSUME StreamInv, NEW q \in Conns,
           Exposed(conn'[q]) => Exposed(conn[q]) /\ conn'[q].tok = conn[q].tok,
           revoke' = revoke, matched' = matched
    PROVE  RevokedAt(q, conn'[q], revoke', matched')
<1>1. conn[q] \in Connection /\ conn[q].tok \in Tokens
  BY DEF StreamInv, Base, Connection
<1>2. RevokedAt(q, conn[q], revoke, matched)
  BY DEF StreamInv, Revoking, RevokedAt, Exposed
<1> QED BY <1>1, <1>2 DEF RevokedAt

LEMMA RevokingStep == StreamInv /\ [Next]_vars => Revoking'
<1> SUFFICES ASSUME StreamInv, [Next]_vars PROVE Revoking'
  OBVIOUS
<1>t. /\ conn \in [Conns -> Connection] /\ matched \in [Tokens -> SUBSET Conns]
      /\ revoke \in [Tokens -> {"none", "match", "cancel", "done"}]
      /\ tokens \in [Tokens -> {"unborn", "live", "gone"}]
      /\ \A c \in Conns : conn[c] \in Connection /\ conn[c].tok \in Tokens /\ conn[c].pc \in Phases
      /\ \A t \in Tokens : revoke[t] # "none" => tokens[t] = "gone"
      /\ subs \subseteq Conns /\ over \subseteq subs
  BY DEF StreamInv, Base, Revoking, Connection, Counted
<1>l. \A c \in Conns : /\ c \in subs => conn[c].pc \notin Outside
                       /\ conn[c].pc \notin Outside => c \in subs \/ conn[c].cause # "none"
                       /\ MatchedAt(c, conn[c], matched) /\ RevokedAt(c, conn[c], revoke, matched)
  BY DEF StreamInv, Live, LiveAt, Revoking, MatchedAt, RevokedAt, Exposed
<1>c. ASSUME NEW s \in Connection, NEW k \in Causes, k # "none"
      PROVE  /\ Cancelled(s, k).pc = s.pc /\ ~Exposed(Cancelled(s, k))
             /\ Cancelled(s, k) \in Connection
  BY <1>c, CancelledKeeps DEF Exposed
<1>k. {"peerGone", "pingFailed", "internal", "slowConsumer", "revoked", "shutdown"} \subseteq Causes \ {"none"}
  BY DEF Causes
<1>1. \A t \in Tokens : revoke'[t] # "none" => tokens'[t] = "gone"
  <2>1. CASE UNCHANGED <<tokens, revoke>>
    BY <1>t, <2>1
  <2>2. ASSUME NEW t \in Tokens, MintToken(t) \/ DeleteToken(t) \/ RevokeStep(t)
        PROVE  \A u \in Tokens : revoke'[u] # "none" => tokens'[u] = "gone"
    BY <1>t, <2>2 DEF MintToken, DeleteToken, RevokeStep, MatchToken, CloseToken
  <2> QED
    BY <2>1, <2>2
    DEF Next, vars, Write, Broadcast, Shutdown, ShutdownReturns, DropSlow, Authenticate, HandlerStep, Subscribe,
        Recheck, Accept, RenderSnapshot, SendSnapshot, PumpEvent, PumpDone, CloseExit, Leave, PeerGone
<1>2. ASSUME NEW q \in Conns
      PROVE  RevokedAt(q, conn'[q], revoke', matched') /\ MatchedAt(q, conn'[q], matched')
  <2> DEFINE Goal == RevokedAt(q, conn'[q], revoke', matched') /\ MatchedAt(q, conn'[q], matched')
  <2>t. conn[q] \in Connection /\ MatchedAt(q, conn[q], matched) /\ RevokedAt(q, conn[q], revoke, matched)
    BY <1>t, <1>l
  <2>k. ASSUME Exposed(conn'[q]) => Exposed(conn[q]) /\ conn'[q].tok = conn[q].tok,
               UNCHANGED <<revoke, matched>>, conn'[q].pc \in Outside => conn[q].pc \in Outside
        PROVE  Goal
    BY <2>k, <2>t, RevokedKept DEF MatchedAt
  <2>1. ASSUME UNCHANGED <<revoke, matched>>, conn'[q] = conn[q]
        PROVE  Goal
    BY <2>1, <2>k
  <2>c. ASSUME UNCHANGED <<revoke, matched>>, NEW k \in Causes \ {"none"}, conn'[q] = Cancelled(conn[q], k)
        PROVE  Goal
    BY <2>c, <2>k, <2>t, <1>c
  <2>2. CASE UNCHANGED <<revoke, matched, conn>>
    BY <2>1, <2>2
  <2>3. CASE Broadcast
    <3>1. \/ conn'[q] = conn[q]
          \/ conn'[q] = [conn[q] EXCEPT !.ch = Append(conn[q].ch, sent + 1)]
      BY <2>3 DEF Broadcast
    <3>2. conn'[q].pc = conn[q].pc /\ conn'[q].tok = conn[q].tok /\ conn'[q].cause = conn[q].cause
      BY <3>1, <2>t DEF Connection
    <3> QED BY <3>2, <2>3, <2>k DEF Broadcast, Exposed
  <2>4. CASE Shutdown
    <3>1. conn'[q] = conn[q] \/ conn'[q] = Cancelled(conn[q], "shutdown")
      BY <2>4 DEF Shutdown
    <3> QED BY <3>1, <2>1, <2>c, <2>4, <1>k DEF Shutdown
  <2>5. ASSUME NEW t \in Tokens, DeleteToken(t)
        PROVE  Goal
    <3>1. revoke'[conn[q].tok] \in {revoke[conn[q].tok], "match"} /\ UNCHANGED <<matched, conn>>
      BY <2>5, <1>t DEF DeleteToken
    <3> QED BY <3>1, <2>t DEF RevokedAt, MatchedAt
  <2>6. ASSUME NEW t \in Tokens, MatchToken(t)
        PROVE  Goal
    <3>1. MatchedAt(q, conn'[q], matched')
      BY <2>6, <2>t, <1>t, <1>l DEF MatchToken, MatchedAt
    <3>2. CASE conn[q].tok = t /\ Exposed(conn[q])
      <4>1. q \in subs
        BY <3>2, <1>l DEF Exposed, Streaming, Outside
      <4>2. q \in matched'[t] /\ revoke'[t] = "cancel" /\ conn' = conn
        BY <2>6, <3>2, <4>1, <1>t DEF MatchToken
      <4> QED BY <3>1, <3>2, <4>2 DEF RevokedAt
    <3>3. CASE ~(conn[q].tok = t /\ Exposed(conn[q]))
      <4>1. conn' = conn /\ (conn[q].tok # t => /\ revoke'[conn[q].tok] = revoke[conn[q].tok]
                                                /\ matched'[conn[q].tok] = matched[conn[q].tok])
        BY <2>6, <1>t DEF MatchToken
      <4> QED BY <3>1, <3>3, <4>1, <2>t DEF RevokedAt
    <3> QED BY <3>2, <3>3
  <2>7. ASSUME NEW t \in Tokens, CloseToken(t)
        PROVE  Goal
    <3>0. conn'[q] = IF q \in matched[t] THEN Cancelled(conn[q], "revoked") ELSE conn[q]
      BY <2>7 DEF CloseToken
    <3>a. conn'[q].pc = conn[q].pc
      BY <3>0, <2>t, <1>c, <1>k
    <3>1. MatchedAt(q, conn'[q], matched')
      BY <3>a, <2>7, <2>t, <1>t DEF CloseToken, MatchedAt
    <3>2. CASE q \in matched[t]
      BY <3>0, <3>1, <3>2, <2>t, <1>c, <1>k DEF RevokedAt
    <3>3. CASE q \notin matched[t]
      <4>1. conn[q].tok = t /\ Exposed(conn[q]) => FALSE
        BY <3>3, <2>t, <2>7 DEF RevokedAt, CloseToken
      <4>2. conn[q].tok # t => /\ revoke'[conn[q].tok] = revoke[conn[q].tok]
                               /\ matched'[conn[q].tok] = matched[conn[q].tok]
        BY <2>7, <1>t DEF CloseToken
      <4> QED BY <3>0, <3>1, <3>3, <4>1, <4>2, <2>t DEF RevokedAt
    <3> QED BY <3>2, <3>3
  <2>8. ASSUME NEW c \in Conns, DropSlow(c)
        PROVE  Goal
    <3>1. conn'[q] = conn[q] \/ conn'[q] = Cancelled(conn[q], "slowConsumer")
      BY <2>8, <1>t DEF DropSlow
    <3> QED BY <3>1, <2>1, <2>c, <2>8, <1>k DEF DropSlow
  <2>9. ASSUME NEW c \in Conns, NEW t \in Tokens, Authenticate(c, t)
        PROVE  Goal
    <3>1. CASE c = q
      <4>1. conn'[q].pc = "subscribe"
        BY <2>9, <3>1, <1>t DEF Authenticate, Closed
      <4>2. conn[q].pc \in Outside
        BY <2>9, <3>1 DEF Authenticate, Outside
      <4> QED BY <4>1, <4>2, <2>9, <2>k DEF Exposed, Streaming, Authenticate
    <3>2. CASE c # q
      BY <2>1, <2>9, <3>2, <1>t DEF Authenticate
    <3> QED BY <3>1, <3>2
  <2>10. ASSUME NEW c \in Conns, Subscribe(c)
         PROVE  Goal
    <3>1. CASE c = q
      <4>1. conn'[q].pc \in {"idle", "recheck"}
        BY <2>10, <3>1, <1>t, <2>t DEF Subscribe, End, Closed, Connection
      <4>2. conn[q].pc \in Outside
        BY <2>10, <3>1 DEF Subscribe, Outside
      <4> QED BY <4>1, <4>2, <2>10, <2>k DEF Exposed, Streaming, Subscribe
    <3>2. CASE c # q
      BY <2>1, <2>10, <3>2, <1>t DEF Subscribe, End
    <3> QED BY <3>1, <3>2
  <2>11. ASSUME NEW c \in Conns, Recheck(c)
         PROVE  Goal
    <3>1. CASE c = q /\ conn'[q].pc = "accept"
      <4>1. /\ tokens[conn[q].tok] = "live" /\ UNCHANGED <<revoke, matched>> /\ conn[q].pc = "recheck"
            /\ conn'[q].tok = conn[q].tok
        BY <2>11, <3>1, <1>t, <2>t DEF Recheck, Move, StillLive, Connection
      <4>2. revoke[conn[q].tok] = "none"
        BY <4>1, <1>t
      <4> QED BY <3>1, <4>1, <4>2, <2>t DEF RevokedAt, MatchedAt, Outside
    <3>2. CASE c = q /\ conn'[q].pc # "accept"
      <4>1. conn'[q].pc = "leave" /\ UNCHANGED <<revoke, matched>>
        BY <2>11, <3>2, <1>t, <2>t DEF Recheck, Move, Connection
      <4> QED BY <4>1, <2>k DEF Exposed, Streaming, Outside
    <3>3. CASE c # q
      BY <2>1, <2>11, <3>3, <1>t DEF Recheck, Move
    <3> QED BY <3>1, <3>2, <3>3
  <2>12. ASSUME NEW c \in Conns, Accept(c) \/ PumpDone(c) \/ CloseExit(c)
         PROVE  Goal
    <3>0. UNCHANGED <<revoke, matched>>
      BY <2>12 DEF Accept, PumpDone, CloseExit
    <3>1. CASE c = q
      <4>1. \E pc \in {"render", "leave", "close"} : /\ conn'[q] = [conn[q] EXCEPT !.pc = pc]
                                                     /\ pc = "render" => conn[q].pc = "accept"
        BY <2>12, <3>1, <1>t DEF Accept, PumpDone, CloseExit, Move
      <4>2. /\ conn'[q].pc \in {"render", "leave", "close"} /\ conn'[q].tok = conn[q].tok
            /\ conn'[q].cause = conn[q].cause /\ (conn'[q].pc = "render" => conn[q].pc = "accept")
        BY <4>1, <2>t DEF Connection
      <4> QED BY <3>0, <4>2, <2>k DEF Exposed, Streaming, Outside
    <3>2. CASE c # q
      BY <2>1, <2>12, <3>0, <3>2, <1>t DEF Accept, PumpDone, CloseExit, Move
    <3> QED BY <3>1, <3>2
  <2>13. ASSUME NEW c \in Conns, RenderSnapshot(c) \/ SendSnapshot(c) \/ PumpEvent(c)
         PROVE  Goal
    <3>0. UNCHANGED <<revoke, matched>>
      BY <2>13 DEF RenderSnapshot, SendSnapshot, PumpEvent
    <3>1. CASE c = q
      <4>1. conn[q].pc \in {"render", "send", "pump"}
        BY <2>13, <3>1 DEF RenderSnapshot, SendSnapshot, PumpEvent
      <4>2. CASE \E k \in {"internal", "peerGone"}, pc \in {"pump", "close"} :
                    conn'[q] = [Cancelled(conn[q], k) EXCEPT !.pc = pc]
        <5>1. PICK k \in {"internal", "peerGone"}, pc \in {"pump", "close"} :
                     conn'[q] = [Cancelled(conn[q], k) EXCEPT !.pc = pc]
          BY <4>2
        <5>2. Cancelled(conn[q], k) \in Connection /\ Cancelled(conn[q], k).cause # "none"
          BY <2>t, CancelledKeeps DEF Causes
        <5>3. conn'[q].pc = pc /\ conn'[q].cause # "none"
          BY <5>1, <5>2 DEF Connection
        <5> QED BY <5>3, <3>0, <2>k DEF Exposed, Outside
      <4>3. CASE /\ conn'[q].tok = conn[q].tok /\ conn'[q].cause = conn[q].cause
                 /\ conn'[q].pc \in {"send", "pump"}
        BY <4>1, <4>3, <3>0, <2>k DEF Exposed, Streaming, Outside
      <4>4. RenderSnapshot(c) => <4>2!1 \/ <4>3!1
        BY <3>1, <1>t, <2>t DEF RenderSnapshot, Connection
      <4>5. SendSnapshot(c) => <4>2!1 \/ <4>3!1
        BY <3>1, <1>t, <2>t DEF SendSnapshot, Connection
      <4>6. PumpEvent(c) => <4>2!1 \/ <4>3!1
        BY <3>1, <1>t, <2>t DEF PumpEvent, Connection
      <4> QED BY <2>13, <4>2, <4>3, <4>4, <4>5, <4>6
    <3>2. CASE c # q
      BY <2>1, <2>13, <3>0, <3>2, <1>t DEF RenderSnapshot, SendSnapshot, PumpEvent
    <3> QED BY <3>1, <3>2
  <2>14. ASSUME NEW c \in Conns, NEW k \in {"peerGone", "pingFailed"}, PeerGone(c, k)
         PROVE  Goal
    <3>1. conn'[q] = conn[q] \/ conn'[q] = Cancelled(conn[q], k)
      BY <2>14, <1>t DEF PeerGone
    <3> QED BY <3>1, <2>1, <2>c, <2>14, <1>k DEF PeerGone
  <2>15. ASSUME NEW c \in Conns, Leave(c)
         PROVE  Goal
    <3>1. CASE c = q
      <4>1. conn'[q].pc = "idle" /\ \A t \in Tokens : q \notin matched'[t]
        BY <2>15, <3>1, <1>t DEF Leave, End, Forget, Closed
      <4> QED BY <4>1 DEF RevokedAt, MatchedAt, Exposed, Streaming
    <3>2. CASE c # q
      <4>1. conn'[q] = conn[q] /\ revoke' = revoke /\ \A t \in Tokens : q \in matched'[t] <=> q \in matched[t]
        BY <2>15, <3>2, <1>t DEF Leave, End, Forget
      <4> QED BY <4>1, <2>t, <1>t DEF RevokedAt, MatchedAt
    <3> QED BY <3>1, <3>2
  <2> QED
    BY <2>2, <2>3, <2>4, <2>5, <2>6, <2>7, <2>8, <2>9, <2>10, <2>11, <2>12, <2>13, <2>14, <2>15
    DEF Next, vars, HandlerStep, RevokeStep, Write, ShutdownReturns, MintToken
<1>3. \A t \in Tokens : \A c \in matched'[t] : conn'[c].pc \notin Outside
  <2>1. matched' \in [Tokens -> SUBSET Conns]
    BY BaseStep DEF Base
  <2> QED BY <1>2, <2>1 DEF MatchedAt
<1> QED BY <1>1, <1>2, <1>3 DEF Revoking, RevokedAt, Exposed

-----------------------------------------------------------------------------
(* Theorems *)

LEMMA StreamStart == Init => StreamInv
<1> SUFFICES ASSUME Init PROVE StreamInv
  OBVIOUS
<1> USE StreamAssumption
<1>1. Base
  BY ClosedType DEF Init, Base
<1>2. Counted
  BY FS_EmptySet DEF Init, Counted
<1>3. Live
  BY ClosedLive DEF Init, Live
<1>4. Revoking
  BY DEF Init, Revoking, Closed, Streaming
<1> QED BY <1>1, <1>2, <1>3, <1>4 DEF StreamInv

LEMMA StreamAlways == Spec => []StreamInv
<1>1. StreamInv /\ [Next]_vars => StreamInv'
  BY BaseStep, CountedStep, LiveStep, RevokingStep DEF StreamInv
<1> QED BY <1>1, StreamStart, PTL DEF Spec

(***************************************************************************)
(* The hub keeps its types and limits, and its wait group counts its map:  *)
(* a subscriber that Broadcast drops while its handler returns is counted  *)
(* out once, so Shutdown waits for exactly the streams that are left       *)
(* (Hub.subscribe, Hub.unsubscribe, Hub.Shutdown).                         *)
(***************************************************************************)
THEOREM StreamTypeCorrect == Spec => []TypeOK
<1>1. StreamInv => TypeOK
  <2> SUFFICES ASSUME StreamInv PROVE TypeOK
    OBVIOUS
  <2>1. \A c \in Conns : Len(conn[c].ch) <= Buffer
    BY DEF StreamInv, Live, LiveAt
  <2> QED BY <2>1 DEF StreamInv, Base, Counted, TypeOK
<1> QED BY <1>1, StreamAlways, PTL

(***************************************************************************)
(* Once RevokeToken has returned, every stream of the token is cancelled,  *)
(* for any number of streams and wherever their handlers were: the recheck *)
(* after the subscription and CloseToken leave no gap between them         *)
(* (FeedService.RevokeToken, Hub.CloseToken, tokenStillLive).              *)
(***************************************************************************)
THEOREM RevokedStopsAlways == Spec => []RevokedStops
<1>1. StreamInv => RevokedStops
  BY DEF StreamInv, Revoking, RevokedStops
<1> QED BY <1>1, StreamAlways, PTL

(***************************************************************************)
(* A connected consumer that has drained its buffer when every change has  *)
(* been broadcast holds the feed as it is: no event falls between the      *)
(* subscription and the snapshot, and a full buffer never loses one in     *)
(* silence (serveStream, sendSnapshot, Hub.Broadcast).                     *)
(***************************************************************************)
THEOREM InSyncAlways == Spec => []InSync
<1>1. StreamInv => InSync
  <2> SUFFICES ASSUME StreamInv, NEW c \in Conns, conn[c].pc = "pump", conn[c].cause = "none",
                      conn[c].ch = <<>>, c \notin over, sent = written
               PROVE  conn[c].view = written
    BY DEF InSync
  <2>1. LiveAt(c, conn[c], subs, over, sent, written) /\ conn[c] \in Connection
    BY SubsInside
  <2>2. c \in subs /\ conn[c].begun = TRUE
    BY <2>1 DEF LiveAt, Outside
  <2>3. Len(conn[c].ch) = 0 /\ conn[c].got \in Nat /\ conn[c].view \in Nat /\ written \in Nat
    BY <2>1 DEF Connection, StreamInv, Base
  <2>4. conn[c].got + Len(conn[c].ch) = sent /\ conn[c].got <= conn[c].view /\ conn[c].view <= written
    BY <2>1, <2>2 DEF LiveAt
  <2> QED BY <2>3, <2>4
<1> QED BY <1>1, StreamAlways, PTL

-----------------------------------------------------------------------------
(* Refinement *)

\* The consumers' side of the hub's state.
LinkOf == [c \in Conns |-> Link(conn[c])]
PosOf == [c \in Conns |-> Attached(c, conn[c].got)]
ViewOf == [c \in Conns |-> Attached(c, conn[c].view)]

PosAt(s) == IF Link(s) = "off" THEN 0 ELSE s.got
ViewAt(s) == IF Link(s) = "off" THEN 0 ELSE s.view

\* A step that no consumer notices.
Unnoticed == \A c \in Conns : /\ Link(conn'[c]) = Link(conn[c])
                              /\ PosAt(conn'[c]) = PosAt(conn[c])
                              /\ ViewAt(conn'[c]) = ViewAt(conn[c])

LEMMA UnnoticedSame == Unnoticed => UNCHANGED <<LinkOf, PosOf, ViewOf>>
<1> SUFFICES ASSUME Unnoticed PROVE UNCHANGED <<LinkOf, PosOf, ViewOf>>
  OBVIOUS
<1>1. LinkOf' = LinkOf
  BY DEF Unnoticed, LinkOf
<1>2. PosOf' = PosOf
  BY DEF Unnoticed, PosOf, PosAt, Attached
<1>3. ViewOf' = ViewOf
  BY DEF Unnoticed, ViewOf, ViewAt, Attached
<1> QED BY <1>1, <1>2, <1>3

\* What a step of one connection is to its consumer.
LEMMA OneNoticed ==
    ASSUME NEW c \in Conns, NEW s, conn \in [Conns -> Connection], conn' = [conn EXCEPT ![c] = s]
    PROVE  /\ LinkOf' = [LinkOf EXCEPT ![c] = Link(s)]
           /\ PosOf' = [PosOf EXCEPT ![c] = PosAt(s)]
           /\ ViewOf' = [ViewOf EXCEPT ![c] = ViewAt(s)]
           /\ LinkOf[c] = Link(conn[c]) /\ PosOf[c] = PosAt(conn[c]) /\ ViewOf[c] = ViewAt(conn[c])
<1>1. LinkOf' = [LinkOf EXCEPT ![c] = Link(s)]
  BY DEF LinkOf
<1>2. PosOf' = [PosOf EXCEPT ![c] = PosAt(s)]
  BY DEF PosOf, PosAt, Attached
<1>3. ViewOf' = [ViewOf EXCEPT ![c] = ViewAt(s)]
  BY DEF ViewOf, ViewAt, Attached
<1>4. LinkOf[c] = Link(conn[c]) /\ PosOf[c] = PosAt(conn[c]) /\ ViewOf[c] = ViewAt(conn[c])
  BY DEF LinkOf, PosOf, ViewOf, PosAt, ViewAt, Attached
<1> QED BY <1>1, <1>2, <1>3, <1>4

PromiseVars == <<written, sent, LinkOf, PosOf, ViewOf>>

\* Cancelling a context is not noticed until the handler acts on it.
LEMMA CancelUnnoticed ==
    ASSUME NEW s \in Connection, NEW k \in Causes \ {"none"}
    PROVE  Link(Cancelled(s, k)) = Link(s) /\ PosAt(Cancelled(s, k)) = PosAt(s) /\ ViewAt(Cancelled(s, k)) = ViewAt(s)
BY CancelledKeeps DEF Link, PosAt, ViewAt

\* The hub's steps are the promise's Write and Announce, or nothing.
LEMMA HubSimulates ==
    ASSUME StreamInv,
           \/ UNCHANGED vars
           \/ Write \/ Broadcast \/ Shutdown \/ ShutdownReturns
           \/ \E t \in Tokens : MintToken(t) \/ DeleteToken(t) \/ RevokeStep(t)
           \/ \E c \in Conns : \/ DropSlow(c)
                               \/ \E k \in {"peerGone", "pingFailed"} : PeerGone(c, k)
    PROVE  Promise!Next \/ UNCHANGED PromiseVars
<1>t. conn \in [Conns -> Connection] /\ \A c \in Conns : conn[c] \in Connection
  BY DEF StreamInv, Base
<1>k. {"peerGone", "pingFailed", "slowConsumer", "revoked", "shutdown"} \subseteq Causes \ {"none"}
  BY DEF Causes
<1>u. ASSUME Unnoticed PROVE UNCHANGED <<LinkOf, PosOf, ViewOf>>
  BY <1>u, UnnoticedSame
<1>c. ASSUME NEW k \in Causes \ {"none"}, \A c \in Conns : conn'[c] \in {conn[c], Cancelled(conn[c], k)}
      PROVE  UNCHANGED <<LinkOf, PosOf, ViewOf>>
  BY <1>c, <1>t, <1>u, CancelUnnoticed DEF Unnoticed
<1>1. CASE UNCHANGED <<conn, written, sent>>
  BY <1>1, <1>u DEF Unnoticed, PromiseVars
<1>2. CASE Write
  <2>1. UNCHANGED <<LinkOf, PosOf, ViewOf>>
    BY <1>2, <1>u DEF Write, Unnoticed
  <2>2. Promise!Write
    BY <1>2, <2>1 DEF Write, Promise!Write, LinkOf, PosOf, ViewOf
  <2> QED BY <2>2 DEF Promise!Next
<1>3. CASE Broadcast
  <2>1. \A c \in Conns : \/ conn'[c] = conn[c]
                         \/ conn'[c] = [conn[c] EXCEPT !.ch = Append(conn[c].ch, sent + 1)]
    BY <1>3 DEF Broadcast
  <2>2. \A c \in Conns : /\ conn'[c].pc = conn[c].pc /\ conn'[c].begun = conn[c].begun
                         /\ conn'[c].got = conn[c].got /\ conn'[c].view = conn[c].view
    BY <2>1, <1>t DEF Connection
  <2>3. UNCHANGED <<LinkOf, PosOf, ViewOf>>
    BY <2>2, <1>u DEF Unnoticed, Link, PosAt, ViewAt
  <2>4. Promise!Announce
    BY <1>3, <2>3 DEF Broadcast, Promise!Announce, LinkOf, PosOf, ViewOf
  <2> QED BY <2>4 DEF Promise!Next
<1>4. CASE Shutdown
  BY <1>4, <1>c, <1>k DEF Shutdown, PromiseVars
<1>5. ASSUME NEW t \in Tokens, CloseToken(t)
      PROVE  UNCHANGED PromiseVars
  BY <1>5, <1>c, <1>k DEF CloseToken, PromiseVars
<1>6. ASSUME NEW c \in Conns, DropSlow(c)
      PROVE  UNCHANGED PromiseVars
  BY <1>6, <1>c, <1>k, <1>t DEF DropSlow, PromiseVars
<1>7. ASSUME NEW c \in Conns, NEW k \in {"peerGone", "pingFailed"}, PeerGone(c, k)
      PROVE  UNCHANGED PromiseVars
  BY <1>7, <1>c, <1>k, <1>t DEF PeerGone, PromiseVars
<1> QED
  BY <1>1, <1>2, <1>3, <1>4, <1>5, <1>6, <1>7
  DEF vars, ShutdownReturns, MintToken, DeleteToken, RevokeStep, MatchToken

\* A handler's steps are the promise's Attach, Snapshot, Deliver and
\* Detach for its consumer, or nothing.
LEMMA HandlerSimulates ==
    ASSUME StreamInv, NEW c \in Conns, HandlerStep(c) \/ \E t \in Tokens : Authenticate(c, t)
    PROVE  Promise!Next \/ UNCHANGED PromiseVars
<1>0. conn \in [Conns -> Connection] /\ conn[c] \in Connection
  BY DEF StreamInv, Base
<1>l. /\ LiveAt(c, conn[c], subs, over, sent, written)
      /\ sent \in Nat /\ written \in Nat /\ sent <= written
      /\ conn[c].got \in Nat /\ conn[c].ch \in Seq(1..MaxEvents) /\ Len(conn[c].ch) \in Nat
  BY SubsInside
<1> DEFINE Step(s) == conn' = [conn EXCEPT ![c] = s] /\ UNCHANGED <<written, sent>>
<1>n. ASSUME NEW s, Step(s)
      PROVE  /\ LinkOf' = [LinkOf EXCEPT ![c] = Link(s)] /\ PosOf' = [PosOf EXCEPT ![c] = PosAt(s)]
             /\ ViewOf' = [ViewOf EXCEPT ![c] = ViewAt(s)] /\ UNCHANGED <<written, sent>>
             /\ LinkOf[c] = Link(conn[c]) /\ PosOf[c] = PosAt(conn[c]) /\ ViewOf[c] = ViewAt(conn[c])
  BY <1>0, <1>n, OneNoticed
<1>e. ASSUME NEW s, Step(s)
      PROVE  /\ Link(s) = Link(conn[c]) => LinkOf' = LinkOf
             /\ PosAt(s) = PosAt(conn[c]) => PosOf' = PosOf
             /\ ViewAt(s) = ViewAt(conn[c]) => ViewOf' = ViewOf
  <2>1. \A d \in Conns : d # c => conn'[d] = conn[d]
    BY <1>e, <1>0
  <2>2. conn'[c] = s
    BY <1>e, <1>0
  <2>3. Link(s) = Link(conn[c]) => LinkOf' = LinkOf
    BY <2>1, <2>2 DEF LinkOf
  <2>4. PosAt(s) = PosAt(conn[c]) => PosOf' = PosOf
    BY <2>1, <2>2 DEF PosOf, PosAt, Attached
  <2>5. ViewAt(s) = ViewAt(conn[c]) => ViewOf' = ViewOf
    BY <2>1, <2>2 DEF ViewOf, ViewAt, Attached
  <2> QED BY <2>3, <2>4, <2>5
<1>k. ASSUME NEW s, Step(s), Link(s) = Link(conn[c]), PosAt(s) = PosAt(conn[c]), ViewAt(s) = ViewAt(conn[c])
      PROVE  UNCHANGED PromiseVars
  <2>1. LinkOf' = LinkOf /\ PosOf' = PosOf /\ ViewOf' = ViewOf /\ UNCHANGED <<written, sent>>
    BY <1>k, <1>e
  <2> QED BY <2>1 DEF PromiseVars
<1>f. ASSUME NEW s, Step(s), Link(s) = "off", Link(conn[c]) = "off"
      PROVE  UNCHANGED PromiseVars
  BY <1>f, <1>k DEF PosAt, ViewAt
<1>d. ASSUME NEW s, Step(s), Link(s) = "off", Link(conn[c]) # "off"
      PROVE  Promise!Next
  <2>1. PosAt(s) = 0 /\ ViewAt(s) = 0
    BY <1>d DEF PosAt, ViewAt
  <2>2. Promise!Detach(c)
    BY <1>d, <1>n, <2>1 DEF Promise!Detach, LinkOf, PosOf, ViewOf
  <2> QED BY <2>2 DEF Promise!Next
<1>1. ASSUME NEW t \in Tokens, Authenticate(c, t)
      PROVE  UNCHANGED PromiseVars
  <2> DEFINE s == [Closed EXCEPT !.pc = "subscribe", !.tok = t]
  <2>1. s.pc = "subscribe" /\ conn[c].pc = "idle" /\ Step(s)
    BY <1>1 DEF Authenticate, Closed
  <2> HIDE DEF s
  <2>2. Link(s) = "off" /\ Link(conn[c]) = "off"
    BY <2>1 DEF Link
  <2> HIDE DEF Step
  <2> QED BY <2>1, <2>2, <1>f
<1>2. CASE Subscribe(c)
  <2>1. CASE hub = "up" /\ Room
    <3> DEFINE s == [conn[c] EXCEPT !.pc = "recheck", !.got = sent]
    <3>1. Step(s) /\ conn[c].pc = "subscribe"
      BY <1>2, <2>1 DEF Subscribe
    <3>2. s.pc = "recheck" /\ s.got = sent /\ s.view = conn[c].view
      BY <1>0 DEF Connection
    <3>3. conn[c].view = 0
      BY <3>1, <1>l DEF LiveAt, Outside
    <3> HIDE DEF s
    <3>4. Link(s) = "waiting" /\ Link(conn[c]) = "off" /\ PosAt(s) = sent /\ ViewAt(s) = ViewAt(conn[c])
      BY <3>1, <3>2, <3>3 DEF Link, PosAt, ViewAt
    <3>5. Promise!Attach(c)
      <4>1. /\ LinkOf[c] = "off" /\ LinkOf' = [LinkOf EXCEPT ![c] = "waiting"]
            /\ PosOf' = [PosOf EXCEPT ![c] = sent] /\ ViewOf' = ViewOf
        BY <3>1, <3>4, <1>n, <1>e
      <4> QED BY <4>1, <3>1 DEF Promise!Attach, LinkOf, PosOf, ViewOf
    <3> QED BY <3>5 DEF Promise!Next
  <2>2. CASE ~(hub = "up" /\ Room)
    <3>1. Step(Closed) /\ Link(Closed) = "off" /\ Link(conn[c]) = "off"
      BY <1>2, <2>2 DEF Subscribe, End, Link, Closed
    <3> HIDE DEF Step
    <3> QED BY <3>1, <1>f
  <2> QED BY <2>1, <2>2
<1>3. ASSUME NEW pc \in Phases, Step([conn[c] EXCEPT !.pc = pc]),
             \/ pc \in {"leave", "close"}
             \/ pc \in Waiting /\ conn[c].pc \in Waiting
      PROVE  Promise!Next \/ UNCHANGED PromiseVars
  <2> DEFINE s == [conn[c] EXCEPT !.pc = pc]
  <2>1. s.pc = pc /\ s.got = conn[c].got /\ s.view = conn[c].view /\ Step(s)
    BY <1>0, <1>3 DEF Connection
  <2> HIDE DEF s
  <2>2. \/ Link(s) = "off"
        \/ Link(s) = "waiting" /\ Link(conn[c]) = "waiting"
    BY <2>1, <1>3 DEF Link, Waiting
  <2>3. Link(s) = "waiting" /\ Link(conn[c]) = "waiting" => PosAt(s) = PosAt(conn[c]) /\ ViewAt(s) = ViewAt(conn[c])
    BY <2>1 DEF PosAt, ViewAt
  <2> HIDE DEF Step
  <2> QED BY <2>1, <2>2, <2>3, <1>k, <1>f, <1>d
<1>4. CASE Recheck(c) \/ Accept(c) \/ PumpDone(c) \/ CloseExit(c)
  <2> DEFINE To(pc) == Step([conn[c] EXCEPT !.pc = pc])
  <2>0. ASSUME NEW pc, Move(c, pc), UNCHANGED <<written, sent>>
        PROVE  To(pc)
    BY <2>0 DEF Move
  <2>1. Recheck(c) => To("accept") \/ To("leave")
    BY <2>0 DEF Recheck
  <2>2. Accept(c) => To("render") \/ To("leave")
    BY <2>0 DEF Accept
  <2>3. PumpDone(c) => To("close")
    BY <2>0 DEF PumpDone
  <2>4. CloseExit(c) => To("leave")
    BY <2>0 DEF CloseExit
  <2>5. /\ Recheck(c) => conn[c].pc \in Waiting
        /\ Accept(c) => conn[c].pc \in Waiting
    BY DEF Recheck, Accept, Waiting
  <2>6. {"accept", "render", "leave", "close"} \subseteq Phases /\ {"accept", "render"} \subseteq Waiting
    BY DEF Phases, Waiting
  <2> HIDE DEF Step
  <2> QED BY <1>4, <2>1, <2>2, <2>3, <2>4, <2>5, <2>6, <1>3
<1>5. ASSUME NEW k \in Causes \ {"none"}, Step([Cancelled(conn[c], k) EXCEPT !.pc = "close"])
      PROVE  Promise!Next \/ UNCHANGED PromiseVars
  <2> DEFINE s == [Cancelled(conn[c], k) EXCEPT !.pc = "close"]
  <2>1. s.pc = "close" /\ Step(s)
    BY <1>5, <1>0, CancelledKeeps DEF Connection
  <2> HIDE DEF s, Step
  <2>2. Link(s) = "off"
    BY <2>1 DEF Link
  <2> QED BY <2>1, <2>2, <1>f, <1>d
<1>6. CASE RenderSnapshot(c)
  <2>1. CASE Step([conn[c] EXCEPT !.pc = "send", !.snap = written])
    <3> DEFINE s == [conn[c] EXCEPT !.pc = "send", !.snap = written]
    <3>1. s.pc = "send" /\ s.got = conn[c].got /\ s.view = conn[c].view /\ Step(s) /\ conn[c].pc = "render"
      BY <1>0, <2>1, <1>6 DEF Connection, RenderSnapshot
    <3> HIDE DEF s, Step
    <3>2. Link(s) = Link(conn[c]) /\ PosAt(s) = PosAt(conn[c]) /\ ViewAt(s) = ViewAt(conn[c])
      BY <3>1 DEF Link, PosAt, ViewAt
    <3> QED BY <3>1, <3>2, <1>k
  <2>2. CASE Step([Cancelled(conn[c], "internal") EXCEPT !.pc = "pump"])
    <3> DEFINE s == [Cancelled(conn[c], "internal") EXCEPT !.pc = "pump"]
    <3>0. "internal" \in Causes
      BY DEF Causes
    <3>1. /\ s.pc = "pump" /\ s.got = conn[c].got /\ s.view = conn[c].view /\ s.begun = conn[c].begun
          /\ Step(s) /\ conn[c].pc = "render"
      BY <1>0, <2>2, <1>6, <3>0, CancelledKeeps DEF Connection, RenderSnapshot
    <3>2. conn[c].begun = FALSE
      BY <3>1, <1>l DEF LiveAt, Waiting
    <3> HIDE DEF s
    <3> HIDE DEF Step
    <3>3. Link(s) = "off" /\ Link(conn[c]) = "waiting"
      BY <3>1, <3>2 DEF Link
    <3> QED BY <3>1, <3>3, <1>d
  <2> QED BY <1>6, <2>1, <2>2 DEF RenderSnapshot
<1>7. CASE SendSnapshot(c)
  <2>1. CASE Step([conn[c] EXCEPT !.pc = "pump", !.view = conn[c].snap, !.begun = TRUE])
    <3> DEFINE s == [conn[c] EXCEPT !.pc = "pump", !.view = conn[c].snap, !.begun = TRUE]
    <3>1. /\ s.pc = "pump" /\ s.got = conn[c].got /\ s.view = conn[c].snap /\ s.begun = TRUE
          /\ Step(s) /\ conn[c].pc = "send"
      BY <1>0, <2>1, <1>7 DEF Connection, SendSnapshot
    <3>2. conn[c].snap \in conn[c].got..written
      BY <3>1, <1>0, <1>l DEF LiveAt, Connection
    <3> HIDE DEF s
    <3>3. /\ Link(s) = "synced" /\ Link(conn[c]) = "waiting" /\ PosAt(conn[c]) = conn[c].got
          /\ PosAt(s) = PosAt(conn[c]) /\ ViewAt(s) = conn[c].snap
      BY <3>1 DEF Link, PosAt, ViewAt
    <3>4. Promise!Snapshot(c)
      <4>1. ViewOf' = [ViewOf EXCEPT ![c] = conn[c].snap] /\ conn[c].snap \in PosOf[c]..written
        BY <3>1, <3>2, <3>3, <1>n
      <4>2. LinkOf[c] = "waiting" /\ LinkOf' = [LinkOf EXCEPT ![c] = "synced"]
        <5>1. LinkOf' = [LinkOf EXCEPT ![c] = Link(s)] /\ LinkOf[c] = Link(conn[c])
          BY <3>1, <1>n
        <5> QED BY <5>1, <3>3
      <4>3. PosOf' = PosOf
        BY <3>1, <3>3, <1>e
      <4> QED BY <4>1, <4>2, <4>3, <3>1 DEF Promise!Snapshot, LinkOf, PosOf, ViewOf
    <3> QED BY <3>4 DEF Promise!Next
  <2>2. CASE Step([Cancelled(conn[c], "peerGone") EXCEPT !.pc = "close"])
    <3>1. "peerGone" \in Causes \ {"none"}
      BY DEF Causes
    <3> HIDE DEF Step
    <3> QED BY <2>2, <3>1, <1>5
  <2> QED BY <1>7, <2>1, <2>2 DEF SendSnapshot
<1>8. CASE PumpEvent(c)
  <2>1. CASE Step([conn[c] EXCEPT !.ch = Tail(conn[c].ch), !.got = Head(conn[c].ch), !.view = Head(conn[c].ch)])
    <3> DEFINE h == Head(conn[c].ch)
               s == [conn[c] EXCEPT !.ch = Tail(conn[c].ch), !.got = h, !.view = h]
    <3>1. /\ s.pc = "pump" /\ s.got = h /\ s.view = h /\ s.begun = conn[c].begun
          /\ Step(s) /\ conn[c].pc = "pump"
      BY <1>0, <2>1, <1>8 DEF Connection, PumpEvent
    <3>2. h = conn[c].got + 1 /\ conn[c].got < sent
      <4>1. conn[c].ch # <<>> /\ (\A k \in 1..Len(conn[c].ch) : conn[c].ch[k] = conn[c].got + k)
            /\ conn[c].got + Len(conn[c].ch) <= sent
        BY <1>8, <1>l DEF PumpEvent, LiveAt
      <4>2. h = conn[c].got + 1 /\ Len(conn[c].ch) >= 1
        BY <4>1, <1>l, PopRun, PopType
      <4> QED BY <4>1, <4>2, <1>l
    <3> HIDE DEF s, h
    <3>3. CASE conn[c].begun
      <4>0. /\ Link(s) = Link(conn[c]) /\ Link(conn[c]) = "synced"
            /\ PosAt(conn[c]) = conn[c].got /\ PosAt(s) = conn[c].got + 1 /\ ViewAt(s) = conn[c].got + 1
        BY <3>1, <3>2, <3>3 DEF Link, PosAt, ViewAt
      <4>1. LinkOf[c] = "synced" /\ LinkOf' = LinkOf /\ PosOf[c] < sent
        BY <3>1, <3>2, <4>0, <1>n, <1>e
      <4>2. PosOf' = [PosOf EXCEPT ![c] = PosOf[c] + 1] /\ ViewOf' = [ViewOf EXCEPT ![c] = PosOf[c] + 1]
        BY <3>1, <4>0, <1>n
      <4>3. Promise!Deliver(c)
        BY <4>1, <4>2, <3>1 DEF Promise!Deliver, LinkOf, PosOf, ViewOf
      <4> QED BY <4>3 DEF Promise!Next
    <3>4. CASE ~conn[c].begun
      <4>1. Link(s) = "off" /\ Link(conn[c]) = "off"
        BY <3>1, <3>4 DEF Link
      <4> HIDE DEF Step
      <4> QED BY <3>1, <4>1, <1>f
    <3> QED BY <3>3, <3>4
  <2>2. CASE Step([Cancelled(conn[c], "peerGone") EXCEPT !.pc = "close"])
    <3>1. "peerGone" \in Causes \ {"none"}
      BY DEF Causes
    <3> HIDE DEF Step
    <3> QED BY <2>2, <3>1, <1>5
  <2> QED BY <1>8, <2>1, <2>2 DEF PumpEvent
<1>9. CASE Leave(c)
  <2>1. Step(Closed) /\ Link(Closed) = "off" /\ Link(conn[c]) = "off"
    BY <1>9 DEF Leave, End, Link, Closed
  <2> HIDE DEF Step
  <2> QED BY <2>1, <1>f
<1> QED BY <1>1, <1>2, <1>4, <1>6, <1>7, <1>8, <1>9 DEF HandlerStep

(***************************************************************************)
(* To every consumer whose snapshot can be rendered the hub keeps the      *)
(* promise of docs/feed.md, step by step and for any number of consumers:  *)
(* a snapshot no older than the subscription, then every later event, once *)
(* and in order, until the connection ends (serveStream, sendSnapshot,     *)
(* pump, Hub.Broadcast).                                                   *)
(***************************************************************************)
THEOREM StreamImplementsPromise == Spec => ImplementsPromise
<1>1. Init => Promise!Init
  <2> SUFFICES ASSUME Init PROVE Promise!Init
    OBVIOUS
  <2>1. \A c \in Conns : Link(conn[c]) = "off"
    BY DEF Init, Closed, Link
  <2> QED BY <2>1 DEF Init, Promise!Init, Attached
<1>2. StreamInv /\ [Next]_vars => [Promise!Next]_(Promise!pvars)
  <2> SUFFICES ASSUME StreamInv, [Next]_vars PROVE Promise!Next \/ UNCHANGED PromiseVars
    BY DEF Promise!pvars, PromiseVars, LinkOf, PosOf, ViewOf
  <2> QED BY HubSimulates, HandlerSimulates DEF Next
<1> QED BY <1>1, <1>2, StreamAlways, PTL DEF Spec, ImplementsPromise, Promise!Spec
=============================================================================
