----------------------------- MODULE StreamHub -----------------------------
(***************************************************************************)
(* The live feed stream (internal/server/feed) and the tokens that open    *)
(* it (service.FeedService).  A connection is a handler goroutine with a   *)
(* bounded buffer in the hub's map; Broadcast fills buffers under the      *)
(* hub's mutex and acts on full ones after releasing it; a token's         *)
(* revocation, a slow consumer, a failed ping, a vanished peer and the     *)
(* server's shutdown all end a connection by cancelling its context, and   *)
(* the first cause stands.                                                 *)
(*                                                                         *)
(* The feed is its version: change k is announced by event k, in order     *)
(* (how events relate to writes is DeviceFeed's subject).                  *)
(***************************************************************************)
EXTENDS Integers, Sequences, FiniteSets

CONSTANTS
    Conns,       \* connection slots: a consumer comes back in the same slot
    Tokens,      \* feed tokens; ids are random, never used twice
    MaxStreams,  \* maxStreamConns
    Buffer,      \* streamBuffer
    MaxEvents,   \* bound on changes
    MaxFaults    \* bound on failing statements, writes, pings and vanished peers

ASSUME StreamAssumption ==
    /\ Tokens # {}
    /\ MaxStreams \in Nat \ {0} /\ Buffer \in Nat \ {0}
    /\ MaxEvents \in Nat /\ MaxFaults \in Nat

VARIABLES
    written,  \* the feed as the database has it
    sent,     \* events broadcast
    tokens,   \* feed_tokens: "unborn", "live" or "gone"
    revoke,   \* per token, how far RevokeToken has come
    matched,  \* CloseToken's local: subscribers found under the mutex
    subs,     \* Hub.subs
    wg,       \* Hub.wg
    over,     \* Broadcast's local: subscribers whose buffer was full
    hub,      \* "up", "draining" (Shutdown waits), "down"
    conn,     \* the connections
    faults

vars == <<written, sent, tokens, revoke, matched, subs, wg, over, hub, conn, faults>>

Causes == {"none", "peerGone", "pingFailed", "internal", "slowConsumer", "revoked", "shutdown"}

(***************************************************************************)
(* A connection: tok authenticated it, ch is its buffer, cause its         *)
(* context's; got is the last event it has been given, snap the snapshot   *)
(* it is about to send, view the change whose state its consumer holds,    *)
(* and begun whether the snapshot has gone out.                            *)
(***************************************************************************)
Phases == {"idle", "subscribe", "recheck", "accept", "render", "send", "pump", "close", "leave"}
Connection == [pc : Phases, tok : Tokens, ch : Seq(1..MaxEvents), cause : Causes,
               got : 0..MaxEvents, snap : 0..MaxEvents, view : 0..MaxEvents,
               begun : BOOLEAN]
Closed == [pc |-> "idle", tok |-> CHOOSE t \in Tokens : TRUE, ch |-> <<>>, cause |-> "none",
           got |-> 0, snap |-> 0, view |-> 0, begun |-> FALSE]

(***************************************************************************)
(* Types and limits; and the wait group counts the map: every subscriber   *)
(* leaves it once, whether Broadcast drops it, its handler returns, or     *)
(* both, so that Shutdown neither hangs nor returns early.                 *)
(***************************************************************************)
TypeOK ==
    /\ written \in 0..MaxEvents /\ sent \in 0..written
    /\ tokens \in [Tokens -> {"unborn", "live", "gone"}]
    /\ revoke \in [Tokens -> {"none", "match", "cancel", "done"}]
    /\ matched \in [Tokens -> SUBSET Conns]
    /\ subs \subseteq Conns /\ over \subseteq Conns
    /\ Cardinality(subs) <= MaxStreams
    /\ wg = Cardinality(subs)
    /\ hub \in {"up", "draining", "down"}
    /\ conn \in [Conns -> Connection]
    /\ \A c \in Conns : Len(conn[c].ch) <= Buffer
    /\ faults \in 0..MaxFaults

-----------------------------------------------------------------------------
(* The hub *)

\* context.CancelCauseFunc: the first cause stands.
Cancelled(s, cause) == IF s.cause = "none" THEN [s EXCEPT !.cause = cause] ELSE s

\* Mutated form of Release: the slot is given up without sync.Once.
ReleaseAgain(c) ==
    /\ subs' = subs \ {c}
    /\ wg' = wg - 1

\* Hub.unsubscribe: at most once for a subscriber.
Release(c) ==
    /\ subs' = subs \ {c}
    /\ wg' = IF c \in subs THEN wg - 1 ELSE wg

\* An operation that may go wrong, while the bound lasts.
Goes(ok) ==
    /\ ok \/ faults < MaxFaults
    /\ faults' = IF ok THEN faults ELSE faults + 1

\* A device's addresses or its membership change.
Write ==
    /\ written < MaxEvents
    /\ written' = written + 1
    /\ UNCHANGED <<sent, tokens, revoke, matched, subs, wg, over, hub, conn, faults>>

\* Mutated form of Overflowing: a full buffer just loses the event.
OverflowingLost == {}

Overflowing == {c \in subs : Len(conn[c].ch) = Buffer}

\* Hub.Broadcast under the mutex.  fanout's own mutex admits one at a time.
Broadcast ==
    /\ sent < written /\ over = {}
    /\ sent' = sent + 1
    /\ over' = Overflowing
    /\ conn' = [c \in Conns |-> IF c \in subs /\ Len(conn[c].ch) < Buffer
                                  THEN [conn[c] EXCEPT !.ch = Append(@, sent + 1)]
                                  ELSE conn[c]]
    /\ UNCHANGED <<written, tokens, revoke, matched, subs, wg, hub, faults>>

\* Hub.Broadcast after it: one of the subscribers that were full.
DropSlow(c) ==
    /\ c \in over
    /\ over' = over \ {c}
    /\ conn' = [conn EXCEPT ![c] = Cancelled(@, "slowConsumer")]
    /\ Release(c)
    /\ UNCHANGED <<written, sent, tokens, revoke, matched, hub, faults>>

\* Mutated form of Shutdown: the subscribers' contexts are not its children.
ShutdownOrphans ==
    /\ hub = "up"
    /\ hub' = "draining"
    /\ UNCHANGED <<written, sent, tokens, revoke, matched, subs, wg, over, conn, faults>>

\* Hub.Shutdown cancels the hub's context, which every subscriber's inherits.
Shutdown ==
    /\ hub = "up"
    /\ hub' = "draining"
    /\ conn' = [c \in Conns |-> IF conn[c].pc \in Phases \ {"idle", "subscribe"}
                                  THEN Cancelled(conn[c], "shutdown") ELSE conn[c]]
    /\ UNCHANGED <<written, sent, tokens, revoke, matched, subs, wg, over, faults>>

\* It returns when every subscriber has left, or when its context expires.
ShutdownReturns ==
    /\ hub = "draining"
    /\ \E ok \in BOOLEAN : (ok => wg = 0) /\ Goes(ok)
    /\ hub' = "down"
    /\ UNCHANGED <<written, sent, tokens, revoke, matched, subs, wg, over, conn>>

-----------------------------------------------------------------------------
(* Tokens *)

\* FeedService.MintToken.
MintToken(t) ==
    /\ tokens[t] = "unborn"
    /\ tokens' = [tokens EXCEPT ![t] = "live"]
    /\ UNCHANGED <<written, sent, revoke, matched, subs, wg, over, hub, conn, faults>>

\* FeedService.RevokeToken: the row first ...
DeleteToken(t) ==
    /\ tokens[t] = "live" /\ revoke[t] = "none"
    /\ tokens' = [tokens EXCEPT ![t] = "gone"]
    /\ revoke' = [revoke EXCEPT ![t] = "match"]
    /\ UNCHANGED <<written, sent, matched, subs, wg, over, hub, conn, faults>>

\* ... then Hub.CloseToken, which finds the subscribers under the mutex ...
MatchToken(t) ==
    /\ revoke[t] = "match"
    /\ matched' = [matched EXCEPT ![t] = {c \in subs : conn[c].tok = t}]
    /\ revoke' = [revoke EXCEPT ![t] = "cancel"]
    /\ UNCHANGED <<written, sent, tokens, subs, wg, over, hub, conn, faults>>

\* ... and cancels them after it.  One that has ended meanwhile is not harmed,
\* even if its slot has a new connection: that is another subscriber.
CloseToken(t) ==
    /\ revoke[t] = "cancel"
    /\ conn' = [c \in Conns |-> IF c \in matched[t] THEN Cancelled(conn[c], "revoked") ELSE conn[c]]
    /\ matched' = [matched EXCEPT ![t] = {}]
    /\ revoke' = [revoke EXCEPT ![t] = "done"]
    /\ UNCHANGED <<written, sent, tokens, subs, wg, over, hub, faults>>

-----------------------------------------------------------------------------
(* A connection *)

Move(c, pc) == conn' = [conn EXCEPT ![c].pc = pc]

\* The handler returns before or after its deferred unsubscribe.
End(c) == conn' = [conn EXCEPT ![c] = Closed]
Forget(c) ==
    /\ over' = over \ {c}
    /\ matched' = [t \in Tokens |-> matched[t] \ {c}]

\* FeedService.Authenticate finds the row.
Known(t) == tokens[t] = "live"

\* TokenMiddleware lets the request in.
Authenticate(c, t) ==
    /\ conn[c].pc = "idle" /\ Known(t)
    /\ conn' = [conn EXCEPT ![c] = [Closed EXCEPT !.pc = "subscribe", !.tok = t]]
    /\ UNCHANGED <<written, sent, tokens, revoke, matched, subs, wg, over, hub, faults>>

Room == Cardinality(subs) < MaxStreams

\* Hub.subscribe, or its two refusals.
Subscribe(c) ==
    /\ conn[c].pc = "subscribe"
    /\ IF hub = "up" /\ Room
         THEN /\ subs' = subs \cup {c}
              /\ wg' = wg + 1
              /\ conn' = [conn EXCEPT ![c].pc = "recheck", ![c].got = sent]
         ELSE End(c) /\ UNCHANGED <<subs, wg>>
    /\ UNCHANGED <<written, sent, tokens, revoke, matched, over, hub, faults>>

\* Mutated form of StillLive: the middleware has just looked.
StillLiveAssumed(t) == TRUE

StillLive(t) == tokens[t] = "live"

\* tokenStillLive, after the subscription.
Recheck(c) ==
    /\ conn[c].pc = "recheck"
    /\ \E ok \in BOOLEAN : Goes(ok) /\ Move(c, IF ok /\ StillLive(conn[c].tok) THEN "accept" ELSE "leave")
    /\ UNCHANGED <<written, sent, tokens, revoke, matched, subs, wg, over, hub>>

\* websocket.Accept.
Accept(c) ==
    /\ conn[c].pc = "accept"
    /\ \E ok \in BOOLEAN : Goes(ok) /\ Move(c, IF ok THEN "render" ELSE "leave")
    /\ UNCHANGED <<written, sent, tokens, revoke, matched, subs, wg, over, hub>>

\* handler.current: ListFeed is one query.  A failure cancels and goes on to the
\* pump, which ends the connection.
RenderSnapshot(c) ==
    /\ conn[c].pc = "render"
    /\ \E ok \in BOOLEAN :
         /\ Goes(ok)
         /\ conn' = [conn EXCEPT ![c] =
                       IF ok THEN [@ EXCEPT !.pc = "send", !.snap = written]
                             ELSE [Cancelled(@, "internal") EXCEPT !.pc = "pump"]]
    /\ UNCHANGED <<written, sent, tokens, revoke, matched, subs, wg, over, hub>>

\* sendSnapshot writes it.
SendSnapshot(c) ==
    /\ conn[c].pc = "send"
    /\ \E ok \in BOOLEAN :
         /\ Goes(ok)
         /\ conn' = [conn EXCEPT ![c] =
                       IF ok THEN [@ EXCEPT !.pc = "pump", !.view = conn[c].snap, !.begun = TRUE]
                             ELSE [Cancelled(@, "peerGone") EXCEPT !.pc = "close"]]
    /\ UNCHANGED <<written, sent, tokens, revoke, matched, subs, wg, over, hub>>

\* pump: select takes either case when both are ready.
PumpEvent(c) ==
    /\ conn[c].pc = "pump" /\ conn[c].ch # <<>>
    /\ \E ok \in BOOLEAN :
         /\ Goes(ok)
         /\ conn' = [conn EXCEPT ![c] =
                       IF ok THEN [@ EXCEPT !.ch = Tail(conn[c].ch), !.got = Head(conn[c].ch),
                                            !.view = Head(conn[c].ch)]
                             ELSE [Cancelled(@, "peerGone") EXCEPT !.pc = "close"]]
    /\ UNCHANGED <<written, sent, tokens, revoke, matched, subs, wg, over, hub>>

\* Mutated form of PumpDone: it watches the hub's context, not its own.
PumpDoneHub(c) ==
    /\ conn[c].pc = "pump" /\ conn[c].cause = "shutdown"
    /\ Move(c, "close")
    /\ UNCHANGED <<written, sent, tokens, revoke, matched, subs, wg, over, hub, faults>>

PumpDone(c) ==
    /\ conn[c].pc = "pump" /\ conn[c].cause # "none"
    /\ Move(c, "close")
    /\ UNCHANGED <<written, sent, tokens, revoke, matched, subs, wg, over, hub, faults>>

\* readLoop and pingLoop, for as long as the socket is open.
PeerGone(c, cause) ==
    /\ conn[c].pc \in {"render", "send", "pump"} /\ conn[c].cause = "none"
    /\ Goes(FALSE)
    /\ conn' = [conn EXCEPT ![c] = Cancelled(@, cause)]
    /\ UNCHANGED <<written, sent, tokens, revoke, matched, subs, wg, over, hub>>

\* closeExit, then the goroutines are waited for.
CloseExit(c) ==
    /\ conn[c].pc = "close"
    /\ Move(c, "leave")
    /\ UNCHANGED <<written, sent, tokens, revoke, matched, subs, wg, over, hub, faults>>

\* serveStream returns: the deferred unsubscribe.
Leave(c) ==
    /\ conn[c].pc = "leave"
    /\ Release(c)
    /\ End(c)
    /\ Forget(c)
    /\ UNCHANGED <<written, sent, tokens, revoke, hub, faults>>

-----------------------------------------------------------------------------
Init ==
    /\ written = 0 /\ sent = 0
    /\ tokens = [t \in Tokens |-> "unborn"]
    /\ revoke = [t \in Tokens |-> "none"]
    /\ matched = [t \in Tokens |-> {}]
    /\ subs = {} /\ wg = 0 /\ over = {}
    /\ hub = "up"
    /\ conn = [c \in Conns |-> Closed]
    /\ faults = 0

\* What a handler does once it has begun, the peer and the arrivals apart.
HandlerStep(c) ==
    \/ Subscribe(c) \/ Recheck(c) \/ Accept(c) \/ RenderSnapshot(c)
    \/ SendSnapshot(c) \/ PumpEvent(c) \/ PumpDone(c) \/ CloseExit(c) \/ Leave(c)

RevokeStep(t) == MatchToken(t) \/ CloseToken(t)

Next ==
    \/ Write \/ Broadcast \/ Shutdown \/ ShutdownReturns
    \/ \E t \in Tokens : MintToken(t) \/ DeleteToken(t) \/ RevokeStep(t)
    \/ \E c \in Conns : \/ DropSlow(c)
                        \/ \E t \in Tokens : Authenticate(c, t)
                        \/ HandlerStep(c)
                        \/ \E k \in {"peerGone", "pingFailed"} : PeerGone(c, k)

Spec == Init /\ [][Next]_vars

(***************************************************************************)
(* Goroutines run on: a handler (every write, ping and close has a         *)
(* timeout), the loop of Broadcast, a revocation.  Consumers, changes and  *)
(* the shutdown come or do not.                                            *)
(***************************************************************************)
FairSpec ==
    /\ Spec
    /\ \A c \in Conns : WF_vars(HandlerStep(c)) /\ WF_vars(DropSlow(c))
    /\ \A t \in Tokens : WF_vars(RevokeStep(t))

-----------------------------------------------------------------------------
(* Properties *)

Streaming == {"accept", "render", "send", "pump"}

(***************************************************************************)
(* Once RevokeToken has returned, no stream of the token lives on          *)
(* uncancelled, wherever its handler was when the row was deleted: the     *)
(* recheck in tokenStillLive sees the deletion, or CloseToken sees the     *)
(* subscriber.                                                             *)
(***************************************************************************)
RevokedStops ==
    \A c \in Conns : revoke[conn[c].tok] = "done" /\ conn[c].pc \in Streaming => conn[c].cause # "none"

(***************************************************************************)
(* A consumer that is connected and has been sent everything holds the     *)
(* feed as it is: nothing falls between its subscription and its snapshot, *)
(* and nothing that overflowed is passed over in silence.                  *)
(***************************************************************************)
InSync ==
    \A c \in Conns :
        conn[c].pc = "pump" /\ conn[c].cause = "none" /\ conn[c].ch = <<>> /\ c \notin over
        /\ sent = written => conn[c].view = written

(***************************************************************************)
(* A stream that is cancelled, for any reason, ends; and once Shutdown has *)
(* begun every subscriber leaves, so that it need not time out.            *)
(***************************************************************************)
CancelledEnds == \A c \in Conns : conn[c].cause # "none" ~> conn[c].pc = "idle"
ShutdownDrains == hub # "up" ~> wg = 0

(***************************************************************************)
(* No event reaches a consumer before its snapshot does (docs/feed.md: the *)
(* first frame is a snapshot, every frame after that one event).           *)
(***************************************************************************)
SnapshotFirst ==
    [][\A c \in Conns : conn[c].pc = "pump" /\ conn'[c].got # conn[c].got => conn[c].begun]_vars

\* How a connection looks to a consumer that goes by the snapshot.  One whose
\* snapshot could not be rendered is being closed (1011): it counts as ended,
\* whatever pump still writes to it, which is what SnapshotFirst is about.
Link(s) ==
    IF s.pc \in {"recheck", "accept", "render", "send"} THEN "waiting"
    ELSE IF s.pc = "pump" /\ s.begun THEN "synced" ELSE "off"

Attached(c, n) == IF Link(conn[c]) = "off" THEN 0 ELSE n

Promise == INSTANCE StreamPromise WITH
    link <- [c \in Conns |-> Link(conn[c])],
    pos  <- [c \in Conns |-> Attached(c, conn[c].got)],
    view <- [c \in Conns |-> Attached(c, conn[c].view)]

(***************************************************************************)
(* To every consumer whose snapshot can be rendered the stream keeps its   *)
(* promise: snapshot, then every later event, once and in order, until the *)
(* connection ends; buffers, drops, tokens and locks are invisible.        *)
(***************************************************************************)
ImplementsPromise == Promise!Spec
=============================================================================
