------------------------------- MODULE Outbox -------------------------------
(***************************************************************************)
(* The webhook outbox: events are fanned out into one delivery row per     *)
(* enabled endpoint (notify.Enqueuer), and one worker goroutine selects    *)
(* the due rows, POSTs each and writes its outcome back (notify.Worker).   *)
(* There is no claim: between the SELECT and the write-back of a row,      *)
(* admins may disable or delete its endpoint, redeliver, test, and the     *)
(* pruner may delete rows.                                                 *)
(*                                                                         *)
(* Events are numbered in the order fanout announced them, and are taken   *)
(* to be of one device; 0 is endpoint.test.  An endpoint's consumer        *)
(* dedupes on the event and lets the last fresh one stand, as              *)
(* docs/notifications.md tells it to.                                      *)
(***************************************************************************)
EXTENDS Integers, FiniteSets

CONSTANTS
    Endpoints,    \* endpoint ids; random, never used twice
    MaxAttempts,  \* notifications.max_attempts
    BatchSize,    \* deliveryBatchSize
    Retain,       \* retention.notification_deliveries_days, in seconds; 0 = off
    Jitter,       \* percentages backoffFor may draw
    Responses,    \* what an attempt can come to (see Classes)
    Clock,        \* the instants, in seconds, at which anything happens
    MaxRows,      \* bound on notification_deliveries.id
    MaxEvents,    \* bound on the events announced
    MaxMishaps    \* bound on failed statements and restarts

(***************************************************************************)
(* Outcomes of one attempt.  "rejected" also stands for the classes        *)
(* blocked, tls and internal, which are retried like it and reach no       *)
(* consumer either; after "unreachable" (a timeout, say) the consumer may  *)
(* or may not have acted.                                                  *)
(***************************************************************************)
Classes == {"delivered", "gone", "rejected", "unreachable"}

ASSUME OutboxAssumption ==
    /\ Endpoints # {}
    /\ MaxAttempts \in 1..16
    /\ BatchSize \in Nat \ {0}
    /\ Retain \in Nat
    /\ Jitter # {} /\ Jitter \subseteq 90..110
    /\ Responses \subseteq Classes
    /\ Clock \subseteq Nat \ {0} /\ IsFiniteSet(Clock) /\ Clock # {}
    /\ MaxRows \in Nat /\ MaxEvents \in Nat /\ MaxMishaps \in Nat

VARIABLES
    now,      \* store.NowUnix()
    ep,       \* notification_endpoints: "unborn", "on", "off" or "gone"
    dl,       \* notification_deliveries by id
    nextRow,  \* its AUTOINCREMENT
    lastEv,   \* the events announced so far are 1..lastEv
    enq,      \* the Enqueue in progress (fanout's mutex admits one)
    wk,       \* the worker
    seen,     \* per endpoint, the events its consumer has acted on
    mishaps   \* statements that failed and restarts, so far

vars == <<now, ep, dl, nextRow, lastEv, enq, wk, seen, mishaps>>

Ids == 1..MaxRows
Events == 0..MaxEvents
Test == 0

Terminal == {"delivered", "failed"}

\* A row; status "none" is a row not (or no longer) in the table, and due 0 is
\* next_attempt_at IS NULL.
Delivery == [ep : Endpoints, ev : Events, attempts : 0..MaxAttempts, due : Nat,
             status : {"none", "pending"} \cup Terminal, created : Nat]
NoRow == [ep |-> CHOOSE e \in Endpoints : TRUE, ev |-> 0, attempts |-> 0, due |-> 0,
          status |-> "none", created |-> 0]

\* store.DueDelivery: a row as the worker selected it.
Due == [id : Ids, ep : Endpoints, ev : Events, attempts : 0..MaxAttempts, due : Nat]

EnqIdle == [ev |-> 0, at |-> 0, todo |-> {}]
NoDue == [id |-> 0, ep |-> NoRow.ep, ev |-> 0, attempts |-> 0, due |-> 0]
WorkerIdle == [pc |-> "idle", batch |-> {}, cur |-> NoDue, class |-> "rejected"]

Rows == {i \in Ids : dl[i].status # "none"}

\* NotificationEndpointRepo.Get and ListEnabled.
Exists(e) == ep[e] \in {"on", "off"}
ListEnabled == {e \in Endpoints : ep[e] = "on"}

\* A statement succeeds or, as long as the bound allows, fails.
Outcome(ok) ==
    /\ ok \/ mishaps < MaxMishaps
    /\ mishaps' = IF ok THEN mishaps ELSE mishaps + 1

-----------------------------------------------------------------------------
(* Inserting rows *)

\* An INSERT; the quota of ids bounds it.
Insert(e, ev, at) ==
    /\ nextRow <= MaxRows
    /\ dl' = [dl EXCEPT ![nextRow] = [ep |-> e, ev |-> ev, attempts |-> 0, due |-> at,
                                      status |-> "pending", created |-> now]]
    /\ nextRow' = nextRow + 1

\* Enqueuer.Enqueue begins: ListEnabled, and the instant its rows will be due.
\* A failed list loses the event for this transport.
StartEnqueue ==
    /\ enq.todo = {}
    /\ lastEv < MaxEvents
    /\ lastEv' = lastEv + 1
    /\ \E ok \in BOOLEAN :
         /\ Outcome(ok)
         /\ enq' = IF ok THEN [ev |-> lastEv + 1, at |-> now,
                               todo |-> ListEnabled]
                   ELSE EnqIdle
    /\ UNCHANGED <<now, ep, dl, nextRow, wk, seen>>

\* One turn of its loop.  An endpoint deleted meanwhile fails the foreign key;
\* that and any other error is logged and the loop goes on.
EnqueueOne(e) ==
    /\ e \in enq.todo
    /\ enq' = IF enq.todo = {e} THEN EnqIdle ELSE [enq EXCEPT !.todo = @ \ {e}]
    /\ \/ ep[e] # "gone" /\ Insert(e, enq.ev, enq.at) /\ UNCHANGED mishaps
       \/ ep[e] = "gone" /\ UNCHANGED <<dl, nextRow, mishaps>>
       \/ Outcome(FALSE) /\ UNCHANGED <<dl, nextRow>>
    /\ UNCHANGED <<now, ep, lastEv, wk, seen>>

\* The predicates of the two conditional INSERTs: a preceding SELECT would let
\* a concurrent disable slip through.
Testable(e) == e \in ListEnabled
Redeliverable(i) == dl[i].status \in Terminal /\ dl[i].ep \in ListEnabled

UserTest(e) ==
    /\ Testable(e)
    /\ Insert(e, Test, now)
    /\ UNCHANGED <<now, ep, lastEv, enq, wk, seen, mishaps>>

\* Mutated form of Redeliver: the row itself is scheduled again.
RedeliverInPlace(i) ==
    /\ dl[i].status # "none" /\ ep[dl[i].ep] = "on"
    /\ dl' = [dl EXCEPT ![i].attempts = 0, ![i].due = now, ![i].status = "pending"]
    /\ UNCHANGED <<now, ep, nextRow, lastEv, enq, wk, seen, mishaps>>

\* NotificationService.Redeliver: a copy of a terminal row of an enabled endpoint.
Redeliver(i) ==
    /\ Redeliverable(i)
    /\ Insert(dl[i].ep, dl[i].ev, now)
    /\ UNCHANGED <<now, ep, lastEv, enq, wk, seen, mishaps>>

-----------------------------------------------------------------------------
(* Endpoints and retention *)

CreateEndpoint(e) ==
    /\ ep[e] = "unborn"
    /\ ep' = [ep EXCEPT ![e] = "on"]
    /\ UNCHANGED <<now, dl, nextRow, lastEv, enq, wk, seen, mishaps>>

SetEnabled(e, want) ==
    /\ Exists(e)
    /\ ep' = [ep EXCEPT ![e] = want]
    /\ UNCHANGED <<now, dl, nextRow, lastEv, enq, wk, seen, mishaps>>

\* The endpoint and, by cascade, its deliveries.
DeleteEndpoint(e) ==
    /\ Exists(e)
    /\ ep' = [ep EXCEPT ![e] = "gone"]
    /\ dl' = [i \in Ids |-> IF dl[i].ep = e THEN NoRow ELSE dl[i]]
    /\ UNCHANGED <<now, nextRow, lastEv, enq, wk, seen, mishaps>>

\* Mutated form of Prunable: age alone.
PrunableByAge == {i \in Rows : Retain > 0 /\ dl[i].created < now - Retain}

\* The WHERE clause of NotificationDeliveryRepo.Prune.
Prunable == {i \in Rows : /\ Retain > 0 /\ dl[i].created < now - Retain
                          /\ dl[i].status \in Terminal}

\* One batch of pruneNotificationDeliveries.
Prune ==
    /\ \E rows \in (SUBSET Prunable) \ {{}} :
         dl' = [i \in Ids |-> IF i \in rows THEN NoRow ELSE dl[i]]
    /\ UNCHANGED <<now, ep, nextRow, lastEv, enq, wk, seen, mishaps>>

-----------------------------------------------------------------------------
(* The worker *)

backoffBase == 15
maxBackoff == 960

\* 1 << exp at index exp + 1, for the exponents that up to 16 attempts reach.
shifted == <<1, 2, 4, 8, 16, 32, 64, 128, 256, 512, 1024, 2048, 4096, 8192, 16384, 32768>>

\* backoffFor, in whole seconds, for the attempt being scheduled (2 or more).
backoffFor(attempt, pct) ==
    LET jittered == (backoffBase * shifted[attempt - 1] * pct) \div 100
    IN IF jittered < maxBackoff THEN jittered ELSE maxBackoff

\* The last instant of Clock stands for all later time.
Horizon == CHOOSE t \in Clock : \A u \in Clock : u <= t
Later(t) == IF t < Horizon THEN t ELSE Horizon

\* Mutated form of DueRows: a row that was attempted is not selected again.
DueRowsFresh == {i \in Rows : /\ dl[i].due # 0 /\ dl[i].due <= now /\ dl[i].attempts = 0
                              /\ ep[dl[i].ep] = "on"}

\* The WHERE clause of DueForAttempt.
DueRows == {i \in Rows : dl[i].due # 0 /\ dl[i].due <= now /\ ep[dl[i].ep] = "on"}

\* A batch: BatchSize due rows (all, if fewer), the oldest due first.
IsBatch(S) ==
    /\ S # {}
    /\ Cardinality(S) <= BatchSize
    /\ S # DueRows => Cardinality(S) = BatchSize
    /\ \A i \in S, j \in DueRows \ S : dl[i].due <= dl[j].due

Selected(i) == [id |-> i, ep |-> dl[i].ep, ev |-> dl[i].ev, attempts |-> dl[i].attempts,
                due |-> dl[i].due]

\* Worker.sweep: DueForAttempt, one query.
SweepQuery ==
    /\ wk.pc = "idle"
    /\ \E S \in SUBSET DueRows :
         /\ IsBatch(S)
         /\ wk' = [WorkerIdle EXCEPT !.pc = "next", !.batch = {Selected(i) : i \in S}]
    /\ UNCHANGED <<now, ep, dl, nextRow, lastEv, enq, seen, mishaps>>

\* The endpoint has acted on the event; a duplicate changes nothing there.
Consume(e, ev) == seen' = [seen EXCEPT ![e] = @ \cup {ev}]

Reaches(class) ==
    CASE class = "delivered" -> {TRUE}
      [] class = "unreachable" -> {TRUE, FALSE}
      [] OTHER -> {FALSE}

\* Worker.attempt of the next row of the batch.  Nothing of the database is
\* looked at again.
Attempt ==
    /\ wk.pc = "next"
    /\ \E d \in wk.batch, class \in Responses :
         /\ \A o \in wk.batch : d.due <= o.due
         /\ wk' = [wk EXCEPT !.pc = "writeback", !.batch = @ \ {d}, !.cur = d, !.class = class]
         /\ \E reached \in Reaches(class) :
              IF reached THEN Consume(d.ep, d.ev) ELSE UNCHANGED seen
    /\ UNCHANGED <<now, ep, dl, nextRow, lastEv, enq, mishaps>>

\* endpoint.test is a one-shot probe.
Limit(ev) == IF ev = Test THEN 1 ELSE MaxAttempts

\* Mutated form of AfterAttempt: one attempt too many.
AfterAttemptOffByOne(row, d, class, due) ==
    LET attempts == d.attempts + 1 IN
    IF class = "delivered"
      THEN [row EXCEPT !.attempts = attempts, !.status = "delivered", !.due = 0]
    ELSE IF class = "gone" \/ attempts > Limit(d.ev)
      THEN [row EXCEPT !.attempts = attempts, !.status = "failed", !.due = 0]
      ELSE [row EXCEPT !.attempts = attempts, !.status = "pending", !.due = due]

\* Mutated form of AfterAttempt: no answer in time counts as a delivery.
AfterAttemptTimeout(row, d, class, due) ==
    LET attempts == d.attempts + 1 IN
    IF class \in {"delivered", "unreachable"}
      THEN [row EXCEPT !.attempts = attempts, !.status = "delivered", !.due = 0]
    ELSE IF class = "gone" \/ attempts >= Limit(d.ev)
      THEN [row EXCEPT !.attempts = attempts, !.status = "failed", !.due = 0]
      ELSE [row EXCEPT !.attempts = attempts, !.status = "pending", !.due = due]

\* The row deliverOne writes back after an attempt that came to class; due is
\* the retry, if one is scheduled.
AfterAttempt(row, d, class, due) ==
    LET attempts == d.attempts + 1 IN
    IF class = "delivered"
      THEN [row EXCEPT !.attempts = attempts, !.status = "delivered", !.due = 0]
    ELSE IF class = "gone" \/ attempts >= Limit(d.ev)
      THEN [row EXCEPT !.attempts = attempts, !.status = "failed", !.due = 0]
      ELSE [row EXCEPT !.attempts = attempts, !.status = "pending", !.due = due]

\* UpdateAfterAttempt, by id alone: a row deleted meanwhile is left deleted, and
\* a failed write leaves the row as selected.
WriteBack ==
    LET d == wk.cur IN
    /\ wk.pc = "writeback"
    /\ \E ok \in BOOLEAN, pct \in Jitter :
         /\ Outcome(ok)
         /\ dl' = IF ok /\ dl[d.id].status # "none"
                    THEN [dl EXCEPT ![d.id] =
                            AfterAttempt(@, d, wk.class,
                                         Later(now + backoffFor(d.attempts + 2, pct)))]
                    ELSE dl
    /\ wk' = IF wk.batch = {} THEN WorkerIdle
             ELSE [WorkerIdle EXCEPT !.pc = "next", !.batch = wk.batch]
    /\ UNCHANGED <<now, ep, nextRow, lastEv, enq, seen>>

-----------------------------------------------------------------------------
Tick ==
    /\ \E t \in Clock : /\ t > now
                        /\ \A u \in Clock : u > now => t <= u
                        /\ now' = t
    /\ UNCHANGED <<ep, dl, nextRow, lastEv, enq, wk, seen, mishaps>>

\* Shutdown (a cancelled attempt is not written back) or a crash, and a restart.
Crash ==
    /\ enq.todo # {} \/ wk.pc # "idle"
    /\ Outcome(FALSE)
    /\ enq' = EnqIdle
    /\ wk' = WorkerIdle
    /\ UNCHANGED <<now, ep, dl, nextRow, lastEv, seen>>

Init ==
    /\ now \in Clock /\ \A t \in Clock : now <= t
    /\ ep = [e \in Endpoints |-> "unborn"]
    /\ dl = [i \in Ids |-> NoRow]
    /\ nextRow = 1
    /\ lastEv = 0
    /\ enq = EnqIdle
    /\ wk = WorkerIdle
    /\ seen = [e \in Endpoints |-> {}]
    /\ mishaps = 0

WorkerStep == SweepQuery \/ Attempt \/ WriteBack

Next ==
    \/ StartEnqueue
    \/ \E e \in Endpoints : \/ EnqueueOne(e) \/ UserTest(e)
                            \/ CreateEndpoint(e) \/ DeleteEndpoint(e)
                            \/ \E want \in {"on", "off"} : SetEnabled(e, want)
    \/ \E i \in Ids : Redeliver(i)
    \/ Prune
    \/ WorkerStep
    \/ Tick
    \/ Crash

Spec == Init /\ [][Next]_vars

(***************************************************************************)
(* The ticker of Worker.Run keeps starting the sweep, a sweep runs on (an  *)
(* attempt has a timeout), and time passes; nothing else must happen.  The *)
(* mishaps are finitely many: a database that rejects every write-back     *)
(* settles nothing.                                                        *)
(***************************************************************************)
FairSpec == Spec /\ WF_vars(WorkerStep) /\ WF_vars(Tick)

-----------------------------------------------------------------------------
(* Properties *)

(***************************************************************************)
(* Types; and a row is owed further attempts (pending, with an instant)    *)
(* exactly while attempts remain: an endpoint.test is never retried.       *)
(***************************************************************************)
TypeOK ==
    /\ now \in Clock
    /\ ep \in [Endpoints -> {"unborn", "on", "off", "gone"}]
    /\ dl \in [Ids -> Delivery]
    /\ nextRow \in 1..(MaxRows + 1)
    /\ lastEv \in Events
    /\ enq \in [ev : Events, at : Nat, todo : SUBSET Endpoints]
    /\ wk \in [pc : {"idle", "next", "writeback"}, batch : SUBSET Due,
               cur : Due \cup {NoDue}, class : Classes]
    /\ seen \in [Endpoints -> SUBSET Events]
    /\ mishaps \in 0..MaxMishaps
    /\ \A i \in Rows : /\ dl[i].status = "pending" <=> dl[i].due # 0
                       /\ dl[i].status = "pending" => dl[i].attempts < Limit(dl[i].ev)
                       /\ dl[i].attempts <= Limit(dl[i].ev)

InHand == wk.batch \cup (IF wk.pc = "writeback" THEN {wk.cur} ELSE {})

(***************************************************************************)
(* The argument for having no claim (Worker.sweep): every row the worker   *)
(* has in hand is in the table just as it was selected, unless its         *)
(* endpoint was deleted, so writing back attempts + 1 by id is right.      *)
(***************************************************************************)
BatchCurrent ==
    \A d \in InHand :
        \/ ep[d.ep] = "gone" /\ dl[d.id].status = "none"
        \/ dl[d.id].status = "pending" /\ Selected(d.id) = d

(***************************************************************************)
(* A row counts as delivered only if the endpoint has acted on its event   *)
(* (deliverOne writes back after the POST), across crashes, failed         *)
(* write-backs and redeliveries.                                           *)
(***************************************************************************)
DeliveredReceived ==
    \A i \in Rows : dl[i].status = "delivered" => dl[i].ev \in seen[dl[i].ep]

(***************************************************************************)
(* Owed work disappears only with its endpoint, however old it is          *)
(* (INVARIANT of NotificationDeliveryRepo.Prune); and a terminal row keeps *)
(* its history until it is pruned (InsertRedelivery copies).               *)
(***************************************************************************)
RowsKept ==
    [][\A i \in Rows :
          /\ (dl[i].status = "pending" /\ dl'[i].status = "none") => ep'[dl[i].ep] = "gone"
          /\ dl[i].status \in Terminal => dl'[i] \in {dl[i], NoRow}]_vars

(***************************************************************************)
(* Every delivery settles: a pending row of an endpoint that stays enabled *)
(* becomes delivered or failed, through retries, backoff and the batch     *)
(* limit.                                                                  *)
(***************************************************************************)
DeliveriesSettle ==
    \A i \in Ids :
        dl[i].status = "pending" ~> (dl[i].status # "pending" \/ ep[dl[i].ep] # "on")
=============================================================================
