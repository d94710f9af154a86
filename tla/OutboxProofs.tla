---------------------------- MODULE OutboxProofs ----------------------------
(***************************************************************************)
(* The outbox needs no claim, for any number of endpoints, rows, events,   *)
(* attempts and any batch size.                                            *)
(*                                                                         *)
(* What the worker holds stays as it was selected because nobody else      *)
(* writes a pending row: inserts take a fresh id (Fresh, HandFresh), the   *)
(* pruner and Redeliver keep to terminal rows, a deleted endpoint takes    *)
(* its rows along for good, and the worker itself writes back only the row *)
(* it has taken out of the batch (Taken).  A row becomes delivered from    *)
(* such a write-back alone, after the POST (Acted).                        *)
(***************************************************************************)
EXTENDS Outbox, FiniteSetTheorems, TLAPS

\* What TypeOK says of one row in the table.
RowOK(r) ==
    r.status # "none" =>
        /\ r.status = "pending" <=> r.due # 0
        /\ r.status = "pending" => r.attempts < Limit(r.ev)
        /\ r.attempts <= Limit(r.ev)

Hand == [pc : {"idle", "next", "writeback"}, batch : SUBSET Due, cur : Due \cup {NoDue}, class : Classes]

Fresh == \A i \in Ids : i >= nextRow => dl[i].status = "none"
HandFresh == \A d \in InHand : d \in Due /\ d.id < nextRow
Taken == wk.pc = "writeback" => wk.cur \notin wk.batch
EnqDue == enq.todo # {} => enq.at # 0
Acted == wk.pc = "writeback" /\ wk.class = "delivered" => wk.cur.ev \in seen[wk.cur.ep]

OutboxInv == /\ TypeOK /\ Fresh /\ HandFresh /\ Taken /\ EnqDue /\ Acted
             /\ BatchCurrent /\ DeliveredReceived

-----------------------------------------------------------------------------
(* Constants and helpers *)

LEMMA ConstTypes ==
    /\ NoRow \in Delivery /\ NoRow.status = "none"
    /\ NoDue \in Due \cup {NoDue} /\ WorkerIdle \in Hand
    /\ EnqIdle \in [ev : Events, at : Nat, todo : SUBSET Endpoints]
    /\ \A ev \in Events : Limit(ev) \in 1..MaxAttempts
    /\ Clock \subseteq Nat \ {0}
<1> USE OutboxAssumption
<1>1. (CHOOSE e \in Endpoints : TRUE) \in Endpoints
  OBVIOUS
<1>2. 0 \in Events /\ 0 \in 0..MaxAttempts
  BY DEF Events
<1>3. NoRow \in Delivery /\ NoRow.status = "none"
  BY <1>1, <1>2 DEF NoRow, Delivery, Terminal
<1>4. WorkerIdle \in Hand
  BY DEF WorkerIdle, Hand, Classes
<1>5. EnqIdle \in [ev : Events, at : Nat, todo : SUBSET Endpoints]
  BY <1>2 DEF EnqIdle
<1>6. \A ev \in Events : Limit(ev) \in 1..MaxAttempts
  BY DEF Limit, Test
<1> QED BY <1>3, <1>4, <1>5, <1>6

\* backoffFor yields whole seconds, at most maxBackoff, however often the row
\* was attempted and whatever the jitter.
LEMMA BackoffType ==
    ASSUME NEW n \in 0..MaxAttempts, n < MaxAttempts, NEW pct \in Jitter
    PROVE  backoffFor(n + 2, pct) \in 0..maxBackoff
<1> USE OutboxAssumption
<1>1. n \in 0..15 /\ n + 2 - 1 = n + 1 /\ pct \in 90..110
  OBVIOUS
<1>2. shifted[n + 1] \in Nat
  BY <1>1 DEF shifted
<1>3. backoffBase * shifted[n + 1] \in Nat
  BY <1>2 DEF backoffBase
<1>4. backoffBase * shifted[n + 1] * pct \in Nat
  BY <1>1, <1>3
<1>5. (backoffBase * shifted[n + 1] * pct) \div 100 \in Nat
  BY <1>4
<1> QED BY <1>1, <1>5 DEF backoffFor, maxBackoff

\* A finite set of instants that is not empty has a last one: a smallest
\* non-empty subset without one would lose its lack of a last element together
\* with any one of its elements.
LEMMA LastInstant ==
    ASSUME NEW S \in SUBSET Nat, IsFiniteSet(S), S # {}
    PROVE  \E t \in S : \A u \in S : u <= t
<1> DEFINE Endless == {T \in SUBSET S : T # {} /\ ~\E t \in T : \A u \in T : u <= t}
<1> SUFFICES ASSUME Endless # {} PROVE FALSE
  OBVIOUS
<1>1. IsWellFoundedOn(StrictSubsetOrdering(S), SUBSET S)
  BY FS_StrictSubsetOrderingWellFounded, FS_FiniteSubsetsOfFinite
<1>2. PICK T \in Endless : \A U \in Endless : <<U, T>> \notin StrictSubsetOrdering(S)
  <2>1. Endless \subseteq SUBSET S
    OBVIOUS
  <2> HIDE DEF Endless
  <2> QED BY <1>1, <2>1, WFMin
<1>3. PICK x \in T : TRUE
  OBVIOUS
<1>4. T \ {x} \notin Endless
  BY <1>2, <1>3 DEF StrictSubsetOrdering
<1>5. CASE T \ {x} = {}
  BY <1>3, <1>5
<1>6. CASE \E m \in T \ {x} : \A u \in T \ {x} : u <= m
  <2> PICK m \in T \ {x} : \A u \in T \ {x} : u <= m
    BY <1>6
  <2>1. CASE x <= m
    BY <2>1, <1>3
  <2>2. CASE m < x
    <3>1. x \in Nat /\ m \in Nat /\ T \subseteq Nat
      BY <1>3
    <3>2. \A u \in T : u <= x
      BY <2>2, <3>1
    <3> QED BY <3>2, <1>3
  <2>3. x \in Nat /\ m \in Nat
    BY <1>3
  <2> QED BY <2>1, <2>2, <2>3
<1> QED BY <1>4, <1>5, <1>6

LEMMA LaterType ==
    ASSUME NEW t \in Nat \ {0}
    PROVE  Later(t) \in Nat \ {0}
<1>1. \E h \in Clock : \A u \in Clock : u <= h
  BY OutboxAssumption, LastInstant
<1>2. Horizon \in Clock
  BY <1>1 DEF Horizon
<1> QED BY <1>2, OutboxAssumption DEF Later

-----------------------------------------------------------------------------
(* The table *)

\* The part of OutboxInv that speaks of the table and of what is in hand.
TableInv ==
    /\ dl \in [Ids -> Delivery] /\ nextRow \in 1..(MaxRows + 1)
    /\ \A i \in Ids : RowOK(dl[i])
    /\ Fresh /\ HandFresh /\ BatchCurrent /\ DeliveredReceived

LEMMA TypeParts ==
    TypeOK <=> /\ now \in Clock
               /\ ep \in [Endpoints -> {"unborn", "on", "off", "gone"}]
               /\ dl \in [Ids -> Delivery] /\ nextRow \in 1..(MaxRows + 1)
               /\ lastEv \in Events
               /\ enq \in [ev : Events, at : Nat, todo : SUBSET Endpoints]
               /\ wk \in Hand
               /\ seen \in [Endpoints -> SUBSET Events]
               /\ mishaps \in 0..MaxMishaps
               /\ \A i \in Ids : RowOK(dl[i])
BY DEF TypeOK, Hand, RowOK, Rows

\* An INSERT takes an id no row in hand has.
LEMMA InsertTable ==
    ASSUME OutboxInv, NEW e \in Endpoints, NEW ev \in Events, NEW at \in Nat \ {0},
           Insert(e, ev, at), UNCHANGED <<ep, wk, seen>>
    PROVE  TableInv'
<1> USE OutboxAssumption
<1> DEFINE r == [ep |-> e, ev |-> ev, attempts |-> 0, due |-> at, status |-> "pending", created |-> now]
<1>t. /\ dl \in [Ids -> Delivery] /\ nextRow \in Ids /\ now \in Nat /\ wk \in Hand
      /\ \A i \in Ids : RowOK(dl[i])
  <2>1. TypeOK /\ nextRow <= MaxRows
    BY DEF OutboxInv, Insert
  <2>2. dl \in [Ids -> Delivery] /\ now \in Clock /\ wk \in Hand /\ \A i \in Ids : RowOK(dl[i])
    BY <2>1, TypeParts
  <2>3. nextRow \in Ids
    BY <2>1, TypeParts DEF Ids
  <2> QED BY <2>2, <2>3, ConstTypes
<1>n. nextRow' = nextRow + 1 /\ MaxRows \in Nat /\ Ids = 1..MaxRows
  BY DEF Insert, Ids
<1>1. r \in Delivery /\ RowOK(r)
  <2>1. Limit(ev) \in 1..MaxAttempts
    BY ConstTypes
  <2>2. r \in Delivery
    BY <1>t DEF Delivery
  <2>3. RowOK(r)
    BY <2>1 DEF RowOK
  <2> QED BY <2>2, <2>3
<1>2. dl' = [dl EXCEPT ![nextRow] = r]
  BY DEF Insert
<1> HIDE DEF r
<1>3. dl' \in [Ids -> Delivery] /\ nextRow' \in 1..(MaxRows + 1) /\ \A i \in Ids : RowOK(dl'[i])
  BY <1>1, <1>2, <1>t, <1>n
<1>4. Fresh'
  BY <1>2, <1>t, <1>n DEF Fresh, OutboxInv
<1>5. HandFresh'
  BY <1>t, <1>n DEF HandFresh, InHand, OutboxInv, Due
<1>6. BatchCurrent'
  <2> SUFFICES ASSUME NEW d \in InHand
               PROVE  \/ ep[d.ep] = "gone" /\ dl'[d.id].status = "none"
                      \/ dl'[d.id].status = "pending" /\ Selected(d.id)' = d
    BY DEF BatchCurrent, InHand
  <2>1. d.id \in Ids /\ d.id # nextRow
    BY <1>t DEF OutboxInv, HandFresh, Due, Ids
  <2>2. dl'[d.id] = dl[d.id]
    BY <2>1, <1>2, <1>t
  <2> QED BY <2>2 DEF OutboxInv, BatchCurrent, Selected
<1>7. DeliveredReceived'
  <2>1. r.status = "pending"
    BY DEF r
  <2> QED BY <2>1, <1>2, <1>t DEF OutboxInv, DeliveredReceived, Rows
<1> QED BY <1>3, <1>4, <1>5, <1>6, <1>7 DEF TableInv

\* Rows of a deleted endpoint, or terminal rows, leave the table.
LEMMA DeleteTable ==
    ASSUME OutboxInv, NEW S \in SUBSET Ids,
           dl' = [i \in Ids |-> IF i \in S THEN NoRow ELSE dl[i]],
           UNCHANGED <<nextRow, wk, seen>>,
           \A e \in Endpoints : ep[e] = "gone" => ep'[e] = "gone",
           \A i \in S : dl[i].status = "pending" => ep'[dl[i].ep] = "gone"
    PROVE  TableInv'
<1> USE OutboxAssumption
<1>t. /\ dl \in [Ids -> Delivery] /\ wk \in Hand /\ nextRow \in 1..(MaxRows + 1)
      /\ \A i \in Ids : RowOK(dl[i])
  BY TypeParts DEF OutboxInv
<1>1. dl' \in [Ids -> Delivery] /\ \A i \in Ids : dl'[i] = dl[i] \/ (i \in S /\ dl'[i].status = "none")
  BY <1>t, ConstTypes
<1>2. \A i \in Ids : RowOK(dl'[i])
  BY <1>1, <1>t DEF RowOK
<1>3. Fresh' /\ HandFresh'
  BY <1>1 DEF Fresh, HandFresh, InHand, OutboxInv
<1>4. BatchCurrent'
  <2> SUFFICES ASSUME NEW d \in InHand
               PROVE  \/ ep'[d.ep] = "gone" /\ dl'[d.id].status = "none"
                      \/ dl'[d.id].status = "pending" /\ Selected(d.id)' = d
    BY DEF BatchCurrent, InHand
  <2>1. d.id \in Ids /\ d.ep \in Endpoints
    BY DEF OutboxInv, HandFresh, Due
  <2>2. CASE ep[d.ep] = "gone" /\ dl[d.id].status = "none"
    BY <2>1, <2>2, <1>1
  <2>3. CASE dl[d.id].status = "pending" /\ Selected(d.id) = d
    <3>1. dl[d.id].ep = d.ep
      BY <2>3 DEF Selected
    <3>2. CASE dl'[d.id] = dl[d.id]
      BY <2>3, <3>2 DEF Selected
    <3>3. CASE d.id \in S /\ dl'[d.id].status = "none"
      BY <2>3, <3>1, <3>3
    <3> QED BY <2>1, <3>2, <3>3, <1>1
  <2> QED BY <2>2, <2>3 DEF OutboxInv, BatchCurrent
<1>5. DeliveredReceived'
  BY <1>1 DEF OutboxInv, DeliveredReceived, Rows
<1> QED BY <1>1, <1>2, <1>3, <1>4, <1>5, <1>t DEF TableInv

\* A write-back finds its row as selected, or deleted, and settles or
\* reschedules that row alone.
LEMMA WriteBackRow ==
    ASSUME OutboxInv, wk.pc = "writeback", dl[wk.cur.id].status # "none", NEW pct \in Jitter
    PROVE  LET d == wk.cur
               r == AfterAttempt(dl[d.id], d, wk.class, Later(now + backoffFor(d.attempts + 2, pct)))
           IN  /\ d \in Due /\ d.id < nextRow /\ dl[d.id].status = "pending" /\ Selected(d.id) = d
               /\ r \in Delivery /\ RowOK(r) /\ r.status # "none"
               /\ r.ep = d.ep /\ r.ev = d.ev
               /\ r.status = "delivered" => wk.class = "delivered"
<1> USE OutboxAssumption
<1> DEFINE d == wk.cur
           row == dl[d.id]
           due == Later(now + backoffFor(d.attempts + 2, pct))
           r == AfterAttempt(row, d, wk.class, due)
<1>1. d \in InHand
  BY DEF InHand
<1>2. /\ d \in Due /\ d.id \in Ids /\ d.id < nextRow /\ row.status = "pending" /\ Selected(d.id) = d
      /\ d.ep \in Endpoints /\ d.ev \in Events
  BY <1>1 DEF OutboxInv, HandFresh, BatchCurrent, Due
<1>3. row.ep = d.ep /\ row.ev = d.ev /\ row.attempts = d.attempts
  BY <1>2 DEF Selected
<1>4. row \in Delivery /\ RowOK(row) /\ now \in Nat \ {0} /\ Limit(d.ev) \in 1..MaxAttempts
  BY <1>2, TypeParts, ConstTypes DEF OutboxInv
<1>5. d.attempts \in 0..MaxAttempts /\ d.attempts < Limit(d.ev)
  BY <1>2, <1>3, <1>4 DEF RowOK, Due
<1>6. due \in Nat \ {0}
  <2>a. d.attempts < MaxAttempts
    BY <1>4, <1>5
  <2>b. backoffFor(d.attempts + 2, pct) \in 0..maxBackoff
    BY <1>5, <2>a, BackoffType
  <2>1. backoffFor(d.attempts + 2, pct) \in Nat
    BY <2>b DEF maxBackoff
  <2>2. now + backoffFor(d.attempts + 2, pct) \in Nat \ {0}
    BY <1>4, <2>1
  <2> QED BY <2>2, LaterType
<1> HIDE DEF due, d, row
<1>7. r.ep = d.ep /\ r.ev = d.ev
  BY <1>3, <1>4 DEF AfterAttempt, Delivery
<1>8. r.status # "none" /\ (r.status = "delivered" => wk.class = "delivered")
  BY <1>4 DEF AfterAttempt, Delivery
<1>9. d.attempts + 1 \in 0..MaxAttempts /\ d.attempts + 1 <= Limit(d.ev)
  BY <1>4, <1>5
<1>10. r \in Delivery
  <2>1. \E st \in {"pending", "delivered", "failed"}, n \in Nat :
          r = [row EXCEPT !.attempts = d.attempts + 1, !.status = st, !.due = n]
    BY <1>6 DEF AfterAttempt
  <2> HIDE DEF r
  <2> QED BY <2>1, <1>4, <1>9 DEF Delivery, Terminal
<1>11. RowOK(r)
  <2>1. r.ev = d.ev /\ r.attempts = d.attempts + 1
    BY <1>7, <1>4 DEF AfterAttempt, Delivery
  <2>2. \/ r.status # "pending" /\ r.due = 0
        \/ r.status = "pending" /\ r.due = due /\ ~(d.attempts + 1 >= Limit(d.ev))
    BY <1>4 DEF AfterAttempt, Delivery
  <2> HIDE DEF r
  <2> QED BY <2>1, <2>2, <1>4, <1>5, <1>6, <1>9 DEF RowOK
<1> QED BY <1>2, <1>7, <1>8, <1>10, <1>11 DEF d, row, due

LEMMA WriteBackTable ==
    ASSUME OutboxInv, WriteBack
    PROVE  TableInv'
<1> USE OutboxAssumption
<1>t. /\ dl \in [Ids -> Delivery] /\ wk \in Hand /\ nextRow \in 1..(MaxRows + 1)
      /\ \A i \in Ids : RowOK(dl[i])
  BY TypeParts DEF OutboxInv
<1>h. InHand' = wk.batch /\ wk.cur \notin wk.batch /\ wk.batch \subseteq InHand
  BY <1>t DEF WriteBack, WorkerIdle, InHand, OutboxInv, Taken, Hand
<1>f. HandFresh'
  BY <1>h DEF WriteBack, HandFresh, OutboxInv
<1>1. CASE dl' = dl
  <2>1. Fresh' /\ BatchCurrent' /\ DeliveredReceived'
    BY <1>1, <1>h DEF WriteBack, OutboxInv, Fresh, BatchCurrent, Selected, DeliveredReceived, Rows
  <2> QED BY <2>1, <1>1, <1>f, <1>t DEF TableInv, WriteBack
<1>2. CASE dl' # dl
  <2> DEFINE d == wk.cur
  <2>1. PICK pct \in Jitter :
          /\ dl[d.id].status # "none"
          /\ dl' = [dl EXCEPT ![d.id] =
                      AfterAttempt(dl[d.id], d, wk.class, Later(now + backoffFor(d.attempts + 2, pct)))]
    BY <1>2 DEF WriteBack
  <2> DEFINE r == AfterAttempt(dl[d.id], d, wk.class, Later(now + backoffFor(d.attempts + 2, pct)))
  <2>2. /\ d \in Due /\ d.id < nextRow /\ dl[d.id].status = "pending" /\ Selected(d.id) = d
        /\ r \in Delivery /\ RowOK(r) /\ r.status # "none"
        /\ r.ep = d.ep /\ r.ev = d.ev /\ (r.status = "delivered" => wk.class = "delivered")
    BY <2>1, WriteBackRow DEF WriteBack
  <2>3. dl' = [dl EXCEPT ![d.id] = r] /\ d.id \in Ids
    BY <2>1, <2>2 DEF Due
  <2> HIDE DEF r
  <2>4. dl' \in [Ids -> Delivery] /\ (\A i \in Ids : RowOK(dl'[i]))
    BY <2>2, <2>3, <1>t
  <2>5. Fresh'
    BY <2>2, <2>3, <1>t DEF WriteBack, OutboxInv, Fresh, Due, Ids
  <2>6. BatchCurrent'
    <3> SUFFICES ASSUME NEW o \in wk.batch
                 PROVE  \/ ep[o.ep] = "gone" /\ dl'[o.id].status = "none"
                        \/ dl'[o.id].status = "pending" /\ Selected(o.id)' = o
      BY <1>h DEF BatchCurrent, WriteBack
    <3>1. \/ ep[o.ep] = "gone" /\ dl[o.id].status = "none"
          \/ dl[o.id].status = "pending" /\ Selected(o.id) = o
      BY <1>h DEF OutboxInv, BatchCurrent
    <3>2. o.id # d.id
      BY <3>1, <2>2, <1>h
    <3>3. dl'[o.id] = dl[o.id]
      BY <3>2, <2>3, <1>t
    <3> QED BY <3>1, <3>3 DEF Selected
  <2>7. DeliveredReceived'
    <3> SUFFICES ASSUME NEW i \in Ids, dl'[i].status = "delivered"
                 PROVE  dl'[i].ev \in seen[dl'[i].ep]
      BY DEF DeliveredReceived, Rows, WriteBack
    <3>1. CASE i = d.id
      BY <3>1, <2>2, <2>3, <1>t DEF OutboxInv, Acted, WriteBack
    <3>2. CASE i # d.id
      BY <3>2, <2>3, <1>t DEF OutboxInv, DeliveredReceived, Rows
    <3> QED BY <3>1, <3>2
  <2> QED BY <2>4, <2>5, <2>6, <2>7, <1>f, <1>t DEF TableInv, WriteBack
<1> QED BY <1>1, <1>2

-----------------------------------------------------------------------------
(* The steps *)

\* Steps that insert, delete or write back no row leave the table as it is;
\* what is in hand afterwards was in hand or has just been selected.
LEMMA SameTable ==
    ASSUME OutboxInv, UNCHANGED <<dl, nextRow>>,
           \A e \in Endpoints : ep[e] = "gone" => ep'[e] = "gone",
           \A e \in Endpoints : seen[e] \subseteq seen'[e],
           InHand' \subseteq InHand \cup {Selected(i) : i \in DueRows}
    PROVE  TableInv'
<1> USE OutboxAssumption
<1>t. /\ dl \in [Ids -> Delivery] /\ nextRow \in 1..(MaxRows + 1) /\ \A i \in Ids : RowOK(dl[i])
  BY TypeParts DEF OutboxInv
<1>r. \A i \in Ids : /\ dl[i].ep \in Endpoints /\ dl[i].ev \in Events /\ dl[i].due \in Nat
                     /\ dl[i].attempts \in 0..MaxAttempts
  BY <1>t DEF Delivery
<1>s. ASSUME NEW i \in DueRows
      PROVE  /\ Selected(i) \in Due /\ i < nextRow /\ i \in Ids
             /\ dl[i].status = "pending" /\ Selected(i).id = i
  <2>1. i \in Ids /\ dl[i].status # "none" /\ dl[i].due # 0
    BY DEF DueRows, Rows
  <2>2. dl[i].status = "pending"
    BY <2>1, <1>t DEF RowOK
  <2>3. i < nextRow
    BY <2>1, <1>t DEF OutboxInv, Fresh, Ids
  <2> QED BY <2>1, <2>2, <2>3, <1>r DEF Selected, Due
<1>1. Fresh' /\ DeliveredReceived'
  BY <1>r DEF OutboxInv, Fresh, DeliveredReceived, Rows
<1>2. HandFresh'
  BY <1>s DEF OutboxInv, HandFresh, Selected
<1>3. BatchCurrent'
  <2> SUFFICES ASSUME NEW d \in InHand'
               PROVE  \/ ep'[d.ep] = "gone" /\ dl[d.id].status = "none"
                      \/ dl[d.id].status = "pending" /\ Selected(d.id) = d
    BY DEF BatchCurrent, Selected
  <2>1. CASE d \in InHand
    <3>1. d.ep \in Endpoints
      BY <2>1 DEF OutboxInv, HandFresh, Due
    <3> QED BY <2>1, <3>1 DEF OutboxInv, BatchCurrent
  <2>2. CASE \E i \in DueRows : d = Selected(i)
    BY <2>2, <1>s
  <2> QED BY <2>1, <2>2
<1> QED BY <1>1, <1>2, <1>3, <1>t DEF TableInv

\* The rest of OutboxInv: the scalars, the enqueue in progress and the worker.
RestInv ==
    /\ now \in Clock
    /\ ep \in [Endpoints -> {"unborn", "on", "off", "gone"}]
    /\ lastEv \in Events
    /\ enq \in [ev : Events, at : Nat, todo : SUBSET Endpoints]
    /\ wk \in Hand
    /\ seen \in [Endpoints -> SUBSET Events]
    /\ mishaps \in 0..MaxMishaps
    /\ Taken /\ EnqDue /\ Acted

LEMMA Parts == OutboxInv <=> TableInv /\ RestInv
BY TypeParts DEF OutboxInv, TableInv, RestInv

LEMMA PartsAfter == TableInv' /\ RestInv' => OutboxInv'
<1> SUFFICES ASSUME TableInv', RestInv' PROVE OutboxInv'
  OBVIOUS
<1>1. \A i \in Rows' : /\ dl'[i].status = "pending" <=> dl'[i].due # 0
                       /\ dl'[i].status = "pending" => dl'[i].attempts < Limit(dl'[i].ev)
                       /\ dl'[i].attempts <= Limit(dl'[i].ev)
  BY DEF TableInv, RowOK, Rows
<1>2. TypeOK'
  BY <1>1 DEF TypeOK, TableInv, RestInv, Hand
<1> QED BY <1>2 DEF OutboxInv, TableInv, RestInv

LEMMA OutcomeType ==
    ASSUME mishaps \in 0..MaxMishaps, NEW ok \in BOOLEAN, Outcome(ok)
    PROVE  mishaps' \in 0..MaxMishaps
BY OutboxAssumption DEF Outcome

LEMMA EnqueueSteps ==
    ASSUME OutboxInv,
           \/ StartEnqueue
           \/ \E e \in Endpoints : EnqueueOne(e) \/ UserTest(e)
           \/ \E i \in Ids : Redeliver(i)
    PROVE  OutboxInv'
<1> USE OutboxAssumption
<1>p. TableInv /\ RestInv
  BY Parts
<1>c. now \in Nat \ {0} /\ EnqIdle.todo = {} /\ 0 \in Events
      /\ EnqIdle \in [ev : Events, at : Nat, todo : SUBSET Endpoints]
  BY <1>p, ConstTypes DEF RestInv, EnqIdle, Events
<1>w. UNCHANGED <<wk, seen>> => Taken' /\ Acted'
  BY <1>p DEF RestInv, Taken, Acted
<1>1. CASE StartEnqueue
  <2>1. TableInv'
    BY <1>1, SameTable DEF StartEnqueue, InHand
  <2>2. lastEv' \in Events /\ lastEv + 1 \in Events
    BY <1>1, <1>p DEF StartEnqueue, RestInv, Events
  <2>3. enq' \in [ev : Events, at : Nat, todo : SUBSET Endpoints] /\ EnqDue'
    BY <1>1, <1>c, <2>2 DEF StartEnqueue, EnqDue, ListEnabled
  <2>4. mishaps' \in 0..MaxMishaps
    BY <1>1, <1>p, OutcomeType DEF StartEnqueue, RestInv
  <2> QED BY <2>1, <2>2, <2>3, <2>4, <1>1, <1>p, <1>w, PartsAfter DEF StartEnqueue, RestInv
<1>2. ASSUME NEW e \in Endpoints, EnqueueOne(e)
      PROVE  OutboxInv'
  <2>1. enq' \in [ev : Events, at : Nat, todo : SUBSET Endpoints] /\ EnqDue'
    BY <1>2, <1>c, <1>p DEF EnqueueOne, EnqDue, RestInv
  <2>2. mishaps' \in 0..MaxMishaps
    BY <1>2, <1>p, OutcomeType DEF EnqueueOne, RestInv
  <2>3. TableInv'
    <3>1. CASE Insert(e, enq.ev, enq.at)
      <4>1. enq.ev \in Events /\ enq.at \in Nat \ {0}
        BY <1>2, <1>p DEF EnqueueOne, RestInv, EnqDue
      <4> QED BY <3>1, <4>1, <1>2, InsertTable DEF EnqueueOne
    <3>2. CASE UNCHANGED <<dl, nextRow>>
      BY <3>2, <1>2, SameTable DEF EnqueueOne, InHand
    <3> QED BY <3>1, <3>2, <1>2 DEF EnqueueOne
  <2> QED BY <2>1, <2>2, <2>3, <1>2, <1>p, <1>w, PartsAfter DEF EnqueueOne, RestInv
<1>3. ASSUME NEW e \in Endpoints, UserTest(e)
      PROVE  OutboxInv'
  <2>1. TableInv'
    BY <1>3, <1>c, InsertTable DEF UserTest, Test
  <2> QED BY <2>1, <1>3, <1>p, <1>w, PartsAfter DEF UserTest, RestInv, EnqDue
<1>4. ASSUME NEW i \in Ids, Redeliver(i)
      PROVE  OutboxInv'
  <2>1. dl[i].ep \in Endpoints /\ dl[i].ev \in Events
    BY <1>p DEF TableInv, Delivery
  <2>2. TableInv'
    BY <2>1, <1>4, <1>c, InsertTable DEF Redeliver
  <2> QED BY <2>2, <1>4, <1>p, <1>w, PartsAfter DEF Redeliver, RestInv, EnqDue
<1> QED BY <1>1, <1>2, <1>3, <1>4

LEMMA AdminSteps ==
    ASSUME OutboxInv,
           \/ \E e \in Endpoints : \/ CreateEndpoint(e) \/ DeleteEndpoint(e)
                                   \/ \E want \in {"on", "off"} : SetEnabled(e, want)
           \/ Prune \/ Tick
    PROVE  OutboxInv'
<1> USE OutboxAssumption
<1>p. TableInv /\ RestInv
  BY Parts
<1>w. UNCHANGED <<wk, seen, enq>> => Taken' /\ Acted' /\ EnqDue'
  BY <1>p DEF RestInv, Taken, Acted, EnqDue
<1>1. ASSUME NEW e \in Endpoints, CreateEndpoint(e) \/ \E want \in {"on", "off"} : SetEnabled(e, want)
      PROVE  OutboxInv'
  <2>1. /\ ep' \in [Endpoints -> {"unborn", "on", "off", "gone"}]
        /\ \A f \in Endpoints : ep[f] = "gone" => ep'[f] = "gone"
    BY <1>1, <1>p DEF CreateEndpoint, SetEnabled, Exists, RestInv
  <2>2. TableInv'
    BY <2>1, <1>1, SameTable DEF CreateEndpoint, SetEnabled, InHand
  <2> QED BY <2>1, <2>2, <1>1, <1>p, <1>w, PartsAfter DEF CreateEndpoint, SetEnabled, RestInv
<1>2. ASSUME NEW e \in Endpoints, DeleteEndpoint(e)
      PROVE  OutboxInv'
  <2>1. /\ ep' \in [Endpoints -> {"unborn", "on", "off", "gone"}] /\ ep'[e] = "gone"
        /\ \A f \in Endpoints : ep[f] = "gone" => ep'[f] = "gone"
    BY <1>2, <1>p DEF DeleteEndpoint, RestInv
  <2>2. TableInv'
    <3> DEFINE S == {i \in Ids : dl[i].ep = e}
    <3>1. dl' = [i \in Ids |-> IF i \in S THEN NoRow ELSE dl[i]]
      BY <1>2 DEF DeleteEndpoint
    <3>2. \A i \in S : ep'[dl[i].ep] = "gone"
      BY <2>1
    <3> QED BY <3>1, <3>2, <2>1, <1>2, DeleteTable DEF DeleteEndpoint
  <2> QED BY <2>1, <2>2, <1>2, <1>p, <1>w, PartsAfter DEF DeleteEndpoint, RestInv
<1>3. CASE Prune
  <2>1. PICK rows \in SUBSET Prunable : dl' = [i \in Ids |-> IF i \in rows THEN NoRow ELSE dl[i]]
    BY <1>3 DEF Prune
  <2>2. rows \subseteq Ids /\ \A i \in rows : dl[i].status # "pending"
    BY DEF Prunable, Rows, Terminal
  <2>3. TableInv'
    BY <2>1, <2>2, <1>3, DeleteTable DEF Prune
  <2> QED BY <2>3, <1>3, <1>p, <1>w, PartsAfter DEF Prune, RestInv
<1>4. CASE Tick
  <2>1. TableInv' /\ now' \in Clock
    BY <1>4, SameTable DEF Tick, InHand
  <2> QED BY <2>1, <1>4, <1>p, <1>w, PartsAfter DEF Tick, RestInv
<1> QED BY <1>1, <1>2, <1>3, <1>4

LEMMA WorkerSteps ==
    ASSUME OutboxInv, WorkerStep \/ Crash
    PROVE  OutboxInv'
<1> USE OutboxAssumption
<1>p. TableInv /\ RestInv
  BY Parts
<1>i. WorkerIdle \in Hand /\ WorkerIdle.pc = "idle" /\ WorkerIdle.batch = {}
  BY ConstTypes DEF WorkerIdle
<1>1. CASE SweepQuery
  <2>1. PICK S \in SUBSET DueRows :
          wk' = [WorkerIdle EXCEPT !.pc = "next", !.batch = {Selected(i) : i \in S}]
    BY <1>1 DEF SweepQuery
  <2>2. wk'.pc = "next" /\ wk'.batch = {Selected(i) : i \in S}
    BY <2>1, <1>i DEF Hand
  <2>3. TableInv'
    BY <2>2, <1>1, SameTable DEF SweepQuery, InHand
  <2>4. wk'.batch \subseteq Due
    BY <2>2, <2>3 DEF TableInv, HandFresh, InHand
  <2>5. wk' \in Hand /\ Taken' /\ Acted'
    BY <2>1, <2>2, <2>4, <1>i DEF Hand, Taken, Acted
  <2> QED BY <2>3, <2>5, <1>1, <1>p, PartsAfter DEF SweepQuery, RestInv, EnqDue
<1>2. CASE Attempt
  <2>1. PICK d \in wk.batch, class \in Responses :
          /\ wk' = [wk EXCEPT !.pc = "writeback", !.batch = @ \ {d}, !.cur = d, !.class = class]
          /\ \E reached \in Reaches(class) : IF reached THEN Consume(d.ep, d.ev) ELSE UNCHANGED seen
    BY <1>2 DEF Attempt
  <2>2. /\ wk'.pc = "writeback" /\ wk'.batch = wk.batch \ {d} /\ wk'.cur = d /\ wk'.class = class
        /\ wk' \in Hand /\ d \in Due /\ d.ep \in Endpoints /\ d.ev \in Events
    BY <2>1, <1>p DEF RestInv, Hand, Due
  <2>3. /\ seen' \in [Endpoints -> SUBSET Events]
        /\ \A e \in Endpoints : seen[e] \subseteq seen'[e]
    BY <2>1, <2>2, <1>p DEF RestInv, Consume
  <2>4. Taken' /\ Acted'
    <3>1. class = "delivered" => Consume(d.ep, d.ev)
      BY <2>1 DEF Reaches
    <3>2. class = "delivered" => d.ev \in seen'[d.ep]
      BY <3>1, <2>2, <1>p DEF Consume, RestInv
    <3> QED BY <3>2, <2>2 DEF Taken, Acted
  <2>5. TableInv'
    BY <2>2, <2>3, <1>2, SameTable DEF Attempt, InHand
  <2> QED BY <2>2, <2>3, <2>4, <2>5, <1>2, <1>p, PartsAfter DEF Attempt, RestInv, EnqDue
<1>3. CASE WriteBack
  <2>1. TableInv'
    BY <1>3, WriteBackTable
  <2>2. wk' \in Hand /\ wk'.pc # "writeback"
    BY <1>3, <1>i, <1>p DEF WriteBack, RestInv, Hand
  <2>3. mishaps' \in 0..MaxMishaps
    BY <1>3, <1>p, OutcomeType DEF WriteBack, RestInv
  <2> QED BY <2>1, <2>2, <2>3, <1>3, <1>p, PartsAfter DEF WriteBack, RestInv, EnqDue, Taken, Acted
<1>4. CASE Crash
  <2>1. wk' = WorkerIdle /\ enq' = EnqIdle
    BY <1>4 DEF Crash
  <2>2. InHand' = {}
    BY <2>1, <1>i DEF InHand
  <2>3. TableInv'
    BY <2>2, <1>4, SameTable DEF Crash
  <2>4. mishaps' \in 0..MaxMishaps
    BY <1>4, <1>p, OutcomeType DEF Crash, RestInv
  <2>5. EnqDue' /\ Taken' /\ Acted' /\ enq' \in [ev : Events, at : Nat, todo : SUBSET Endpoints]
    BY <2>1, <1>i, ConstTypes DEF EnqDue, Taken, Acted, EnqIdle
  <2> QED BY <2>1, <2>3, <2>4, <2>5, <1>4, <1>i, <1>p, PartsAfter DEF Crash, RestInv
<1> QED BY <1>1, <1>2, <1>3, <1>4 DEF WorkerStep

LEMMA OutboxStep == OutboxInv /\ [Next]_vars => OutboxInv'
<1> SUFFICES ASSUME OutboxInv, [Next]_vars PROVE OutboxInv'
  OBVIOUS
<1>1. CASE Next
  BY <1>1, EnqueueSteps, AdminSteps, WorkerSteps DEF Next
<1>2. CASE UNCHANGED vars
  BY <1>2 DEF vars, OutboxInv, TypeOK, Rows, Limit, Fresh, HandFresh, InHand, Taken, EnqDue, Acted,
              BatchCurrent, Selected, DeliveredReceived
<1> QED BY <1>1, <1>2

LEMMA OutboxStart == Init => OutboxInv
<1> SUFFICES ASSUME Init PROVE OutboxInv
  OBVIOUS
<1> USE OutboxAssumption
<1>1. \A i \in Ids : dl[i] = NoRow
  BY DEF Init
<1>2. dl \in [Ids -> Delivery] /\ \A i \in Ids : dl[i].status = "none"
  BY <1>1, ConstTypes DEF Init
<1>3. InHand = {} /\ wk.pc = "idle" /\ enq.todo = {}
  BY DEF Init, WorkerIdle, InHand, EnqIdle
<1>4. TableInv
  BY <1>2, <1>3 DEF Init, TableInv, RowOK, Fresh, HandFresh, BatchCurrent, DeliveredReceived, Rows
<1>5. RestInv
  BY <1>3, ConstTypes DEF Init, RestInv, Events, Taken, EnqDue, Acted
<1> QED BY <1>4, <1>5, Parts

LEMMA OutboxAlways == Spec => []OutboxInv
BY OutboxStart, OutboxStep, PTL DEF Spec

-----------------------------------------------------------------------------
(* Theorems *)

(***************************************************************************)
(* The outbox keeps its types, and a row owes an attempt exactly while one *)
(* is left: whatever the batch size, the jitter and the order of events, a *)
(* row is never attempted more than max_attempts times, an endpoint.test   *)
(* never more than once (deliverOne, UpdateAfterAttempt).                  *)
(***************************************************************************)
THEOREM OutboxTypeCorrect == Spec => []TypeOK
<1>1. OutboxInv => TypeOK
  BY DEF OutboxInv
<1> QED BY <1>1, OutboxAlways, PTL

(***************************************************************************)
(* No claim is needed: what the worker selected is in the table as it was  *)
(* selected when it is written back, or its endpoint is gone, whatever     *)
(* admins, the enqueuer and the pruner do in between (Worker.sweep,        *)
(* UpdateAfterAttempt by id alone).                                        *)
(***************************************************************************)
THEOREM BatchCurrentAlways == Spec => []BatchCurrent
<1>1. OutboxInv => BatchCurrent
  BY DEF OutboxInv
<1> QED BY <1>1, OutboxAlways, PTL

(***************************************************************************)
(* A row marked delivered has reached its endpoint, across crashes between *)
(* the POST and the write-back, failed write-backs, retries and            *)
(* redeliveries (deliverOne).                                              *)
(***************************************************************************)
THEOREM DeliveredReceivedAlways == Spec => []DeliveredReceived
<1>1. OutboxInv => DeliveredReceived
  BY DEF OutboxInv
<1> QED BY <1>1, OutboxAlways, PTL

(***************************************************************************)
(* Owed work is never lost to retention, and a settled row is never        *)
(* rewritten: not by a redelivery, which copies it, and not by a           *)
(* write-back, which only ever meets a pending row                         *)
(* (NotificationDeliveryRepo.Prune, InsertRedelivery, UpdateAfterAttempt). *)
(***************************************************************************)
THEOREM RowsKeptAlways == Spec => RowsKept
<1> DEFINE Kept(i) ==
             /\ (dl[i].status = "pending" /\ dl'[i].status = "none") => ep'[dl[i].ep] = "gone"
             /\ dl[i].status \in Terminal => dl'[i] \in {dl[i], NoRow}
           A == \A i \in Rows : Kept(i)
<1>1. OutboxInv /\ [Next]_vars => [A]_vars
  <2> SUFFICES ASSUME OutboxInv, Next, NEW i \in Ids, dl[i].status # "none"
               PROVE  Kept(i)
    BY DEF Rows
  <2> USE OutboxAssumption
  <2>t. dl \in [Ids -> Delivery] /\ nextRow \in 1..(MaxRows + 1)
    BY TypeParts DEF OutboxInv
  <2>1. CASE dl' = dl
    BY <2>1, <2>t
  <2>2. ASSUME NEW e, NEW ev, NEW at, Insert(e, ev, at)
        PROVE  Kept(i)
    <3>1. i # nextRow
      BY <2>t DEF OutboxInv, Fresh, Ids
    <3>2. dl'[i] = dl[i]
      BY <2>2, <2>t, <3>1 DEF Insert
    <3> QED BY <3>2
  <2>3. ASSUME NEW e \in Endpoints, DeleteEndpoint(e)
        PROVE  Kept(i)
    <3>1. ep \in [Endpoints -> {"unborn", "on", "off", "gone"}]
      BY TypeParts DEF OutboxInv
    <3> QED BY <2>3, <2>t, <3>1 DEF DeleteEndpoint
  <2>4. CASE Prune
    <3>1. dl'[i] = dl[i] \/ (dl[i].status \in Terminal /\ dl'[i] = NoRow)
      BY <2>4, <2>t DEF Prune, Prunable
    <3> QED BY <3>1 DEF Terminal
  <2>5. CASE WriteBack
    <3>1. CASE wk.cur.id # i
      BY <3>1, <2>5, <2>t DEF WriteBack
    <3>2. CASE wk.cur.id = i /\ dl' # dl
      <4>1. PICK pct \in Jitter :
              dl' = [dl EXCEPT ![i] = AfterAttempt(dl[i], wk.cur, wk.class,
                                                   Later(now + backoffFor(wk.cur.attempts + 2, pct)))]
        BY <2>5, <3>2 DEF WriteBack
      <4>2. dl[i].status = "pending" /\ dl'[i].status # "none"
        BY <4>1, <3>2, <2>t, <2>5, WriteBackRow DEF WriteBack
      <4> QED BY <4>2 DEF Terminal
    <3> QED BY <2>1, <3>1, <3>2
  <2> QED
    BY <2>1, <2>2, <2>3, <2>4, <2>5
    DEF Next, StartEnqueue, EnqueueOne, UserTest, CreateEndpoint, SetEnabled, Redeliver, WorkerStep,
        SweepQuery, Attempt, Tick, Crash
<1> QED BY <1>1, OutboxAlways, PTL DEF Spec, RowsKept
=============================================================================
