---------------------------- MODULE EventProofs ----------------------------
(***************************************************************************)
(* The events of DeviceFeed, proved for every instance: no two share a     *)
(* (type, id) pair, and no committed address change goes unaccounted for.  *)
(*                                                                         *)
(* An ip_changed event takes its id from the history row its transaction   *)
(* inserted, long before the fanout mutex lets it be dispatched.  So the   *)
(* argument is about custody: between commit and dispatch an id is in the  *)
(* hands of exactly one handler or of the sweep, and afterwards in the log *)
(* or, if the process died, in lost.                                       *)
(***************************************************************************)
EXTENDS DeviceFeedProofs

\* Whoever can hold an event: the handlers and the sweep.
Sweeper == CHOOSE x : x \notin Procs
Sites == Procs \cup {Sweeper}
Hand(x) == IF x = Sweeper THEN sw.pend ELSE req[x].pend

\* The address changes that x has committed and not yet announced.
Changes(x) == {e \in Hand(x) : e.type = "ip_changed"}
Announced(n) == \E i \in DOMAIN log : log[i].type = "ip_changed" /\ log[i].id = n

\* Events are held only on the way to the fanout.
HeldToAnnounce ==
    /\ \A p \in Procs : req[p].pc # "emit" => req[p].pend = {}
    /\ sw.pc # "announce" => sw.pend = {}
    /\ \A e, f \in sw.pend : e = f

\* An id in the log has been given out, by ip_history or by feed_state.
LogIds ==
    \A i \in DOMAIN log :
        log[i].id \in 1..(IF log[i].type = "ip_changed" THEN nextId - 1 ELSE seq)

\* An id in hand has been given out, is in no other hand, and nowhere else.
InOneHand ==
    \A x \in Sites : \A e \in Changes(x) :
        /\ e.id \in 1..(nextId - 1)
        /\ ~Announced(e.id) /\ e.id \notin lost
        /\ \A y \in Sites : \A f \in Changes(y) : f.id = e.id => x = y /\ e = f

LostIds == \A n \in lost : n \in 1..(nextId - 1) /\ ~Announced(n)

NoneMissing ==
    \A n \in 1..(nextId - 1) :
        Announced(n) \/ n \in lost \/ \E x \in Sites : \E e \in Changes(x) : e.id = n

Custody == LogIds /\ EventIdsUnique /\ InOneHand /\ LostIds /\ NoneMissing
EventInv == TypeOK /\ HeldToAnnounce /\ Custody

-----------------------------------------------------------------------------
(* Hands *)

LEMMA SweeperApart == Sweeper \notin Procs
BY NoSetContainsEverything DEF Sweeper

LEMMA HandsOf ==
    /\ Hand(Sweeper) = sw.pend
    /\ \A p \in Procs : Hand(p) = req[p].pend
BY SweeperApart DEF Hand

LEMMA HandsOfNext ==
    /\ Hand(Sweeper)' = sw'.pend
    /\ \A p \in Procs : Hand(p)' = req'[p].pend
BY SweeperApart DEF Hand

\* What the model calls PendingIds are the ids in hand.
LEMMA PendingInHand == \A n : n \in PendingIds <=> \E x \in Sites : \E e \in Changes(x) : e.id = n
<1> SUFFICES ASSUME NEW n
             PROVE  n \in PendingIds <=> \E x \in Sites : \E e \in Changes(x) : e.id = n
  OBVIOUS
<1>1. n \in PendingIds <=> \E e \in (UNION {req[p].pend : p \in Procs}) \cup sw.pend : e.type = "ip_changed" /\ e.id = n
  BY DEF PendingIds
<1>2. n \in PendingIds <=> \/ \E p \in Procs : \E e \in req[p].pend : e.type = "ip_changed" /\ e.id = n
                           \/ \E e \in sw.pend : e.type = "ip_changed" /\ e.id = n
  BY <1>1
<1> QED BY <1>2, HandsOf DEF Sites, Changes

-----------------------------------------------------------------------------
(* The four things that can happen to an address change *)

\* Nothing.
LEMMA NoChange ==
    ASSUME Custody, \A x \in Sites : Changes(x)' = Changes(x), UNCHANGED <<log, seq, nextId, lost>>
    PROVE  Custody'
<1>1. \A n : Announced(n)' <=> Announced(n)
  BY DEF Announced
<1> QED BY <1>1 DEF Custody, LogIds, EventIdsUnique, InOneHand, LostIds, NoneMissing

\* It is committed: the history row and the event in hand, in one step.
LEMMA Committed ==
    ASSUME TypeOK, Custody, NEW x \in Sites, Changes(x) = {}, NEW e,
           e.id = nextId, Changes(x)' = {e}, \A y \in Sites \ {x} : Changes(y)' = Changes(y),
           nextId' = nextId + 1, UNCHANGED <<log, seq, lost>>
    PROVE  Custody'
<1>0. nextId \in Nat /\ nextId >= 1
  BY DEF TypeOK
<1>1. \A n : Announced(n)' <=> Announced(n)
  BY DEF Announced
<1>2. ~Announced(nextId) /\ nextId \notin lost /\ \A y \in Sites : \A f \in Changes(y) : f.id # nextId
  BY <1>0 DEF Custody, LogIds, Announced, LostIds, InOneHand
<1>3. \A n \in 1..(nextId - 1) : n \in 1..(nextId' - 1)
  BY <1>0
<1>4. nextId \in 1..(nextId' - 1) /\ \A n \in 1..(nextId' - 1) : n = nextId \/ n \in 1..(nextId - 1)
  BY <1>0
<1>5. LogIds'
  BY <1>3 DEF Custody, LogIds
<1>6. EventIdsUnique'
  BY DEF Custody, EventIdsUnique
<1>7. InOneHand'
  <2> SUFFICES ASSUME NEW y \in Sites, NEW f \in Changes(y)'
               PROVE  /\ f.id \in 1..(nextId' - 1) /\ ~Announced(f.id)' /\ f.id \notin lost'
                      /\ \A z \in Sites : \A g \in Changes(z)' : g.id = f.id => y = z /\ f = g
    BY DEF InOneHand
  <2>1. CASE y = x
    BY <2>1, <1>1, <1>2, <1>4
  <2>2. CASE y # x
    <3>1. f \in Changes(y) /\ f.id # nextId
      BY <2>2, <1>2
    <3> QED BY <2>2, <3>1, <1>1, <1>3 DEF Custody, InOneHand
  <2> QED BY <2>1, <2>2
<1>8. LostIds'
  BY <1>1, <1>3 DEF Custody, LostIds
<1>9. NoneMissing'
  <2> SUFFICES ASSUME NEW n \in 1..(nextId' - 1)
               PROVE  Announced(n)' \/ n \in lost' \/ \E y \in Sites : \E f \in Changes(y)' : f.id = n
    BY DEF NoneMissing
  <2>1. CASE n = nextId
    BY <2>1
  <2>2. CASE n \in 1..(nextId - 1)
    BY <2>2, <1>1 DEF Custody, NoneMissing
  <2> QED BY <2>1, <2>2, <1>4
<1> QED BY <1>5, <1>6, <1>7, <1>8, <1>9 DEF Custody

\* It is lost with the process.
LEMMA Destroyed ==
    ASSUME Custody, \A x \in Sites : Changes(x)' = {}, lost' = lost \cup PendingIds,
           UNCHANGED <<log, seq, nextId>>
    PROVE  Custody'
<1>1. \A n : Announced(n)' <=> Announced(n)
  BY DEF Announced
<1>2. \A n : n \in lost' <=> n \in lost \/ \E x \in Sites : \E e \in Changes(x) : e.id = n
  BY PendingInHand
<1>3. LogIds' /\ EventIdsUnique' /\ InOneHand'
  BY DEF Custody, LogIds, EventIdsUnique, InOneHand
<1>4. LostIds'
  BY <1>1, <1>2 DEF Custody, LostIds, InOneHand
<1>5. NoneMissing'
  BY <1>1, <1>2 DEF Custody, NoneMissing
<1> QED BY <1>3, <1>4, <1>5 DEF Custody

\* An event under a new pair joins the log.
LEMMA Logged ==
    ASSUME NEW m \in Event, log \in Seq(Event), log' = Append(log, m),
           EventIdsUnique, \A i \in DOMAIN log : log[i].type # m.type \/ log[i].id # m.id
    PROVE  /\ EventIdsUnique'
           /\ \A i \in DOMAIN log' : log'[i] = m \/ \E j \in DOMAIN log : log'[i] = log[j]
           /\ \A n : Announced(n)' <=> Announced(n) \/ (m.type = "ip_changed" /\ m.id = n)
<1>1. /\ DOMAIN log = 1..Len(log) /\ DOMAIN log' = 1..(Len(log) + 1) /\ Len(log) \in Nat
      /\ log'[Len(log) + 1] = m /\ \A i \in 1..Len(log) : log'[i] = log[i]
  OBVIOUS
<1>2. /\ Len(log) + 1 \in DOMAIN log' /\ \A i \in DOMAIN log : i \in DOMAIN log' /\ i # Len(log) + 1
      /\ \A i \in DOMAIN log' : i = Len(log) + 1 \/ i \in DOMAIN log
  BY <1>1
<1>3. EventIdsUnique'
  <2> SUFFICES ASSUME NEW i \in DOMAIN log', NEW j \in DOMAIN log', i # j
               PROVE  log'[i].type # log'[j].type \/ log'[i].id # log'[j].id
    BY DEF EventIdsUnique
  <2>1. CASE i \in DOMAIN log /\ j \in DOMAIN log
    BY <2>1, <1>1 DEF EventIdsUnique
  <2>2. CASE i = Len(log) + 1 /\ j \in DOMAIN log
    BY <2>2, <1>1
  <2>3. CASE j = Len(log) + 1 /\ i \in DOMAIN log
    BY <2>3, <1>1
  <2> QED BY <2>1, <2>2, <2>3, <1>2
<1>4. \A i \in DOMAIN log' : log'[i] = m \/ \E j \in DOMAIN log : log'[i] = log[j]
  BY <1>1, <1>2
<1>5. \A n : Announced(n)' <=> Announced(n) \/ (m.type = "ip_changed" /\ m.id = n)
  BY <1>1, <1>2 DEF Announced
<1> QED BY <1>3, <1>4, <1>5

\* It is dispatched under its id, whether or not feed_state could be bumped.
LEMMA ChangeDispatched ==
    ASSUME TypeOK, Custody, NEW x \in Sites, NEW e \in Event, e \in Changes(x),
           log' = Append(log, e), seq' \in {seq, seq + 1},
           Changes(x)' = Changes(x) \ {e}, \A y \in Sites \ {x} : Changes(y)' = Changes(y),
           UNCHANGED <<nextId, lost>>
    PROVE  Custody'
<1>0. log \in Seq(Event) /\ seq \in Nat /\ nextId \in Nat /\ e.type = "ip_changed"
  BY DEF TypeOK, Changes
<1>1. /\ e.id \in 1..(nextId - 1) /\ ~Announced(e.id) /\ e.id \notin lost
      /\ \A y \in Sites : \A f \in Changes(y) : f.id = e.id => x = y /\ e = f
  BY DEF Custody, InOneHand
<1>2. \A i \in DOMAIN log : log[i].type # e.type \/ log[i].id # e.id
  BY <1>0, <1>1 DEF Announced
<1>3. /\ EventIdsUnique'
      /\ \A i \in DOMAIN log' : log'[i] = e \/ \E j \in DOMAIN log : log'[i] = log[j]
      /\ \A n : Announced(n)' <=> Announced(n) \/ n = e.id
  <2>1. EventIdsUnique
    BY DEF Custody
  <2> QED BY <2>1, <1>0, <1>2, Logged
<1>4. LogIds'
  <2> SUFFICES ASSUME NEW i \in DOMAIN log'
               PROVE  log'[i].id \in 1..(IF log'[i].type = "ip_changed" THEN nextId' - 1 ELSE seq')
    BY DEF LogIds
  <2>1. CASE log'[i] = e
    BY <2>1, <1>0, <1>1
  <2>2. ASSUME NEW j \in DOMAIN log, log'[i] = log[j]
        PROVE  log'[i].id \in 1..(IF log'[i].type = "ip_changed" THEN nextId' - 1 ELSE seq')
    <3>1. log[j].id \in 1..(IF log[j].type = "ip_changed" THEN nextId - 1 ELSE seq)
      BY DEF Custody, LogIds
    <3> QED BY <3>1, <2>2, <1>0
  <2> QED BY <2>1, <2>2, <1>3
<1>5. InOneHand'
  <2> SUFFICES ASSUME NEW y \in Sites, NEW f \in Changes(y)'
               PROVE  /\ f.id \in 1..(nextId' - 1) /\ ~Announced(f.id)' /\ f.id \notin lost'
                      /\ \A z \in Sites : \A g \in Changes(z)' : g.id = f.id => y = z /\ f = g
    BY DEF InOneHand
  <2>1. \A z \in Sites : Changes(z)' \subseteq Changes(z)
    OBVIOUS
  <2>2. f \in Changes(y) /\ f.id # e.id
    BY <2>1, <1>1
  <2> QED BY <2>1, <2>2, <1>3 DEF Custody, InOneHand
<1>6. LostIds'
  BY <1>1, <1>3 DEF Custody, LostIds
<1>7. NoneMissing'
  <2> SUFFICES ASSUME NEW n \in 1..(nextId - 1), n # e.id, ~Announced(n), n \notin lost
               PROVE  \E y \in Sites : \E f \in Changes(y)' : f.id = n
    BY <1>3 DEF NoneMissing
  <2> PICK y \in Sites : \E f \in Changes(y) : f.id = n
    BY DEF Custody, NoneMissing
  <2> QED OBVIOUS
<1> QED BY <1>3, <1>4, <1>5, <1>6, <1>7 DEF Custody

\* A membership event takes the number its own bump returned.
LEMMA MembershipDispatched ==
    ASSUME TypeOK, Custody, NEW m \in Event, m.type # "ip_changed", m.id = seq + 1,
           log' = Append(log, m), seq' = seq + 1,
           \A x \in Sites : Changes(x)' = Changes(x), UNCHANGED <<nextId, lost>>
    PROVE  Custody'
<1>0. log \in Seq(Event) /\ seq \in Nat
  BY DEF TypeOK
<1>2. \A i \in DOMAIN log : log[i].type # m.type \/ log[i].id # m.id
  <2> SUFFICES ASSUME NEW i \in DOMAIN log, log[i].type = m.type
               PROVE  log[i].id # m.id
    OBVIOUS
  <2>1. log[i].id \in 1..seq
    BY DEF Custody, LogIds
  <2> QED BY <2>1, <1>0
<1>3. /\ EventIdsUnique'
      /\ \A i \in DOMAIN log' : log'[i] = m \/ \E j \in DOMAIN log : log'[i] = log[j]
      /\ \A n : Announced(n)' <=> Announced(n)
  <2>1. EventIdsUnique
    BY DEF Custody
  <2> QED BY <2>1, <1>0, <1>2, Logged
<1>4. LogIds'
  <2> SUFFICES ASSUME NEW i \in DOMAIN log'
               PROVE  log'[i].id \in 1..(IF log'[i].type = "ip_changed" THEN nextId' - 1 ELSE seq')
    BY DEF LogIds
  <2>1. CASE log'[i] = m
    BY <2>1, <1>0
  <2>2. ASSUME NEW j \in DOMAIN log, log'[i] = log[j]
        PROVE  log'[i].id \in 1..(IF log'[i].type = "ip_changed" THEN nextId' - 1 ELSE seq')
    <3>1. log[j].id \in 1..(IF log[j].type = "ip_changed" THEN nextId - 1 ELSE seq)
      BY DEF Custody, LogIds
    <3> QED BY <3>1, <2>2, <1>0
  <2> QED BY <2>1, <2>2, <1>3
<1> QED BY <1>3, <1>4 DEF Custody, InOneHand, LostIds, NoneMissing

\* One announcement under the mutex, of an event that x holds.
LEMMA DispatchKeeps ==
    ASSUME TypeOK, Custody, NEW x \in Sites, NEW e \in Event, e \in Hand(x), NEW b \in BOOLEAN,
           Dispatch(e, b), Hand(x)' = Hand(x) \ {e}, \A y \in Sites \ {x} : Hand(y)' = Hand(y),
           UNCHANGED <<nextId, lost>>
    PROVE  Custody'
<1>1. \A y \in Sites \ {x} : Changes(y)' = Changes(y)
  BY DEF Changes
<1>2. Changes(x)' = Changes(x) \ {e}
  BY DEF Changes
<1>3. CASE e.type = "ip_changed"
  <2>1. e \in Changes(x) /\ log' = Append(log, e) /\ seq' \in {seq, seq + 1}
    BY <1>3 DEF Changes, Dispatch
  <2> QED BY <1>1, <1>2, <2>1, ChangeDispatched
<1>4. CASE e.type # "ip_changed"
  <2>1. \A y \in Sites : Changes(y)' = Changes(y)
    <3>1. e \notin Changes(x)
      BY <1>4 DEF Changes
    <3> QED BY <3>1, <1>1, <1>2
  <2>2. CASE b
    <3> DEFINE m == [e EXCEPT !.id = seq + 1]
    <3>1. seq \in Nat
      BY DEF TypeOK
    <3>2. m \in Event /\ m.type # "ip_changed" /\ m.id = seq + 1
      BY <1>4, <3>1 DEF Event
    <3>3. log' = Append(log, m) /\ seq' = seq + 1
      BY <1>4, <2>2 DEF Dispatch
    <3> HIDE DEF m
    <3> QED BY <2>1, <3>2, <3>3, MembershipDispatched
  <2>3. CASE ~b
    <3>1. log' = log /\ seq' = seq
      BY <1>4, <2>3 DEF Dispatch
    <3> QED BY <2>1, <3>1, NoChange
  <2> QED BY <2>2, <2>3
<1> QED BY <1>3, <1>4

-----------------------------------------------------------------------------
(* The steps *)

\* A step of the handler p touches no other hand.
LEMMA OneHandler ==
    ASSUME NEW p \in Procs, NEW r, req \in [Procs -> Request], req' = [req EXCEPT ![p] = r], sw' = sw
    PROVE  /\ \A x \in Sites \ {p} : Hand(x)' = Hand(x)
           /\ Hand(p) = req[p].pend /\ Hand(p)' = r.pend /\ p \in Sites
           /\ HeldToAnnounce /\ (r.pc # "emit" => r.pend = {}) => HeldToAnnounce'
<1>1. req'[p] = r /\ \A q \in Procs \ {p} : req'[q] = req[q]
  OBVIOUS
<1>2. \A x \in Sites \ {p} : Hand(x)' = Hand(x)
  BY <1>1, HandsOf, HandsOfNext DEF Sites
<1>3. HeldToAnnounce /\ (r.pc # "emit" => r.pend = {}) => HeldToAnnounce'
  BY <1>1 DEF HeldToAnnounce
<1> QED BY <1>1, <1>2, <1>3, HandsOf, HandsOfNext DEF Sites

\* A step of p that commits no address change.
LEMMA QuietStep ==
    ASSUME EventInv, TypeOK', NEW p \in Procs, NEW r, req' = [req EXCEPT ![p] = r],
           req[p].pend = {}, \A e \in r.pend : e.type # "ip_changed", r.pc # "emit" => r.pend = {},
           UNCHANGED <<sw, log, seq, nextId, lost>>
    PROVE  EventInv'
<1>0. req \in [Procs -> Request]
  BY DEF EventInv, TypeOK
<1>1. /\ \A x \in Sites \ {p} : Hand(x)' = Hand(x)
      /\ Hand(p) = req[p].pend /\ Hand(p)' = r.pend /\ HeldToAnnounce'
  BY <1>0, OneHandler DEF EventInv
<1>2. Changes(p)' = {} /\ Changes(p) = {}
  BY <1>1 DEF Changes
<1>3. \A x \in Sites : Changes(x)' = Changes(x)
  BY <1>1, <1>2 DEF Changes
<1> QED BY <1>1, <1>3, NoChange DEF EventInv

\* After its write a handler holds the events it has to announce.
LEMMA AnnounceHolds ==
    ASSUME NEW p \in Procs, NEW es, Announce(p, es)
    PROVE  \E r : req' = [req EXCEPT ![p] = r] /\ r.pend = es /\ (r.pc # "emit" => r.pend = {})
<1>1. CASE es = {}
  <2>1. req' = [req EXCEPT ![p] = Idle] /\ Idle.pend = es
    BY <1>1 DEF Announce, Finish, Idle
  <2> QED BY <2>1, <1>1
<1>2. CASE es # {}
  <2> DEFINE r == [Idle EXCEPT !.pc = "emit", !.pend = es]
  <2>1. req' = [req EXCEPT ![p] = r] /\ r.pc = "emit" /\ r.pend = es
    BY <1>2 DEF Announce, Idle
  <2> HIDE DEF r
  <2> QED BY <2>1
<1> QED BY <1>1, <1>2

LEMMA BeginKeeps ==
    ASSUME EventInv, TypeOK', NEW p \in Procs, Begin(p)
    PROVE  EventInv'
<1>1. ASSUME NEW r, Start(p, r), r.pend = {}
      PROVE  EventInv'
  <2>1. req[p].pend = {}
    BY <1>1 DEF Start, EventInv, HeldToAnnounce
  <2> QED BY <1>1, <2>1, QuietStep DEF Start, tables
<1>2. \A op, pc, want : \A d \in Devices :
          /\ DeviceRequest(op, pc, d).pend = {}
          /\ [DeviceRequest(op, pc, d) EXCEPT !.want = want].pend = {}
  BY DEF DeviceRequest, Idle
<1>3. \A d, rep : [Idle EXCEPT !.op = "checkin", !.pc = "read", !.dev = d, !.rep = rep].pend = {}
  BY DEF Idle
<1>4. \A u, want, own : /\ [Idle EXCEPT !.op = "update_user", !.pc = "list", !.usr = u, !.want = want, !.own = own].pend = {}
                        /\ [Idle EXCEPT !.op = "delete_user", !.pc = "list", !.usr = u, !.own = own].pend = {}
  BY DEF Idle
<1>5. ASSUME NEW d \in Devices, NEW rep \in Reports, StartCheckin(p, d, rep) PROVE EventInv'
  BY <1>5, <1>1, <1>3 DEF StartCheckin
<1>6. ASSUME NEW d \in Devices, NEW want \in {"on", "off"},
             StartSetEnabled(p, d, want) \/ StartAdminSetEnabled(p, d, want)
      PROVE  EventInv'
  BY <1>6, <1>1, <1>2 DEF StartSetEnabled, StartAdminSetEnabled
<1>7. ASSUME NEW d \in Devices, StartDelete(p, d) PROVE EventInv'
  BY <1>7, <1>1, <1>2 DEF StartDelete
<1>8. ASSUME NEW u \in Users, NEW want \in {"on", "off"}, StartUpdateUser(p, u, want) PROVE EventInv'
  BY <1>8, <1>1, <1>4 DEF StartUpdateUser
<1>9. ASSUME NEW u \in Users, StartDeleteUser(p, u) PROVE EventInv'
  BY <1>9, <1>1, <1>4 DEF StartDeleteUser
<1> QED BY <1>5, <1>6, <1>7, <1>8, <1>9 DEF Begin

LEMMA ReadsKeep ==
    ASSUME EventInv, TypeOK', NEW p \in Procs, CheckinRead(p) \/ ReadOwner(p) \/ ListDevices(p)
    PROVE  EventInv'
<1>0. req[p] \in Request /\ req[p].pend = {} /\ UNCHANGED <<sw, log, seq, nextId, lost>>
  BY DEF CheckinRead, ReadOwner, ListDevices, At, EventInv, TypeOK, HeldToAnnounce, tables
<1>1. CASE Finish(p)
  <2>1. Idle.pend = {}
    BY DEF Idle
  <2> QED BY <1>0, <1>1, <2>1, QuietStep DEF Finish
<1>2. CASE CheckinRead(p) /\ ~Finish(p)
  <2> DEFINE r == [DeviceRequest("checkin", "write", req[p].dev) EXCEPT !.rep = req[p].rep, !.at = now]
  <2>1. r.pend = {} /\ req' = [req EXCEPT ![p] = r]
    BY <1>2 DEF CheckinRead, DeviceRequest, Idle
  <2> HIDE DEF r
  <2> QED BY <1>0, <2>1, QuietStep
<1>3. CASE ReadOwner(p) /\ ~Finish(p)
  <2> DEFINE r == [req[p] EXCEPT !.pc = "write", !.own = (userSt[Owner[req[p].dev]] = "on")]
  <2>1. r.pend = {}
    BY <1>0 DEF Request
  <2>2. req' = [req EXCEPT ![p] = r]
    BY <1>3 DEF ReadOwner
  <2> HIDE DEF r
  <2> QED BY <1>0, <2>1, <2>2, QuietStep
<1>4. CASE ListDevices(p)
  <2> DEFINE mine == {d \in Devices : Owner[d] = req[p].usr /\ Live(d)}
             sn == [d \in Devices |-> IF d \in mine THEN addr[d] ELSE NoAddrs]
             ons == {d \in mine : devSt[d] = "on"}
             r == [req[p] EXCEPT !.pc = "write", !.snap = sn, !.on = ons]
  <2>2. req' = [req EXCEPT ![p] = r]
    BY <1>4 DEF ListDevices
  <2> HIDE DEF sn, ons
  <2>1. r.pend = {}
    BY <1>0 DEF Request
  <2> HIDE DEF r
  <2> QED BY <1>0, <2>1, <2>2, QuietStep
<1> QED BY <1>1, <1>2, <1>3, <1>4

LEMMA WritesKeep ==
    ASSUME EventInv, TypeOK', NEW p \in Procs,
           CheckinWrite(p) \/ FlipDisabled(p) \/ DeleteDevice(p) \/ UpdateUser(p) \/ DeleteUser(p)
    PROVE  EventInv'
<1>0. req \in [Procs -> Request] /\ req[p].pend = {} /\ UNCHANGED <<sw, log, seq, lost>>
  BY DEF CheckinWrite, FlipDisabled, DeleteDevice, UpdateUser, DeleteUser, At, EventInv, TypeOK, HeldToAnnounce
<1>1. CASE Finish(p) /\ nextId' = nextId
  <2>1. Idle.pend = {}
    BY DEF Idle
  <2> QED BY <1>0, <1>1, <2>1, QuietStep DEF Finish
<1>2. ASSUME NEW es, Announce(p, es), \A e \in es : e.type # "ip_changed", nextId' = nextId
      PROVE  EventInv'
  BY <1>0, <1>2, AnnounceHolds, QuietStep
<1>3. ASSUME NEW d, NEW a, NEW before, NEW after
      PROVE  \A e \in emitMembership(d, a, before, after) : e.type # "ip_changed"
  BY DEF emitMembership
<1>4. ASSUME NEW r, NEW on
      PROVE  \A e \in AccountEvents(r, on) : e.type # "ip_changed"
  BY <1>3 DEF AccountEvents
<1>5. CASE CheckinWrite(p)
  <2> DEFINE d == req[p].dev
             eff == Effective(req[p])
             ev == [type |-> "ip_changed", id |-> nextId, dev |-> d, cur |-> eff]
  <2>1. CASE Finish(p) /\ nextId' = nextId
    BY <1>1, <2>1
  <2>2. CASE RecordIPChange(d, eff, Asserted(req[p])) /\ Announce(p, {ev})
    <3>1. ev.type = "ip_changed" /\ ev.id = nextId /\ nextId' = nextId + 1
      BY <2>2 DEF RecordIPChange, appendIPHistory
    <3> HIDE DEF ev
    <3>2. PICK r : req' = [req EXCEPT ![p] = r] /\ r.pend = {ev} /\ (r.pc # "emit" => r.pend = {})
      BY <2>2, AnnounceHolds
    <3>3. /\ \A x \in Sites \ {p} : Hand(x)' = Hand(x)
          /\ Hand(p) = {} /\ Hand(p)' = {ev} /\ HeldToAnnounce' /\ p \in Sites
      BY <1>0, <3>2, OneHandler DEF EventInv
    <3>4. /\ \A x \in Sites \ {p} : Changes(x)' = Changes(x)
          /\ Changes(p) = {} /\ Changes(p)' = {ev}
      BY <3>1, <3>3 DEF Changes
    <3>5. Custody'
      BY <1>0, <3>1, <3>3, <3>4, Committed DEF EventInv
    <3> QED BY <3>3, <3>5 DEF EventInv
  <2>3. \/ Finish(p) /\ nextId' = nextId
        \/ RecordIPChange(d, eff, Asserted(req[p])) /\ Announce(p, {ev})
    BY <1>5 DEF CheckinWrite, Touch, tables
  <2> QED BY <2>1, <2>2, <2>3
<1>6. CASE FlipDisabled(p)
  <2>1. CASE Finish(p)
    BY <1>1, <1>6, <2>1 DEF FlipDisabled, tables
  <2>2. CASE ~Finish(p)
    BY <1>2, <1>3, <1>6, <2>2 DEF FlipDisabled
  <2> QED BY <2>1, <2>2
<1>7. CASE DeleteDevice(p)
  <2>1. CASE Finish(p)
    BY <1>1, <1>7, <2>1 DEF DeleteDevice, tables
  <2>2. CASE ~Finish(p)
    BY <1>2, <1>3, <1>7, <2>2 DEF DeleteDevice
  <2> QED BY <2>1, <2>2
<1>8. CASE UpdateUser(p)
  <2>1. CASE Finish(p)
    BY <1>1, <1>8, <2>1 DEF UpdateUser
  <2>2. CASE ~Finish(p)
    BY <1>2, <1>4, <1>8, <2>2 DEF UpdateUser
  <2> QED BY <2>1, <2>2
<1>9. CASE DeleteUser(p)
  <2>1. CASE Finish(p)
    BY <1>1, <1>9, <2>1 DEF DeleteUser, tables
  <2>2. CASE ~Finish(p)
    BY <1>2, <1>4, <1>9, <2>2 DEF DeleteUser
  <2> QED BY <2>1, <2>2
<1> QED BY <1>5, <1>6, <1>7, <1>8, <1>9

LEMMA EmitKeeps ==
    ASSUME EventInv, TypeOK', NEW p \in Procs, Emit(p)
    PROVE  EventInv'
<1> PICK e \in req[p].pend, b \in BumpOutcomes : Dispatch(e, b) /\ Announce(p, req[p].pend \ {e})
  BY DEF Emit
<1>0. req \in [Procs -> Request] /\ b \in BOOLEAN /\ UNCHANGED <<sw, nextId, lost>> /\ TypeOK /\ Custody
  BY DEF EventInv, TypeOK, BumpOutcomes, Emit, tables
<1>1. e \in Event
  BY <1>0 DEF Request
<1>2. PICK r : req' = [req EXCEPT ![p] = r] /\ r.pend = req[p].pend \ {e} /\ (r.pc # "emit" => r.pend = {})
  BY AnnounceHolds
<1>3. /\ \A x \in Sites \ {p} : Hand(x)' = Hand(x)
      /\ Hand(p) = req[p].pend /\ Hand(p)' = Hand(p) \ {e} /\ HeldToAnnounce' /\ p \in Sites
  BY <1>0, <1>2, OneHandler DEF EventInv
<1>4. Custody'
  BY <1>0, <1>1, <1>3, DispatchKeeps
<1> QED BY <1>3, <1>4 DEF EventInv

\* The sweep holds an event only between its write and the announcement.
LEMMA SweepKeeps ==
    ASSUME EventInv, TypeOK', SweepStep
    PROVE  EventInv'
<1>0. sw \in Sweep /\ Sweeper \in Sites /\ TypeOK /\ Custody /\ HeldToAnnounce
      /\ req' = req /\ lost' = lost
  BY DEF EventInv, TypeOK, Sites, SweepStep, StartSweep, SweepQuery, SweepAct, SweepExpire, SweepAnnounce,
         SweepRemoved, SweepWarn, SweepDeliver, SweepDigest
<1>1. Hand(Sweeper) = sw.pend /\ Hand(Sweeper)' = sw'.pend /\ \A x \in Sites \ {Sweeper} : Hand(x)' = Hand(x)
  BY <1>0, HandsOf, HandsOfNext DEF Sites
<1>2. (sw'.pc # "announce" => sw'.pend = {}) /\ (\A e, f \in sw'.pend : e = f) => HeldToAnnounce'
  BY <1>0 DEF HeldToAnnounce
<1>3. ASSUME sw'.pend = {}, sw.pc # "announce", UNCHANGED <<log, seq, nextId>>
      PROVE  EventInv'
  <2>1. Hand(Sweeper) = {} /\ Hand(Sweeper)' = {} /\ HeldToAnnounce'
    BY <1>1, <1>2, <1>3, <1>0 DEF HeldToAnnounce
  <2>2. \A x \in Sites : Changes(x)' = Changes(x)
    BY <1>1, <2>1 DEF Changes
  <2> QED BY <1>0, <1>3, <2>1, <2>2, NoChange DEF EventInv
<1>4. \A todo : sw.pend = {} => NextCandidate(todo).pend = {}
  BY <1>0 DEF NextCandidate, SweepIdle, Sweep
<1>p. sw.pc # "announce" => sw.pend = {}
  BY <1>0 DEF HeldToAnnounce
<1>5. CASE StartSweep
  <2>1. sw'.pend = {}
    BY <1>5 DEF StartSweep, SweepIdle
  <2> QED BY <1>5, <2>1, <1>3 DEF StartSweep, tables
<1>6. CASE SweepQuery
  <2>1. sw'.pend = {}
    BY <1>6 DEF SweepQuery, SweepIdle
  <2> QED BY <1>6, <2>1, <1>3 DEF SweepQuery, tables
<1>7. CASE SweepAct
  <2>1. sw'.pend = {}
    BY <1>7, <1>0, <1>p DEF SweepAct, Sweep
  <2> QED BY <1>7, <2>1, <1>3 DEF SweepAct, tables
<1>8. CASE SweepExpire
  <2>1. CASE nextId' = nextId
    <3>1. sw' = NextCandidate(sw.todo \ {sw.dev}) /\ sw.pc = "locked"
      <4>1. nextId \in Nat
        BY <1>0 DEF TypeOK
      <4>2. nextId' # nextId + 1
        BY <2>1, <4>1
      <4> QED BY <1>8, <4>2 DEF SweepExpire, appendIPHistory
    <3> QED BY <1>8, <2>1, <3>1, <1>3, <1>4, <1>p DEF SweepExpire
  <2>2. CASE nextId' # nextId
    <3> DEFINE ev == [type |-> "ip_changed", id |-> nextId, dev |-> sw.dev,
                      cur |-> Clear(sw.snap[sw.dev], Due(sw.dev))]
    <3>1. /\ sw' = [sw EXCEPT !.pc = "announce", !.pend = {ev}] /\ sw.pc = "locked"
          /\ nextId' = nextId + 1 /\ UNCHANGED <<log, seq>>
      BY <1>8, <2>2 DEF SweepExpire, tables, appendIPHistory
    <3>2. ev.type = "ip_changed" /\ ev.id = nextId
      OBVIOUS
    <3> HIDE DEF ev
    <3>3. sw'.pend = {ev} /\ sw'.pc = "announce" /\ sw.pend = {}
      BY <3>1, <1>0, <1>p DEF Sweep
    <3>4. Changes(Sweeper) = {} /\ Changes(Sweeper)' = {ev} /\ \A x \in Sites \ {Sweeper} : Changes(x)' = Changes(x)
      BY <3>2, <3>3, <1>1 DEF Changes
    <3>5. Custody'
      BY <1>0, <3>1, <3>2, <3>4, Committed
    <3> QED BY <1>2, <3>3, <3>5 DEF EventInv
  <2> QED BY <2>1, <2>2
<1>9. CASE SweepAnnounce
  <2> PICK e \in sw.pend, b \in BumpOutcomes : Dispatch(e, b)
    BY <1>9 DEF SweepAnnounce
  <2>1. sw.pend = {e} /\ e \in Event /\ b \in BOOLEAN /\ nextId' = nextId
    BY <1>9, <1>0 DEF HeldToAnnounce, BumpOutcomes, Sweep, SweepAnnounce, tables
  <2>2. sw'.pend = {}
    BY <1>9, <1>0 DEF SweepAnnounce, Sweep
  <2>3. e \in Hand(Sweeper) /\ Hand(Sweeper)' = Hand(Sweeper) \ {e}
    BY <1>1, <2>1, <2>2
  <2>4. Custody'
    BY <1>0, <1>1, <2>1, <2>3, DispatchKeeps
  <2> QED BY <1>2, <2>2, <2>4 DEF EventInv
<1>10. CASE SweepRemoved
  <2>1. sw'.pend = {}
    BY <1>10, <1>0, <1>4, <1>p DEF SweepRemoved, deliver, Sweep
  <2> QED BY <1>10, <2>1, <1>3 DEF SweepRemoved, tables
<1>11. CASE SweepWarn
  <2>1. sw'.pend = {}
    BY <1>11, <1>0, <1>4, <1>p DEF SweepWarn, Sweep
  <2> QED BY <1>11, <2>1, <1>3 DEF SweepWarn, tables
<1>12. CASE SweepDeliver
  <2>1. sw'.pend = {}
    BY <1>12, <1>0, <1>p DEF SweepDeliver, deliver, Sweep
  <2> QED BY <1>12, <2>1, <1>3 DEF SweepDeliver, tables
<1>13. CASE SweepDigest
  <2>1. sw'.pend = {}
    BY <1>13 DEF SweepDigest, SweepIdle
  <2> QED BY <1>13, <2>1, <1>3 DEF SweepDigest, tables
<1> QED BY <1>5, <1>6, <1>7, <1>8, <1>9, <1>10, <1>11, <1>12, <1>13 DEF SweepStep

LEMMA CrashKeeps ==
    ASSUME EventInv, TypeOK', Crash
    PROVE  EventInv'
<1>1. Idle.pend = {} /\ SweepIdle.pend = {}
  BY DEF Idle, SweepIdle
<1>2. sw'.pend = {} /\ \A p \in Procs : req'[p].pend = {}
  BY <1>1 DEF Crash
<1>3. \A x \in Sites : Changes(x)' = {}
  BY <1>2, HandsOfNext DEF Sites, Changes
<1>4. HeldToAnnounce'
  BY <1>2 DEF HeldToAnnounce
<1>5. Custody'
  BY <1>3, Destroyed DEF Crash, tables, EventInv
<1> QED BY <1>4, <1>5 DEF EventInv

LEMMA EventStep == EventInv /\ [Next]_vars => EventInv'
<1> SUFFICES ASSUME EventInv, [Next]_vars PROVE EventInv'
  OBVIOUS
<1>0. TypeOK'
  BY TypeStep DEF EventInv
<1>1. ASSUME NEW p \in Procs, Begin(p) PROVE EventInv'
  BY <1>0, <1>1, BeginKeeps
<1>2. ASSUME NEW p \in Procs, Proceed(p) PROVE EventInv'
  BY <1>0, <1>2, ReadsKeep, WritesKeep, EmitKeeps DEF Proceed
<1>3. CASE SweepStep
  BY <1>0, <1>3, SweepKeeps
<1>4. CASE UNCHANGED <<req, sw, log, seq, nextId, lost>>
  <2>1. \A x \in Sites : Changes(x)' = Changes(x)
    BY <1>4 DEF Changes, Hand
  <2>2. HeldToAnnounce'
    BY <1>4 DEF EventInv, HeldToAnnounce
  <2> QED BY <1>0, <1>4, <2>1, <2>2, NoChange DEF EventInv
<1>5. CASE Crash
  BY <1>0, <1>5, CrashKeeps
<1>6. (\E d \in Devices : PruneIPHistory(d) \/ Enroll(d)) \/ Tick \/ UNCHANGED vars
        => UNCHANGED <<req, sw, log, seq, nextId, lost>>
  BY DEF PruneIPHistory, Enroll, Tick, vars, tables
<1> QED BY <1>1, <1>2, <1>3, <1>4, <1>5, <1>6 DEF Next

LEMMA EventInit == Init => EventInv
<1> SUFFICES ASSUME Init PROVE EventInv
  OBVIOUS
<1>1. Idle.pend = {} /\ SweepIdle.pend = {}
  BY DEF Idle, SweepIdle
<1>2. sw.pend = {} /\ \A p \in Procs : req[p].pend = {}
  BY <1>1 DEF Init
<1>3. \A x \in Sites : Changes(x) = {}
  BY <1>2, HandsOf DEF Sites, Changes
<1>4. HeldToAnnounce
  BY <1>2 DEF HeldToAnnounce
<1>5. DOMAIN log = {} /\ lost = {} /\ nextId - 1 = 0
  BY DEF Init
<1>6. Custody
  BY <1>3, <1>5 DEF Custody, LogIds, EventIdsUnique, InOneHand, LostIds, NoneMissing
<1> QED BY <1>4, <1>6, TypeInit DEF EventInv

LEMMA EventAlways == Spec => []EventInv
BY EventInit, EventStep, PTL DEF Spec

(***************************************************************************)
(* No two events ever share (type, id), the pair consumers dedupe on,      *)
(* whatever handlers, sweep, failing bumps and restarts do around each     *)
(* other (fanout's bump-then-render, appendIPHistory's AUTOINCREMENT).     *)
(***************************************************************************)
THEOREM EventIdsUniqueAlways == Spec => []EventIdsUnique
BY EventAlways, PTL DEF EventInv, Custody

(***************************************************************************)
(* Every committed address change has been announced, or is in the hands   *)
(* of the handler or sweep that committed it, or died with the process;    *)
(* and is in only one of these states (RecordIPChange, ExpireFamilies and  *)
(* fanout.IPChanged, which outlives a failed bump).                        *)
(***************************************************************************)
THEOREM ChangesAccountedAlways == Spec => []ChangesAccounted
<1>1. EventInv => ChangesAccounted
  <2> SUFFICES ASSUME EventInv PROVE ChangesAccounted
    OBVIOUS
  <2>0. nextId \in Nat /\ LogIds /\ InOneHand /\ LostIds /\ NoneMissing
    BY DEF EventInv, TypeOK, Custody
  <2>1. \A n : n \in AnnouncedIds <=> Announced(n)
    BY DEF AnnouncedIds, Announced
  <2>2. \A n : n \in PendingIds <=> \E x \in Sites : \E e \in Changes(x) : e.id = n
    BY PendingInHand
  <2>3. \A n : Announced(n) => n \in 1..(nextId - 1)
    BY <2>0 DEF Announced, LogIds
  <2>4. AnnouncedIds \cup PendingIds \cup lost = 1..(nextId - 1)
    BY <2>0, <2>1, <2>2, <2>3 DEF InOneHand, LostIds, NoneMissing
  <2>5. AnnouncedIds \cap PendingIds = {} /\ lost \cap (AnnouncedIds \cup PendingIds) = {}
    BY <2>0, <2>1, <2>2 DEF InOneHand, LostIds
  <2> QED BY <2>4, <2>5 DEF ChangesAccounted
<1> QED BY <1>1, EventAlways, PTL
=============================================================================
