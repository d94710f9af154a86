-------------------------- MODULE DeviceFeedProofs --------------------------
(***************************************************************************)
(* Proofs about DeviceFeed, for every number of devices, accounts,         *)
(* handlers, addresses and instants.                                       *)
(***************************************************************************)
EXTENDS DeviceFeed, TLAPS

-----------------------------------------------------------------------------
(* The rungs of the staleness policy *)

(***************************************************************************)
(* For every legal window (at least one day) the four rungs and the expiry *)
(* are each more than one sweep period apart, so an hourly sweep never     *)
(* steps over a rung: every warning has a tick of its own before the       *)
(* address is removed.                                                     *)
(***************************************************************************)
THEOREM EveryRungHasATick ==
    ASSUME NEW days \in Nat \ {0}
    PROVE  LET w == Window(days) IN
           /\ Rungs(w)[1] > prunerInterval
           /\ \A i \in 1..3 : Rungs(w)[i + 1] - Rungs(w)[i] > prunerInterval
           /\ w - Rungs(w)[4] > prunerInterval
<1> DEFINE w == Window(days)
<1>1. w \in Nat /\ w >= 86400
  BY DEF Window, SecondsPerDay
<1>2. /\ Rungs(w)[1] = w \div 3
      /\ Rungs(w)[2] = (2 * w) \div 3
      /\ Rungs(w)[3] = (17 * w) \div 21
      /\ Rungs(w)[4] = (20 * w) \div 21
  BY DEF Rungs
<1> HIDE DEF w
<1>3. /\ w \div 3 > 3600
      /\ (2 * w) \div 3 - w \div 3 > 3600
      /\ (17 * w) \div 21 - (2 * w) \div 3 > 3600
      /\ (20 * w) \div 21 - (17 * w) \div 21 > 3600
      /\ w - (20 * w) \div 21 > 3600
  BY <1>1
<1>4. \A i \in 1..3 : i = 1 \/ i = 2 \/ i = 3
  OBVIOUS
<1>5. \A i \in 1..3 : Rungs(w)[i + 1] - Rungs(w)[i] > 3600
  BY <1>2, <1>3, <1>4
<1> QED BY <1>2, <1>3, <1>5 DEF prunerInterval, w

-----------------------------------------------------------------------------
(* Facts about the values *)

\* The initial locals of handlers and sweep are well typed.
LEMMA IdleTypes ==
    /\ NoAddrs \in Addrs
    /\ NoSnap \in [Devices -> Addrs]
    /\ Idle \in Request
    /\ SweepIdle \in Sweep
    /\ AnyDev \in Devices
<1>1. AnyDev \in Devices
  BY ConstantsAssumption DEF AnyDev
<1>2. AnyUser \in Users
  BY ConstantsAssumption DEF AnyUser
<1>3. NoAddrs \in Addrs
  BY DEF NoAddrs, Addrs, MaybeAddr
<1>4. NoSnap \in [Devices -> Addrs]
  BY <1>3 DEF NoSnap
<1>5. Idle \in Request
  BY <1>1, <1>2, <1>3, <1>4 DEF Idle, Request, PCs, Ops
<1>6. SweepIdle \in Sweep
  <2>1. Zeros \in [Families -> Nat] /\ Zeros \in [Families -> 0..4]
    BY DEF Zeros
  <2> QED BY <1>1, <1>4, <2>1 DEF SweepIdle, Sweep, SweepPCs
<1> QED BY <1>1, <1>3, <1>4, <1>5, <1>6

\* stale.DueRung names a rung or none.
LEMMA DueRungType ==
    ASSUME NEW w \in Int, NEW e \in Int
    PROVE  DueRung(w, e) \in 0..4
<1> DEFINE due(i) == e >= Rungs(w)[i]
<1> HIDE DEF due
<1>1. CASE \E i \in 1..4 : due(i)
  <2>1. \E i \in 1..4 : due(i) /\ \A j \in 1..4 : due(j) => j <= i
    <3>1. CASE due(4)
      BY <3>1
    <3>2. CASE ~due(4) /\ due(3)
      BY <3>2
    <3>3. CASE ~due(4) /\ ~due(3) /\ due(2)
      BY <3>3
    <3>4. CASE ~due(4) /\ ~due(3) /\ ~due(2) /\ due(1)
      BY <3>4
    <3> QED BY <1>1, <3>1, <3>2, <3>3, <3>4
  <2>2. (CHOOSE i \in 1..4 : due(i) /\ \A j \in 1..4 : due(j) => j <= i) \in 1..4
    BY <2>1
  <2> QED BY <1>1, <2>2 DEF DueRung, due
<1>2. CASE ~ \E i \in 1..4 : due(i)
  BY <1>2 DEF DueRung, due
<1> QED BY <1>1, <1>2

\* emitMembership yields events.
LEMMA EmitMembershipType ==
    ASSUME NEW d \in Devices, NEW a \in Addrs, NEW before, NEW after
    PROVE  emitMembership(d, a, before, after) \subseteq Event
BY IdleTypes DEF emitMembership, Event, EventTypes

\* A handler that announces or returns leaves req well typed.
LEMMA AnnounceType ==
    ASSUME TypeOK, NEW p \in Procs, NEW events \in SUBSET Event,
           Announce(p, events)
    PROVE  req' \in [Procs -> Request]
<1>1. [Idle EXCEPT !.pc = "emit", !.pend = events] \in Request
  BY IdleTypes DEF Idle, Request, PCs
<1> QED BY <1>1, IdleTypes DEF Announce, Finish, TypeOK

\* A dispatched event is appended to a well-typed log.
LEMMA DispatchType ==
    ASSUME TypeOK, NEW e \in Event, NEW b \in BOOLEAN, Dispatch(e, b)
    PROVE  seq' \in Nat /\ log' \in Seq(Event)
<1>1. seq' \in Nat
  BY DEF Dispatch, TypeOK
<1>2. [e EXCEPT !.id = seq + 1] \in Event
  <2>1. seq + 1 \in Nat
    BY DEF TypeOK
  <2> QED BY <2>1 DEF Event
<1>3. log \in Seq(Event)
  BY DEF TypeOK
<1>4. \/ log' = log
      \/ log' = Append(log, e)
      \/ log' = Append(log, [e EXCEPT !.id = seq + 1])
  BY DEF Dispatch
<1>5. \A x \in Event : Append(log, x) \in Seq(Event)
  BY <1>3
<1> QED BY <1>1, <1>2, <1>3, <1>4, <1>5

\* Every address a merge can produce is one the model knows.
LEMMA EffectiveType ==
    ASSUME NEW r \in Request
    PROVE  Effective(r) \in Addrs
BY DEF Request, Effective, Addrs, MaybeAddr, Families

LEMMA DropDevicesType ==
    ASSUME TypeOK, NEW ds \in SUBSET Devices, DropDevices(ds)
    PROVE  /\ devSt' \in [Devices -> {"unborn", "on", "off", "gone"}]
           /\ addr' \in [Devices -> Addrs]
           /\ conf' \in [Devices -> [Families -> Nat]]
           /\ warn' \in [Devices -> [Families -> 0..4]]
           /\ hist' \in [Devices -> SUBSET HistRow]
<1>1. Zeros \in [Families -> Nat] /\ Zeros \in [Families -> 0..4]
  BY DEF Zeros
<1> QED BY <1>1, IdleTypes DEF DropDevices, TypeOK

LEMMA ConfirmType ==
    ASSUME TypeOK, NEW d \in Devices, NEW fs \in SUBSET Families,
           NEW t \in Nat, Confirm(d, fs, t)
    PROVE  /\ conf' \in [Devices -> [Families -> Nat]]
           /\ warn' \in [Devices -> [Families -> 0..4]]
<1>1. [f \in Families |-> IF f \in fs THEN t ELSE conf[d][f]] \in [Families -> Nat]
  BY DEF TypeOK
<1>2. [f \in Families |-> IF f \in fs THEN 0 ELSE warn[d][f]] \in [Families -> 0..4]
  BY DEF TypeOK
<1> QED BY <1>1, <1>2 DEF Confirm, TypeOK

LEMMA AppendHistType ==
    ASSUME TypeOK, NEW d \in Devices, NEW a \in Addrs, NEW at \in Nat,
           appendIPHistory(d, a, at)
    PROVE  /\ hist' \in [Devices -> SUBSET HistRow]
           /\ nextId' \in Nat \ {0}
<1>1. [id |-> nextId, addr |-> a, at |-> at] \in HistRow
  BY DEF HistRow, TypeOK
<1> QED BY <1>1 DEF appendIPHistory, TypeOK

\* A request that begins stores well-typed locals.
LEMMA StartType ==
    ASSUME TypeOK, NEW p \in Procs, NEW r \in Request, Start(p, r)
    PROVE  TypeOK'
BY DEF Start, TypeOK, tables

LEMMA DeviceRequestType ==
    ASSUME TypeOK, NEW op \in Ops, NEW pc \in PCs, NEW d \in Devices
    PROVE  DeviceRequest(op, pc, d) \in Request
<1>1. [NoSnap EXCEPT ![d] = addr[d]] \in [Devices -> Addrs]
  BY IdleTypes DEF TypeOK
<1> QED BY <1>1, IdleTypes DEF DeviceRequest, Idle, Request

\* Begin, the first step of every request, keeps the types.
LEMMA BeginType ==
    ASSUME TypeOK, NEW p \in Procs, Begin(p)
    PROVE  TypeOK'
<1>1. CASE \E d \in Devices, rep \in Reports : StartCheckin(p, d, rep)
  <2> PICK d \in Devices, rep \in Reports : StartCheckin(p, d, rep)
    BY <1>1
  <2>1. [Idle EXCEPT !.op = "checkin", !.pc = "read", !.dev = d, !.rep = rep] \in Request
    BY IdleTypes, ConstantsAssumption DEF Idle, Request, PCs, Ops
  <2> QED BY <2>1, StartType DEF StartCheckin
<1>2. ASSUME NEW d \in Devices, NEW want \in {"on", "off"}, StartSetEnabled(p, d, want)
      PROVE  TypeOK'
  <2>1. [DeviceRequest("set_enabled", "owner", d) EXCEPT !.want = want] \in Request
    BY DeviceRequestType DEF Request, PCs, Ops
  <2> QED BY <1>2, <2>1, StartType DEF StartSetEnabled
<1>3. ASSUME NEW d \in Devices, NEW want \in {"on", "off"}, StartAdminSetEnabled(p, d, want)
      PROVE  TypeOK'
  <2>1. [DeviceRequest("admin_set_enabled", "owner", d) EXCEPT !.want = want] \in Request
    BY DeviceRequestType DEF Request, PCs, Ops
  <2> QED BY <1>3, <2>1, StartType DEF StartAdminSetEnabled
<1>4. ASSUME NEW d \in Devices, StartDelete(p, d)
      PROVE  TypeOK'
  <2>1. DeviceRequest("delete", "owner", d) \in Request
    BY DeviceRequestType DEF PCs, Ops
  <2> QED BY <1>4, <2>1, StartType DEF StartDelete
<1>5. ASSUME NEW u \in Users, NEW want \in {"on", "off"}, StartUpdateUser(p, u, want)
      PROVE  TypeOK'
  <2>1. [Idle EXCEPT !.op = "update_user", !.pc = "list", !.usr = u,
                     !.want = want, !.own = (userSt[u] = "on")] \in Request
    BY IdleTypes DEF Idle, Request, PCs, Ops
  <2> QED BY <1>5, <2>1, StartType DEF StartUpdateUser
<1>6. ASSUME NEW u \in Users, StartDeleteUser(p, u)
      PROVE  TypeOK'
  <2>1. [Idle EXCEPT !.op = "delete_user", !.pc = "list", !.usr = u,
                     !.own = (userSt[u] = "on")] \in Request
    BY IdleTypes DEF Idle, Request, PCs, Ops
  <2> QED BY <1>6, <2>1, StartType DEF StartDeleteUser
<1> QED BY <1>1, <1>2, <1>3, <1>4, <1>5, <1>6 DEF Begin

-----------------------------------------------------------------------------
(* Type correctness *)

LEMMA AccountEventsType ==
    ASSUME NEW r \in Request, NEW ownerOn
    PROVE  AccountEvents(r, ownerOn) \subseteq Event
<1>1. \A d \in r.on : d \in Devices /\ r.snap[d] \in Addrs
  BY DEF Request
<1> QED BY <1>1, EmitMembershipType DEF AccountEvents

\* The reads of a request change its locals only.
LEMMA ReadsType ==
    ASSUME TypeOK, NEW p \in Procs, CheckinRead(p) \/ ReadOwner(p) \/ ListDevices(p)
    PROVE  TypeOK'
<1> DEFINE r == req[p]
<1>0. r \in Request
  BY DEF TypeOK
<1>1. req' \in [Procs -> Request]
  <2>1. CASE CheckinRead(p)
    <3>1. DeviceRequest("checkin", "write", r.dev) \in Request
      BY <1>0, DeviceRequestType DEF Request, Ops, PCs
    <3>2. r.rep \in Addrs /\ now \in Nat
      BY <1>0 DEF Request, TypeOK
    <3>3. [DeviceRequest("checkin", "write", r.dev) EXCEPT !.rep = r.rep, !.at = now] \in Request
      BY <3>1, <3>2 DEF Request
    <3> QED BY <2>1, <3>3, IdleTypes DEF CheckinRead, Finish, TypeOK
  <2>2. CASE ReadOwner(p)
    <3>1. [r EXCEPT !.pc = "write", !.own = (userSt[Owner[r.dev]] = "on")] \in Request
      BY <1>0 DEF Request, PCs
    <3> QED BY <2>2, <3>1, IdleTypes DEF ReadOwner, Finish, TypeOK
  <2>3. CASE ListDevices(p)
    <3> DEFINE mine == {d \in Devices : Owner[d] = r.usr /\ Live(d)}
               sn == [d \in Devices |-> IF d \in mine THEN addr[d] ELSE NoAddrs]
               ons == {d \in mine : devSt[d] = "on"}
    <3>1. sn \in [Devices -> Addrs]
      BY IdleTypes DEF TypeOK
    <3>2. ons \in SUBSET Devices
      OBVIOUS
    <3> HIDE DEF sn, ons
    <3>3. [r EXCEPT !.pc = "write", !.snap = sn, !.on = ons] \in Request
      BY <1>0, <3>1, <3>2 DEF Request, PCs
    <3>4. req' = [req EXCEPT ![p] = [r EXCEPT !.pc = "write", !.snap = sn, !.on = ons]]
      BY <2>3 DEF ListDevices, sn, ons, TypeOK
    <3> QED BY <3>3, <3>4 DEF TypeOK
  <2> QED BY <2>1, <2>2, <2>3
<1>2. UNCHANGED <<now, tables, seq, log, sw, notices, lost>>
  BY DEF CheckinRead, ReadOwner, ListDevices
<1> QED BY <1>1, <1>2 DEF TypeOK, tables

LEMMA CheckinWriteType ==
    ASSUME TypeOK, NEW p \in Procs, CheckinWrite(p)
    PROVE  TypeOK'
<1> DEFINE r == req[p]
           d == r.dev
           eff == Effective(r)
           ev == [type |-> "ip_changed", id |-> nextId, dev |-> d, cur |-> eff]
<1>0. r \in Request /\ d \in Devices /\ eff \in Addrs /\ Asserted(r) \in SUBSET Families
  BY EffectiveType DEF TypeOK, Request, Asserted
<1>1. UNCHANGED <<now, seq, log, sw, notices, lost>>
  BY DEF CheckinWrite
<1>2. CASE Finish(p) /\ UNCHANGED tables
  BY <1>1, <1>2, IdleTypes DEF TypeOK, tables, Finish
<1>3. CASE Touch(d, Asserted(r), r.at) /\ Finish(p)
  <2>1. Stamps(r.at) \subseteq Nat
    BY ConstantsAssumption DEF Stamps
  <2> PICK t \in Stamps(r.at) : Confirm(d, Asserted(r), t)
    BY <1>3 DEF Touch
  <2>2. t \in Nat
    BY <2>1
  <2> QED BY <1>0, <1>1, <1>3, <2>2, IdleTypes, ConfirmType DEF TypeOK, Finish, Touch
<1>4. CASE RecordIPChange(d, eff, Asserted(r)) /\ Announce(p, {ev})
  <2>1. ev \in Event
    BY <1>0 DEF Event, EventTypes, TypeOK
  <2>2. req' \in [Procs -> Request]
    BY <1>4, <2>1, AnnounceType
  <2>3. conf' \in [Devices -> [Families -> Nat]] /\ warn' \in [Devices -> [Families -> 0..4]]
    <3>1. now \in Nat /\ Confirm(d, Asserted(r), now)
      BY <1>4 DEF RecordIPChange, TypeOK
    <3> QED BY <1>0, <3>1, ConfirmType
  <2>4. hist' \in [Devices -> SUBSET HistRow] /\ nextId' \in Nat \ {0}
    BY <1>0, <1>4, AppendHistType DEF RecordIPChange, TypeOK
  <2>5. addr' \in [Devices -> Addrs] /\ UNCHANGED <<userSt, devSt>>
    BY <1>0, <1>4 DEF RecordIPChange, TypeOK
  <2> QED BY <1>1, <2>2, <2>3, <2>4, <2>5 DEF TypeOK
<1> QED BY <1>2, <1>3, <1>4 DEF CheckinWrite

LEMMA DeviceWritesType ==
    ASSUME TypeOK, NEW p \in Procs, FlipDisabled(p) \/ DeleteDevice(p)
    PROVE  TypeOK'
<1> DEFINE r == req[p]
           d == r.dev
<1>0. r \in Request /\ d \in Devices /\ r.snap[d] \in Addrs /\ r.want \in {"on", "off"}
  BY DEF TypeOK, Request
<1>1. UNCHANGED <<now, seq, log, sw, notices, lost>>
  BY DEF FlipDisabled, DeleteDevice
<1>2. CASE Finish(p) /\ UNCHANGED tables
  BY <1>1, <1>2, IdleTypes DEF TypeOK, tables, Finish
<1>3. ASSUME NEW b, NEW a, Announce(p, emitMembership(d, r.snap[d], b, a))
      PROVE  req' \in [Procs -> Request]
  BY <1>0, <1>3, AnnounceType, EmitMembershipType
<1>4. CASE FlipDisabled(p) /\ Live(d)
  <2>1. req' \in [Procs -> Request]
    BY <1>3, <1>4 DEF FlipDisabled
  <2>2. devSt' \in [Devices -> {"unborn", "on", "off", "gone"}]
    BY <1>0, <1>4 DEF FlipDisabled, TypeOK
  <2> QED BY <1>1, <1>4, <2>1, <2>2 DEF FlipDisabled, TypeOK
<1>5. CASE DeleteDevice(p) /\ Live(d)
  <2>1. req' \in [Procs -> Request]
    BY <1>3, <1>5 DEF DeleteDevice
  <2>2. DropDevices({d}) /\ UNCHANGED <<userSt, nextId>>
    BY <1>5 DEF DeleteDevice
  <2> QED BY <1>0, <1>1, <2>1, <2>2, DropDevicesType DEF TypeOK
<1> QED BY <1>2, <1>4, <1>5 DEF FlipDisabled, DeleteDevice

LEMMA UserWritesType ==
    ASSUME TypeOK, NEW p \in Procs, UpdateUser(p) \/ DeleteUser(p)
    PROVE  TypeOK'
<1> DEFINE r == req[p]
<1>0. r \in Request /\ r.usr \in Users /\ r.want \in {"on", "off"}
  BY DEF TypeOK, Request
<1>1. CASE UpdateUser(p)
  <2>1. req' \in [Procs -> Request]
    BY <1>0, <1>1, IdleTypes, AnnounceType, AccountEventsType DEF UpdateUser, Finish, TypeOK
  <2>2. userSt' \in [Users -> {"on", "off", "gone"}]
    BY <1>0, <1>1 DEF UpdateUser, TypeOK
  <2> QED BY <1>1, <2>1, <2>2 DEF UpdateUser, TypeOK
<1>2. CASE DeleteUser(p) /\ UserLive(r.usr)
  <2> DEFINE ds == {d \in Devices : Owner[d] = r.usr /\ Live(d)}
  <2>1. req' \in [Procs -> Request]
    BY <1>0, <1>2, AnnounceType, AccountEventsType DEF DeleteUser
  <2>2. userSt' \in [Users -> {"on", "off", "gone"}]
    BY <1>0, <1>2 DEF DeleteUser, TypeOK
  <2>3. DropDevices(ds) /\ UNCHANGED <<nextId, now, seq, log, sw, notices, lost>>
    BY <1>2 DEF DeleteUser
  <2>4. ds \in SUBSET Devices
    OBVIOUS
  <2> HIDE DEF ds
  <2> QED BY <2>1, <2>2, <2>3, <2>4, DropDevicesType DEF TypeOK
<1>3. CASE DeleteUser(p) /\ ~UserLive(r.usr)
  BY <1>3, IdleTypes DEF DeleteUser, Finish, TypeOK, tables
<1> QED BY <1>1, <1>2, <1>3

LEMMA EmitType ==
    ASSUME TypeOK, NEW p \in Procs, Emit(p)
    PROVE  TypeOK'
<1> PICK e \in req[p].pend, b \in BumpOutcomes :
          Dispatch(e, b) /\ Announce(p, req[p].pend \ {e})
  BY DEF Emit
<1>1. req[p].pend \subseteq Event
  BY DEF TypeOK, Request
<1>2. b \in BOOLEAN
  BY DEF BumpOutcomes
<1>3. seq' \in Nat /\ log' \in Seq(Event)
  BY <1>1, <1>2, DispatchType
<1>4. req' \in [Procs -> Request]
  BY <1>1, AnnounceType
<1> QED BY <1>3, <1>4 DEF Emit, TypeOK, tables

LEMMA RungReset ==
    ASSUME NEW s \in Sweep
    PROVE  [s EXCEPT !.rung = 0] \in Sweep
<1>1. ASSUME NEW n \in 0..4 PROVE [s EXCEPT !.rung = n] \in Sweep
  BY <1>1 DEF Sweep
<1>2. 0 \in 0..4
  OBVIOUS
<1> QED BY <1>1, <1>2

LEMMA NextCandidateType ==
    ASSUME TypeOK, NEW todo \in SUBSET Devices
    PROVE  NextCandidate(todo) \in Sweep
<1>1. sw \in Sweep
  BY DEF TypeOK
<1> DEFINE pc == IF todo = {} THEN "digest" ELSE "act"
           a == [sw EXCEPT !.pc = pc, !.todo = todo, !.dev = AnyDev]
           b == [a EXCEPT !.wat = 0, !.fams = {}]
           c == [b EXCEPT !.pend = {}]
<1>2. pc \in SweepPCs
  BY DEF SweepPCs
<1>3. [c EXCEPT !.rung = 0] =
        [sw EXCEPT !.pc = pc, !.todo = todo, !.dev = AnyDev, !.wat = 0,
                   !.fams = {}, !.rung = 0, !.pend = {}]
  BY <1>1 DEF Sweep
<1>4. [c EXCEPT !.rung = 0] \in Sweep
  <2> HIDE DEF pc
  <2>1. a \in Sweep
    BY <1>1, <1>2, IdleTypes DEF Sweep
  <2> HIDE DEF a
  <2>2. b \in Sweep
    BY <2>1 DEF Sweep
  <2> HIDE DEF b
  <2>3. c \in Sweep
    BY <2>2 DEF Sweep
  <2> HIDE DEF c
  <2> QED BY <2>3, RungReset
<1> QED BY <1>3, <1>4, IdleTypes DEF NextCandidate

\* What deliver sends and keeps for the digest are notices.
LEMMA DeliverType ==
    ASSUME TypeOK, NEW pc \in SweepPCs, deliver(pc)
    PROVE  sw' \in Sweep /\ notices' \subseteq Notice
<1> DEFINE f == NextFamily
           n(to) == [dev |-> sw.dev, fam |-> f, rung |-> sw.rung,
                     conf |-> sw.conf[sw.dev][f], to |-> to]
           audience == IF UserLive(Owner[sw.dev]) THEN RecipientsFor(sw.rung) ELSE {}
           g == sw.fams \ {f}
           dg == sw.digest \cup {n(to) : to \in audience \cap {"admin"}}
           a == [sw EXCEPT !.pc = pc, !.fams = g]
           b == [a EXCEPT !.digest = dg]
<1>1. sw \in Sweep /\ notices \subseteq Notice
  BY DEF TypeOK
<1>2. f \in Families
  BY DEF NextFamily, Families
<1>3. \A to \in {"owner", "admin"} : n(to) \in Notice
  BY <1>1, <1>2 DEF Sweep, Notice
<1>4. dg \subseteq Notice /\ g \subseteq Families
  BY <1>1, <1>3 DEF Sweep
<1>5. notices' \subseteq Notice
  BY <1>1, <1>3 DEF deliver
<1>6. sw' = [b EXCEPT !.rung = 0]
  BY <1>1 DEF deliver, Sweep
<1> HIDE DEF dg, g
<1>7. a \in Sweep
  BY <1>1, <1>4 DEF Sweep
<1> HIDE DEF a
<1>8. b \in Sweep
  BY <1>4, <1>7 DEF Sweep
<1> HIDE DEF b
<1> QED BY <1>5, <1>6, <1>8, RungReset

\* The expiry half of the sweep keeps the types.
LEMMA SweepExpiryType ==
    ASSUME TypeOK, StartSweep \/ SweepQuery \/ SweepAct \/ SweepExpire \/ SweepAnnounce
    PROVE  TypeOK'
<1>0. sw \in Sweep /\ sw.dev \in Devices /\ sw.todo \in SUBSET Devices
  BY DEF TypeOK, Sweep
<1>1. CASE StartSweep
  <2>1. now \in Nat /\ sw' = [SweepIdle EXCEPT !.pc = "query", !.at = now]
    BY <1>1 DEF StartSweep, TypeOK
  <2>2. sw' \in Sweep
    BY <2>1, IdleTypes DEF Sweep, SweepPCs
  <2> QED BY <1>1, <2>2 DEF StartSweep, TypeOK, tables
<1>5. CASE SweepQuery
  <2> DEFINE cands == {d \in Devices : IsCandidate(d, sw.at)}
             sn == [d \in Devices |-> IF d \in cands THEN addr[d] ELSE NoAddrs]
             cf == [d \in Devices |-> IF d \in cands THEN conf[d] ELSE Zeros]
             wn == [d \in Devices |-> IF d \in cands THEN warn[d] ELSE Zeros]
  <2>1. Zeros \in [Families -> Nat] /\ Zeros \in [Families -> 0..4]
    BY DEF Zeros
  <2>2. sn \in [Devices -> Addrs]
    BY IdleTypes DEF TypeOK
  <2>3. cf \in [Devices -> [Families -> Nat]]
    BY <2>1 DEF TypeOK
  <2>4. wn \in [Devices -> [Families -> 0..4]]
    BY <2>1 DEF TypeOK
  <2>5. cands \in SUBSET Devices /\ sw.at \in Nat
    BY <1>0 DEF Sweep
  <2>6. sw' = SweepIdle
        \/ sw' = [SweepIdle EXCEPT !.pc = "act", !.at = sw.at, !.todo = cands,
                                    !.snap = sn, !.conf = cf, !.warn = wn]
    BY <1>5 DEF SweepQuery
  <2> HIDE DEF cands, sn, cf, wn
  <2>7. sw' \in Sweep
    BY <2>2, <2>3, <2>4, <2>5, <2>6, IdleTypes DEF Sweep, SweepPCs
  <2> QED BY <1>5, <2>7 DEF SweepQuery, TypeOK, tables
<1>2. CASE SweepAct
  <2> PICK d \in sw.todo :
          sw' = IF Due(d) # {}
                  THEN [sw EXCEPT !.pc = "locked", !.dev = d, !.wat = now]
                  ELSE [sw EXCEPT !.pc = "warn", !.dev = d, !.fams = Present(d)]
    BY <1>2 DEF SweepAct
  <2>1. d \in Devices /\ now \in Nat /\ Present(d) \in SUBSET Families
    BY <1>0 DEF TypeOK, Present
  <2>2. [sw EXCEPT !.pc = "locked", !.dev = d, !.wat = now] \in Sweep
    BY <1>0, <2>1 DEF Sweep, SweepPCs
  <2>3. [sw EXCEPT !.pc = "warn", !.dev = d, !.fams = Present(d)] \in Sweep
    BY <1>0, <2>1 DEF Sweep, SweepPCs
  <2>4. sw' \in Sweep
    BY <2>2, <2>3
  <2> QED BY <1>2, <2>4 DEF SweepAct, TypeOK, tables
<1>3. CASE SweepExpire
  <2> DEFINE d == sw.dev
             after == Clear(addr[d], Due(d))
             shown == Clear(sw.snap[d], Due(d))
             ev == [type |-> "ip_changed", id |-> nextId, dev |-> d, cur |-> shown]
  <2>1. after \in Addrs /\ shown \in Addrs
    <3>1. addr[d] \in Addrs /\ sw.snap[d] \in Addrs
      BY <1>0 DEF TypeOK, Sweep
    <3>2. ASSUME NEW a \in Addrs, NEW fs
          PROVE  Clear(a, fs) \in Addrs
      BY DEF Clear, Addrs, MaybeAddr
    <3> QED BY <3>1, <3>2
  <2>2. CASE /\ addr' = [addr EXCEPT ![d] = after]
             /\ warn' = [warn EXCEPT ![d] = [f \in Families |-> IF f \in Due(d) THEN 0 ELSE @[f]]]
             /\ appendIPHistory(d, after, sw.wat)
             /\ sw' = [sw EXCEPT !.pc = "announce", !.pend = {ev}]
             /\ UNCHANGED <<userSt, devSt, conf>>
    <3>1. addr' \in [Devices -> Addrs]
      BY <1>0, <2>1, <2>2 DEF TypeOK
    <3>2. warn' \in [Devices -> [Families -> 0..4]]
      <4>1. [f \in Families |-> IF f \in Due(d) THEN 0 ELSE warn[d][f]] \in [Families -> 0..4]
        BY <1>0 DEF TypeOK
      <4> QED BY <1>0, <2>2, <4>1 DEF TypeOK
    <3>3. hist' \in [Devices -> SUBSET HistRow] /\ nextId' \in Nat \ {0}
      <4>1. sw.wat \in Nat
        BY <1>0 DEF Sweep
      <4> QED BY <1>0, <2>1, <2>2, <4>1, AppendHistType
    <3>4. ev \in Event
      BY <1>0, <2>1 DEF Event, EventTypes, TypeOK
    <3>5. sw' \in Sweep
      BY <1>0, <2>2, <3>4 DEF Sweep, SweepPCs
    <3> QED BY <1>3, <2>2, <3>1, <3>2, <3>3, <3>5 DEF SweepExpire, TypeOK
  <2>3. CASE sw' = NextCandidate(sw.todo \ {d}) /\ UNCHANGED tables
    <3>1. sw' \in Sweep
      BY <1>0, <2>3, NextCandidateType
    <3> QED BY <1>3, <2>3, <3>1 DEF SweepExpire, TypeOK, tables
  <2> QED BY <1>3, <2>2, <2>3 DEF SweepExpire
<1>4. CASE SweepAnnounce
  <2> PICK e \in sw.pend, b \in BumpOutcomes : Dispatch(e, b)
    BY <1>4 DEF SweepAnnounce
  <2>1. e \in Event /\ b \in BOOLEAN
    BY <1>0 DEF Sweep, BumpOutcomes
  <2>2. seq' \in Nat /\ log' \in Seq(Event)
    BY <2>1, DispatchType
  <2> DEFINE ff == Due(sw.dev)
  <2>3. ff \subseteq Families /\ sw' = [sw EXCEPT !.pc = "removed", !.fams = ff, !.pend = {}]
    BY <1>4 DEF SweepAnnounce, Due, Present
  <2>4. sw' \in Sweep
    <3> HIDE DEF ff
    <3> QED BY <1>0, <2>3 DEF Sweep, SweepPCs
  <2> QED BY <1>4, <2>2, <2>4 DEF SweepAnnounce, TypeOK, tables
<1> QED BY <1>1, <1>2, <1>3, <1>4, <1>5

\* The warnings and notices of the sweep keep the types.
LEMMA SweepWarningType ==
    ASSUME TypeOK, SweepWarn \/ SweepDeliver \/ SweepRemoved \/ SweepDigest
    PROVE  TypeOK'
<1> DEFINE d == sw.dev
<1>0. sw \in Sweep /\ d \in Devices /\ sw.todo \in SUBSET Devices
      /\ sw.at \in Nat /\ sw.conf[d] \in [Families -> Nat]
  BY DEF TypeOK, Sweep
<1>1. CASE SweepWarn
  <2>1. CASE sw' = NextCandidate(sw.todo \ {d}) /\ UNCHANGED tables
    <3>1. sw' \in Sweep
      BY <1>0, <2>1, NextCandidateType
    <3> QED BY <1>1, <2>1, <3>1 DEF SweepWarn, TypeOK, tables
  <2>2. ASSUME NEW f \in sw.fams, sw' = [sw EXCEPT !.fams = @ \ {f}], UNCHANGED tables
        PROVE  TypeOK'
    <3>1. sw' \in Sweep
      BY <1>0, <2>2 DEF Sweep
    <3> QED BY <1>1, <2>2, <3>1 DEF SweepWarn, TypeOK, tables
  <2>3. ASSUME NEW f \in sw.fams, NEW due \in Int,
               due = DueRung(W, sw.at - sw.conf[d][f]),
               warn' = [warn EXCEPT ![d][f] = due],
               sw' = [sw EXCEPT !.pc = "notice", !.rung = due],
               UNCHANGED <<userSt, devSt, addr, conf, hist, nextId>>
        PROVE  TypeOK'
    <3>1. f \in Families
      BY <1>0 DEF Sweep
    <3>2. due \in 0..4
      BY <1>0, <2>3, <3>1, DueRungType, ConstantsAssumption
    <3>3. sw' \in Sweep
      BY <1>0, <2>3, <3>2 DEF Sweep, SweepPCs
    <3>4. warn' \in [Devices -> [Families -> 0..4]]
      BY <1>0, <2>3, <3>1, <3>2 DEF TypeOK
    <3> QED BY <1>1, <2>3, <3>3, <3>4 DEF SweepWarn, TypeOK
  <2>4. \A f \in sw.fams : DueRung(W, sw.at - sw.conf[d][f]) \in Int
    <3>1. \A f \in sw.fams : f \in Families
      BY <1>0 DEF Sweep
    <3>2. \A f \in Families : sw.at - sw.conf[d][f] \in Int
      BY <1>0
    <3> QED BY <3>1, <3>2, DueRungType, ConstantsAssumption
  <2> QED BY <1>1, <2>1, <2>2, <2>3, <2>4 DEF SweepWarn
<1>2. CASE SweepDeliver
  <2>1. sw' \in Sweep /\ notices' \subseteq Notice
    BY <1>2, DeliverType DEF SweepDeliver, SweepPCs
  <2> QED BY <1>2, <2>1 DEF SweepDeliver, TypeOK, tables
<1>3. CASE SweepRemoved
  <2>1. sw' \in Sweep /\ notices' \subseteq Notice
    <3>1. notices \subseteq Notice
      BY DEF TypeOK
    <3> QED BY <1>0, <1>3, <3>1, DeliverType, NextCandidateType DEF SweepRemoved, SweepPCs
  <2> QED BY <1>3, <2>1 DEF SweepRemoved, TypeOK, tables
<1>4. CASE SweepDigest
  <2>1. notices' \subseteq Notice
    <3>1. notices \subseteq Notice /\ sw.digest \subseteq Notice
      BY <1>0 DEF TypeOK, Sweep
    <3> QED BY <1>4, <3>1 DEF SweepDigest
  <2> QED BY <1>4, <2>1, IdleTypes DEF SweepDigest, TypeOK, tables
<1> QED BY <1>1, <1>2, <1>3, <1>4

\* Retention, enrollment, time and crashes keep the types.
LEMMA RestType ==
    ASSUME TypeOK, \/ \E d \in Devices : PruneIPHistory(d) \/ Enroll(d)
                   \/ Tick \/ Crash
    PROVE  TypeOK'
<1>1. ASSUME NEW d \in Devices, PruneIPHistory(d)
      PROVE  TypeOK'
  BY <1>1 DEF PruneIPHistory, TypeOK
<1>2. ASSUME NEW d \in Devices, Enroll(d)
      PROVE  TypeOK'
  BY <1>2 DEF Enroll, TypeOK
<1>3. CASE Tick
  BY <1>3, ConstantsAssumption DEF Tick, TypeOK, tables
<1>4. CASE Crash
  <2>1. PendingIds \subseteq Nat
    <3>1. \A p \in Procs : req[p].pend \subseteq Event
      BY DEF TypeOK, Request
    <3>2. sw.pend \subseteq Event
      BY DEF TypeOK, Sweep
    <3>3. \A x \in Event : x.id \in Nat
      BY DEF Event
    <3>4. (UNION {req[p].pend : p \in Procs}) \cup sw.pend \subseteq Event
      BY <3>1, <3>2
    <3> QED BY <3>3, <3>4 DEF PendingIds
  <2> QED BY <1>4, <2>1, IdleTypes DEF Crash, TypeOK, tables
<1> QED BY <1>1, <1>2, <1>3, <1>4

\* Every step keeps the types.
LEMMA TypeStep == TypeOK /\ [Next]_vars => TypeOK'
<1> SUFFICES ASSUME TypeOK, [Next]_vars PROVE TypeOK'
  OBVIOUS
<1>1. ASSUME NEW p \in Procs, Begin(p) PROVE TypeOK'
  BY <1>1, BeginType
<1>2. ASSUME NEW p \in Procs, Proceed(p) PROVE TypeOK'
  BY <1>2, ReadsType, CheckinWriteType, DeviceWritesType, UserWritesType, EmitType
     DEF Proceed
<1>3. CASE SweepStep
  BY <1>3, SweepExpiryType, SweepWarningType DEF SweepStep
<1>4. CASE \/ \E d \in Devices : PruneIPHistory(d) \/ Enroll(d)
           \/ Tick \/ Crash
  BY <1>4, RestType
<1>5. CASE UNCHANGED vars
  BY <1>5 DEF vars, TypeOK
<1> QED BY <1>1, <1>2, <1>3, <1>4, <1>5 DEF Next

LEMMA TypeInit == Init => TypeOK
<1> SUFFICES ASSUME Init PROVE TypeOK
  OBVIOUS
<1>1. Zeros \in [Families -> Nat] /\ Zeros \in [Families -> 0..4]
  BY DEF Zeros
<1> QED BY <1>1, IdleTypes, ConstantsAssumption DEF Init, TypeOK

(***************************************************************************)
(* The tables, the event log, the handlers and the sweep always hold       *)
(* values of their types, for every instance of the model.                 *)
(***************************************************************************)
THEOREM TypeCorrect == Spec => []TypeOK
BY TypeInit, TypeStep, PTL DEF Spec
=============================================================================
