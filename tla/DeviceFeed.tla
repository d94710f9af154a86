----------------------------- MODULE DeviceFeed -----------------------------
(***************************************************************************)
(* The devices of a diyddns server and the gateway feed computed from      *)
(* them.  Four kinds of actor change a device: agents checking in, owners  *)
(* and admins enabling, disabling and deleting devices and accounts, the   *)
(* hourly staleness sweep, and the retention pruner.  SQLite's single      *)
(* connection makes each statement (or transaction) atomic, never a        *)
(* handler: a handler is a request in req[p] that reads, writes and then   *)
(* announces the change in separate steps, and the steps of handlers       *)
(* interleave.                                                             *)
(*                                                                         *)
(* Announcements go through fanout (internal/server/fanout.go).  Its mutex *)
(* makes bump + enqueue + broadcast one step for every caller but the      *)
(* sweep, which also holds it across its own database write; so the mutex  *)
(* is "the sweep is between locking and announcing".                       *)
(*                                                                         *)
(* log is the sequence of events handed to the outbox and the stream.      *)
(* Accounts here are ordinary users: the guards of AdminService about      *)
(* admins and about oneself always let an operation on them through.       *)
(***************************************************************************)
EXTENDS Integers, FiniteSets, Sequences, StaleWindow

CONSTANTS
    Devices,      \* device ids; ids are random and never used twice
    Users,
    Owner,        \* Owner[d]: the account device d is enrolled for
    Addr,         \* addresses an agent can report
    None,         \* the absent address: "" in Go, NULL in SQLite
    Reports,      \* the reports agents send: an address or None per family
    Arrivals,     \* the operations that are requested
    Procs,        \* request handlers
    W,            \* the expiry window, in clock units
    RetainFor,    \* retention.ip_history_days, in clock units; 0 = off
    RetainMax,    \* retention.ip_history_per_device_max; 0 = off
    StampLag,     \* bound on how long a Touch waits for the database
    MaxInFlight,  \* bound on handlers and sweep running at the same time
    Clock,        \* the instants at which anything happens, a finite set
    MaxId,        \* bound on ip_history.id: no request begins beyond it
    MaxSeq,       \* bound on feed_state.seq, likewise
    Faults,       \* may a feed_state bump fail (cancelled request, I/O)?
    Crashes       \* may the server be killed and restarted?

Families == {"v4", "v6"}
MaybeAddr == Addr \cup {None}
Addrs == [Families -> MaybeAddr]
NoAddrs == [f \in Families |-> None]
Zeros == [f \in Families |-> 0]

Ops == {"checkin", "set_enabled", "admin_set_enabled", "delete", "update_user",
        "delete_user"}

ASSUME ConstantsAssumption ==
    /\ Devices # {} /\ Users # {}
    /\ Owner \in [Devices -> Users]
    /\ None \notin Addr
    /\ Reports \subseteq Addrs /\ Arrivals \subseteq Ops
    /\ Clock \subseteq Nat
    /\ W \in Nat \ {0}
    /\ RetainFor \in Nat /\ RetainMax \in Nat /\ StampLag \in Nat
    /\ MaxInFlight \in Nat /\ MaxId \in Nat /\ MaxSeq \in Nat
    /\ Faults \in BOOLEAN /\ Crashes \in BOOLEAN

VARIABLES
    now,      \* store.NowUnix(): seconds, never going back
    userSt,   \* users: "on", "off" (disabled) or "gone" (deleted)
    devSt,    \* devices: "unborn", "on", "off" (disabled) or "gone"
    addr,     \* devices.current_ipv4 / current_ipv6
    conf,     \* devices.v4_confirmed_at / v6_confirmed_at, 0 for NULL
    warn,     \* devices.v4_warn_level / v6_warn_level
    hist,     \* ip_history rows of each device
    nextId,   \* ip_history's AUTOINCREMENT: the next id
    seq,      \* feed_state.seq
    log,      \* the events dispatched so far, in order
    req,      \* the state of every request handler
    sw,       \* the state of the sweep
    notices,  \* staleness notices sent
    lost      \* history ids whose announcement a crash destroyed

tables == <<userSt, devSt, addr, conf, warn, hist, nextId>>
vars == <<now, userSt, devSt, addr, conf, warn, hist, nextId, seq, log, req,
          sw, notices, lost>>

-----------------------------------------------------------------------------
(* Values *)

HistRow == [id : Nat, addr : Addrs, at : Nat]
EventTypes == {"ip_changed", "added", "removed"}
Event == [type : EventTypes, id : Nat, dev : Devices, cur : Addrs]

PCs == {"idle", "read", "owner", "list", "write", "emit"}

(***************************************************************************)
(* A handler's locals: its arguments (dev, usr, rep, want), the rows it    *)
(* read (snap: addresses, on: the devices read as enabled, own: the owner  *)
(* read as enabled), when a check-in read them (at), and the events it     *)
(* still has to announce (pend).                                           *)
(***************************************************************************)
Request == [pc : PCs, op : Ops, dev : Devices, usr : Users, rep : Addrs,
            want : {"on", "off"}, snap : [Devices -> Addrs],
            on : SUBSET Devices, own : BOOLEAN, at : Nat, pend : SUBSET Event]

AnyDev == CHOOSE d \in Devices : TRUE
AnyUser == CHOOSE u \in Users : TRUE
NoSnap == [d \in Devices |-> NoAddrs]

Idle == [pc |-> "idle", op |-> "checkin", dev |-> AnyDev, usr |-> AnyUser,
         rep |-> NoAddrs, want |-> "on", snap |-> NoSnap, on |-> {},
         own |-> FALSE, at |-> 0, pend |-> {}]

SweepPCs == {"idle", "query", "act", "locked", "announce", "removed", "warn", "notice", "digest"}

\* One staleness message to one audience; rung 0 is the removal notice.
Notice == [dev : Devices, fam : Families, rung : 0..4, conf : Nat,
           to : {"owner", "admin"}]

(***************************************************************************)
(* The sweep's locals: the tick's instant, the candidates not yet acted    *)
(* on, their rows as read in phase 1, the candidate in hand (dev), the     *)
(* instant its write will carry (wat), the families still to notify and    *)
(* the rung just recorded, the event of the write it has committed (pend)  *)
(* and the notices kept for the admins' digest.                            *)
(***************************************************************************)
Sweep == [pc : SweepPCs, at : Nat, todo : SUBSET Devices, dev : Devices,
          snap : [Devices -> Addrs], conf : [Devices -> [Families -> Nat]],
          warn : [Devices -> [Families -> 0..4]], wat : Nat,
          fams : SUBSET Families, rung : 0..4, pend : SUBSET Event,
          digest : SUBSET Notice]

SweepIdle == [pc |-> "idle", at |-> 0, todo |-> {}, dev |-> AnyDev,
              snap |-> NoSnap, conf |-> [d \in Devices |-> Zeros],
              warn |-> [d \in Devices |-> Zeros], wat |-> 0, fams |-> {},
              rung |-> 0, pend |-> {}, digest |-> {}]

TypeOK ==
    /\ now \in Nat
    /\ userSt \in [Users -> {"on", "off", "gone"}]
    /\ devSt \in [Devices -> {"unborn", "on", "off", "gone"}]
    /\ addr \in [Devices -> Addrs]
    /\ conf \in [Devices -> [Families -> Nat]]
    /\ warn \in [Devices -> [Families -> 0..4]]
    /\ hist \in [Devices -> SUBSET HistRow]
    /\ nextId \in Nat \ {0}
    /\ seq \in Nat
    /\ log \in Seq(Event)
    /\ req \in [Procs -> Request]
    /\ sw \in Sweep
    /\ notices \subseteq Notice
    /\ lost \subseteq Nat

-----------------------------------------------------------------------------
(* The feed *)

Live(d) == devSt[d] \in {"on", "off"}
UserLive(u) == userSt[u] # "gone"

\* service.inFeed: enabled device, enabled owner, at least one address.
inFeed(devOn, ownerOn, a) == devOn /\ ownerOn /\ \E f \in Families : a[f] # None

\* store.ListFeed: what devices.json and a stream snapshot serve; an absent
\* device is one with no address.
ListFeed ==
    [d \in Devices |->
        IF inFeed(devSt[d] = "on", userSt[Owner[d]] = "on", addr[d])
          THEN addr[d] ELSE NoAddrs]

\* emitMembership: the event, if any, that a flip of d from before to after
\* announces.  A membership event has no id until fanout bumps seq.
emitMembership(d, a, before, after) ==
    IF before = after THEN {}
    ELSE {[type |-> IF after THEN "added" ELSE "removed", id |-> 0, dev |-> d,
           cur |-> IF after THEN a ELSE NoAddrs]}

-----------------------------------------------------------------------------
(* store: the statements and transactions that change devices *)

\* Devices().Delete, and the cascade from users: the rows of ds disappear
\* with their ip_history.
DropDevices(ds) ==
    /\ devSt' = [d \in Devices |-> IF d \in ds THEN "gone" ELSE devSt[d]]
    /\ addr' = [d \in Devices |-> IF d \in ds THEN NoAddrs ELSE addr[d]]
    /\ conf' = [d \in Devices |-> IF d \in ds THEN Zeros ELSE conf[d]]
    /\ warn' = [d \in Devices |-> IF d \in ds THEN Zeros ELSE warn[d]]
    /\ hist' = [d \in Devices |-> IF d \in ds THEN {} ELSE hist[d]]

\* appendIPHistory: one row with the next id.
appendIPHistory(d, a, at) ==
    /\ hist' = [hist EXCEPT ![d] = @ \cup {[id |-> nextId, addr |-> a, at |-> at]}]
    /\ nextId' = nextId + 1

\* The CASE WHEN arms updateDeviceIP and Touch share: only a family the agent
\* asserted has its instant set and its warning level reset.
Confirm(d, asserted, t) ==
    /\ conf' = [conf EXCEPT ![d] = [f \in Families |-> IF f \in asserted THEN t ELSE @[f]]]
    /\ warn' = [warn EXCEPT ![d] = [f \in Families |-> IF f \in asserted THEN 0 ELSE @[f]]]

\* The instants a statement that runs now may carry, if its caller took the
\* time after since and then waited for the one connection.
Stamps(since) == {t \in Clock : since <= t /\ t <= now /\ now - t <= StampLag}

\* Devices().Touch: the caller took the instant.
Touch(d, asserted, since) ==
    /\ \E t \in Stamps(since) : Confirm(d, asserted, t)
    /\ UNCHANGED <<userSt, devSt, addr, hist, nextId>>

\* store.RecordIPChange: the device row and its history row, in one
\* transaction, which takes the instant itself.
RecordIPChange(d, a, asserted) ==
    /\ addr' = [addr EXCEPT ![d] = a]
    /\ Confirm(d, asserted, now)
    /\ appendIPHistory(d, a, now)
    /\ UNCHANGED <<userSt, devSt>>

-----------------------------------------------------------------------------
(* fanout: bump -> render -> dispatch *)

MutexFree == sw.pc \notin {"locked", "announce"}

\* Mutated form of Dispatch: a membership event whose bump failed is sent
\* under the last seq instead of being dropped.
DispatchSentinel(e, bumped) ==
    /\ seq' = IF bumped THEN seq + 1 ELSE seq
    /\ log' = IF e.type = "ip_changed" THEN Append(log, e)
              ELSE Append(log, [e EXCEPT !.id = IF bumped THEN seq + 1 ELSE seq])

\* Mutated form of Dispatch: a failed bump drops an ip_changed too.
DispatchDropAll(e, bumped) ==
    /\ seq' = IF bumped THEN seq + 1 ELSE seq
    /\ log' = IF ~bumped THEN log
              ELSE Append(log, IF e.type = "ip_changed" THEN e ELSE [e EXCEPT !.id = seq + 1])

(***************************************************************************)
(* One announcement under the mutex.  bumped says whether the feed_state   *)
(* bump succeeded.  An ip_changed is keyed by its history row and is sent  *)
(* either way; a membership event is keyed by the new seq and is dropped   *)
(* when there is none.                                                     *)
(***************************************************************************)
Dispatch(e, bumped) ==
    /\ seq' = IF bumped THEN seq + 1 ELSE seq
    /\ log' = CASE e.type = "ip_changed" -> Append(log, e)
                [] e.type # "ip_changed" /\ bumped ->
                     Append(log, [e EXCEPT !.id = seq + 1])
                [] OTHER -> log

BumpOutcomes == IF Faults THEN {TRUE, FALSE} ELSE {TRUE}

-----------------------------------------------------------------------------
(* Requests *)

Busy == {p \in Procs : req[p].pc # "idle"}
InFlight == Cardinality(Busy) + (IF sw.pc = "idle" THEN 0 ELSE 1)

\* The counters are bounded where requests begin, so that every request that
\* has begun can finish.
Quota == nextId <= MaxId /\ seq <= MaxSeq

Start(p, r) ==
    /\ req[p].pc = "idle"
    /\ InFlight < MaxInFlight
    /\ Quota
    /\ r.op \in Arrivals
    /\ req' = [req EXCEPT ![p] = r]
    /\ UNCHANGED <<now, tables, seq, log, sw, notices, lost>>

At(p, ops, pc) == req[p].op \in ops /\ req[p].pc = pc

\* A handler that returns, with or without an error.
Finish(p) == req' = [req EXCEPT ![p] = Idle]

\* After its write a handler goes on to announce events, or returns.
Announce(p, events) ==
    IF events = {} THEN Finish(p)
    ELSE req' = [req EXCEPT ![p] = [Idle EXCEPT !.pc = "emit", !.pend = events]]

\* POST /agent/v1/checkin is accepted: Verify saw an enabled device of an
\* enabled owner.  The handler then reads the device again.
StartCheckin(p, d, rep) ==
    /\ devSt[d] = "on" /\ userSt[Owner[d]] = "on"
    /\ Start(p, [Idle EXCEPT !.op = "checkin", !.pc = "read", !.dev = d, !.rep = rep])

\* A request about device d, as it stands after its first Devices().GetByID.
\* A missing row ends it there (ErrNotFound), with no effect.
DeviceRequest(op, pc, d) ==
    [Idle EXCEPT !.op = op, !.pc = pc, !.dev = d, !.snap[d] = addr[d],
                 !.on = IF devSt[d] = "on" THEN {d} ELSE {}]

\* CheckinService.Checkin's own read of the row.
CheckinRead(p) ==
    LET r == req[p] IN
    /\ At(p, {"checkin"}, "read")
    /\ IF Live(r.dev)
         THEN req' = [req EXCEPT ![p] =
                        [DeviceRequest("checkin", "write", r.dev) EXCEPT !.rep = r.rep,
                                                                         !.at = now]]
         ELSE Finish(p)
    /\ UNCHANGED <<now, tables, seq, log, sw, notices, lost>>

\* DeviceService.SetEnabled and .Delete read the device in the name of its
\* owner, whose session is that of an enabled account; the admin's
\* SetDeviceEnabled reads any device.
StartSetEnabled(p, d, want) ==
    /\ Live(d) /\ userSt[Owner[d]] = "on"
    /\ Start(p, [DeviceRequest("set_enabled", "owner", d) EXCEPT !.want = want])

StartAdminSetEnabled(p, d, want) ==
    /\ Live(d)
    /\ Start(p, [DeviceRequest("admin_set_enabled", "owner", d) EXCEPT !.want = want])

StartDelete(p, d) ==
    /\ Live(d) /\ userSt[Owner[d]] = "on"
    /\ Start(p, DeviceRequest("delete", "owner", d))

\* Users().GetByID of that device's owner.  The admin path returns here when
\* the device already is as requested.
ReadOwner(p) ==
    LET r == req[p]
        u == Owner[r.dev]
        same == r.op = "admin_set_enabled" /\ (r.want = "on") = (r.dev \in r.on)
    IN
    /\ r.pc = "owner"
    /\ IF UserLive(u) /\ ~same
         THEN req' = [req EXCEPT ![p].pc = "write", ![p].own = (userSt[u] = "on")]
         ELSE Finish(p)
    /\ UNCHANGED <<now, tables, seq, log, sw, notices, lost>>

\* AdminService.UpdateUser (its disabled half) and .DeleteUser read the account.
StartUpdateUser(p, u, want) ==
    /\ UserLive(u)
    /\ Start(p, [Idle EXCEPT !.op = "update_user", !.pc = "list", !.usr = u,
                             !.want = want, !.own = (userSt[u] = "on")])

StartDeleteUser(p, u) ==
    /\ UserLive(u)
    /\ Start(p, [Idle EXCEPT !.op = "delete_user", !.pc = "list", !.usr = u,
                             !.own = (userSt[u] = "on")])

\* Devices().ListByUser, before the account is written.
ListDevices(p) ==
    LET r == req[p]
        mine == {d \in Devices : Owner[d] = r.usr /\ Live(d)}
    IN
    /\ r.pc = "list"
    /\ req' = [req EXCEPT ![p].pc = "write",
                          ![p].snap = [d \in Devices |->
                                         IF d \in mine THEN addr[d] ELSE NoAddrs],
                          ![p].on = {d \in mine : devSt[d] = "on"}]
    /\ UNCHANGED <<now, tables, seq, log, sw, notices, lost>>

-----------------------------------------------------------------------------
(* The writes *)

\* Merge-on-empty: a family the agent left out keeps the value read.
Effective(r) ==
    [f \in Families |-> IF r.rep[f] = None THEN r.snap[r.dev][f] ELSE r.rep[f]]
Asserted(r) == {f \in Families : r.rep[f] # None}

\* CheckinService.Checkin after its read: Touch when nothing changed against
\* the row read, RecordIPChange otherwise; ErrNotFound if the row is gone.
CheckinWrite(p) ==
    LET r == req[p]
        d == r.dev
        eff == Effective(r)
    IN
    /\ At(p, {"checkin"}, "write")
    /\ \/ /\ ~Live(d)
          /\ Finish(p)
          /\ UNCHANGED tables
       \/ /\ Live(d) /\ eff = r.snap[d]
          /\ Touch(d, Asserted(r), r.at)
          /\ Finish(p)
       \/ /\ Live(d) /\ eff # r.snap[d]
          /\ RecordIPChange(d, eff, Asserted(r))
          /\ Announce(p, {[type |-> "ip_changed", id |-> nextId, dev |-> d, cur |-> eff]})
    /\ UNCHANGED <<now, seq, log, sw, notices, lost>>

\* deviceMutator.flipDisabled: the write, then the membership event computed
\* from the rows read before it.
FlipDisabled(p) ==
    LET r == req[p]
        d == r.dev
        wasOn == d \in r.on
    IN
    /\ At(p, {"set_enabled", "admin_set_enabled"}, "write")
    /\ IF Live(d)
         THEN /\ devSt' = [devSt EXCEPT ![d] = r.want]
              /\ Announce(p, emitMembership(d, r.snap[d],
                                inFeed(wasOn, r.own, r.snap[d]),
                                inFeed(r.want = "on", r.own, r.snap[d])))
              /\ UNCHANGED <<userSt, addr, conf, warn, hist, nextId>>
         ELSE /\ Finish(p)
              /\ UNCHANGED tables
    /\ UNCHANGED <<now, seq, log, sw, notices, lost>>

\* DeviceService.Delete: the delete, then device.removed if the row read was
\* in the feed.
DeleteDevice(p) ==
    LET r == req[p]
        d == r.dev
    IN
    /\ At(p, {"delete"}, "write")
    /\ IF Live(d)
         THEN /\ DropDevices({d})
              /\ Announce(p, emitMembership(d, r.snap[d],
                                inFeed(d \in r.on, r.own, r.snap[d]), FALSE))
              /\ UNCHANGED <<userSt, nextId>>
         ELSE /\ Finish(p)
              /\ UNCHANGED tables
    /\ UNCHANGED <<now, seq, log, sw, notices, lost>>

\* The membership events of every device in r's list when the account's
\* enabled flag goes from r.own to ownerOn.
AccountEvents(r, ownerOn) ==
    UNION {emitMembership(d, r.snap[d], inFeed(d \in r.on, r.own, r.snap[d]),
                                        inFeed(d \in r.on, ownerOn, r.snap[d]))
             : d \in r.on}

\* AdminService.applyDisabled.
UpdateUser(p) ==
    LET r == req[p] IN
    /\ At(p, {"update_user"}, "write")
    /\ IF UserLive(r.usr)
         THEN /\ userSt' = [userSt EXCEPT ![r.usr] = r.want]
              /\ Announce(p, AccountEvents(r, r.want = "on"))
         ELSE /\ Finish(p)
              /\ UNCHANGED userSt
    /\ UNCHANGED <<now, devSt, addr, conf, warn, hist, nextId, seq, log, sw, notices, lost>>

\* AdminService.DeleteUser: the account and, by cascade, its devices.
DeleteUser(p) ==
    LET r == req[p] IN
    /\ At(p, {"delete_user"}, "write")
    /\ IF UserLive(r.usr)
         THEN /\ userSt' = [userSt EXCEPT ![r.usr] = "gone"]
              /\ DropDevices({d \in Devices : Owner[d] = r.usr /\ Live(d)})
              /\ Announce(p, AccountEvents(r, FALSE))
              /\ UNCHANGED nextId
         ELSE /\ Finish(p)
              /\ UNCHANGED tables
    /\ UNCHANGED <<now, seq, log, sw, notices, lost>>

\* fanout.IPChanged / DeviceAdded / DeviceRemoved for one pending event.  The
\* loop over an account's devices announces them one at a time.
Emit(p) ==
    /\ req[p].pc = "emit"
    /\ MutexFree
    /\ \E e \in req[p].pend, bumped \in BumpOutcomes :
         /\ Dispatch(e, bumped)
         /\ Announce(p, req[p].pend \ {e})
    /\ UNCHANGED <<now, tables, sw, notices, lost>>

-----------------------------------------------------------------------------
(* The staleness sweep: one goroutine, one tick at a time *)

\* Mutated form of IsCandidate: the MIN over both instants, which is NULL for a
\* device that lacks a family.
IsCandidateMin(d, t) ==
    /\ devSt[d] = "on" /\ userSt[Owner[d]] = "on"
    /\ \A f \in Families : addr[d][f] # None
    /\ \E f \in Families : conf[d][f] <= t - FirstRung(W)

\* sweeper.candidates: phase 1, one query.
IsCandidate(d, t) ==
    /\ devSt[d] = "on" /\ userSt[Owner[d]] = "on"
    /\ \E f \in Families : addr[d][f] # None /\ conf[d][f] <= t - FirstRung(W)

\* The tick: runPruner takes the instant the whole sweep will use.
StartSweep ==
    /\ sw.pc = "idle"
    /\ InFlight < MaxInFlight
    /\ sw' = [SweepIdle EXCEPT !.pc = "query", !.at = now]
    /\ UNCHANGED <<now, tables, seq, log, req, notices, lost>>

SweepQuery ==
    LET cands == {d \in Devices : IsCandidate(d, sw.at)} IN
    /\ sw.pc = "query"
    /\ sw' = IF cands = {} THEN SweepIdle
             ELSE [SweepIdle EXCEPT
                !.pc = "act", !.at = sw.at, !.todo = cands,
                !.snap = [d \in Devices |-> IF d \in cands THEN addr[d] ELSE NoAddrs],
                !.conf = [d \in Devices |-> IF d \in cands THEN conf[d] ELSE Zeros],
                !.warn = [d \in Devices |-> IF d \in cands THEN warn[d] ELSE Zeros]]
    /\ UNCHANGED <<now, tables, seq, log, req, notices, lost>>

\* Back to the loop of sweeper.Run, or out of it to the digest; an empty
\* digest is not sent.
NextCandidate(todo) ==
    IF todo = {} /\ sw.digest = {} THEN SweepIdle
    ELSE [sw EXCEPT !.pc = IF todo = {} THEN "digest" ELSE "act", !.todo = todo,
                    !.dev = AnyDev, !.wat = 0, !.fams = {}, !.rung = 0, !.pend = {}]

Present(d) == {f \in Families : sw.snap[d][f] # None}
Due(d) == {f \in Present(d) : sw.at >= ExpiresAt(sw.conf[d][f], W)}

\* sweeper.act: expiry before rungs.  Locking the fanout mutex also fixes the
\* instant the write will carry.
SweepAct ==
    /\ sw.pc = "act"
    /\ \E d \in sw.todo :
         sw' = IF Due(d) # {}
                 THEN [sw EXCEPT !.pc = "locked", !.dev = d, !.wat = now]
                 ELSE [sw EXCEPT !.pc = "warn", !.dev = d, !.fams = Present(d)]
    /\ UNCHANGED <<now, tables, seq, log, req, notices, lost>>

\* Mutated form of ExpirePinned: the instants are not compared.
ExpireUnpinned(d) == Live(d) /\ \E f \in Due(d) : addr[d][f] # None

\* Mutated form of ExpirePinned: only the instants of the due families are.
ExpirePinnedDue(d) ==
    /\ Live(d)
    /\ \A f \in Due(d) : conf[d][f] = sw.conf[d][f]
    /\ \E f \in Due(d) : addr[d][f] # None

\* The WHERE clause of ExpireFamilies: the row is there, both instants are
\* still the ones read in phase 1, and a due family still holds an address.
ExpirePinned(d) ==
    /\ Live(d)
    /\ conf[d] = sw.conf[d]
    /\ \E f \in Due(d) : addr[d][f] # None

Clear(a, fs) == [f \in Families |-> IF f \in fs THEN None ELSE a[f]]

\* Mutated form of SweepExpire: a failed pin returns without unlocking.
SweepExpireKeepsLock ==
    LET d == sw.dev
        after == Clear(addr[d], Due(d))
    IN
    /\ sw.pc = "locked"
    /\ ExpirePinned(d)
    /\ addr' = [addr EXCEPT ![d] = after]
    /\ warn' = [warn EXCEPT ![d] = [f \in Families |-> IF f \in Due(d) THEN 0 ELSE @[f]]]
    /\ appendIPHistory(d, after, sw.wat)
    /\ sw' = [sw EXCEPT !.pc = "announce",
                        !.pend = {[type |-> "ip_changed", id |-> nextId, dev |-> d,
                                   cur |-> Clear(sw.snap[d], Due(d))]}]
    /\ UNCHANGED <<userSt, devSt, conf, now, seq, log, req, notices, lost>>

\* Devices().ExpireFamilies, one transaction.  The event it leads to carries
\* the candidate's row with the due families cleared, not the row written.
SweepExpire ==
    LET d == sw.dev
        after == Clear(addr[d], Due(d))
    IN
    /\ sw.pc = "locked"
    /\ \/ /\ ExpirePinned(d)
          /\ addr' = [addr EXCEPT ![d] = after]
          /\ warn' = [warn EXCEPT ![d] = [f \in Families |-> IF f \in Due(d) THEN 0 ELSE @[f]]]
          /\ appendIPHistory(d, after, sw.wat)
          /\ sw' = [sw EXCEPT !.pc = "announce",
                              !.pend = {[type |-> "ip_changed", id |-> nextId, dev |-> d,
                                         cur |-> Clear(sw.snap[d], Due(d))]}]
          /\ UNCHANGED <<userSt, devSt, conf>>
       \/ /\ ~ExpirePinned(d)
          /\ sw' = NextCandidate(sw.todo \ {d})
          /\ UNCHANGED tables
    /\ UNCHANGED <<now, seq, log, req, notices, lost>>

\* The rest of fanout.ExpireAddresses; the mutex is released.
SweepAnnounce ==
    /\ sw.pc = "announce"
    /\ \E e \in sw.pend, bumped \in BumpOutcomes : Dispatch(e, bumped)
    /\ sw' = [sw EXCEPT !.pc = "removed", !.fams = Due(sw.dev), !.pend = {}]
    /\ UNCHANGED <<now, tables, req, notices, lost>>

\* Families are taken in the order 4, 6.
NextFamily == IF "v4" \in sw.fams THEN "v4" ELSE "v6"

\* sweeper.deliver for the family in hand: nobody is told when the owner's row
\* is gone; the owner is told at once, the admins in the digest.
deliver(pc) ==
    LET f == NextFamily
        n(to) == [dev |-> sw.dev, fam |-> f, rung |-> sw.rung,
                  conf |-> sw.conf[sw.dev][f], to |-> to]
        audience == IF UserLive(Owner[sw.dev]) THEN RecipientsFor(sw.rung) ELSE {}
    IN
    /\ notices' = notices \cup {n(to) : to \in audience \cap {"owner"}}
    /\ sw' = [sw EXCEPT !.pc = pc, !.rung = 0, !.fams = @ \ {f},
                        !.digest = @ \cup {n(to) : to \in audience \cap {"admin"}}]

\* sweeper.removed: one removal notice for each family cleared.
SweepRemoved ==
    /\ sw.pc = "removed"
    /\ \/ sw.fams # {} /\ deliver("removed")
       \/ sw.fams = {} /\ sw' = NextCandidate(sw.todo \ {sw.dev}) /\ UNCHANGED notices
    /\ UNCHANGED <<now, tables, seq, log, req, lost>>

\* The WHERE clause of AdvanceWarnLevel.
WarnPinned(d, f) ==
    /\ Live(d)
    /\ warn[d][f] = sw.warn[d][f]
    /\ conf[d] = sw.conf[d]

\* Mutated form of SweepWarn: the notice goes out with no level recorded.
SweepWarnUnrecorded ==
    LET d == sw.dev IN
    /\ sw.pc = "warn"
    /\ \/ sw.fams = {} /\ sw' = NextCandidate(sw.todo \ {d})
       \/ \E f \in sw.fams :
            LET due == DueRung(W, sw.at - sw.conf[d][f]) IN
            /\ f = "v6" => "v4" \notin sw.fams
            /\ IF due > sw.warn[d][f] /\ WarnPinned(d, f)
                 THEN sw' = [sw EXCEPT !.pc = "notice", !.rung = due]
                 ELSE sw' = [sw EXCEPT !.fams = @ \ {f}]
    /\ UNCHANGED <<now, tables, seq, log, req, notices, lost>>

\* One family of sweeper.warn: the level is recorded, pinned, before the
\* notice goes out.
SweepWarn ==
    LET d == sw.dev IN
    /\ sw.pc = "warn"
    /\ \/ /\ sw.fams = {}
          /\ sw' = NextCandidate(sw.todo \ {d})
          /\ UNCHANGED tables
       \/ \E f \in sw.fams :
            LET due == DueRung(W, sw.at - sw.conf[d][f]) IN
            /\ f = "v6" => "v4" \notin sw.fams
            /\ IF due > sw.warn[d][f] /\ WarnPinned(d, f)
                 THEN /\ warn' = [warn EXCEPT ![d][f] = due]
                      /\ sw' = [sw EXCEPT !.pc = "notice", !.rung = due]
                      /\ UNCHANGED <<userSt, devSt, addr, conf, hist, nextId>>
                 ELSE /\ sw' = [sw EXCEPT !.fams = @ \ {f}]
                      /\ UNCHANGED tables
    /\ UNCHANGED <<now, seq, log, req, notices, lost>>

\* The notice of a rung just recorded.
SweepDeliver ==
    /\ sw.pc = "notice"
    /\ deliver("warn")
    /\ UNCHANGED <<now, tables, seq, log, req, lost>>

\* The end of sweeper.Run: one digest to the admins.
SweepDigest ==
    /\ sw.pc = "digest"
    /\ notices' = notices \cup sw.digest
    /\ sw' = SweepIdle
    /\ UNCHANGED <<now, tables, seq, log, req, lost>>

-----------------------------------------------------------------------------
(* Retention, enrollment, time, crashes *)

\* Mutated form of Prunable: the newest row is not exempt.
PrunableNewest(d) ==
    {h \in hist[d] :
        \/ RetainFor > 0 /\ h.at < now - RetainFor
        \/ RetainMax > 0 /\ Cardinality({g \in hist[d] : g.id > h.id}) >= RetainMax}

\* The rows IPHistoryRepo.Prune may delete: never the newest by id; too old,
\* or beyond the newest RetainMax.
Prunable(d) ==
    {h \in hist[d] :
        /\ \E g \in hist[d] : g.id > h.id
        /\ \/ RetainFor > 0 /\ h.at < now - RetainFor
           \/ RetainMax > 0 /\ Cardinality({g \in hist[d] : g.id > h.id}) >= RetainMax}

\* One batch of pruneIPHistory; the goroutine that prunes then sweeps.
PruneIPHistory(d) ==
    /\ sw.pc = "idle"
    /\ \E rows \in (SUBSET Prunable(d)) \ {{}} : hist' = [hist EXCEPT ![d] = @ \ rows]
    /\ UNCHANGED <<now, userSt, devSt, addr, conf, warn, nextId, seq, log, req, sw, notices, lost>>

\* createSealedDevice: a device row without addresses, for an existing account.
Enroll(d) ==
    /\ devSt[d] = "unborn" /\ UserLive(Owner[d])
    /\ devSt' = [devSt EXCEPT ![d] = "on"]
    /\ UNCHANGED <<now, userSt, addr, conf, warn, hist, nextId, seq, log, req, sw, notices, lost>>

\* Time passes to the next instant at which something happens.
Tick ==
    /\ \E t \in Clock : /\ t > now
                        /\ \A u \in Clock : u > now => t <= u
                        /\ now' = t
    /\ UNCHANGED <<tables, seq, log, req, sw, notices, lost>>

PendingIds ==
    {e.id : e \in {x \in (UNION {req[p].pend : p \in Procs}) \cup sw.pend :
                      x.type = "ip_changed"}}

\* The process is killed: requests and sweep vanish, the tables stay.
Crash ==
    /\ Crashes
    /\ InFlight > 0
    /\ req' = [p \in Procs |-> Idle]
    /\ sw' = SweepIdle
    /\ lost' = lost \cup PendingIds
    /\ UNCHANGED <<now, tables, seq, log, notices>>

-----------------------------------------------------------------------------
Init ==
    /\ now \in Clock /\ \A t \in Clock : now <= t
    /\ userSt = [u \in Users |-> "on"]
    /\ devSt = [d \in Devices |-> "unborn"]
    /\ addr = NoSnap
    /\ conf = [d \in Devices |-> Zeros]
    /\ warn = [d \in Devices |-> Zeros]
    /\ hist = [d \in Devices |-> {}]
    /\ nextId = 1
    /\ seq = 0
    /\ log = <<>>
    /\ req = [p \in Procs |-> Idle]
    /\ sw = SweepIdle
    /\ notices = {}
    /\ lost = {}

Begin(p) ==
    \/ \E d \in Devices, rep \in Reports : StartCheckin(p, d, rep)
    \/ \E d \in Devices, want \in {"on", "off"} :
          StartSetEnabled(p, d, want) \/ StartAdminSetEnabled(p, d, want)
    \/ \E d \in Devices : StartDelete(p, d)
    \/ \E u \in Users, want \in {"on", "off"} : StartUpdateUser(p, u, want)
    \/ \E u \in Users : StartDeleteUser(p, u)

Proceed(p) ==
    \/ CheckinRead(p) \/ ReadOwner(p) \/ ListDevices(p)
    \/ CheckinWrite(p) \/ FlipDisabled(p) \/ DeleteDevice(p)
    \/ UpdateUser(p) \/ DeleteUser(p)
    \/ Emit(p)

SweepStep ==
    \/ StartSweep \/ SweepQuery \/ SweepAct \/ SweepExpire \/ SweepAnnounce
    \/ SweepRemoved \/ SweepWarn \/ SweepDeliver \/ SweepDigest

Next ==
    \/ \E p \in Procs : Begin(p) \/ Proceed(p)
    \/ SweepStep
    \/ \E d \in Devices : PruneIPHistory(d) \/ Enroll(d)
    \/ Tick
    \/ Crash

Spec == Init /\ [][Next]_vars

(***************************************************************************)
(* A handler that has begun runs on to its end (net/http), and the ticker  *)
(* keeps starting the sweep (runPruner); neither requests nor the clock    *)
(* nor faults are ever obliged to come.                                    *)
(***************************************************************************)
FairSpec ==
    /\ Spec
    /\ \A p \in Procs : WF_vars(Proceed(p))
    /\ WF_vars(SweepStep)

-----------------------------------------------------------------------------
(* Safety *)

(***************************************************************************)
(* A device row and its newest ip_history row show the same addresses (the *)
(* device page and the history page agree, issue #97), whatever check-ins, *)
(* sweep, deletes and retention pruning do around each other.              *)
(***************************************************************************)
HistoryAgrees ==
    \A d \in Devices :
        IF hist[d] = {}
          THEN addr[d] = NoAddrs
          ELSE \E h \in hist[d] : /\ \A g \in hist[d] : g.id <= h.id
                                  /\ h.addr = addr[d]

(***************************************************************************)
(* Rows by id and rows by time disagree by at most the wait of one Touch.  *)
(* Latest orders by observed_at, Prune keeps MAX(id), and a reader of one  *)
(* takes it for the other.  The sweep stamps its row long before it writes *)
(* it, and only the pins of ExpireFamilies keep it from landing behind a   *)
(* check-in's later row.  A Touch that waited for the database can set a   *)
(* confirmation back to the one the sweep read and so let the pins pass,   *)
(* but not after more than its own wait.                                   *)
(***************************************************************************)
HistoryWithinLag ==
    \A d \in Devices : \A g, h \in hist[d] : g.id < h.id => g.at <= h.at + StampLag

(***************************************************************************)
(* No two events share (type, id): consumers must dedupe on that pair, so  *)
(* a second event under an old pair would be discarded by every one of     *)
(* them.                                                                   *)
(***************************************************************************)
EventIdsUnique ==
    \A i, j \in DOMAIN log :
        i # j => log[i].type # log[j].type \/ log[i].id # log[j].id

AnnouncedIds == {log[i].id : i \in {j \in DOMAIN log : log[j].type = "ip_changed"}}

(***************************************************************************)
(* Every address change ever committed has been announced, is about to be  *)
(* announced by the handler that committed it, or was lost with the        *)
(* process; and is in only one of these states.  In particular a failed    *)
(* feed_state bump never swallows an ip_changed.                           *)
(***************************************************************************)
ChangesAccounted ==
    /\ AnnouncedIds \cup PendingIds \cup lost = 1..(nextId - 1)
    /\ AnnouncedIds \cap PendingIds = {}
    /\ lost \cap (AnnouncedIds \cup PendingIds) = {}

\* A conforming consumer: a device's allowed set is the current of its last
\* event.
Mirror ==
    [d \in Devices |->
        LET mine == {i \in DOMAIN log : log[i].dev = d}
        IN IF mine = {} THEN NoAddrs
           ELSE log[CHOOSE i \in mine : \A j \in mine : j <= i].cur]

(***************************************************************************)
(* When nothing is in flight, the consumer's allow-list is the feed.       *)
(***************************************************************************)
MirrorInSync == InFlight = 0 => Mirror = ListFeed

-----------------------------------------------------------------------------
(* Action properties *)

(***************************************************************************)
(* The sweep clears a family only if the stored confirmation is a whole    *)
(* window old at the moment of the write, not merely when the candidates   *)
(* were read: a device that came back during the tick is not expired.      *)
(***************************************************************************)
SweepClearsOnlyStale ==
    [][\A d \in Devices, f \in Families :
          (sw.pc = "locked" /\ sw'.pc = "announce" /\ addr[d][f] # None /\ addr'[d][f] = None)
             => now >= ExpiresAt(conf[d][f], W)]_vars

(***************************************************************************)
(* One warning per rung and confirmation: the level is recorded before the *)
(* notice goes out, so a notice can be lost in a crash, never repeated.    *)
(***************************************************************************)
WarnedOnce ==
    [][(sw.pc = "notice" /\ sw'.pc = "warn" /\ UserLive(Owner[sw.dev]))
          => notices' # notices]_vars

-----------------------------------------------------------------------------
(* Liveness *)

(***************************************************************************)
(* Every request ends: whoever holds the fanout mutex lets go of it.       *)
(***************************************************************************)
RequestsEnd == \A p \in Procs : (req[p].pc # "idle") ~> (req[p].pc = "idle")

Overdue(d, f) ==
    /\ addr[d][f] # None
    /\ devSt[d] = "on" /\ userSt[Owner[d]] = "on"
    /\ now >= ExpiresAt(conf[d][f], W)

(***************************************************************************)
(* An address unconfirmed for a whole window does not stay in the feed:    *)
(* the sweep clears it, unless it is confirmed or the device leaves first. *)
(***************************************************************************)
StaleAddressLeaves ==
    \A d \in Devices, f \in Families : Overdue(d, f) ~> ~Overdue(d, f)

\* The removal notice of the confirmation c of device d's family f.
Removal(d, f, c, to) == [dev |-> d, fam |-> f, rung |-> 0, conf |-> c, to |-> to]

(***************************************************************************)
(* Every address the sweep removes is reported to the owner and to the     *)
(* admins, by the end of the tick, unless the owner's account goes first   *)
(* or the process dies.                                                    *)
(***************************************************************************)
RemovalsReported ==
    \A d \in Devices, f \in Families, c \in Clock, to \in {"owner", "admin"} :
        (sw.pc = "announce" /\ sw.dev = d /\ f \in Due(d) /\ sw.conf[d][f] = c)
           ~> (Removal(d, f, c, to) \in notices \/ ~UserLive(Owner[d]))
=============================================================================
