--------------------------- MODULE HistoryProofs ---------------------------
(***************************************************************************)
(* What DeviceFeed promises of ip_history, proved for every instance.      *)
(*                                                                         *)
(* The sweep stamps the history row of an expiry with an instant it took   *)
(* before it waited for the database, so a check-in may commit a later row *)
(* first.  Such a check-in also advances a confirmation instant past the   *)
(* sweep's, and the sweep's write is pinned on those instants.  A Touch    *)
(* that waited for the database carries an old instant and may set the     *)
(* confirmation back to the one the sweep read, so that the pin passes all *)
(* the same; but then the sweep's instant is at most StampLag before the   *)
(* Touch, hence before any row there is.  LockedCovers is that argument as *)
(* an invariant; AtMostNow supplies the comparisons with the clock.        *)
(***************************************************************************)
EXTENDS DeviceFeedProofs

\* Every id given out is below the next one.
HistIds == \A d \in Devices : \A h \in hist[d] : h.id < nextId

\* Nothing recorded lies in the future.
AtMostNow ==
    /\ \A d \in Devices : \A h \in hist[d] : h.at <= now
    /\ \A d \in Devices, f \in Families : conf[d][f] <= now
    /\ \A d \in Devices, f \in Families : sw.conf[d][f] <= now
    /\ sw.at <= now

\* While the sweep holds the mutex for a device, either no row of the device
\* is later than the instant the sweep will write by more than a Touch waits,
\* or the pin will fail.
LockedCovers ==
    sw.pc = "locked" =>
        /\ sw.wat <= now
        /\ \A f \in Families : sw.conf[sw.dev][f] <= sw.wat
        /\ \/ \A h \in hist[sw.dev] : h.at <= sw.wat + StampLag
           \/ \E f \in Families : conf[sw.dev][f] > sw.wat

HistRows == HistIds /\ HistoryAgrees /\ HistoryWithinLag
HistInv == TypeOK /\ HistRows /\ AtMostNow /\ LockedCovers

-----------------------------------------------------------------------------
(* What each statement of the store does to the rows *)

\* A row appended with an instant that no other row of the device exceeds by
\* more than StampLag keeps them within it, and is the row the device shows.
LEMMA AppendKeepsRows ==
    ASSUME TypeOK, HistRows, NEW d \in Devices, NEW a \in Addrs, NEW at \in Nat,
           \A h \in hist[d] : h.at <= at + StampLag,
           addr' = [addr EXCEPT ![d] = a],
           appendIPHistory(d, a, at)
    PROVE  HistRows'
<1> DEFINE row == [id |-> nextId, addr |-> a, at |-> at]
<1>1. /\ hist' = [hist EXCEPT ![d] = hist[d] \cup {row}]
      /\ nextId' = nextId + 1
      /\ nextId \in Nat
      /\ hist \in [Devices -> SUBSET HistRow]
      /\ addr \in [Devices -> Addrs]
  BY DEF appendIPHistory, TypeOK
<1>2. /\ hist'[d] = hist[d] \cup {row} /\ addr'[d] = a
      /\ \A e \in Devices \ {d} : hist'[e] = hist[e] /\ addr'[e] = addr[e]
  BY <1>1
<1>3. \A e \in Devices : \A h \in hist[e] : h.id \in Nat /\ h.at \in Nat /\ h.id < nextId
  BY <1>1 DEF HistRow, HistRows, HistIds
<1>4. row.id = nextId /\ row.at = at /\ row.addr = a
  OBVIOUS
<1> HIDE DEF row
<1>5. HistIds'
  BY <1>1, <1>2, <1>3, <1>4 DEF HistIds
<1>6. HistoryWithinLag'
  <2>0. StampLag \in Nat
    BY ConstantsAssumption
  <2> SUFFICES ASSUME NEW e \in Devices, NEW g \in hist'[e], NEW h \in hist'[e], g.id < h.id
               PROVE  g.at <= h.at + StampLag
    BY DEF HistoryWithinLag
  <2>1. CASE e # d
    BY <2>1, <1>2 DEF HistRows, HistoryWithinLag
  <2>2. CASE e = d /\ h = row
    BY <2>0, <2>2, <1>1, <1>2, <1>3, <1>4
  <2>3. CASE e = d /\ h # row
    <3>1. h \in hist[d]
      BY <2>3, <1>2
    <3>2. g \in hist[d]
      BY <2>3, <3>1, <1>1, <1>2, <1>3, <1>4
    <3> QED BY <2>3, <3>1, <3>2 DEF HistRows, HistoryWithinLag
  <2> QED BY <2>1, <2>2, <2>3
<1>7. HistoryAgrees'
  <2>1. ASSUME NEW e \in Devices, e # d
        PROVE  IF hist'[e] = {} THEN addr'[e] = NoAddrs
               ELSE \E h \in hist'[e] : (\A g \in hist'[e] : g.id <= h.id) /\ h.addr = addr'[e]
    BY <2>1, <1>2 DEF HistRows, HistoryAgrees
  <2>2. row \in hist'[d] /\ (\A g \in hist'[d] : g.id <= row.id) /\ row.addr = addr'[d]
    BY <1>1, <1>2, <1>3, <1>4
  <2> QED BY <2>1, <2>2 DEF HistoryAgrees
<1> QED BY <1>5, <1>6, <1>7 DEF HistRows

\* A deleted device takes its rows with it.
LEMMA DropKeepsRows ==
    ASSUME TypeOK, HistRows, NEW ds, DropDevices(ds), nextId' = nextId
    PROVE  HistRows'
<1>1. \A d \in Devices : \/ hist'[d] = hist[d] /\ addr'[d] = addr[d]
                         \/ hist'[d] = {} /\ addr'[d] = NoAddrs
  BY DEF DropDevices
<1>2. HistIds' /\ HistoryWithinLag'
  BY <1>1 DEF HistRows, HistIds, HistoryWithinLag
<1>3. HistoryAgrees'
  <2> SUFFICES ASSUME NEW d \in Devices
               PROVE  IF hist'[d] = {} THEN addr'[d] = NoAddrs
                      ELSE \E h \in hist'[d] : (\A g \in hist'[d] : g.id <= h.id) /\ h.addr = addr'[d]
    BY DEF HistoryAgrees
  <2> QED BY <1>1 DEF HistRows, HistoryAgrees
<1> QED BY <1>2, <1>3 DEF HistRows

\* Retention never takes the row that shows a device's addresses.
LEMMA PruneKeepsRows ==
    ASSUME TypeOK, HistRows, NEW d \in Devices, PruneIPHistory(d)
    PROVE  HistRows'
<1> PICK rows \in SUBSET Prunable(d) : hist' = [hist EXCEPT ![d] = @ \ rows]
  BY DEF PruneIPHistory
<1>1. /\ hist'[d] = hist[d] \ rows
      /\ \A e \in Devices \ {d} : hist'[e] = hist[e]
      /\ addr' = addr /\ nextId' = nextId
  BY DEF PruneIPHistory, TypeOK
<1>2. \A e \in Devices : hist'[e] \subseteq hist[e]
  BY <1>1
<1>3. HistIds' /\ HistoryWithinLag'
  BY <1>1, <1>2 DEF HistRows, HistIds, HistoryWithinLag
<1>4. ASSUME NEW h \in hist[d], \A g \in hist[d] : g.id <= h.id
      PROVE  h \notin Prunable(d)
  <2>1. hist[d] \subseteq HistRow
    BY DEF TypeOK
  <2>2. \A g \in hist[d] : g.id \in Nat
    BY <2>1 DEF HistRow
  <2>3. ~ \E g \in hist[d] : g.id > h.id
    BY <1>4, <2>2
  <2> QED BY <2>3 DEF Prunable
<1>5. HistoryAgrees'
  <2> SUFFICES ASSUME NEW e \in Devices
               PROVE  IF hist'[e] = {} THEN addr'[e] = NoAddrs
                      ELSE \E h \in hist'[e] : (\A g \in hist'[e] : g.id <= h.id) /\ h.addr = addr'[e]
    BY DEF HistoryAgrees
  <2>1. CASE e # d
    BY <2>1, <1>1 DEF HistRows, HistoryAgrees
  <2>2. CASE e = d /\ hist[d] = {}
    BY <2>2, <1>1 DEF HistRows, HistoryAgrees
  <2>3. CASE e = d /\ hist[d] # {}
    <3> PICK h \in hist[d] : (\A g \in hist[d] : g.id <= h.id) /\ h.addr = addr[d]
      BY <2>3 DEF HistRows, HistoryAgrees
    <3>1. h \in hist'[d]
      BY <1>1, <1>4
    <3> QED BY <2>3, <3>1, <1>1
  <2> QED BY <2>1, <2>2, <2>3
<1> QED BY <1>3, <1>5 DEF HistRows

-----------------------------------------------------------------------------
(* The steps *)

\* A step that leaves the rows, the clock and the sweep alone.
LEMMA FrameKeepsHist ==
    ASSUME HistInv, TypeOK', UNCHANGED <<addr, conf, hist, nextId, now, sw>>
    PROVE  HistInv'
BY DEF HistInv, HistRows, HistIds, HistoryAgrees, HistoryWithinLag, AtMostNow, LockedCovers

\* A check-in advances the instant of every family it asserted, and asserts
\* one whenever it changes an address.
LEMMA CheckinKeepsHist ==
    ASSUME HistInv, TypeOK', NEW p \in Procs, CheckinWrite(p)
    PROVE  HistInv'
<1> DEFINE r == req[p]
           d == r.dev
           eff == Effective(r)
<1>0. d \in Devices /\ eff \in Addrs /\ now \in Nat /\ r.snap[d] \in Addrs /\ r.rep \in Addrs
  <2>1. r \in Request /\ now \in Nat
    BY DEF HistInv, TypeOK
  <2>2. r.dev \in Devices /\ r.snap \in [Devices -> Addrs] /\ r.rep \in Addrs
    BY <2>1 DEF Request
  <2> QED BY <2>1, <2>2, EffectiveType
<1>c. \A e \in Devices, f \in Families : conf[e][f] \in Nat /\ conf[e][f] <= now
  <2>1. conf \in [Devices -> [Families -> Nat]]
    BY DEF HistInv, TypeOK
  <2> QED BY <2>1 DEF HistInv, AtMostNow
<1>1. CASE ~Live(d) /\ Finish(p) /\ UNCHANGED tables
  BY <1>1, FrameKeepsHist DEF CheckinWrite, tables
<1>2. ASSUME NEW t \in Nat, Confirm(d, Asserted(r), t)
      PROVE  /\ \A e \in Devices, f \in Families : conf'[e][f] \in {conf[e][f], t}
             /\ \A f \in Asserted(r) : conf'[d][f] = t
  <2> DEFINE newConf == [f \in Families |-> IF f \in Asserted(r) THEN t ELSE conf[d][f]]
  <2>1. conf' = [conf EXCEPT ![d] = newConf] /\ conf \in [Devices -> [Families -> Nat]]
    BY <1>2 DEF Confirm, HistInv, TypeOK
  <2>2. conf'[d] = newConf /\ \A e \in Devices \ {d} : conf'[e] = conf[e]
    BY <1>0, <2>1
  <2> QED BY <1>0, <2>2 DEF Asserted
<1>3. CASE Touch(d, Asserted(r), r.at)
  <2>0. UNCHANGED <<addr, hist, nextId, now, sw>>
    BY <1>3 DEF Touch, CheckinWrite
  <2> PICK t \in Stamps(r.at) : Confirm(d, Asserted(r), t)
    BY <1>3 DEF Touch
  <2>1. t \in Nat /\ t <= now /\ now - t <= StampLag
    BY ConstantsAssumption DEF Stamps
  <2>2. \A e \in Devices, f \in Families : conf'[e][f] \in {conf[e][f], t}
    BY <1>2, <2>1
  <2>3. AtMostNow'
    BY <1>c, <2>0, <2>1, <2>2 DEF HistInv, AtMostNow
  <2>4. sw \in Sweep
    BY DEF HistInv, TypeOK
  <2>5. sw.dev \in Devices /\ sw.wat \in Nat
    BY <2>4 DEF Sweep
  <2>6. LockedCovers'
    <3>0. StampLag \in Nat
      BY ConstantsAssumption
    <3> SUFFICES ASSUME sw.pc = "locked"
                 PROVE  \/ \A h \in hist[sw.dev] : h.at <= sw.wat + StampLag
                        \/ \E f \in Families : conf'[sw.dev][f] > sw.wat
      BY <2>0 DEF HistInv, LockedCovers
    <3>1. CASE t > sw.wat
      BY <2>2, <2>5, <3>1 DEF HistInv, LockedCovers
    <3>2. CASE t <= sw.wat
      <4>1. now <= sw.wat + StampLag
        BY <1>0, <2>1, <2>5, <3>0, <3>2
      <4>2. \A h \in hist[sw.dev] : h.at \in Nat /\ h.at <= now
        BY <2>5 DEF HistInv, AtMostNow, TypeOK, HistRow
      <4> QED BY <1>0, <2>5, <3>0, <4>1, <4>2
    <3> QED BY <2>1, <2>5, <3>1, <3>2
  <2>7. HistRows'
    BY <2>0 DEF HistInv, HistRows, HistIds, HistoryAgrees, HistoryWithinLag
  <2> QED BY <2>3, <2>6, <2>7 DEF HistInv
<1>4. CASE eff # r.snap[d] /\ RecordIPChange(d, eff, Asserted(r))
  <2>1. /\ addr' = [addr EXCEPT ![d] = eff]
        /\ appendIPHistory(d, eff, now)
        /\ Confirm(d, Asserted(r), now)
        /\ UNCHANGED <<now, sw>>
    BY <1>4 DEF RecordIPChange, CheckinWrite
  <2>2. HistRows'
    <3>1. \A h \in hist[d] : h.at <= now + StampLag
      <4>1. \A h \in hist[d] : h.at \in Nat /\ h.at <= now
        BY <1>0 DEF HistInv, AtMostNow, TypeOK, HistRow
      <4> QED BY <1>0, <4>1, ConstantsAssumption
    <3> HIDE DEF r, d, eff
    <3> QED BY <1>0, <2>1, <3>1, AppendKeepsRows DEF HistInv
  <2>3. \A e \in Devices, f \in Families :
           conf[e][f] \in Nat /\ conf[e][f] <= conf'[e][f] /\ conf'[e][f] <= now
    BY <1>0, <1>c, <1>2, <2>1
  <2>4. \A e \in Devices : \A h \in hist'[e] : h \in hist[e] \/ (e = d /\ h.at = now)
    BY <1>0, <2>1 DEF appendIPHistory, HistInv, TypeOK
  <2>5. AtMostNow'
    BY <1>0, <2>1, <2>3, <2>4 DEF HistInv, AtMostNow
  <2>6. PICK f \in Families : conf'[d][f] = now
    <3>1. Asserted(r) # {}
      <4>1. SUFFICES ASSUME \A f \in Families : r.rep[f] = None
                     PROVE  eff = r.snap[d]
        BY <1>4 DEF Asserted
      <4>2. eff = [f \in Families |-> r.snap[d][f]]
        BY <4>1 DEF Effective
      <4> QED BY <1>0, <4>2 DEF Addrs
    <3> QED BY <1>0, <3>1, <1>2, <2>1 DEF Asserted
  <2>7. LockedCovers'
    <3>0. StampLag \in Nat
      BY ConstantsAssumption
    <3> SUFFICES ASSUME sw.pc = "locked"
                 PROVE  \/ \A h \in hist'[sw.dev] : h.at <= sw.wat + StampLag
                        \/ \E g \in Families : conf'[sw.dev][g] > sw.wat
      BY <2>1 DEF HistInv, LockedCovers
    <3>1. sw.wat <= now /\ \A g \in Families : sw.conf[sw.dev][g] <= sw.wat
      BY DEF HistInv, LockedCovers
    <3>2. sw.dev \in Devices /\ sw.wat \in Nat
      BY DEF HistInv, TypeOK, Sweep
    <3>3. CASE \E g \in Families : conf[sw.dev][g] > sw.wat
      BY <1>0, <2>3, <3>1, <3>2, <3>3, <1>2, <2>1
    <3>4. CASE \A h \in hist[sw.dev] : h.at <= sw.wat + StampLag
      <4>1. CASE sw.dev = d /\ now > sw.wat
        BY <4>1, <2>6, <3>1
      <4>2. CASE ~(sw.dev = d /\ now > sw.wat)
        BY <1>0, <4>2, <2>4, <3>0, <3>1, <3>2, <3>4
      <4> QED BY <4>1, <4>2
    <3> QED BY <3>3, <3>4 DEF HistInv, LockedCovers
  <2> QED BY <2>2, <2>5, <2>7 DEF HistInv
<1> QED BY <1>1, <1>3, <1>4 DEF CheckinWrite

\* Deleting devices empties their rows and resets their instants.
LEMMA DropKeepsHist ==
    ASSUME HistInv, TypeOK', NEW ds, DropDevices(ds), UNCHANGED <<nextId, now, sw>>
    PROVE  HistInv'
<1>1. HistRows'
  BY DropKeepsRows DEF HistInv
<1>2. \A d \in Devices : \/ hist'[d] = hist[d] /\ conf'[d] = conf[d]
                         \/ hist'[d] = {} /\ conf'[d] = Zeros
  BY DEF DropDevices
<1>3. now \in Nat /\ sw.dev \in Devices
  BY DEF HistInv, TypeOK, Sweep
<1>4. AtMostNow'
  BY <1>2, <1>3 DEF HistInv, AtMostNow, Zeros
<1>5. LockedCovers'
  BY <1>2, <1>3 DEF HistInv, LockedCovers
<1> QED BY <1>1, <1>4, <1>5 DEF HistInv

\* Going on to the next candidate keeps what was read, or forgets it all.
LEMMA NextCandidateReads ==
    ASSUME HistInv, NEW todo
    PROVE  /\ NextCandidate(todo).pc \in {"idle", "act", "digest"}
           /\ NextCandidate(todo).at <= now
           /\ \A d \in Devices, f \in Families : NextCandidate(todo).conf[d][f] <= now
<1>1. sw \in Sweep /\ now \in Nat
  BY DEF HistInv, TypeOK
<1>2. CASE todo = {} /\ sw.digest = {}
  BY <1>1, <1>2 DEF NextCandidate, SweepIdle, Zeros
<1>3. CASE ~(todo = {} /\ sw.digest = {})
  <2>1. NextCandidate(todo).pc \in {"act", "digest"} /\ NextCandidate(todo).at = sw.at
        /\ NextCandidate(todo).conf = sw.conf
    BY <1>1, <1>3 DEF NextCandidate, Sweep
  <2> QED BY <2>1 DEF HistInv, AtMostNow
<1> QED BY <1>2, <1>3

\* A step of the sweep that writes no row.
LEMMA SweepReadsKeepHist ==
    ASSUME HistInv, TypeOK', UNCHANGED <<addr, conf, hist, nextId, now>>,
           sw'.pc # "locked", sw'.at <= now,
           \A d \in Devices, f \in Families : sw'.conf[d][f] <= now
    PROVE  HistInv'
<1>1. HistRows'
  BY DEF HistInv, HistRows, HistIds, HistoryAgrees, HistoryWithinLag
<1>2. AtMostNow' /\ LockedCovers'
  BY DEF HistInv, AtMostNow, LockedCovers
<1> QED BY <1>1, <1>2 DEF HistInv

\* The sweep, its write included, keeps the invariant.
LEMMA SweepKeepsHist ==
    ASSUME HistInv, TypeOK', SweepStep
    PROVE  HistInv'
<1>0. sw \in Sweep /\ now \in Nat
  BY DEF HistInv, TypeOK
<1>r. /\ sw.at <= now
      /\ \A d \in Devices, f \in Families : sw.conf[d][f] <= now
  BY DEF HistInv, AtMostNow
<1>1. CASE StartSweep
  <2>1. sw'.pc = "query" /\ sw'.at = now /\ \A d \in Devices : sw'.conf[d] = Zeros
    BY <1>1, <1>0 DEF StartSweep, SweepIdle
  <2>2. \A d \in Devices, f \in Families : sw'.conf[d][f] <= now
    BY <1>0, <2>1 DEF Zeros
  <2> QED BY <1>0, <1>1, <2>1, <2>2, SweepReadsKeepHist DEF StartSweep, tables
<1>q. CASE SweepQuery
  <2>1. sw'.pc \in {"act", "idle"} /\ sw'.at \in {sw.at, 0}
    BY <1>q, <1>0 DEF SweepQuery, SweepIdle
  <2>2. \A d \in Devices : sw'.conf[d] = conf[d] \/ sw'.conf[d] = Zeros
    BY <1>q DEF SweepQuery, SweepIdle
  <2>3. \A d \in Devices, f \in Families : sw'.conf[d][f] <= now
    BY <1>0, <2>2 DEF HistInv, AtMostNow, Zeros
  <2> QED BY <1>0, <1>r, <1>q, <2>1, <2>3, SweepReadsKeepHist DEF SweepQuery, tables
<1>2. CASE SweepAct
  <2>0. UNCHANGED <<addr, conf, hist, nextId, now>>
    BY <1>2 DEF SweepAct, tables
  <2> PICK d \in sw.todo :
          sw' = IF Due(d) # {}
                  THEN [sw EXCEPT !.pc = "locked", !.dev = d, !.wat = now]
                  ELSE [sw EXCEPT !.pc = "warn", !.dev = d, !.fams = Present(d)]
    BY <1>2 DEF SweepAct
  <2>1. CASE sw' = [sw EXCEPT !.pc = "locked", !.dev = d, !.wat = now]
    <3>1. sw'.dev = d /\ sw'.wat = now /\ sw'.at = sw.at /\ sw'.conf = sw.conf
          /\ d \in Devices
      BY <1>0, <2>1 DEF Sweep
    <3>2. AtMostNow'
      BY <2>0, <3>1 DEF HistInv, AtMostNow
    <3>3. LockedCovers'
      <4>1. now \in Nat /\ StampLag \in Nat /\ \A h \in hist[d] : h.at \in Nat /\ h.at <= now
        BY <3>1, ConstantsAssumption DEF HistInv, AtMostNow, TypeOK, HistRow
      <4>2. \A h \in hist[d] : h.at <= now + StampLag
        BY <4>1
      <4>3. \A f \in Families : sw.conf[d][f] <= now
        BY <3>1 DEF HistInv, AtMostNow
      <4> QED BY <2>0, <3>1, <4>1, <4>2, <4>3 DEF LockedCovers
    <3>4. HistRows'
      BY <2>0 DEF HistInv, HistRows, HistIds, HistoryAgrees, HistoryWithinLag
    <3> QED BY <3>2, <3>3, <3>4 DEF HistInv
  <2>2. CASE sw' = [sw EXCEPT !.pc = "warn", !.dev = d, !.fams = Present(d)]
    <3>1. sw'.pc = "warn" /\ sw'.at = sw.at /\ sw'.conf = sw.conf
      BY <1>0, <2>2 DEF Sweep
    <3> QED BY <1>r, <2>0, <3>1, SweepReadsKeepHist
  <2> QED BY <2>1, <2>2
<1>3. CASE SweepExpire
  <2> DEFINE d == sw.dev
             after == Clear(addr[d], Due(d))
  <2>0. d \in Devices /\ sw.wat \in Nat /\ sw.pc = "locked"
    BY <1>0, <1>3 DEF Sweep, SweepExpire
  <2>1. CASE ExpirePinned(d) /\ appendIPHistory(d, after, sw.wat)
             /\ addr' = [addr EXCEPT ![d] = after]
             /\ sw'.pc = "announce" /\ sw'.at = sw.at /\ sw'.conf = sw.conf
             /\ UNCHANGED <<conf, now>>
    <3>1. after \in Addrs
      <4>1. addr[d] \in Addrs
        BY <2>0 DEF HistInv, TypeOK
      <4> QED BY <4>1 DEF Clear, Addrs, MaybeAddr
    <3>2. \A h \in hist[d] : h.at <= sw.wat + StampLag
      <4>1. \A f \in Families : sw.conf[d][f] <= sw.wat /\ sw.conf[d][f] \in Nat
        BY <1>0, <2>0 DEF HistInv, LockedCovers, Sweep
      <4>2. conf[d] = sw.conf[d]
        BY <2>1 DEF ExpirePinned
      <4>3. ~ \E f \in Families : conf[d][f] > sw.wat
        BY <4>1, <4>2, <2>0
      <4> QED BY <4>3, <2>0 DEF HistInv, LockedCovers
    <3>3. HistRows'
      <4> HIDE DEF after
      <4> QED BY <2>0, <2>1, <3>1, <3>2, AppendKeepsRows DEF HistInv
    <3>4. \A e \in Devices : \A h \in hist'[e] : h \in hist[e] \/ h.at = sw.wat
      BY <2>0, <2>1 DEF appendIPHistory, HistInv, TypeOK
    <3>5. sw.wat <= now
      BY <2>0 DEF HistInv, LockedCovers
    <3>6. AtMostNow'
      BY <2>1, <3>4, <3>5 DEF HistInv, AtMostNow
    <3>7. LockedCovers'
      BY <2>1 DEF LockedCovers
    <3> QED BY <3>3, <3>6, <3>7 DEF HistInv
  <2>2. CASE sw' = NextCandidate(sw.todo \ {d}) /\ UNCHANGED tables
    BY <1>3, <2>2, NextCandidateReads, SweepReadsKeepHist DEF SweepExpire, tables
  <2>3. \/ /\ ExpirePinned(d) /\ appendIPHistory(d, after, sw.wat)
           /\ addr' = [addr EXCEPT ![d] = after]
           /\ sw'.pc = "announce" /\ sw'.at = sw.at /\ sw'.conf = sw.conf
           /\ UNCHANGED <<conf, now>>
        \/ sw' = NextCandidate(sw.todo \ {d}) /\ UNCHANGED tables
    BY <1>0, <1>3 DEF SweepExpire, Sweep
  <2> QED BY <2>1, <2>2, <2>3
<1>4. CASE SweepAnnounce
  <2>1. sw'.pc = "removed" /\ sw'.at = sw.at /\ sw'.conf = sw.conf
    BY <1>0, <1>4 DEF SweepAnnounce, Sweep
  <2> QED BY <1>r, <1>4, <2>1, SweepReadsKeepHist DEF SweepAnnounce, tables
<1>5. CASE SweepWarn
  <2>1. UNCHANGED <<addr, conf, hist, nextId, now>>
    BY <1>5 DEF SweepWarn, tables
  <2>2. \/ sw' = NextCandidate(sw.todo \ {sw.dev})
        \/ sw'.pc # "locked" /\ sw'.at = sw.at /\ sw'.conf = sw.conf
    BY <1>0, <1>5 DEF SweepWarn, Sweep
  <2> QED BY <1>r, <2>1, <2>2, NextCandidateReads, SweepReadsKeepHist
<1>6. ASSUME NEW pc \in SweepPCs \ {"locked"}, deliver(pc)
      PROVE  sw'.pc = pc /\ sw'.at = sw.at /\ sw'.conf = sw.conf
  BY <1>0, <1>6 DEF deliver, Sweep
<1>7. CASE SweepDeliver
  <2>1. sw'.pc = "warn" /\ sw'.at = sw.at /\ sw'.conf = sw.conf
    BY <1>6, <1>7 DEF SweepDeliver, SweepPCs
  <2> QED BY <1>r, <1>7, <2>1, SweepReadsKeepHist DEF SweepDeliver, tables
<1>8. CASE SweepRemoved
  <2>1. \/ sw' = NextCandidate(sw.todo \ {sw.dev})
        \/ sw'.pc = "removed" /\ sw'.at = sw.at /\ sw'.conf = sw.conf
    BY <1>6, <1>8 DEF SweepRemoved, SweepPCs
  <2> QED BY <1>r, <1>8, <2>1, NextCandidateReads, SweepReadsKeepHist DEF SweepRemoved, tables
<1>9. CASE SweepDigest
  <2>1. sw'.pc = "idle" /\ sw'.at <= now /\ \A d \in Devices, f \in Families : sw'.conf[d][f] <= now
    BY <1>0, <1>9 DEF SweepDigest, SweepIdle, Zeros
  <2> QED BY <1>9, <2>1, SweepReadsKeepHist DEF SweepDigest, tables
<1> QED BY <1>1, <1>q, <1>2, <1>3, <1>4, <1>5, <1>7, <1>8, <1>9 DEF SweepStep

\* Retention, enrollment, the clock and crashes keep the invariant.
LEMMA RestKeepsHist ==
    ASSUME HistInv, TypeOK', \/ \E d \in Devices : PruneIPHistory(d) \/ Enroll(d)
                             \/ Tick \/ Crash
    PROVE  HistInv'
<1>1. ASSUME NEW d \in Devices, PruneIPHistory(d) PROVE HistInv'
  <2>1. HistRows'
    BY <1>1, PruneKeepsRows DEF HistInv
  <2>2. \A e \in Devices : hist'[e] \subseteq hist[e]
    BY <1>1 DEF PruneIPHistory, HistInv, TypeOK
  <2>3. UNCHANGED <<conf, now, sw>> /\ sw.pc = "idle"
    BY <1>1 DEF PruneIPHistory
  <2>4. AtMostNow' /\ LockedCovers'
    BY <2>2, <2>3 DEF HistInv, AtMostNow, LockedCovers
  <2> QED BY <2>1, <2>4 DEF HistInv
<1>2. ASSUME NEW d \in Devices, Enroll(d) PROVE HistInv'
  BY <1>2, FrameKeepsHist DEF Enroll
<1>3. CASE Tick
  <2>1. UNCHANGED <<addr, conf, hist, nextId, sw>> /\ now' > now /\ now \in Nat /\ now' \in Nat
    BY <1>3 DEF Tick, tables, HistInv, TypeOK
  <2>2. HistRows'
    BY <2>1 DEF HistInv, HistRows, HistIds, HistoryAgrees, HistoryWithinLag
  <2>3. /\ \A d \in Devices : \A h \in hist[d] : h.at \in Nat
        /\ \A d \in Devices, f \in Families : conf[d][f] \in Nat /\ sw.conf[d][f] \in Nat
        /\ sw.at \in Nat /\ sw.wat \in Nat
    BY DEF HistInv, TypeOK, HistRow, Sweep
  <2>4. AtMostNow'
    BY <2>1, <2>3 DEF HistInv, AtMostNow
  <2>5. LockedCovers'
    BY <2>1, <2>3 DEF HistInv, LockedCovers
  <2> QED BY <2>2, <2>4, <2>5 DEF HistInv
<1>4. CASE Crash
  <2>1. UNCHANGED <<addr, conf, hist, nextId, now>> /\ sw' = SweepIdle /\ now \in Nat
    BY <1>4 DEF Crash, tables, HistInv, TypeOK
  <2>2. sw'.pc = "idle" /\ sw'.at <= now /\ \A d \in Devices, f \in Families : sw'.conf[d][f] <= now
    BY <2>1 DEF SweepIdle, Zeros
  <2> QED BY <2>1, <2>2, SweepReadsKeepHist
<1> QED BY <1>1, <1>2, <1>3, <1>4

LEMMA HistStep == HistInv /\ [Next]_vars => HistInv'
<1> SUFFICES ASSUME HistInv, [Next]_vars PROVE HistInv'
  OBVIOUS
<1>0. TypeOK'
  BY TypeStep DEF HistInv
<1>1. ASSUME NEW p \in Procs, Begin(p) PROVE HistInv'
  BY <1>0, <1>1, FrameKeepsHist
     DEF Begin, StartCheckin, StartSetEnabled, StartAdminSetEnabled, StartDelete,
         StartUpdateUser, StartDeleteUser, Start, tables
<1>2. ASSUME NEW p \in Procs, Proceed(p) PROVE HistInv'
  <2>1. CASE CheckinRead(p) \/ ReadOwner(p) \/ ListDevices(p)
    BY <1>0, <2>1, FrameKeepsHist DEF CheckinRead, ReadOwner, ListDevices, tables
  <2>2. CASE CheckinWrite(p)
    BY <1>0, <2>2, CheckinKeepsHist
  <2>3. CASE FlipDisabled(p) \/ UpdateUser(p) \/ Emit(p)
    BY <1>0, <2>3, FrameKeepsHist DEF FlipDisabled, UpdateUser, Emit, tables
  <2>4. CASE DeleteDevice(p) \/ DeleteUser(p)
    BY <1>0, <2>4, FrameKeepsHist, DropKeepsHist DEF DeleteDevice, DeleteUser, tables
  <2> QED BY <1>2, <2>1, <2>2, <2>3, <2>4 DEF Proceed
<1>3. CASE SweepStep
  BY <1>0, <1>3, SweepKeepsHist
<1>4. CASE \/ \E d \in Devices : PruneIPHistory(d) \/ Enroll(d)
           \/ Tick \/ Crash
  BY <1>0, <1>4, RestKeepsHist
<1>5. CASE UNCHANGED vars
  BY <1>0, <1>5, FrameKeepsHist DEF vars
<1> QED BY <1>1, <1>2, <1>3, <1>4, <1>5 DEF Next

LEMMA HistInit == Init => HistInv
<1> SUFFICES ASSUME Init PROVE HistInv
  OBVIOUS
<1>1. TypeOK
  BY TypeInit
<1>2. now \in Nat
  BY <1>1 DEF TypeOK
<1>3. HistRows
  BY DEF Init, HistRows, HistIds, HistoryAgrees, HistoryWithinLag, NoSnap
<1>4. AtMostNow /\ LockedCovers
  BY <1>2 DEF Init, AtMostNow, LockedCovers, SweepIdle, Zeros
<1> QED BY <1>1, <1>3, <1>4 DEF HistInv

LEMMA HistAlways == Spec => []HistInv
BY HistInit, HistStep, PTL DEF Spec

(***************************************************************************)
(* Whatever check-ins, sweep, deletes and retention do around each other,  *)
(* a device row shows the addresses of its newest ip_history row           *)
(* (RecordIPChange, ExpireFamilies, IPHistoryRepo.Prune).                  *)
(***************************************************************************)
THEOREM HistoryAgreesAlways == Spec => []HistoryAgrees
BY HistAlways, PTL DEF HistInv, HistRows

(***************************************************************************)
(* However long the sweep and the check-ins wait for the database, a row   *)
(* of ip_history is older by observed_at than a row with a smaller id by   *)
(* no more than one Touch waited: the pins of ExpireFamilies make its      *)
(* write fail in every other case.                                         *)
(***************************************************************************)
THEOREM HistoryWithinLagAlways == Spec => []HistoryWithinLag
BY HistAlways, PTL DEF HistInv, HistRows

(***************************************************************************)
(* ExpireFamilies clears a family only when its stored confirmation is a   *)
(* whole window old at the moment of the write, however long ago the       *)
(* candidates were read.                                                   *)
(***************************************************************************)
THEOREM SweepClearsOnlyStaleAlways == Spec => SweepClearsOnlyStale
<1> DEFINE A == \A d \in Devices, f \in Families :
                   (sw.pc = "locked" /\ sw'.pc = "announce" /\ addr[d][f] # None /\ addr'[d][f] = None)
                      => now >= ExpiresAt(conf[d][f], W)
<1>1. HistInv /\ [Next]_vars => [A]_vars
  <2> SUFFICES ASSUME HistInv, Next, NEW d \in Devices, NEW f \in Families,
                      sw.pc = "locked", sw'.pc = "announce",
                      addr[d][f] # None, addr'[d][f] = None
               PROVE  now >= ExpiresAt(conf[d][f], W)
    OBVIOUS
  <2>0. sw \in Sweep /\ now \in Nat /\ sw.at <= now
    BY DEF HistInv, TypeOK, AtMostNow
  <2>1. SweepExpire
    <3>1. ASSUME NEW p \in Procs, Begin(p) \/ Proceed(p) PROVE sw' = sw
      BY <3>1 DEF Begin, Proceed, StartCheckin, StartSetEnabled, StartAdminSetEnabled,
                  StartDelete, StartUpdateUser, StartDeleteUser, Start, CheckinRead, ReadOwner,
                  ListDevices, CheckinWrite, FlipDisabled, DeleteDevice, UpdateUser, DeleteUser, Emit
    <3>2. ~Crash /\ ~Tick /\ \A e \in Devices : ~PruneIPHistory(e) /\ ~Enroll(e)
      BY DEF Crash, SweepIdle, Tick, PruneIPHistory, Enroll
    <3> QED BY <3>1, <3>2 DEF Next, SweepStep, StartSweep, SweepQuery, SweepIdle, SweepAct, SweepAnnounce, SweepWarn, SweepDeliver,
            SweepRemoved, SweepDigest
  <2>2. sw' # NextCandidate(sw.todo \ {sw.dev})
    BY NextCandidateReads
  <2>3. /\ conf[sw.dev] = sw.conf[sw.dev]
        /\ addr' = [addr EXCEPT ![sw.dev] = Clear(addr[sw.dev], Due(sw.dev))]
    BY <2>1, <2>2 DEF SweepExpire, ExpirePinned
  <2>4. d = sw.dev /\ f \in Due(d)
    BY <2>0, <2>3 DEF Clear, HistInv, TypeOK, Addrs
  <2>5. sw.at >= ExpiresAt(conf[d][f], W)
    BY <2>3, <2>4 DEF Due
  <2>6. ExpiresAt(conf[d][f], W) \in Int /\ sw.at \in Nat
    <3>1. conf[d][f] \in Nat
      BY DEF HistInv, TypeOK
    <3> QED BY <2>0, <3>1, ConstantsAssumption DEF ExpiresAt, Sweep
  <2> QED BY <2>0, <2>5, <2>6
<1> QED BY <1>1, HistAlways, PTL DEF Spec, SweepClearsOnlyStale

-----------------------------------------------------------------------------
(* One warning per rung and confirmation *)

(***************************************************************************)
(* A warning to an owner stays on record as long as it could be sent       *)
(* again: while the device keeps the confirmation it was about, the stored *)
(* level is at least its rung.  The one write that lowers a level without  *)
(* a new confirmation is the expiry of the family; after it the            *)
(* confirmation is a whole window old, and the sweep of that instant or    *)
(* any later one finds the family due instead of warning about it.         *)
(***************************************************************************)

\* The instant the sweep under way, or the next one to begin, measures from.
Horizon == IF sw.pc = "idle" THEN now ELSE sw.at

OnRecord(n) ==
    /\ devSt[n.dev] # "unborn"
    /\ n.conf + FirstRung(W) <= now
    /\ Live(n.dev) /\ conf[n.dev][n.fam] = n.conf =>
         warn[n.dev][n.fam] >= n.rung \/ n.conf + W <= Horizon

\* The warning the sweep has recorded and not yet sent.
InHand == [dev |-> sw.dev, fam |-> NextFamily, rung |-> sw.rung,
           conf |-> sw.conf[sw.dev][NextFamily], to |-> "owner"]

Warnings == {n \in notices : n.to = "owner" /\ n.rung > 0}

SweepRungs ==
    /\ sw.pc # "notice" => sw.rung = 0
    /\ \A n \in sw.digest : n.to = "admin"
    /\ sw.pc \in {"warn", "notice"} => Due(sw.dev) = {} /\ sw.fams \subseteq Present(sw.dev)

WarningsOnRecord ==
    /\ \A n \in Warnings : OnRecord(n)
    /\ sw.pc = "notice" => InHand \notin notices /\ sw.rung > 0 /\ OnRecord(InHand)

WarnInv == HistInv /\ SweepRungs /\ WarningsOnRecord

\* stale.FirstRung is the lowest rung: whatever is due has waited that long.
LEMMA FirstRungLeast ==
    ASSUME NEW e \in Int, DueRung(W, e) > 0
    PROVE  e >= FirstRung(W)
<1>1. W \in Nat
  BY ConstantsAssumption
<1>2. PICK i \in 1..4 : e >= Rungs(W)[i]
  BY DEF DueRung
<1>3. /\ Rungs(W)[1] = W \div 3
      /\ Rungs(W)[2] = (2 * W) \div 3
      /\ Rungs(W)[3] = (17 * W) \div 21
      /\ Rungs(W)[4] = (20 * W) \div 21
  BY DEF Rungs
<1>4. W \div 3 <= (2 * W) \div 3 /\ W \div 3 <= (17 * W) \div 21 /\ W \div 3 <= (20 * W) \div 21
  BY <1>1
<1>5. i = 1 \/ i = 2 \/ i = 3 \/ i = 4
  OBVIOUS
<1>6. W \div 3 \in Int /\ (2 * W) \div 3 \in Int /\ (17 * W) \div 21 \in Int /\ (20 * W) \div 21 \in Int
  BY <1>1
<1> HIDE DEF Rungs
<1> QED BY <1>2, <1>3, <1>4, <1>5, <1>6 DEF FirstRung

LEMMA FirstRungNat == FirstRung(W) \in Nat /\ W \in Nat
<1>1. W \in Nat
  BY ConstantsAssumption
<1>2. FirstRung(W) = W \div 3
  BY DEF FirstRung, Rungs
<1> QED BY <1>1, <1>2

\* What every step does to the columns a warning depends on: a confirmation
\* that changes becomes too fresh to have been warned about, and a level that
\* drops under the same confirmation drops because the family expired.
Onward ==
    /\ now' >= now /\ Horizon' >= Horizon
    /\ \A d \in Devices : devSt[d] # "unborn" => devSt'[d] # "unborn" /\ (Live(d)' => Live(d))
    /\ \A d \in Devices, f \in Families :
         Live(d) /\ Live(d)' =>
            \/ conf'[d][f] + FirstRung(W) > now
            \/ /\ conf'[d][f] = conf[d][f]
               /\ warn'[d][f] >= warn[d][f] \/ conf[d][f] + W <= Horizon'

LEMMA HorizonNat ==
    ASSUME HistInv
    PROVE  Horizon \in Nat /\ now \in Nat /\ Horizon <= now
BY DEF HistInv, TypeOK, AtMostNow, Horizon, Sweep

LEMMA StaysOnRecord ==
    ASSUME HistInv, HistInv', Onward, NEW n \in Notice, OnRecord(n)
    PROVE  OnRecord(n)'
<1>0. n.dev \in Devices /\ n.fam \in Families /\ n.conf \in Nat /\ n.rung \in 0..4
  BY DEF Notice
<1>1. Horizon \in Nat /\ now \in Nat /\ Horizon' \in Nat /\ now' \in Nat
  BY HorizonNat DEF HistInv, TypeOK, AtMostNow, Horizon, Sweep
<1>2. /\ conf[n.dev][n.fam] \in Nat /\ conf'[n.dev][n.fam] \in Nat
      /\ warn[n.dev][n.fam] \in 0..4 /\ warn'[n.dev][n.fam] \in 0..4
  <2>1. conf \in [Devices -> [Families -> Nat]] /\ conf' \in [Devices -> [Families -> Nat]]
    BY DEF HistInv, TypeOK
  <2>2. warn \in [Devices -> [Families -> 0..4]] /\ warn' \in [Devices -> [Families -> 0..4]]
    BY DEF HistInv, TypeOK
  <2> QED BY <1>0, <2>1, <2>2
<1>3. devSt'[n.dev] # "unborn" /\ n.conf + FirstRung(W) <= now'
  BY <1>0, <1>1, FirstRungNat DEF Onward, OnRecord
<1>4. ASSUME Live(n.dev)', conf'[n.dev][n.fam] = n.conf
      PROVE  warn'[n.dev][n.fam] >= n.rung \/ n.conf + W <= Horizon'
  <2>1. Live(n.dev)
    BY <1>0, <1>4 DEF Onward, OnRecord
  <2>2. ~(conf'[n.dev][n.fam] + FirstRung(W) > now)
    BY <1>0, <1>1, <1>4, FirstRungNat DEF OnRecord
  <2>3. /\ conf'[n.dev][n.fam] = conf[n.dev][n.fam]
        /\ warn'[n.dev][n.fam] >= warn[n.dev][n.fam] \/ n.conf + W <= Horizon'
    BY <1>0, <1>4, <2>1, <2>2 DEF Onward
  <2>4. warn[n.dev][n.fam] >= n.rung \/ n.conf + W <= Horizon
    BY <1>4, <2>1, <2>3 DEF OnRecord
  <2>5. Horizon <= Horizon'
    BY <1>1 DEF Onward
  <2> QED BY <1>0, <1>1, <1>2, <2>3, <2>4, <2>5, FirstRungNat
<1> QED BY <1>3, <1>4 DEF OnRecord

\* Steps that leave confirmations and levels alone.
LEMMA OnwardFrame ==
    ASSUME HistInv, HistInv', UNCHANGED <<conf, warn>>, now' >= now, Horizon' >= Horizon,
           \A d \in Devices : devSt[d] # "unborn" => devSt'[d] # "unborn" /\ (Live(d)' => Live(d))
    PROVE  Onward
<1>1. warn \in [Devices -> [Families -> 0..4]]
  BY DEF HistInv, TypeOK
<1>2. \A d \in Devices, f \in Families : warn[d][f] \in Int
  BY <1>1
<1>3. \A d \in Devices, f \in Families : warn'[d][f] >= warn[d][f] /\ conf'[d][f] = conf[d][f]
  BY <1>2
<1> QED BY <1>3 DEF Onward

LEMMA OnwardCheckin ==
    ASSUME HistInv, HistInv', StampLag < FirstRung(W), NEW p \in Procs, CheckinWrite(p)
    PROVE  Onward
<1> DEFINE r == req[p]
           d == r.dev
           fs == Asserted(r)
<1>0. /\ d \in Devices /\ now \in Nat /\ conf \in [Devices -> [Families -> Nat]]
      /\ warn \in [Devices -> [Families -> 0..4]] /\ StampLag \in Nat /\ FirstRung(W) \in Nat
      /\ UNCHANGED <<now, sw>> /\ Horizon \in Nat
  BY ConstantsAssumption, FirstRungNat, HorizonNat DEF HistInv, TypeOK, Request, CheckinWrite
<1>1. Horizon' = Horizon
  BY <1>0 DEF Horizon
<1>2. devSt' = devSt
  BY DEF CheckinWrite, Touch, RecordIPChange, tables
<1>3. CASE UNCHANGED <<conf, warn>>
  BY <1>0, <1>1, <1>2, <1>3, OnwardFrame DEF Live
<1>4. ASSUME NEW t \in Nat, Confirm(d, fs, t), now - t <= StampLag
      PROVE  Onward
  <2>1. \A e \in Devices \ {d} : conf'[e] = conf[e] /\ warn'[e] = warn[e]
    BY <1>0, <1>4 DEF Confirm
  <2>2. \A f \in Families : conf'[d][f] = (IF f \in fs THEN t ELSE conf[d][f])
                            /\ warn'[d][f] = (IF f \in fs THEN 0 ELSE warn[d][f])
    BY <1>0, <1>4 DEF Confirm
  <2>3. t + FirstRung(W) > now
    BY <1>0, <1>4
  <2>4. \A e \in Devices, f \in Families : warn[e][f] \in Int
    BY <1>0
  <2>5. \A e \in Devices, f \in Families :
           \/ conf'[e][f] + FirstRung(W) > now
           \/ conf'[e][f] = conf[e][f] /\ warn'[e][f] >= warn[e][f]
    BY <2>1, <2>2, <2>3, <2>4
  <2> QED BY <1>0, <1>1, <1>2, <2>5 DEF Onward, Live
<1>5. CASE Touch(d, fs, r.at)
  <2> PICK t \in Stamps(r.at) : Confirm(d, fs, t)
    BY <1>5 DEF Touch
  <2>1. t \in Nat /\ now - t <= StampLag
    BY ConstantsAssumption DEF Stamps
  <2> QED BY <1>4, <2>1
<1>6. CASE RecordIPChange(d, Effective(r), fs)
  BY <1>0, <1>4, <1>6 DEF RecordIPChange
<1> QED BY <1>3, <1>5, <1>6 DEF CheckinWrite, tables

LEMMA OnwardDrop ==
    ASSUME HistInv, HistInv', NEW ds, DropDevices(ds), UNCHANGED <<now, sw>>
    PROVE  Onward
<1>0. now \in Nat /\ Horizon \in Nat /\ Horizon' = Horizon /\ warn \in [Devices -> [Families -> 0..4]]
  BY HorizonNat DEF HistInv, TypeOK, Horizon
<1>1. \A d \in Devices : \/ devSt'[d] = "gone"
                         \/ devSt'[d] = devSt[d] /\ conf'[d] = conf[d] /\ warn'[d] = warn[d]
  BY DEF DropDevices
<1>2. \A d \in Devices, f \in Families : warn[d][f] \in Int
  BY <1>0
<1> QED BY <1>0, <1>1, <1>2 DEF Onward, Live

\* A step that leaves the sweep and the notices alone.
LEMMA WarnFrame ==
    ASSUME WarnInv, HistInv', Onward, UNCHANGED <<sw, notices>>
    PROVE  WarnInv'
<1>0. HistInv /\ notices \subseteq Notice /\ sw \in Sweep
  BY DEF WarnInv, HistInv, TypeOK
<1>1. SweepRungs'
  BY DEF WarnInv, SweepRungs, Due, Present
<1>2. \A n \in Warnings' : OnRecord(n)'
  BY <1>0, StaysOnRecord DEF WarnInv, WarningsOnRecord, Warnings
<1>3. ASSUME sw.pc = "notice"
      PROVE  InHand' \notin notices' /\ sw'.rung > 0 /\ OnRecord(InHand)'
  <2>0. InHand \in Notice /\ InHand' = InHand
    BY <1>0 DEF InHand, NextFamily, Notice, Sweep, Families
  <2> PICK n \in Notice : n = InHand
    BY <2>0
  <2>1. InHand' = n
    BY <2>0
  <2>2. n \notin notices /\ sw.rung > 0 /\ OnRecord(n)
    BY <1>3 DEF WarnInv, WarningsOnRecord
  <2>3. \A m \in Notice : OnRecord(m) => OnRecord(m)'
    BY <1>0, StaysOnRecord
  <2>4. OnRecord(InHand)' <=> /\ devSt'[n.dev] # "unborn"
                              /\ n.conf + FirstRung(W) <= now'
                              /\ Live(n.dev)' /\ conf'[n.dev][n.fam] = n.conf =>
                                   warn'[n.dev][n.fam] >= n.rung \/ n.conf + W <= Horizon'
    BY <2>1 DEF OnRecord, Live
  <2> QED BY <2>1, <2>2, <2>3, <2>4 DEF OnRecord, Live
<1> QED BY <1>1, <1>2, <1>3 DEF WarnInv, WarningsOnRecord

\* A step of the sweep that records no warning and sends none.
LEMMA WarnSweepFrame ==
    ASSUME WarnInv, HistInv', Onward, SweepRungs', Warnings' = Warnings, sw'.pc # "notice"
    PROVE  WarnInv'
<1>0. HistInv /\ notices \subseteq Notice
  BY DEF WarnInv, HistInv, TypeOK
<1>1. \A n \in Warnings : OnRecord(n) /\ n \in Notice
  BY <1>0 DEF WarnInv, WarningsOnRecord, Warnings
<1>2. \A n \in Warnings' : OnRecord(n)'
  BY <1>0, <1>1, StaysOnRecord
<1> QED BY <1>2 DEF WarnInv, WarningsOnRecord

LEMMA NextCandidateRungs ==
    ASSUME sw \in Sweep, NEW todo
    PROVE  LET n == NextCandidate(todo) IN
           /\ n.pc \in {"idle", "digest", "act"} /\ n.rung = 0
           /\ n.digest \subseteq sw.digest
           /\ n.pc # "idle" => n.at = sw.at
<1>1. CASE todo = {} /\ sw.digest = {}
  BY <1>1 DEF NextCandidate, SweepIdle
<1>2. CASE ~(todo = {} /\ sw.digest = {})
  <2> DEFINE n == [sw EXCEPT !.pc = IF todo = {} THEN "digest" ELSE "act", !.todo = todo,
                             !.dev = AnyDev, !.wat = 0, !.fams = {}, !.rung = 0, !.pend = {}]
  <2>1. NextCandidate(todo) = n
    BY <1>2 DEF NextCandidate
  <2>2. n.pc \in {"digest", "act"} /\ n.rung = 0 /\ n.digest = sw.digest /\ n.at = sw.at
    BY DEF Sweep
  <2> HIDE DEF n
  <2> QED BY <2>1, <2>2
<1> QED BY <1>1, <1>2

\* The step of sweeper.warn that records a rung: the level was below it, so no
\* warning of this rung and confirmation has gone out.
LEMMA WarnRecorded ==
    ASSUME WarnInv, HistInv', sw.pc = "warn", NEW f \in sw.fams, f = "v6" => "v4" \notin sw.fams,
           DueRung(W, sw.at - sw.conf[sw.dev][f]) > sw.warn[sw.dev][f], WarnPinned(sw.dev, f),
           warn' = [warn EXCEPT ![sw.dev][f] = DueRung(W, sw.at - sw.conf[sw.dev][f])],
           sw' = [sw EXCEPT !.pc = "notice", !.rung = DueRung(W, sw.at - sw.conf[sw.dev][f])],
           UNCHANGED <<now, notices, devSt, conf>>
    PROVE  WarnInv'
<1> DEFINE d == sw.dev
           c == sw.conf[d][f]
           due == DueRung(W, sw.at - c)
           n == [dev |-> d, fam |-> f, rung |-> due, conf |-> c, to |-> "owner"]
<1>0. /\ HistInv /\ sw \in Sweep /\ now \in Nat /\ conf \in [Devices -> [Families -> Nat]]
      /\ warn \in [Devices -> [Families -> 0..4]] /\ notices \subseteq Notice
      /\ devSt \in [Devices -> {"unborn", "on", "off", "gone"}]
  BY DEF WarnInv, HistInv, TypeOK
<1>1. d \in Devices /\ f \in Families /\ c \in Nat /\ sw.at \in Nat /\ sw.warn[d][f] \in 0..4 /\ sw.at <= now
  BY <1>0 DEF Sweep, HistInv, AtMostNow
<1>2. due \in 0..4 /\ due > sw.warn[d][f] /\ due > 0
  <2>1. due \in 0..4
    BY <1>1, FirstRungNat, DueRungType
  <2> QED BY <1>1, <2>1
<1>3. c + FirstRung(W) <= now /\ c + FirstRung(W) <= sw.at
  <2>1. sw.at - c >= FirstRung(W)
    BY <1>1, <1>2, FirstRungLeast
  <2> QED BY <1>0, <1>1, <2>1, FirstRungNat
<1>4. Live(d) /\ warn[d][f] = sw.warn[d][f] /\ conf[d][f] = c
  BY DEF WarnPinned
<1> HIDE DEF due
<1>5. /\ sw'.pc = "notice" /\ sw'.rung = due /\ sw'.at = sw.at /\ sw'.dev = d /\ sw'.fams = sw.fams
      /\ sw'.conf = sw.conf /\ sw'.snap = sw.snap /\ sw'.digest = sw.digest
  BY <1>0 DEF Sweep, due
<1>6. /\ warn'[d][f] = due
      /\ \A e \in Devices, g \in Families : warn'[e][g] >= warn[e][g]
  <2>1. warn' = [warn EXCEPT ![d] = [warn[d] EXCEPT ![f] = due]] /\ warn[d] \in [Families -> 0..4]
    BY <1>0, <1>1 DEF due
  <2>2. warn'[d] = [warn[d] EXCEPT ![f] = due] /\ \A e \in Devices \ {d} : warn'[e] = warn[e]
    BY <1>0, <1>1, <2>1
  <2>3. warn'[d][f] = due /\ \A g \in Families \ {f} : warn'[d][g] = warn[d][g]
    BY <1>1, <2>1, <2>2
  <2>4. \A e \in Devices, g \in Families : warn[e][g] \in Int
    BY <1>0
  <2>5. due >= warn[d][f]
    BY <1>1, <1>2, <1>4
  <2> QED BY <2>2, <2>3, <2>4, <2>5
<1>7. Horizon' = sw.at /\ Horizon = sw.at
  BY <1>5 DEF Horizon
<1>8. Onward
  BY <1>0, <1>1, <1>6, <1>7 DEF Onward, Live
<1>9. Due(d) = {} /\ sw.fams \subseteq Present(d)
  BY DEF WarnInv, SweepRungs
<1>10. ~(c + W <= sw.at)
  <2>1. f \in Present(d) /\ f \notin Due(d)
    BY <1>9
  <2>2. ~(sw.at >= c + W)
    BY <2>1 DEF Due, ExpiresAt
  <2> QED BY <1>1, <2>2, FirstRungNat
<1>11. n \notin notices
  <2> SUFFICES ASSUME n \in notices PROVE FALSE
    OBVIOUS
  <2>1. n \in Warnings
    BY <1>2 DEF Warnings
  <2>2. OnRecord(n)
    BY <2>1 DEF WarnInv, WarningsOnRecord
  <2>3. warn[d][f] >= due
    BY <1>4, <1>7, <1>10, <2>2 DEF OnRecord
  <2> QED BY <1>1, <1>2, <1>4, <2>3
<1>12. NextFamily' = f
  BY <1>1, <1>5 DEF NextFamily, Families
<1>13. InHand' = n
  BY <1>5, <1>12 DEF InHand
<1>14. OnRecord(InHand)'
  <2>1. OnRecord(InHand)' <=> /\ devSt'[n.dev] # "unborn"
                              /\ n.conf + FirstRung(W) <= now'
                              /\ Live(n.dev)' /\ conf'[n.dev][n.fam] = n.conf =>
                                   warn'[n.dev][n.fam] >= n.rung \/ n.conf + W <= Horizon'
    BY <1>13 DEF OnRecord, Live
  <2>2. devSt'[d] # "unborn"
    BY <1>4 DEF Live
  <2>3. due >= due
    BY <1>2
  <2> QED BY <1>3, <1>6, <2>1, <2>2, <2>3
<1>15. Present(sw.dev)' = Present(d) /\ Due(sw.dev)' = Due(d)
  BY <1>5 DEF Due, Present
<1>16. SweepRungs'
  BY <1>5, <1>9, <1>15 DEF WarnInv, SweepRungs
<1>17. \A m \in Warnings' : OnRecord(m)'
  BY <1>0, <1>8, StaysOnRecord DEF WarnInv, WarningsOnRecord, Warnings
<1> QED BY <1>2, <1>5, <1>11, <1>13, <1>14, <1>16, <1>17 DEF WarnInv, WarningsOnRecord

\* What sweeper.deliver adds.
LEMMA DeliverAdds ==
    ASSUME HistInv, NEW pc, deliver(pc), \A n \in sw.digest : n.to = "admin"
    PROVE  /\ \A n \in notices' : n \in notices \/ (n = InHand)
           /\ UserLive(Owner[sw.dev]) => InHand \in notices'
           /\ \A n \in sw'.digest : n.to = "admin"
           /\ sw'.pc = pc /\ sw'.rung = 0 /\ sw'.at = sw.at /\ sw'.dev = sw.dev /\ sw'.conf = sw.conf
           /\ sw'.snap = sw.snap /\ sw'.fams \subseteq sw.fams
<1> DEFINE n(to) == [dev |-> sw.dev, fam |-> NextFamily, rung |-> sw.rung,
                     conf |-> sw.conf[sw.dev][NextFamily], to |-> to]
           audience == IF UserLive(Owner[sw.dev]) THEN RecipientsFor(sw.rung) ELSE {}
<1>0. sw \in Sweep
  BY DEF HistInv, TypeOK
<1>1. /\ notices' = notices \cup {n(to) : to \in audience \cap {"owner"}}
      /\ sw' = [sw EXCEPT !.pc = pc, !.rung = 0, !.fams = @ \ {NextFamily},
                          !.digest = @ \cup {n(to) : to \in audience \cap {"admin"}}]
  BY DEF deliver
<1>2. n("owner") = InHand /\ n("admin").to = "admin"
  BY DEF InHand
<1>3. UserLive(Owner[sw.dev]) => "owner" \in audience
  BY DEF RecipientsFor
<1> HIDE DEF n, audience
<1>4. /\ \A m \in notices' : m \in notices \/ m = InHand
      /\ UserLive(Owner[sw.dev]) => InHand \in notices'
  BY <1>1, <1>2, <1>3
<1>5. /\ sw'.pc = pc /\ sw'.rung = 0 /\ sw'.at = sw.at /\ sw'.dev = sw.dev /\ sw'.conf = sw.conf
      /\ sw'.snap = sw.snap /\ sw'.fams = sw.fams \ {NextFamily}
      /\ sw'.digest = sw.digest \cup {n(to) : to \in audience \cap {"admin"}}
  BY <1>0, <1>1 DEF Sweep
<1>6. \A m \in sw'.digest : m.to = "admin"
  BY <1>2, <1>5
<1> QED BY <1>4, <1>5, <1>6

LEMMA WarnSweep ==
    ASSUME WarnInv, HistInv', SweepStep
    PROVE  WarnInv'
<1>0. /\ HistInv /\ sw \in Sweep /\ now \in Nat /\ warn \in [Devices -> [Families -> 0..4]]
      /\ conf \in [Devices -> [Families -> Nat]] /\ SweepRungs /\ sw.at <= now
      /\ notices \subseteq Notice /\ now' = now
  BY DEF WarnInv, HistInv, TypeOK, AtMostNow, SweepStep, StartSweep, SweepQuery, SweepAct, SweepExpire,
         SweepAnnounce, SweepRemoved, SweepWarn, SweepDeliver, SweepDigest
<1>1. ASSUME UNCHANGED <<conf, warn, devSt>>,
             \/ sw.pc # "idle" /\ (sw'.pc = "idle" \/ sw'.at = sw.at)
             \/ sw.pc = "idle" /\ sw'.pc # "idle" /\ sw'.at = now
      PROVE  Onward
  <2>1. Horizon' >= Horizon
    BY <1>0, <1>1 DEF Horizon, Sweep
  <2> QED BY <1>0, <1>1, <2>1, OnwardFrame DEF Live
<1>2. ASSUME sw'.rung = 0, \A n \in sw'.digest : n.to = "admin", sw'.pc \notin {"warn", "notice"},
             UNCHANGED <<conf, warn, devSt, notices>>,
             \/ sw.pc # "idle" /\ (sw'.pc = "idle" \/ sw'.at = sw.at)
             \/ sw.pc = "idle" /\ sw'.pc # "idle" /\ sw'.at = now
      PROVE  WarnInv'
  <2>1. Onward
    BY <1>1, <1>2
  <2>2. SweepRungs' /\ Warnings' = Warnings
    BY <1>2 DEF SweepRungs, Warnings
  <2> QED BY <1>2, <2>1, <2>2, WarnSweepFrame
<1>3. ASSUME NEW todo, sw' = NextCandidate(todo), sw.pc # "idle", UNCHANGED <<conf, warn, devSt, notices>>
      PROVE  WarnInv'
  <2>1. /\ sw'.pc \in {"idle", "digest", "act"} /\ sw'.rung = 0 /\ sw'.digest \subseteq sw.digest
        /\ sw'.pc # "idle" => sw'.at = sw.at
    BY <1>0, <1>3, NextCandidateRungs
  <2>2. \A n \in sw'.digest : n.to = "admin"
    BY <1>0, <2>1 DEF SweepRungs
  <2> QED BY <1>2, <1>3, <2>1, <2>2
<1>4. CASE StartSweep
  <2>1. sw'.pc = "query" /\ sw'.rung = 0 /\ sw'.digest = {} /\ sw'.at = now /\ sw.pc = "idle"
    BY <1>4 DEF StartSweep, SweepIdle
  <2> QED BY <1>2, <1>4, <2>1 DEF StartSweep, tables
<1>5. CASE SweepQuery
  <2>1. /\ sw'.pc \in {"act", "idle"} /\ sw'.rung = 0 /\ sw'.digest = {} /\ sw.pc = "query"
        /\ sw'.pc = "idle" \/ sw'.at = sw.at
    BY <1>5 DEF SweepQuery, SweepIdle
  <2> QED BY <1>2, <1>5, <2>1 DEF SweepQuery, tables
<1>6. CASE SweepAct
  <2> PICK d \in sw.todo : sw' = IF Due(d) # {}
                                   THEN [sw EXCEPT !.pc = "locked", !.dev = d, !.wat = now]
                                   ELSE [sw EXCEPT !.pc = "warn", !.dev = d, !.fams = Present(d)]
    BY <1>6 DEF SweepAct
  <2>1. UNCHANGED <<conf, warn, devSt, notices>> /\ sw.pc = "act"
    BY <1>6 DEF SweepAct, tables
  <2>2. sw'.rung = 0 /\ sw'.digest = sw.digest /\ sw'.at = sw.at /\ sw'.snap = sw.snap /\ sw'.conf = sw.conf
        /\ sw'.dev = d
    BY <1>0, <2>1 DEF Sweep, SweepRungs
  <2>3. CASE Due(d) # {}
    <3>1. sw'.pc = "locked"
      BY <1>0, <2>3 DEF Sweep
    <3> QED BY <1>0, <1>2, <2>1, <2>2, <3>1 DEF SweepRungs
  <2>4. CASE Due(d) = {}
    <3>1. sw'.pc = "warn" /\ sw'.fams = Present(d)
      BY <1>0, <2>4 DEF Sweep
    <3>2. Present(sw.dev)' = Present(d) /\ Due(sw.dev)' = Due(d)
      BY <2>2 DEF Due, Present
    <3>3. SweepRungs'
      BY <1>0, <2>2, <2>4, <3>1, <3>2 DEF SweepRungs
    <3>4. Onward
      BY <1>1, <2>1, <2>2
    <3>5. Warnings' = Warnings
      BY <2>1 DEF Warnings
    <3> QED BY <3>1, <3>3, <3>4, <3>5, WarnSweepFrame
  <2> QED BY <2>3, <2>4
<1>7. CASE SweepExpire
  <2> DEFINE d == sw.dev
  <2>1. CASE ~ExpirePinned(d)
    BY <1>3, <1>7, <2>1 DEF SweepExpire, tables
  <2>2. CASE ExpirePinned(d)
    <3>1. /\ warn' = [warn EXCEPT ![d] = [f \in Families |-> IF f \in Due(d) THEN 0 ELSE @[f]]]
          /\ UNCHANGED <<conf, devSt, notices>> /\ sw.pc = "locked" /\ conf[d] = sw.conf[d] /\ d \in Devices
      BY <1>0, <1>7, <2>2 DEF SweepExpire, ExpirePinned, Sweep
    <3>2. sw'.pc = "announce" /\ sw'.rung = sw.rung /\ sw'.digest = sw.digest /\ sw'.at = sw.at
      BY <1>0, <1>7, <2>2 DEF SweepExpire, Sweep
    <3>3. Horizon' = sw.at /\ Horizon = sw.at /\ sw.at \in Nat
      BY <1>0, <3>1, <3>2 DEF Horizon, Sweep
    <3>4. /\ \A e \in Devices \ {d} : warn'[e] = warn[e]
          /\ \A f \in Families : warn'[d][f] = IF f \in Due(d) THEN 0 ELSE warn[d][f]
      BY <1>0, <3>1
    <3>5. \A f \in Due(d) : conf[d][f] + W <= sw.at
      <4> SUFFICES ASSUME NEW f \in Due(d) PROVE conf[d][f] + W <= sw.at
        OBVIOUS
      <4>1. f \in Families /\ sw.at >= sw.conf[d][f] + W
        BY DEF Due, Present, ExpiresAt
      <4>2. conf[d][f] \in Nat
        BY <1>0, <3>1, <4>1
      <4> QED BY <3>1, <3>3, <4>1, <4>2, FirstRungNat
    <3>6. \A e \in Devices, f \in Families : warn[e][f] \in Int
      BY <1>0
    <3>7. \A e \in Devices, f \in Families : warn'[e][f] >= warn[e][f] \/ conf[e][f] + W <= Horizon'
      BY <3>3, <3>4, <3>5, <3>6
    <3>8. Onward
      BY <1>0, <3>1, <3>3, <3>7 DEF Onward, Live
    <3>9. SweepRungs' /\ Warnings' = Warnings
      BY <1>0, <3>1, <3>2 DEF SweepRungs, Warnings
    <3> QED BY <3>2, <3>8, <3>9, WarnSweepFrame
  <2> QED BY <2>1, <2>2
<1>8. CASE SweepAnnounce
  <2>1. /\ sw'.pc = "removed" /\ sw'.rung = sw.rung /\ sw'.digest = sw.digest /\ sw'.at = sw.at
        /\ sw.pc = "announce"
    BY <1>0, <1>8 DEF SweepAnnounce, Sweep
  <2> QED BY <1>0, <1>2, <1>8, <2>1 DEF SweepAnnounce, tables, SweepRungs
<1>9. CASE SweepRemoved
  <2>1. CASE sw.fams = {}
    BY <1>3, <1>9, <2>1 DEF SweepRemoved, tables
  <2>2. CASE sw.fams # {}
    <3>1. deliver("removed") /\ UNCHANGED <<conf, warn, devSt>> /\ sw.pc = "removed"
      BY <1>9, <2>2 DEF SweepRemoved, tables
    <3>2. /\ \A n \in notices' : n \in notices \/ (n = InHand)
          /\ \A n \in sw'.digest : n.to = "admin"
          /\ sw'.pc = "removed" /\ sw'.rung = 0 /\ sw'.at = sw.at
      BY <1>0, <3>1, DeliverAdds DEF SweepRungs
    <3>3. InHand.rung = 0
      BY <1>0, <3>1 DEF InHand, SweepRungs
    <3>4. notices \subseteq notices'
      BY <3>1 DEF deliver
    <3>5. Warnings' = Warnings
      BY <3>2, <3>3, <3>4 DEF Warnings
    <3>6. SweepRungs'
      BY <3>2 DEF SweepRungs
    <3>7. Onward
      BY <1>1, <3>1, <3>2
    <3> QED BY <3>2, <3>5, <3>6, <3>7, WarnSweepFrame
  <2> QED BY <2>1, <2>2
<1>10. CASE SweepWarn
  <2>0. UNCHANGED <<conf, devSt, notices>> /\ sw.pc = "warn"
    BY <1>10 DEF SweepWarn, tables
  <2>1. CASE sw' = NextCandidate(sw.todo \ {sw.dev}) /\ UNCHANGED tables
    BY <1>3, <2>0, <2>1 DEF tables
  <2>2. ASSUME NEW f \in sw.fams, f = "v6" => "v4" \notin sw.fams,
               DueRung(W, sw.at - sw.conf[sw.dev][f]) > sw.warn[sw.dev][f], WarnPinned(sw.dev, f),
               warn' = [warn EXCEPT ![sw.dev][f] = DueRung(W, sw.at - sw.conf[sw.dev][f])],
               sw' = [sw EXCEPT !.pc = "notice", !.rung = DueRung(W, sw.at - sw.conf[sw.dev][f])]
        PROVE  WarnInv'
    BY <1>0, <2>0, <2>2, WarnRecorded
  <2>3. ASSUME NEW f \in sw.fams, sw' = [sw EXCEPT !.fams = @ \ {f}], UNCHANGED tables
        PROVE  WarnInv'
    <3>1. /\ sw'.pc = "warn" /\ sw'.rung = sw.rung /\ sw'.digest = sw.digest /\ sw'.at = sw.at
          /\ sw'.dev = sw.dev /\ sw'.snap = sw.snap /\ sw'.conf = sw.conf /\ sw'.fams \subseteq sw.fams
      BY <1>0, <2>0, <2>3 DEF Sweep
    <3>2. Present(sw.dev)' = Present(sw.dev) /\ Due(sw.dev)' = Due(sw.dev)
      BY <3>1 DEF Due, Present
    <3>3. SweepRungs'
      BY <1>0, <2>0, <3>1, <3>2 DEF SweepRungs
    <3>4. Onward /\ Warnings' = Warnings
      BY <1>1, <2>0, <2>3, <3>1 DEF tables, Warnings
    <3> QED BY <3>1, <3>3, <3>4, WarnSweepFrame
  <2> QED BY <1>10, <2>1, <2>2, <2>3 DEF SweepWarn
<1>11. CASE SweepDeliver
  <2>1. deliver("warn") /\ UNCHANGED <<conf, warn, devSt>> /\ sw.pc = "notice"
    BY <1>11 DEF SweepDeliver, tables
  <2>2. /\ \A n \in notices' : n \in notices \/ (n = InHand)
        /\ \A n \in sw'.digest : n.to = "admin"
        /\ sw'.pc = "warn" /\ sw'.rung = 0 /\ sw'.at = sw.at /\ sw'.dev = sw.dev /\ sw'.conf = sw.conf
        /\ sw'.snap = sw.snap /\ sw'.fams \subseteq sw.fams
    BY <1>0, <2>1, DeliverAdds DEF SweepRungs
  <2>3. Present(sw.dev)' = Present(sw.dev) /\ Due(sw.dev)' = Due(sw.dev)
    BY <2>2 DEF Due, Present
  <2>4. SweepRungs'
    BY <1>0, <2>1, <2>2, <2>3 DEF SweepRungs
  <2>5. Onward
    BY <1>1, <2>1, <2>2
  <2>6. OnRecord(InHand) /\ InHand \in Notice
    BY <1>0, <2>1 DEF WarnInv, WarningsOnRecord, InHand, NextFamily, Notice, Sweep, Families
  <2>7. ASSUME NEW n \in Warnings' PROVE OnRecord(n)'
    <3>1. OnRecord(n) /\ n \in Notice
      BY <1>0, <2>2, <2>6 DEF Warnings, WarnInv, WarningsOnRecord
    <3> QED BY <1>0, <2>5, <3>1, StaysOnRecord
  <2> QED BY <2>2, <2>4, <2>7 DEF WarnInv, WarningsOnRecord
<1>12. CASE SweepDigest
  <2>1. /\ sw'.pc = "idle" /\ sw'.rung = 0 /\ sw'.digest = {} /\ sw.pc = "digest"
        /\ notices' = notices \cup sw.digest /\ UNCHANGED <<conf, warn, devSt>>
    BY <1>12 DEF SweepDigest, SweepIdle, tables
  <2>2. Onward
    BY <1>1, <2>1
  <2>3. SweepRungs' /\ Warnings' = Warnings
    BY <1>0, <2>1 DEF SweepRungs, Warnings
  <2> QED BY <2>1, <2>2, <2>3, WarnSweepFrame
<1> QED BY <1>4, <1>5, <1>6, <1>7, <1>8, <1>9, <1>10, <1>11, <1>12 DEF SweepStep

LEMMA WarnStep ==
    ASSUME StampLag < FirstRung(W)
    PROVE  WarnInv /\ [Next]_vars => WarnInv'
<1> SUFFICES ASSUME WarnInv, [Next]_vars PROVE WarnInv'
  OBVIOUS
<1>0. HistInv /\ HistInv' /\ now \in Nat /\ Horizon \in Nat
  BY HistStep, HorizonNat DEF WarnInv
<1>1. ASSUME UNCHANGED <<conf, warn, now, sw, notices>>,
             \A d \in Devices : devSt[d] # "unborn" => devSt'[d] # "unborn" /\ (Live(d)' => Live(d))
      PROVE  WarnInv'
  <2>1. Horizon' >= Horizon /\ now' >= now
    BY <1>0, <1>1 DEF Horizon
  <2>2. Onward
    BY <1>0, <1>1, <2>1, OnwardFrame
  <2> QED BY <1>0, <1>1, <2>2, WarnFrame
<1>2. ASSUME UNCHANGED <<conf, warn, now, sw, notices, devSt>> PROVE WarnInv'
  BY <1>1, <1>2 DEF Live
<1>3. ASSUME NEW p \in Procs, Begin(p) PROVE WarnInv'
  BY <1>2, <1>3 DEF Begin, StartCheckin, StartSetEnabled, StartAdminSetEnabled, StartDelete,
                    StartUpdateUser, StartDeleteUser, Start, tables
<1>4. ASSUME NEW p \in Procs, CheckinRead(p) \/ ReadOwner(p) \/ ListDevices(p) \/ UpdateUser(p) \/ Emit(p)
      PROVE  WarnInv'
  BY <1>2, <1>4 DEF CheckinRead, ReadOwner, ListDevices, UpdateUser, Emit, tables
<1>5. ASSUME NEW p \in Procs, CheckinWrite(p) PROVE WarnInv'
  <2>1. UNCHANGED <<sw, notices>>
    BY <1>5 DEF CheckinWrite
  <2> QED BY <1>0, <1>5, <2>1, OnwardCheckin, WarnFrame
<1>6. ASSUME NEW p \in Procs, FlipDisabled(p) PROVE WarnInv'
  <2>0. devSt \in [Devices -> {"unborn", "on", "off", "gone"}] /\ req[p] \in Request
    BY <1>0 DEF HistInv, TypeOK
  <2>1. \A d \in Devices : devSt'[d] = devSt[d] \/ (Live(d) /\ devSt'[d] \in {"on", "off"})
    BY <1>6, <2>0 DEF FlipDisabled, tables, Request
  <2>2. \A d \in Devices : devSt[d] # "unborn" => devSt'[d] # "unborn" /\ (Live(d)' => Live(d))
    BY <2>1 DEF Live
  <2> QED BY <1>1, <1>6, <2>2 DEF FlipDisabled, tables
<1>7. ASSUME NEW p \in Procs, DeleteDevice(p) \/ DeleteUser(p) PROVE WarnInv'
  <2>1. UNCHANGED <<sw, notices, now>>
    BY <1>7 DEF DeleteDevice, DeleteUser
  <2>2. CASE UNCHANGED tables
    BY <1>2, <2>1, <2>2 DEF tables
  <2>3. CASE \E ds \in SUBSET Devices : DropDevices(ds)
    BY <1>0, <2>1, <2>3, OnwardDrop, WarnFrame
  <2>4. UNCHANGED tables \/ \E ds \in SUBSET Devices : DropDevices(ds)
    <3>1. req[p].dev \in Devices
      BY <1>0 DEF HistInv, TypeOK, Request
    <3> QED BY <1>7, <3>1 DEF DeleteDevice, DeleteUser
  <2> QED BY <2>2, <2>3, <2>4
<1>8. CASE SweepStep
  BY <1>0, <1>8, WarnSweep
<1>9. ASSUME NEW d \in Devices, PruneIPHistory(d) PROVE WarnInv'
  BY <1>2, <1>9 DEF PruneIPHistory
<1>10. ASSUME NEW d \in Devices, Enroll(d) PROVE WarnInv'
  <2>1. \A e \in Devices : devSt[e] # "unborn" => devSt'[e] = devSt[e]
    BY <1>0, <1>10 DEF Enroll, HistInv, TypeOK
  <2>2. \A e \in Devices : devSt[e] # "unborn" => devSt'[e] # "unborn" /\ (Live(e)' => Live(e))
    BY <2>1 DEF Live
  <2> QED BY <1>1, <1>10, <2>2 DEF Enroll
<1>11. CASE Tick
  <2>1. UNCHANGED <<conf, warn, devSt, sw, notices>> /\ now' > now /\ now' \in Nat
    BY <1>0, <1>11 DEF Tick, tables, HistInv, TypeOK
  <2>2. Horizon' >= Horizon /\ now' >= now
    BY <1>0, <2>1 DEF Horizon
  <2>3. Onward
    BY <1>0, <2>1, <2>2, OnwardFrame DEF Live
  <2> QED BY <1>0, <2>1, <2>3, WarnFrame
<1>12. CASE Crash
  <2>1. /\ UNCHANGED <<conf, warn, devSt, notices, now>> /\ sw'.pc = "idle" /\ sw'.rung = 0
        /\ sw'.digest = {}
    BY <1>12 DEF Crash, SweepIdle, tables
  <2>2. Horizon' >= Horizon /\ now' >= now
    BY <1>0, <2>1, HorizonNat DEF Horizon
  <2>3. Onward
    BY <1>0, <2>1, <2>2, OnwardFrame DEF Live
  <2>4. SweepRungs' /\ Warnings' = Warnings
    BY <2>1 DEF SweepRungs, Warnings
  <2> QED BY <1>0, <2>1, <2>3, <2>4, WarnSweepFrame
<1>13. CASE UNCHANGED vars
  BY <1>2, <1>13 DEF vars
<1> QED BY <1>3, <1>4, <1>5, <1>6, <1>7, <1>8, <1>9, <1>10, <1>11, <1>12, <1>13 DEF Next, Proceed

LEMMA WarnInit == Init => WarnInv
<1> SUFFICES ASSUME Init PROVE WarnInv
  OBVIOUS
<1>1. notices = {} /\ sw = SweepIdle
  BY DEF Init
<1>2. SweepRungs /\ WarningsOnRecord
  BY <1>1 DEF SweepRungs, WarningsOnRecord, Warnings, SweepIdle
<1> QED BY <1>2, HistInit DEF WarnInv

(***************************************************************************)
(* An owner is warned at most once per rung and confirmation, whatever     *)
(* check-ins, deletes, expiries and restarts come between two sweeps: a    *)
(* warning that goes out is one that never went out before                 *)
(* (AdvanceWarnLevel before deliver, in sweeper.warn).  The proviso is     *)
(* that a Touch waits for the database less than a third of the window:    *)
(* one that waited longer could restore a confirmation already warned      *)
(* about and reset its level.                                              *)
(***************************************************************************)
THEOREM WarnedOnceAlways ==
    ASSUME StampLag < FirstRung(W)
    PROVE  Spec => WarnedOnce
<1> DEFINE A == (sw.pc = "notice" /\ sw'.pc = "warn" /\ UserLive(Owner[sw.dev])) => notices' # notices
<1>1. WarnInv /\ [Next]_vars => [A]_vars
  <2> SUFFICES ASSUME WarnInv, Next, sw.pc = "notice", sw'.pc = "warn", UserLive(Owner[sw.dev])
               PROVE  notices' # notices
    OBVIOUS
  <2>1. SweepDeliver
    <3>1. ASSUME NEW p \in Procs, Begin(p) \/ Proceed(p) PROVE sw' = sw
      BY <3>1 DEF Begin, Proceed, StartCheckin, StartSetEnabled, StartAdminSetEnabled,
                  StartDelete, StartUpdateUser, StartDeleteUser, Start, CheckinRead, ReadOwner,
                  ListDevices, CheckinWrite, FlipDisabled, DeleteDevice, UpdateUser, DeleteUser, Emit
    <3>2. ~Crash /\ ~Tick /\ \A e \in Devices : ~PruneIPHistory(e) /\ ~Enroll(e)
      BY DEF Crash, SweepIdle, Tick, PruneIPHistory, Enroll
    <3> QED BY <3>1, <3>2 DEF Next, SweepStep, StartSweep, SweepQuery, SweepAct, SweepExpire, SweepAnnounce,
            SweepWarn, SweepRemoved, SweepDigest
  <2>2. HistInv /\ deliver("warn") /\ \A n \in sw.digest : n.to = "admin"
    BY <2>1 DEF SweepDeliver, WarnInv, SweepRungs
  <2>3. InHand \in notices'
    BY <2>2, DeliverAdds
  <2>4. InHand \notin notices
    BY DEF WarnInv, WarningsOnRecord
  <2> QED BY <2>3, <2>4
<1>2. Spec => []WarnInv
  BY WarnInit, WarnStep, PTL DEF Spec
<1> QED BY <1>1, <1>2, PTL DEF Spec, WarnedOnce
=============================================================================
